SPECIFICATION InitialSpec
CONSTANTS
  Tags = {"s", "t"}
  Names = {a, b, c}
  MAX_ARRAY_DIM = 2
  USHRT = 8
  INT = 128
  MAX_INIT_STRING_LEN = 2
  Profiles <- MCProfiles
INVARIANTS
  MembersApart
  ValuesWhereRead
  WholeObject
  RefusedAtRoom
SYMMETRY MCSymmetry
CHECK_DEADLOCK FALSE
