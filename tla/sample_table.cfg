SPECIFICATION Spec
CONSTANTS
  Tables <- MCTables
  Absent = Absent
  U32 = 8
  U64Max = 9
  MaxSamples = 3
CHECK_DEADLOCK FALSE
INVARIANTS RowsExact AcceptsExactly
