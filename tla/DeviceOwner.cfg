SPECIFICATION RowSpec
CONSTANTS
  DeviceUser = {a, b}
  Routine = {g1}
  Absent = Absent
  MaxInserted = 2
  MaxRoutines = 3
  MaxBlows = 0
INVARIANT LoginKept
SYMMETRY RowSymmetry
CHECK_DEADLOCK FALSE
