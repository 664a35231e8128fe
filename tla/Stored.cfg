SPECIFICATION StoredSpec
CONSTANTS
  Layer = {l1, l2}
  Parameter = {p}
  Choice = {p}
  Value = {v1}
  MaxId = 5
  MaxRows = 4
  MaxBatch = 2
  None = None
  Identity = {i1, i2}
  Slot = {s1, s2}
  MaxProject = 3
  Nothing = Nothing
SYMMETRY Interchangeable
INVARIANT RowsAreTold
PROPERTIES PorIsOnlyMoved OnlyOfferedOptionsAreChosen RowsFormLines
