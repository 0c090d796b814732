CONSTANTS
  Key = {1, 2}
  Field = {"f", "g"}
  Val = {0, 1}
  Client = {c1, c2}
  Units = {"none", "EX", "PX", "EXAT", "PXAT"}
  Second = 2
  MaxTime = 3
  MaxLog = 2
SPECIFICATION Spec
SYMMETRY Symmetry
INVARIANTS
  LogRestoresStore
  ExpirySurvives
  FailsOnlyByReuse
