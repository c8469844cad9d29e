CONSTANTS
  Ppids = {p1}
  Bodies = {b1, b2}
  NoBody = NoBody
  MaxVersions = 2
  IdRange = 8
  Recent = 3
SPECIFICATION GemSpec
PROPERTY
  AddingReplacesNothing
