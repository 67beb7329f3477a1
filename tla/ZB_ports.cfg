SPECIFICATION Spec
CONSTANTS
  Ports = 2
  ImageHeight = 4
  MaskHeight = 3
  MaxLaunches = 1
  AllocOutcomes = {TRUE}
INVARIANT RowsRight
