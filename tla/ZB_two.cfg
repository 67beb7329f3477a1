SPECIFICATION FairSpec
CONSTANTS
  Ports = 2
  ImageHeight = 4
  MaskHeight = 1
  MaxLaunches = 1
  AllocOutcomes = {TRUE, FALSE}
INVARIANT TypeOK
INVARIANT AwaitedRowsRight
INVARIANT NoFreedBuffer
INVARIANT RowsWithoutGap
PROPERTY FlagWithFirstRow
PROPERTY LaunchEnds
