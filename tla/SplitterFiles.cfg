\* Recorded files of up to 4 packets that end anywhere.
CONSTANTS
  Headers <- MCHeaders
  NumCores = 2
  MaxFiles = 2
  MaxQuantity = 2
  Quantity <- MCQuantity
  Cmdline <- MCCmdline
  Exe <- MCExe
  MaxPackets = 4
  NULL = NULL
SPECIFICATION SplitterSpec
INVARIANTS SplitterTypeOK SamplesFiled SectionsUnbroken IndexComplete
PROPERTY SplitterEnds
CHECK_DEADLOCK FALSE
