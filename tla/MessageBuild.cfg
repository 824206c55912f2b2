CONSTANTS
  Ids <- MCIds
  LinuxptpIds <- MCLinuxptpIds
  EmptyIds <- MCEmptyIds
  UnknownId = "none"
  NullId = "NULL_PTP_MANAGEMENT"
  Allowed <- MCAllowed
  Size <- MCSize
  EmptySize <- MCEmptySize
  Structs <- MCStructs
  Wire <- FewWire
  NoText = ""
  BufSizes <- MCBufSizes
  SigTlvs <- MCSigTlvs
  SigSizes = {}
  PrmsSet <- SigPrmsSet
SPECIFICATION Spec
INVARIANTS StructMatchesId PlannedLenIsExact SignalingOnDemand
