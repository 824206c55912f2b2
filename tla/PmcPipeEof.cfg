CONSTANTS
  Ids <- MCIds
  LinuxptpIds = {}
  EmptyIds <- MCEmptyIds
  UnknownId = "none"
  NullId = "NULL_PTP_MANAGEMENT"
  Allowed <- MCAllowed
  Size <- MCSize
  EmptySize <- MCEmptySize
  Structs <- MCStructs
  Wire <- FewWire
  NoText = ""
  BufSizes = {2000}
  SigTlvs <- MCSigTlvs
  SigSizes = {}
  PrmsSet <- MCPrmsSet
  Modes = {"net"}
  Scripts <- FewScripts
  Wait = 2
  Ticks = 2
  ClockSteps = {0}
  MaxDeliver = 1
  SeqMod = 3
SPECIFICATION FairToolSpec
PROPERTY EndsWithInput
