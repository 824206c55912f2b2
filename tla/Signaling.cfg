CONSTANTS
  Ids <- MCIds
  LinuxptpIds <- MCLinuxptpIds
  EmptyIds <- MCEmptyIds
  UnknownId = "none"
  SigTlvs <- MCSigTlvs
  SigSizes <- MCSigSizes
  PrmsSet <- MCPrmsSet
SPECIFICATION MCSigSpec
INVARIANTS SigTypeOK CursorInStep OnlyThisMessage FilterRespected LossInOlderHalf
PROPERTY LoopConsumes
