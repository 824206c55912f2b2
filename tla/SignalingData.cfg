CONSTANTS
  Ids <- MCIds
  LinuxptpIds <- MCLinuxptpIds
  EmptyIds <- MCEmptyIds
  UnknownId = "none"
  SigTlvs <- ShortTlvs
  SigSizes <- ShortSizes
  PrmsSet <- MCPrmsSet
SPECIFICATION SigSpec
INVARIANT EveryTlvHasData
