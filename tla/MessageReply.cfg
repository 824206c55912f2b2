CONSTANTS
  Ids <- ReplyIds
  LinuxptpIds <- MCLinuxptpIds
  EmptyIds <- MCEmptyIds
  UnknownId = "none"
  NullId = "NULL_PTP_MANAGEMENT"
  Allowed <- ReplyAllowed
  Size <- ReplySize
  EmptySize <- ReplyEmptySize
  Structs = {}
  Wire <- MCWire
  NoText = ""
  BufSizes = {54}
  SigTlvs <- MCSigTlvs
  SigSizes = {}
  PrmsSet <- MCPrmsSet
SPECIFICATION Spec
INVARIANTS TypeOK ReadsInsideMessage AcceptedReplyIsLegal
PROPERTY RejectedKeepsData
