CONSTANTS
  Ids <- MCIds
  LinuxptpIds = {}
  EmptyIds <- MCEmptyIds
  UnknownId = "none"
  NullId = "NULL_PTP_MANAGEMENT"
  Allowed <- MCAllowed
  Size <- MCSize
  EmptySize <- MCEmptySize
  Structs <- MCStructs
  Wire <- MCWire
  NoText = ""
  BufSizes = {2000}
  SigTlvs <- MCSigTlvs
  SigSizes = {}
  PrmsSet <- MCPrmsSet
  Modes = {"batch_uds", "batch_net", "uds", "net"}
  Scripts <- MCScripts
  Wait = 2
  Ticks = 2
  ClockSteps <- MCClockSteps
  MaxDeliver = 2
  SeqMod = 3
SPECIFICATION ToolSpec
INVARIANTS ToolTypeOK WaitIsBounded NeverPollsForever BuildReadsLiveData
  OneReplyPerRequest SequenceTellsApart ExitLeavesNoFile
