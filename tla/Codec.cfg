SPECIFICATION SetShowSpec
CONSTANTS
  Layout <- MCLayout
  Structs <- MCStructs
  Rooms <- MCRooms
  Received <- MCReceived
  TypedLines <- MCTypedLines
  Behind <- MCBehind
  BehindText <- MCBehindText
  Garbage <- MCGarbage
INVARIANTS
  CodecTypeOK StaysInside RoundTrip TruncatedRejected PlanIsKept FixedSizeIsExact RecordsFit
  SizesAgree KeysMatchLine SetIsShown JsonWellFormed JsonShowsEveryMember
