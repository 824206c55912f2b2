SPECIFICATION SetShowSpec
CONSTANTS
  Layout <- MCLayout
  Structs = {}
  Rooms <- MCRooms
  Received <- FloatReceived
  TypedLines = {}
  Behind <- MCBehind
  BehindText <- MCBehindText
  Garbage <- MCGarbage
INVARIANT FixedSizeIsExact
