SPECIFICATION StartSpec
CONSTANTS
  Sections = {"global", "eth0"}
  NumKeys <- MCNumKeys
  StrKeys <- MCStrKeys
  Legal <- MCLegal
  Def <- MCDef
  Chunks = {c1, c2, c3}
  Lines <- MCLines
  MaxReads = 2
  MaxLines = 3
  Null = Null
  Unset = Unset
  Junk = Junk
  Empty = Empty
  Options <- MCOptions
  MaxOptions = 4
SYMMETRY MCSymmetry
INVARIANTS
  GettersFollowFile
  StartsAsAsked
