CONSTANTS
  Kinds = {"unix", "ip4", "ip6", "raw"}
  Fds = {3, 4, 5}
  NoFd = 0
  Values = {1, 2, 99}
  Valid = {1, 2}
  Unset = 0
SPECIFICATION Spec
INVARIANTS OwnsItsFd NoFdLeak FileOfLiveSocket
PROPERTY KeepsContract
