\* One Warmup and one refresh loop, as the demo server starts them.
SPECIFICATION Spec
CONSTANTS
  Key = {k1}
  BitsetSize = 5
  HashCount = 3
  Word = 8
  Hash1 <- MCHash1
  Hash2 <- MCHash2
  User = {u1}
  Loop = {l1}
  MayFail = FALSE
  None = None
INVARIANTS RecordedKeysAlwaysPass
