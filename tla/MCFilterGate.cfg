\* One key, two users, and two loops, one of which may be about to end while the
\* other one starts.  The gate and the tasks treat each key by itself; what
\* other keys add is a load that fails, which one key has as well.
SPECIFICATION FairSpec
CONSTANTS
  Key = {k1}
  BitsetSize = 5
  HashCount = 3
  Word = 8
  Hash1 <- MCHash1
  Hash2 <- MCHash2
  User = {u1, u2}
  Loop = {l1, l2}
  MayFail = TRUE
  None = None
INVARIANTS TypeOK RecordedKeysPass OneLoopLasts
PROPERTIES RefreshRecovers
