\* The domain of one tunnel is below the domain of the other.
SPECIFICATION SafeSpec
CONSTANTS
  q1 = q1 q2 = q2 q3 = q3 q4 = q4
  ta = ta tb = tb x = x y = y pa = pa pb = pb ka = ka
  Names <- MCNames  Below <- MCNested  Tags <- MCNames
  Backends = {pa, pb}  Keys = {ka}  NoBackend = NoBackend  NoKey = NoKey
  Queries = {q1, q2}
  QueryName <- MCSameName  ProofKey <- MCProbe  NoName = NoName
  Tunnels <- MCTwoTunnels  DefaultTag = tb
  TxSpace = 2  Free = Free  NoTxID = NoTxID  NoAnswer = NoAnswer
  Late = FALSE  Duplicates = FALSE  MaxOutages = 0  MaxRestarts = 0
INVARIANT SameNameSameBackend
CHECK_DEADLOCK FALSE
