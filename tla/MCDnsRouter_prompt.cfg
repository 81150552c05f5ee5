\* Prompt, unduplicated answers; three queries share two TXIDs.
SPECIFICATION Spec
CONSTANTS
  q1 = q1 q2 = q2 q3 = q3 q4 = q4
  ta = ta tb = tb x = x y = y pa = pa pb = pb ka = ka
  Names <- MCNames  Below <- MCBelow  Tags <- MCNames
  Backends = {pa}  Keys = {ka}  NoBackend = NoBackend  NoKey = NoKey
  Queries = {q1, q2, q3, q4}
  QueryName <- MCSameName  ProofKey <- MCProbe  NoName = NoName
  Tunnels <- MCTunnels  DefaultTag = tb
  TxSpace = 2  Free = Free  NoTxID = NoTxID  NoAnswer = NoAnswer
  Late = FALSE  Duplicates = FALSE  MaxOutages = 0  MaxRestarts = 1
INVARIANTS NoMisdelivery TxIDsAreExclusive
PROPERTIES ReleasedForItself ImplementsForwarding EveryQuerySettles AnswersAreRead
CHECK_DEADLOCK FALSE
