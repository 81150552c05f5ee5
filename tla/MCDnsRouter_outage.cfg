\* A backend stops and starts again while a query is on its way.
SPECIFICATION Spec
CONSTANTS
  q1 = q1 q2 = q2 q3 = q3 q4 = q4
  ta = ta tb = tb x = x y = y pa = pa pb = pb ka = ka
  Names <- MCNames  Below <- MCBelow  Tags <- MCNames
  Backends = {pa}  Keys = {ka}  NoBackend = NoBackend  NoKey = NoKey
  Queries = {q1, q2}
  QueryName <- MCSameName  ProofKey <- MCProbe  NoName = NoName
  Tunnels <- MCTunnels  DefaultTag = tb
  TxSpace = 2  Free = Free  NoTxID = NoTxID  NoAnswer = NoAnswer
  Late = FALSE  Duplicates = FALSE  MaxOutages = 1  MaxRestarts = 1
PROPERTY AnswersAreRead
CHECK_DEADLOCK FALSE
