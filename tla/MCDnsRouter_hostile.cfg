\* Late and duplicate answers, backend outages and a restart of the router.
SPECIFICATION SafeSpec
CONSTANTS
  q1 = q1 q2 = q2 q3 = q3 q4 = q4
  ta = ta tb = tb x = x y = y pa = pa pb = pb ka = ka
  Names <- MCNames  Below <- MCBelow  Tags <- MCNames
  Backends = {pa}  Keys = {ka}  NoBackend = NoBackend  NoKey = NoKey
  Queries = {q1, q2, q3, q4}
  QueryName <- MCUnroutable  ProofKey <- MCProbe  NoName = NoName
  Tunnels <- MCTunnels  DefaultTag = tb
  TxSpace = 2  Free = Free  NoTxID = NoTxID  NoAnswer = NoAnswer
  Late = TRUE  Duplicates = TRUE  MaxOutages = 1  MaxRestarts = 1
SYMMETRY MCSymmetry
INVARIANTS TypeOK AtMostOneReply EntriesMatchHandlers
CHECK_DEADLOCK FALSE
