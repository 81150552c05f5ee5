CONSTANTS
  Users = {u1, u2}
  Accounts = {u1, u2}
  Passwords = {p1, p2}
  NoPass = NoPass
  Absent = Absent
  Locked = Locked
  SocksUser = SocksUser
  NoConf = NoConf
  Commands <- AllCommands
  Reruns = FALSE
  MaxCommands = 3
  MaxFaults = 1
SPECIFICATION Spec
INVARIANTS TypeOK UsersAgree RulesAgree SuccessRepairs
PROPERTIES CredentialsFollow SessionsSurvive
CHECK_DEADLOCK FALSE
