CONSTANTS
  Users = {u1, u2}
  Accounts = {u1, u2}
  Passwords = {p1}
  NoPass = NoPass
  Absent = Absent
  Locked = Locked
  SocksUser = SocksUser
  NoConf = NoConf
  Commands <- Installation
  Reruns = TRUE
  MaxCommands = 3
  MaxFaults = 0
SPECIFICATION Spec
PROPERTIES AllUsersAuthenticate
CHECK_DEADLOCK FALSE
