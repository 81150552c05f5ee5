SPECIFICATION Spec
CONSTANTS
  a = a  b = b  d1 = d1  d2 = d2  k1 = k1  k2 = k2
  Tags = {a, b}
  Domains = {d1, d2}
  Keys = {k1}
  Mtus = {1232}
  DefaultMTU = 1232
  BasePort = 5310
  NoTag = NoTag
  NoDomain = NoDomain
  NoKey = NoKey
  Procs = {p, q}
  Menus = {p}
  Commands = {"add", "remove", "edit", "import"}
  NewTransports = {"external"}
  ExternalPorts = {5301}
  Imports <- Backups
  TornWrites = TRUE
  MaxCommands = 3
  MaxFaults = 1
  Torn = Torn
  NoUnit = NoUnit
  NoDir = NoDir
  NoFiles = NoFiles
  Caddyfile = Caddyfile
INVARIANTS ConfigurationConsistent
PROPERTIES AddedIsRouted
CHECK_DEADLOCK FALSE
