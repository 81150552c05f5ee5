SPECIFICATION Spec
CONSTANTS
  a = a  b = b  d1 = d1  d2 = d2  k1 = k1  k2 = k2
  Tags = {a, b}
  Domains = {d1, d2}
  Keys = {k1, k2}
  Mtus = {900, 1232}
  DefaultMTU = 1232
  BasePort = 5310
  NoTag = NoTag
  NoDomain = NoDomain
  NoKey = NoKey
  Procs = {p}
  Menus = {p}
  Commands = {"add", "edit", "remove", "mtu", "update", "restart", "mode", "switch", "start", "stop", "install", "wizard", "uninstall"}
  NewTransports = {"vaydns", "naive", "direct-ssh"}
  ExternalPorts = {5301}
  Imports <- NoImports
  TornWrites = FALSE
  MaxCommands = 3
  MaxFaults = 1
  Torn = Torn
  NoUnit = NoUnit
  NoDir = NoDir
  NoFiles = NoFiles
  Caddyfile = Caddyfile
SYMMETRY Symmetry
INVARIANTS TypeOK UnitsListed NoPortClash HostMatchesFile ConfigurationConsistent
CHECK_DEADLOCK FALSE
