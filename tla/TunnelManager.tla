---------------------------- MODULE TunnelManager ----------------------------
(***************************************************************************)
(* The operator's commands on tunnels and routing as they run on the host: *)
(* sequences of effects on a process's copy of the configuration, on       *)
(* /etc/slipgate/config.json, on the tunnel directories, on systemd and on *)
(* the DNS router (internal/handlers, internal/router, internal/transport, *)
(* internal/service).                                                      *)
(*                                                                         *)
(* A process runs one command at a time; there is no lock between          *)
(* processes.  pc[p] names the statement that comes next in the handler,   *)
(* job[p] holds its locals.  Any statement that touches the disk or        *)
(* systemd can fail, a prompt can be left with an error, and the process   *)
(* can die between two statements; `faults' counts these.                  *)
(*                                                                         *)
(* A unit is represented by the tunnel its command line was built from.    *)
(* The router's unit is written and started in one step; that a handler    *)
(* asks for the router's state and that it acts on the answer are two.     *)
(* Not modelled: enabling of units, which only a reboot looks at; the      *)
(* firewall, FreePort and downloads; users, and so the offer to create one *)
(* after an addition and the user that install and wizard create; a        *)
(* RemoveAll, a systemctl stop or a systemctl on the router's unit that    *)
(* fails; tags whose unit is that of the router or of the SOCKS5 proxy;    *)
(* configurations without the two standard backends.                       *)
(***************************************************************************)
EXTENDS Configuration

CONSTANTS
  Procs,          \* slipgate processes of operators
  Menus,          \* those that are menus and keep a configuration in memory
  Commands,       \* the commands in use
  NewTransports,  \* transports the operator adds
  ExternalPorts,  \* ports the operator gives to external tunnels
  Imports,        \* configurations the operator imports
  TornWrites,     \* whether a Save can stop between truncating and writing
  MaxCommands,    \* bound: commands begun
  MaxFaults,      \* bound: failures, abandoned prompts and crashes
  Torn,           \* no configuration: a file that was truncated and not written, or none
  NoUnit,         \* no unit file; for a process, not running
  NoDir, NoFiles, \* a directory that is absent, one without key files
  Caddyfile       \* a directory with the Caddyfile of a NaiveProxy

ASSUME ManagerAssumption ==
  /\ Menus \subseteq Procs
  /\ IsFiniteSet(Tags)
  /\ TornWrites \in BOOLEAN
  /\ MaxCommands \in Nat /\ MaxFaults \in Nat
  /\ NewTransports \subseteq Transports /\ ExternalPorts \subseteq Nat \ {0}
  /\ Imports \subseteq Config
  /\ Torn \notin Config

ASSUME AbsenceAssumption ==
  /\ NoUnit \notin Tunnel
  /\ NoDir \notin Keys \cup {NoFiles, Caddyfile}

VARIABLES
  file,      \* config.json: a configuration, or Torn
  dir,       \* tag -> content of /etc/slipgate/tunnels/<tag>
  unit,      \* tag -> unit file slipgate-<tag>: the tunnel it was written for
  running,   \* tag -> the tunnel its running process was started for
  router,    \* state of slipgate-dnsrouter, and the routes and default it serves
  mem,       \* process -> its *config.Config
  pc, job,   \* process -> where it is in its handler, and the handler's locals
  commands, faults

host   == <<file, dir, unit, running, router>>
proc   == <<mem, pc, job>>
bounds == <<commands, faults>>
vars   == <<file, dir, unit, running, router, mem, pc, job, commands, faults>>

\* What Serve makes of a configuration is RouteTable's; keys do not matter here.
Table == INSTANCE RouteTable WITH
  Names <- Domains \cup {NoDomain}, Below <- {}, Backends <- Nat \ {0},
  Keys <- {}, NoBackend <- 0, NoKey <- NoKey

ServedEntries(c) ==
  [i \in DOMAIN c.tunnels |->
     LET t == c.tunnels[i] IN
     [tag |-> t.tag, domain |-> t.domain, backend |-> t.port, enabled |-> t.enabled,
      dns |-> IsDNSTunnel(t), key |-> NoKey]]

NoTunnel == [tag |-> NoTag]
NoJob    == [cmd |-> "none", todo |-> <<>>, old |-> NoTunnel, new |-> NoTunnel,
             mode |-> "single", shared |-> NoTag, dns |-> 0]

\* No unit, a unit that was stopped, a unit whose process waits for systemd's next attempt, a process
\* that has been forked, a process that serves.  is-active says "active" for
\* the last two: the unit is of Type=simple.
RouterStates == {"absent", "stopped", "waiting", "starting", "serving"}
RouterActive == router.state \in {"starting", "serving"}
RouterIn(s)  == [state |-> s, routes |-> <<>>, default |-> 0]

\* system_install.go and quick_wizard.go write the default configuration first.
Init ==
  /\ file = DefaultConfig
  /\ dir = [tag \in Tags |-> NoDir]
  /\ unit = [tag \in Tags |-> NoUnit]
  /\ running = [tag \in Tags |-> NoUnit]
  /\ router = RouterIn("absent")
  /\ mem = [p \in Procs |-> DefaultConfig]
  /\ pc = [p \in Procs |-> "idle"]
  /\ job = [p \in Procs |-> NoJob]
  /\ commands = 0 /\ faults = 0

-------------------------------------------------------------------------------
\* Building blocks of the handlers' steps.

Fault      == faults < MaxFaults /\ faults' = faults + 1
NoFault    == UNCHANGED faults
Goto(p, l) == pc' = [pc EXCEPT ![p] = l]
Current(p) == Head(job[p].todo)

\* loadOrDefaultConfig, and the menu's Load.  A menu that cannot read the file
\* goes on with the configuration of its start: not modelled (see Idle).
Loaded == IF file = Torn THEN DefaultConfig ELSE file

\* A process begins a command with configuration c at statement l.
Begin(p, c, l, j) ==
  /\ commands < MaxCommands
  /\ commands' = commands + 1
  /\ mem' = [mem EXCEPT ![p] = c]
  /\ job' = [job EXCEPT ![p] = j]
  /\ Goto(p, l)
  /\ UNCHANGED <<host, faults>>

Idle(p, cmd) == pc[p] = "idle" /\ cmd \in Commands /\ (p \in Menus => file # Torn)

\* The tags a loop collects from the tunnels it is about, in their order.
InOrder(tunnels, which) ==
  LET at == CHOOSE f \in [1..Cardinality(which) -> which] :
              \A i, j \in DOMAIN f : i < j => f[i] < f[j]
  IN  [i \in 1..Cardinality(which) |-> tunnels[at[i]].tag]

\* Loops over tunnels: where one begins, where it goes on, where it ends.
LoopStart == [remove |-> "stop", mtu |-> "stop", update |-> "stop",
              mode |-> "restart", restart |-> "restart",
              install |-> "create", wizard |-> "create", uninstall |-> "stop"]
LoopEnd   == [remove |-> "truncate", mtu |-> "done", update |-> "restartRouter",
              mode |-> "ensureRouter", restart |-> "restartRouter",
              install |-> "startRouter", wizard |-> "startRouter", uninstall |-> "removeConfigDir"]

Installing(p) == job[p].cmd \in {"install", "wizard"}

FaultyEnter(cmd, todo) == LoopStart[cmd]

Enter(cmd, todo) == IF todo = <<>> THEN LoopEnd[cmd] ELSE LoopStart[cmd]

Advance(p) ==
  /\ job' = [job EXCEPT ![p].todo = Tail(@)]
  /\ Goto(p, Enter(job[p].cmd, Tail(job[p].todo)))

\* What follows an attempt to create a service: mtu and update warn of a failure
\* and go on, all others return an error.
Warns(p)       == job[p].cmd \in {"mtu", "update"}
AfterFailed(p) == IF Warns(p) THEN Advance(p) ELSE Goto(p, "done") /\ UNCHANGED job
AfterUnit(p) ==
  IF Warns(p) \/ Installing(p) THEN Advance(p)
  ELSE Goto(p, IF job[p].cmd = "add" THEN "route" ELSE "done") /\ UNCHANGED job

-------------------------------------------------------------------------------
\* add: addSingleTunnel

\* The tunnel the operator asks for, with the port the code gives it.
Wanted(c, tr, tag, b, d, mtu, ext) ==
  LET t == [tag |-> tag, transport |-> tr, backend |-> b, domain |-> d, port |-> 0,
            enabled |-> TRUE, keyDir |-> tag, pub |-> NoKey, mtu |-> mtu]
  IN  [t EXCEPT !.port = IF HasManagedService(t) THEN NextAvailablePort(c)
                         ELSE IF tr = "external" THEN ext ELSE 0]

\* Direct transports have an implicit backend and no domain.
Backends(tr) ==
  CASE tr \in {"direct-ssh", "stuntls"} -> {"ssh"}
    [] tr = "direct-socks5"             -> {"socks"}
    [] tr = "external"                  -> {"external"}
    [] OTHER                            -> {"socks", "ssh"}

WantedTunnels(c) ==
  UNION {{Wanted(c, tr, tag, b, d, mtu, ext) :
            tag \in Tags, b \in Backends(tr),
            d   \in IF NeedsDomain([transport |-> tr]) THEN Domains ELSE {NoDomain},
            mtu \in IF HasKeyPair([transport |-> tr]) THEN Mtus ELSE {DefaultMTU},
            ext \in IF tr = "external" THEN ExternalPorts ELSE {0}}
         : tr \in NewTransports}

AddJob(t, shared) ==
  [NoJob EXCEPT !.cmd = "add", !.todo = <<t.tag>>, !.new = t, !.shared = shared]

BeginAdd(p) ==
  /\ Idle(p, "add")
  /\ \E t \in WantedTunnels(Loaded) :
       /\ ValidNewTunnel(Loaded, t)
       /\ Begin(p, Loaded, "keys", AddJob(t, NoTag))

\* "both": after the attempt for socks the one for ssh, with the configuration
\* in memory as the first left it and, if the first succeeded, its key pair.
AddForSSH(p) ==
  LET last == job[p].new IN
  /\ pc[p] = "done" /\ job[p].cmd = "add" /\ last.backend = "socks"
  /\ \E t \in WantedTunnels(mem[p]) :
       /\ t.transport = last.transport /\ t.backend = "ssh" /\ t.tag # last.tag
       /\ t.transport = "naive" => t.domain = last.domain
       /\ ValidNewTunnel(mem[p], t)
       /\ Begin(p, mem[p], "keys", AddJob(t, job[p].shared))

\* A menu's batch: the next transport.  Load comes after a success only.
AddInBatch(p) ==
  LET last == job[p].new
      c == IF job[p].shared = NoTag \/ file = Torn THEN mem[p] ELSE file
  IN
  /\ pc[p] = "done" /\ job[p].cmd = "add" /\ p \in Menus
  /\ \E t \in WantedTunnels(c) :
       /\ t.transport # last.transport
       /\ ValidNewTunnel(c, t)
       /\ Begin(p, c, "keys", AddJob(t, NoTag))

\* install makes no directory for a direct tunnel without certificate.
MakesDir(p) ==
  job[p].cmd = "install" => job[p].new.transport \notin {"direct-ssh", "direct-socks5"}

\* MkdirAll keeps what is there; key generation overwrites it.
SetUpDir(p) ==
  LET t == job[p].new
      copied == HasKeyPair(t) /\ job[p].shared # NoTag
  IN
  /\ pc[p] = "keys"
  /\ IF HasKeyFiles(t)
     THEN \E k \in IF copied THEN Keys \cap {dir[job[p].shared]} ELSE Keys :
            /\ dir' = [dir EXCEPT ![t.tag] = k]
            /\ job' = [job EXCEPT ![p].new.pub = IF HasKeyPair(t) THEN k ELSE NoKey]
     ELSE /\ dir' = [dir EXCEPT ![t.tag] = IF @ = NoDir /\ MakesDir(p) THEN NoFiles ELSE @]
          /\ UNCHANGED job
  /\ Goto(p, IF Installing(p) THEN "gather" ELSE "register") /\ NoFault
  /\ UNCHANGED <<file, unit, running, router, mem, commands>>

\* The directory or a key file cannot be written, which can leave the directory
\* empty or with a new private key.
SetUpDirFails(p) ==
  LET t == job[p].new IN
  /\ pc[p] = "keys" /\ MakesDir(p)
  /\ \E content \in {dir[t.tag]} \cup (IF dir[t.tag] = NoDir THEN {NoFiles} ELSE {})
                                 \cup (IF HasKeyFiles(t) THEN Keys ELSE {}) :
       dir' = [dir EXCEPT ![t.tag] = content]
  /\ Goto(p, "done") /\ Fault
  /\ UNCHANGED <<file, unit, running, router, mem, job, commands>>

\* A prompt for the transport's settings returns an error.  Slipstream and the
\* direct transports ask nothing more.
AddFails(p) ==
  /\ pc[p] = "register"
  /\ job[p].new.transport # "slipstream" /\ ~IsDirectTransport(job[p].new)
  /\ Goto(p, "done") /\ Fault
  /\ UNCHANGED <<host, mem, job, commands>>

RegisterTunnel(p) ==
  /\ pc[p] = "register"
  /\ mem' = [mem EXCEPT ![p] = Register(@, job[p].new)]
  /\ Goto(p, "truncate") /\ NoFault
  /\ UNCHANGED <<host, job, commands>>

\* router.AddTunnel looks whether the router is active: it is to be restarted,
\* or to be created.  By the time it is, this may not be true any more.
FaultyAddToRouter(t) ==
  IF ~IsDNSTunnel(t) \/ RouterActive THEN "done" ELSE "createRouter"

AddToRouter(t) ==
  IF ~IsDNSTunnel(t) THEN "done" ELSE IF RouterActive THEN "reroute" ELSE "createRouter"

\* The first tunnel that gets here shares its keys with the next.
RouteTunnel(p) ==
  /\ pc[p] = "route"
  /\ job' = [job EXCEPT ![p].shared = IF @ = NoTag THEN job[p].new.tag ELSE @]
  /\ Goto(p, AddToRouter(job[p].new)) /\ NoFault
  /\ UNCHANGED <<host, mem, commands>>

-------------------------------------------------------------------------------
\* The router's unit: RestartRouterService, CreateRouterService, StartRouterService

\* A restart of a unit that is missing fails.
RouterRestart ==
  router' = IF router.state = "absent" THEN router ELSE RouterIn("starting")

\* AddTunnel and RemoveTunnel have found the router active.  Add warns of an
\* error, remove ignores it.
Reroute(p) ==
  /\ pc[p] = "reroute"
  /\ RouterRestart
  /\ Goto(p, IF job[p].cmd = "remove" THEN "forget" ELSE "done") /\ NoFault
  /\ UNCHANGED <<file, dir, unit, running, mem, job, commands>>

\* ensureRouterRunning has found it inactive: the unit is written and started,
\* which leaves a router alone that has become active.  handleRouterMode then
\* sets the mode.
CreateRouter(p) ==
  /\ pc[p] = "createRouter"
  /\ router' = IF RouterActive THEN router ELSE RouterIn("starting")
  /\ IF job[p].cmd = "mode"
     THEN mem' = [mem EXCEPT ![p].mode = job[p].mode] /\ Goto(p, "truncate")
     ELSE UNCHANGED mem /\ Goto(p, "done")
  /\ NoFault
  /\ UNCHANGED <<file, dir, unit, running, job, commands>>

-------------------------------------------------------------------------------
\* Config.Save: os.WriteFile truncates the file and then writes it.

AfterSave == [add |-> "create", edit |-> "stop", mtu |-> "stop", remove |-> "done",
              mode |-> "done", switch |-> "done", import |-> "done"]

\* install and wizard save a default configuration when there is none, what
\* they have gathered, and again when a second DNS tunnel changes the mode.
AfterInstallSave(p) ==
  IF job[p].todo = <<>> THEN "collect"
  ELSE IF job[p].dns > 1 /\ job[p].mode = "single" THEN "multi" ELSE "create"

Truncate(p) ==
  /\ pc[p] = "truncate"
  /\ file' = Torn
  /\ Goto(p, "write") /\ NoFault
  /\ UNCHANGED <<dir, unit, running, router, mem, job, commands>>

\* A direct transport has no service to create again after an edit.
WriteFile(p) ==
  /\ pc[p] = "write"
  /\ file' = mem[p]
  /\ Goto(p, IF job[p].cmd = "edit" /\ IsDirectTransport(job[p].new) THEN "done"
             ELSE IF Installing(p) THEN AfterInstallSave(p) ELSE AfterSave[job[p].cmd])
  /\ NoFault
  /\ UNCHANGED <<dir, unit, running, router, mem, job, commands>>

\* Every handler returns the error of a Save; the wizard ignores that of its last.
SaveFails(p) ==
  /\ \/ pc[p] = "truncate"
     \/ pc[p] = "write" /\ TornWrites
  /\ Goto(p, IF job[p].cmd = "wizard" /\ job[p].mode = "multi" THEN "create" ELSE "done") /\ Fault
  /\ UNCHANGED <<host, mem, job, commands>>

-------------------------------------------------------------------------------
\* Services of tunnels: service.Stop, Remove, Create, Start, Restart.

\* The unit in hand is to be removed, not created again.
Removing(p) ==
  \/ job[p].cmd \in {"remove", "uninstall"}
  \/ job[p].cmd = "edit" /\ Current(p) # job[p].new.tag

\* A unit that is missing makes Stop and Remove succeed and Start fail; a Start
\* leaves a running service alone.
FaultyServiceStop(tag) == UNCHANGED running

ServiceStop(tag) ==
  running' = IF unit[tag] # NoUnit THEN [running EXCEPT ![tag] = NoUnit] ELSE running

FaultyServiceRemove(tag) == UNCHANGED unit

ServiceRemove(tag) == unit' = [unit EXCEPT ![tag] = NoUnit]

ServiceStart(tag) ==
  /\ unit[tag] # NoUnit
  /\ running' = [running EXCEPT ![tag] = IF @ = NoUnit THEN unit[tag] ELSE @]

ServiceRestart(tag) ==
  /\ unit[tag] # NoUnit
  /\ running' = [running EXCEPT ![tag] = unit[tag]]

Stop(p) ==
  /\ pc[p] = "stop"
  /\ ServiceStop(Current(p))
  /\ Goto(p, IF Removing(p) THEN "removeUnit" ELSE "create") /\ NoFault
  /\ UNCHANGED <<file, dir, unit, router, mem, job, commands>>

\* A rename goes on with the new tag in the configuration in memory.
RemoveUnit(p) ==
  /\ pc[p] = "removeUnit"
  /\ ServiceRemove(Current(p))
  /\ CASE job[p].cmd = "remove"    -> Goto(p, "unroute") /\ UNCHANGED <<mem, job>>
       [] job[p].cmd = "uninstall" -> Advance(p) /\ UNCHANGED mem
       [] OTHER ->
          /\ mem' = [mem EXCEPT ![p] = Rename(@, Current(p), job[p].new.tag)]
          /\ job' = [job EXCEPT ![p].todo = <<job[p].new.tag>>]
          /\ Goto(p, "settings")
  /\ NoFault
  /\ UNCHANGED <<file, dir, running, router, commands>>

\* CreateService up to service.Create.  The Caddyfile needs its directory.
Creatable(t) == t.transport = "naive" => dir[t.tag] # NoDir

Create(p) ==
  LET t == GetTunnel(mem[p], Current(p)) IN
  /\ pc[p] = "create"
  /\ IF HasUnit(t)
     THEN /\ Creatable(t)
          /\ unit' = [unit EXCEPT ![t.tag] = t]
          /\ dir' = IF t.transport = "naive" THEN [dir EXCEPT ![t.tag] = Caddyfile] ELSE dir
          /\ Goto(p, "start") /\ UNCHANGED job
     ELSE AfterUnit(p) /\ UNCHANGED <<dir, unit>>
  /\ NoFault
  /\ UNCHANGED <<file, running, router, mem, commands>>

\* The files may have been written when the step that follows fails.
CreateFails(p) ==
  LET t == GetTunnel(mem[p], Current(p))
      written == IF t.transport = "naive" THEN [dir EXCEPT ![t.tag] = Caddyfile] ELSE dir
  IN
  /\ pc[p] = "create" /\ HasUnit(t)
  /\ IF Creatable(t)
     THEN /\ \/ UNCHANGED <<dir, unit>>
             \/ dir' = written /\ unit' \in {unit, [unit EXCEPT ![t.tag] = t]}
          /\ Fault
     ELSE UNCHANGED <<dir, unit>> /\ NoFault
  /\ AfterFailed(p)
  /\ UNCHANGED <<file, running, router, mem, commands>>

\* NaiveProxy and StunTLS are restarted when they are running.
Start(p) ==
  LET t == GetTunnel(mem[p], Current(p)) IN
  /\ pc[p] = "start"
  /\ IF t.transport \in {"naive", "stuntls"} THEN ServiceRestart(t.tag) ELSE ServiceStart(t.tag)
  /\ AfterUnit(p) /\ NoFault
  /\ UNCHANGED <<file, dir, unit, router, mem, commands>>

\* systemctl fails, also because another process has removed the unit.
StartFails(p) ==
  /\ pc[p] = "start"
  /\ IF unit[Current(p)] # NoUnit THEN Fault ELSE NoFault
  /\ AfterFailed(p)
  /\ UNCHANGED <<host, mem, commands>>

\* The loops of SwitchMode and of `slipgate restart': a unit that is missing
\* is an error for the first and skipped by the second.
Restart(p) ==
  /\ pc[p] = "restart"
  /\ IF unit[Current(p)] # NoUnit
     THEN ServiceRestart(Current(p)) /\ Advance(p)
     ELSE /\ UNCHANGED running
          /\ IF job[p].cmd = "mode" THEN Goto(p, "done") /\ UNCHANGED job ELSE Advance(p)
  /\ NoFault
  /\ UNCHANGED <<file, dir, unit, router, mem, commands>>

RestartFails(p) ==
  /\ pc[p] = "restart" /\ unit[Current(p)] # NoUnit
  /\ IF job[p].cmd = "mode" THEN Goto(p, "done") /\ UNCHANGED job ELSE Advance(p)
  /\ Fault
  /\ UNCHANGED <<host, mem, commands>>

-------------------------------------------------------------------------------
\* edit: handleTunnelEdit

BeginEdit(p) ==
  /\ Idle(p, "edit")
  /\ \E tag \in TagsOf(Loaded), newTag \in Tags :
       LET t == GetTunnel(Loaded, tag) IN
       /\ newTag = tag \/ newTag \notin TagsOf(Loaded)
       /\ Begin(p, Loaded, IF newTag = tag THEN "settings" ELSE "renameDir",
                [NoJob EXCEPT !.cmd = "edit", !.todo = <<tag>>, !.old = t,
                              !.new = [t EXCEPT !.tag = newTag]])

\* os.Rename refuses a target that is a directory.
RenameDir(p) ==
  LET tag == job[p].old.tag
      newTag == job[p].new.tag
  IN
  /\ pc[p] = "renameDir"
  /\ dir[tag] = NoDir \/ dir[newTag] = NoDir
  /\ dir' = IF dir[tag] = NoDir THEN dir ELSE [dir EXCEPT ![newTag] = dir[tag], ![tag] = NoDir]
  /\ Goto(p, "stop") /\ NoFault
  /\ UNCHANGED <<file, unit, running, router, mem, job, commands>>

RenameDirFails(p) ==
  /\ pc[p] = "renameDir" /\ dir[job[p].old.tag] # NoDir
  /\ IF dir[job[p].new.tag] = NoDir THEN Fault ELSE NoFault
  /\ Goto(p, "done")
  /\ UNCHANGED <<host, mem, job, commands>>

\* The operator's answers.  The domain is compared with no other tunnel's.
Settings(p) ==
  LET t == GetTunnel(mem[p], Current(p)) IN
  /\ pc[p] = "settings"
  /\ \E d \in IF IsDirectTransport(t) THEN {t.domain} ELSE {t.domain} \cup Domains,
        m \in IF HasSettings(t) THEN Mtus ELSE {t.mtu} :
       mem' = [mem EXCEPT ![p] = Replace(@, t.tag, [t EXCEPT !.domain = d, !.mtu = m])]
  /\ \E l \in IF HasKeyPair(t) THEN {"importKey", "finish"} ELSE {"finish"} : Goto(p, l)
  /\ NoFault
  /\ UNCHANGED <<host, job, commands>>

\* The private key the operator pastes goes to the tunnel's directory.
ImportKey(p) ==
  LET t == GetTunnel(mem[p], Current(p)) IN
  /\ pc[p] = "importKey"
  /\ IF dir[t.tag] = NoDir
     THEN UNCHANGED <<dir, mem>>
     ELSE \E k \in Keys :
            /\ dir' = [dir EXCEPT ![t.tag] = k]
            /\ mem' = [mem EXCEPT ![p] =
                         Replace(@, t.tag, [t EXCEPT !.keyDir = t.tag, !.pub = k])]
  /\ Goto(p, "finish") /\ NoFault
  /\ UNCHANGED <<file, unit, running, router, job, commands>>

\* A failing import is a warning.  server.key is written before server.pub; the
\* key the server reads decides.
ImportKeyFails(p) ==
  LET tag == Current(p) IN
  /\ pc[p] = "importKey" /\ dir[tag] # NoDir
  /\ dir' \in {dir} \cup {[dir EXCEPT ![tag] = k] : k \in Keys}
  /\ Goto(p, "finish") /\ Fault
  /\ UNCHANGED <<file, unit, running, router, mem, job, commands>>

\* A prompt ends with an error: the handler returns without a Save.  VayDNS has
\* prompts after the one for the key.
EditFails(p) ==
  LET t == GetTunnel(mem[p], Current(p)) IN
  /\ \/ pc[p] = "settings" /\ ~IsDirectTransport(t)
     \/ pc[p] = "finish" /\ t.transport = "vaydns"
  /\ Goto(p, "done") /\ Fault
  /\ UNCHANGED <<host, mem, job, commands>>

FinishEdit(p) ==
  /\ pc[p] = "finish"
  /\ Goto(p, IF GetTunnel(mem[p], Current(p)) = job[p].old THEN "done" ELSE "truncate")
  /\ NoFault
  /\ UNCHANGED <<host, mem, job, commands>>

-------------------------------------------------------------------------------
\* remove: removeSingleTunnel for one tag or for all tags of the configuration

BeginRemove(p) ==
  /\ Idle(p, "remove") /\ Loaded.tunnels # <<>>
  /\ \E todo \in {<<tag>> : tag \in TagsOf(Loaded)} \cup {InOrder(Loaded.tunnels, DOMAIN Loaded.tunnels)} :
       Begin(p, Loaded, Enter("remove", todo), [NoJob EXCEPT !.cmd = "remove", !.todo = todo])

\* router.RemoveTunnel
Unroute(p) ==
  /\ pc[p] = "unroute"
  /\ Goto(p, IF RouterActive THEN "reroute" ELSE "forget") /\ NoFault
  /\ UNCHANGED <<host, mem, job, commands>>

ForgetTunnel(p) ==
  /\ pc[p] = "forget"
  /\ dir' = [dir EXCEPT ![Current(p)] = NoDir]
  /\ mem' = [mem EXCEPT ![p] = Deregister(@, Current(p))]
  /\ Advance(p) /\ NoFault
  /\ UNCHANGED <<file, unit, running, router, commands>>

-------------------------------------------------------------------------------
\* mtu, update, restart, start, stop

BeginMTU(p) ==
  /\ Idle(p, "mtu")
  /\ \E mtu \in Mtus :
       LET todo == InOrder(Loaded.tunnels, {i \in DOMAIN Loaded.tunnels : HasKeyPair(Loaded.tunnels[i])}) IN
       /\ WithMTU(Loaded, mtu) # Loaded
       /\ Begin(p, WithMTU(Loaded, mtu), "truncate", [NoJob EXCEPT !.cmd = "mtu", !.todo = todo])

\* runPostUpdate and handleSystemRestart go through the tunnels that are not
\* direct and restart the router at the end.
BeginAll(p) ==
  \E cmd \in {"update", "restart"} :
    LET todo == InOrder(Loaded.tunnels, {i \in DOMAIN Loaded.tunnels : ~IsDirectTransport(Loaded.tunnels[i])}) IN
    /\ Idle(p, cmd)
    /\ Begin(p, Loaded, Enter(cmd, todo), [NoJob EXCEPT !.cmd = cmd, !.todo = todo])

StartTunnel(p) ==
  /\ Idle(p, "start") /\ commands < MaxCommands
  /\ \E tag \in TagsOf(Loaded) : ServiceStart(tag)
  /\ commands' = commands + 1
  /\ UNCHANGED <<file, dir, unit, router, mem, pc, job, faults>>

StopTunnel(p) ==
  /\ Idle(p, "stop") /\ commands < MaxCommands
  /\ \E tag \in TagsOf(Loaded) : ServiceStop(tag)
  /\ commands' = commands + 1
  /\ UNCHANGED <<file, dir, unit, router, mem, pc, job, faults>>

-------------------------------------------------------------------------------
\* Routing mode and active tunnel: router.SwitchMode, router.SwitchActive

BeginMode(p) ==
  /\ Idle(p, "mode")
  /\ \E mode \in {"single", "multi"} \ {Loaded.mode} :
       LET managed == {i \in DOMAIN Loaded.tunnels :
                         HasManagedService(Loaded.tunnels[i]) /\ Loaded.tunnels[i].enabled}
           todo == InOrder(Loaded.tunnels, managed)
       IN
       Begin(p, Loaded, Enter("mode", todo),
             [NoJob EXCEPT !.cmd = "mode", !.todo = todo, !.mode = mode])

\* ensureRouterRunning; when there is nothing to do, the mode is set next.
EnsureRouter(p) ==
  /\ pc[p] = "ensureRouter"
  /\ IF RouterActive
     THEN mem' = [mem EXCEPT ![p].mode = job[p].mode] /\ Goto(p, "truncate")
     ELSE UNCHANGED mem /\ Goto(p, "createRouter")
  /\ NoFault
  /\ UNCHANGED <<host, job, commands>>

BeginSwitch(p) ==
  /\ Idle(p, "switch") /\ Loaded.mode = "single"
  /\ \E tag \in TagsOf(Loaded) :
       Begin(p, Loaded, "stopActive", [NoJob EXCEPT !.cmd = "switch", !.todo = <<tag>>])

StopActive(p) ==
  LET c == mem[p] IN
  /\ pc[p] = "stopActive"
  /\ IF /\ c.active \in TagsOf(c) \ {Current(p)}
        /\ HasManagedService(GetTunnel(c, c.active))
     THEN ServiceStop(c.active) ELSE UNCHANGED running
  /\ Goto(p, "startActive") /\ NoFault
  /\ UNCHANGED <<file, dir, unit, router, mem, job, commands>>

StartActive(p) ==
  LET t == GetTunnel(mem[p], Current(p)) IN
  /\ pc[p] = "startActive"
  /\ IF HasManagedService(t) THEN ServiceStart(t.tag) ELSE UNCHANGED running
  /\ Goto(p, "restartRouter") /\ NoFault
  /\ UNCHANGED <<file, dir, unit, router, mem, job, commands>>

StartActiveFails(p) ==
  /\ pc[p] = "startActive" /\ HasManagedService(GetTunnel(mem[p], Current(p)))
  /\ IF unit[Current(p)] # NoUnit THEN Fault ELSE NoFault
  /\ Goto(p, "done")
  /\ UNCHANGED <<host, mem, job, commands>>

\* The end of update, restart and switch.  Only switch takes a router that was
\* never created for an error; only switch has something to save.
RestartRouter(p) ==
  /\ pc[p] = "restartRouter"
  /\ RouterRestart
  /\ IF job[p].cmd = "switch" /\ router.state # "absent"
     THEN mem' = [mem EXCEPT ![p].active = Current(p)] /\ Goto(p, "truncate")
     ELSE UNCHANGED mem /\ Goto(p, "done")
  /\ NoFault
  /\ UNCHANGED <<file, dir, unit, running, job, commands>>

-------------------------------------------------------------------------------
\* install and wizard: handleSystemInstall, handleQuickWizard

\* The configuration is loaded by the handler itself, and written if there was
\* none.
BeginInstall(p) ==
  \E cmd \in Commands \cap {"install", "wizard"} :
    /\ pc[p] = "idle"
    /\ Begin(p, Loaded, IF file = Torn THEN "truncate" ELSE "collect", [NoJob EXCEPT !.cmd = cmd])

\* The tunnels come by transport; "both" backends is socks, then ssh with the
\* key pair of the first.  UniqueTag finds a tag no tunnel has.
NextToInstall(p, t) ==
  LET last == job[p].new
      tags == {job[p].todo[i] : i \in DOMAIN job[p].todo}
      second == /\ last # NoTunnel /\ t.transport = last.transport
                /\ last.backend = "socks" /\ t.backend = "ssh" /\ t.transport # "naive"
  IN
  /\ t.transport # "external"
  /\ \/ second
     \/ \A tag \in tags : GetTunnel(mem[p], tag).transport # t.transport

Collect(p) ==
  /\ pc[p] = "collect"
  /\ \E t \in WantedTunnels(mem[p]) :
       /\ NextToInstall(p, t) /\ ValidNewTunnel(mem[p], t)
       /\ job' = [job EXCEPT ![p].new = t,
                             ![p].shared = IF job[p].new # NoTunnel /\ job[p].new.transport = t.transport
                                           THEN job[p].new.tag ELSE NoTag]
  /\ Goto(p, "keys") /\ NoFault
  /\ UNCHANGED <<host, mem, commands>>

\* cfg.AddTunnel, and allTunnels.
Gather(p) ==
  LET t == job[p].new IN
  /\ pc[p] = "gather"
  /\ mem' = [mem EXCEPT ![p].tunnels = Append(@, t)]
  /\ job' = [job EXCEPT ![p].todo = Append(@, t.tag),
                        ![p].dns = IF IsDNSTunnel(t) THEN @ + 1 ELSE @]
  /\ Goto(p, "collect") /\ NoFault
  /\ UNCHANGED <<host, commands>>

\* A prompt ends with an error, after some tunnels have got their directories.
\* The wizard has asked before, but for the domain of a second backend.
CollectFails(p) ==
  LET last == job[p].new IN
  /\ \/ /\ pc[p] = "collect"
        /\ job[p].cmd = "wizard" => last # NoTunnel /\ last.backend = "socks" /\ HasManagedService(last)
     \/ pc[p] = "gather" /\ job[p].cmd = "install" /\ last.transport \in {"naive", "stuntls"}
  /\ Goto(p, "done") /\ Fault
  /\ UNCHANGED <<host, mem, job, commands>>

\* Nothing is saved without a tunnel.  Only install sets active and default.
SaveInstalled(p) ==
  LET first == Head(job[p].todo) IN
  /\ pc[p] = "collect"
  /\ Goto(p, IF job[p].todo = <<>> THEN "done" ELSE "truncate")
  /\ mem' = IF job[p].cmd = "install" /\ job[p].todo # <<>>
            THEN [mem EXCEPT ![p].active = first, ![p].default = first] ELSE mem
  /\ NoFault
  /\ UNCHANGED <<host, job, commands>>

\* Two DNS tunnels of this run, whatever was there before.
MultiMode(p) ==
  /\ pc[p] = "multi"
  /\ mem' = [mem EXCEPT ![p].mode = "multi"]
  /\ job' = [job EXCEPT ![p].mode = "multi"]
  /\ Goto(p, "truncate") /\ NoFault
  /\ UNCHANGED <<host, commands>>

\* CreateRouterService and RestartRouterService.
StartRouter(p) ==
  /\ pc[p] = "startRouter"
  /\ router' = IF job[p].dns > 0 THEN RouterIn("starting") ELSE router
  /\ Goto(p, "done") /\ NoFault
  /\ UNCHANGED <<file, dir, unit, running, mem, job, commands>>

-------------------------------------------------------------------------------
\* uninstall: handleSystemUninstall

Orders(S) == {f \in [1..Cardinality(S) -> S] : \A x \in S : \E i \in DOMAIN f : f[i] = x}

\* ListSlipgateServices finds the unit files by their names, the router's (job's
\* dns counts it) among those of the tunnels.
BeginUninstall(p) ==
  /\ pc[p] = "idle" /\ "uninstall" \in Commands
  /\ \E todo \in Orders({tag \in Tags : unit[tag] # NoUnit}) :
       Begin(p, Loaded, Enter("uninstall", todo),
             [NoJob EXCEPT !.cmd = "uninstall", !.todo = todo,
                           !.dns = IF router.state = "absent" THEN 0 ELSE 1])

\* The router's turn comes before, between or after the tunnels.
StopRouter(p) ==
  /\ pc[p] \in {"stop", "removeConfigDir"} /\ job[p].cmd = "uninstall" /\ job[p].dns = 1
  /\ router' = IF router.state = "absent" THEN router ELSE RouterIn("stopped")
  /\ Goto(p, "removeRouter") /\ NoFault
  /\ UNCHANGED <<file, dir, unit, running, mem, job, commands>>

RemoveRouter(p) ==
  /\ pc[p] = "removeRouter"
  /\ router' = RouterIn("absent")
  /\ job' = [job EXCEPT ![p].dns = 0]
  /\ Goto(p, Enter("uninstall", job[p].todo)) /\ NoFault
  /\ UNCHANGED <<file, dir, unit, running, mem, commands>>

\* /etc/slipgate with the configuration and the tunnels' directories.
RemoveConfigDir(p) ==
  /\ pc[p] = "removeConfigDir" /\ job[p].dns = 0
  /\ file' = Torn
  /\ dir' = [tag \in Tags |-> NoDir]
  /\ Goto(p, "done") /\ NoFault
  /\ UNCHANGED <<unit, running, router, mem, job, commands>>

-------------------------------------------------------------------------------
\* import, the end of a command, and the end of a process

BeginImport(p) ==
  /\ pc[p] = "idle" /\ "import" \in Commands /\ p \notin Menus
  /\ \E c \in Imports :
       /\ ValidConfig(c)
       /\ Begin(p, c, "truncate", [NoJob EXCEPT !.cmd = "import"])

\* The copy of the configuration is dropped: the next command loads it again.
Forget(p) ==
  /\ Goto(p, "idle")
  /\ job' = [job EXCEPT ![p] = NoJob]
  /\ mem' = [mem EXCEPT ![p] = DefaultConfig]

End(p) ==
  /\ pc[p] = "done"
  /\ Forget(p) /\ NoFault
  /\ UNCHANGED <<host, commands>>

Crash(p) ==
  /\ pc[p] \notin {"idle", "done"}
  /\ pc[p] = "write" => TornWrites
  /\ Forget(p) /\ Fault
  /\ UNCHANGED <<host, commands>>

-------------------------------------------------------------------------------
\* The DNS router's process: it loads the configuration once, when it starts,
\* and ends when it cannot; systemd starts it again after RestartSec.

RouterLoads ==
  /\ router.state = "starting" /\ file # Torn
  /\ router' = [state |-> "serving", routes |-> Table!RoutesOf(ServedEntries(file)),
                default |-> Table!DefaultOf(ServedEntries(file), file.default)]
  /\ UNCHANGED <<file, dir, unit, running, proc, bounds>>

RouterFails ==
  /\ router.state = "starting" /\ file = Torn
  /\ router' = RouterIn("waiting")
  /\ UNCHANGED <<file, dir, unit, running, proc, bounds>>

RouterRetries ==
  /\ router.state = "waiting"
  /\ router' = RouterIn("starting")
  /\ UNCHANGED <<file, dir, unit, running, proc, bounds>>

-------------------------------------------------------------------------------
\* What the operator does, what the handler does by itself, what goes wrong.

Begins(p) ==
  \/ BeginAdd(p) \/ AddForSSH(p) \/ AddInBatch(p)
  \/ BeginEdit(p) \/ BeginRemove(p) \/ BeginMTU(p) \/ BeginAll(p)
  \/ StartTunnel(p) \/ StopTunnel(p)
  \/ BeginMode(p) \/ BeginSwitch(p) \/ BeginImport(p)
  \/ BeginInstall(p) \/ BeginUninstall(p)

Answers(p) == RegisterTunnel(p) \/ Settings(p) \/ Collect(p) \/ Gather(p) \/ SaveInstalled(p)

Statements(p) ==
  \/ SetUpDir(p) \/ RouteTunnel(p) \/ Reroute(p) \/ CreateRouter(p)
  \/ Truncate(p) \/ WriteFile(p)
  \/ Stop(p) \/ RemoveUnit(p) \/ Create(p) \/ Start(p) \/ Restart(p)
  \/ RenameDir(p) \/ ImportKey(p) \/ FinishEdit(p)
  \/ Unroute(p) \/ ForgetTunnel(p)
  \/ EnsureRouter(p) \/ StopActive(p) \/ StartActive(p) \/ RestartRouter(p)
  \/ MultiMode(p) \/ StartRouter(p)
  \/ StopRouter(p) \/ RemoveRouter(p) \/ RemoveConfigDir(p)

Failures(p) ==
  \/ SetUpDirFails(p) \/ AddFails(p) \/ CollectFails(p) \/ SaveFails(p)
  \/ CreateFails(p) \/ StartFails(p) \/ RestartFails(p)
  \/ RenameDirFails(p) \/ ImportKeyFails(p) \/ EditFails(p)
  \/ StartActiveFails(p) \/ Crash(p)

Router == RouterLoads \/ RouterFails \/ RouterRetries

Next == Router \/ \E p \in Procs : Begins(p) \/ Answers(p) \/ Statements(p) \/ Failures(p) \/ End(p)

\* The scheduler runs a handler that waits for nobody, and systemd starts the
\* router.  The operator owes no answer and no command.
Fairness ==
  /\ \A p \in Procs :
       WF_vars(Statements(p) \/ CreateFails(p) \/ StartFails(p)
                               \/ StartActiveFails(p) \/ RenameDirFails(p))
  /\ WF_vars(Router)

Spec == Init /\ [][Next]_vars /\ Fairness

-------------------------------------------------------------------------------
\* What must hold.

Quiet    == \A p \in Procs : pc[p] = "idle"
Settled  == Quiet /\ faults = 0
Listed   == IF file = Torn THEN {} ELSE TagsOf(file)

Statement == {"idle", "done", "keys", "register", "route", "truncate", "write", "stop",
              "removeUnit", "create", "start", "restart", "renameDir", "settings",
              "importKey", "finish", "unroute", "reroute", "forget", "ensureRouter",
              "createRouter", "stopActive", "startActive", "restartRouter", "collect", "gather",
              "multi", "startRouter", "removeRouter", "removeConfigDir"}

\* Statements that work on the first tag of job[p].todo, and those among them
\* that look its tunnel up in the configuration.
OnCurrent == {"stop", "removeUnit", "create", "start", "restart", "renameDir", "settings",
              "importKey", "finish", "unroute", "forget", "stopActive", "startActive"}
OnTunnel  == {"create", "start", "settings", "importKey", "finish", "forget", "startActive"}

\* Every variable has its type, and no handler is at a statement whose tunnel
\* is missing: in the code this would be a nil pointer or an empty slice.
TypeOK ==
  /\ file \in Config \cup {Torn}
  /\ dir \in [Tags -> Keys \cup {NoDir, NoFiles, Caddyfile}]
  /\ unit \in [Tags -> Tunnel \cup {NoUnit}]
  /\ running \in [Tags -> Tunnel \cup {NoUnit}]
  /\ router.state \in RouterStates /\ router.default \in Nat
  /\ \A d \in DOMAIN router.routes : d \in Domains /\ router.routes[d] \in Nat
  /\ mem \in [Procs -> Config]
  /\ pc \in [Procs -> Statement]
  /\ \A p \in Procs :
       /\ pc[p] \in OnCurrent => job[p].todo # <<>>
       /\ pc[p] \in OnTunnel  => Current(p) \in TagsOf(mem[p])
  /\ commands \in 0..MaxCommands /\ faults \in 0..MaxFaults

\* Whatever fails or dies in between, a unit file on the disk belongs to a
\* tunnel of the configuration file: no server is left behind that no command
\* can name.  Save comes before service.Create and after service.Remove.  For
\* one process without imports whose writes complete.
UnitsListed ==
  \A tag \in Tags : unit[tag] # NoUnit =>
    tag \in Listed \/ \E p \in Procs : pc[p] = "write" /\ tag \in TagsOf(mem[p])

\* No two servers on the host were given the same port by NextAvailablePort,
\* after any history of additions, removals, renames and failures.
NoPortClash ==
  \A a, b \in Tags :
    /\ a # b /\ unit[a] # NoUnit /\ unit[b] # NoUnit
    /\ HasManagedService(unit[a]) /\ HasManagedService(unit[b])
    => unit[a].port # unit[b].port

\* When no command runs and nothing has failed so far, the host is what the
\* file says: units and running servers have the file's settings, key files are
\* those whose public key the file publishes, and nothing is left of tunnels
\* that the file does not have, nor of the router when there is no file.
HostMatchesFile ==
  Settled =>
    /\ file = Torn => router.state = "absent"
    /\ \A tag \in Tags :
         IF tag \notin Listed
         THEN unit[tag] = NoUnit /\ running[tag] = NoUnit /\ dir[tag] = NoDir
         ELSE LET t == GetTunnel(file, tag) IN
              /\ unit[tag] = IF HasUnit(t) THEN t ELSE NoUnit
              /\ running[tag] # unit[tag]
                   => running[tag] = NoUnit /\ Commands \cap {"stop", "switch"} # {}
              /\ HasKeyPair(t) => dir[t.keyDir] = t.pub

\* In the file and in every process's copy, whatever other processes do: tags
\* are unique, and Route.Active is the tag of a tunnel, or empty when there is
\* none or the wizard, which does not set it, has made the tunnels; install sets
\* it before it saves.  GetTunnel and the router's default rely on both.
ActiveIfAny(c) == c.active = NoTag => c.tunnels = <<>> \/ "wizard" \in Commands

ConfigurationConsistent ==
  /\ file # Torn => UniqueTags(file) /\ ActiveListed(file) /\ ActiveIfAny(file)
  /\ \A p \in Procs :
       /\ UniqueTags(mem[p]) /\ ActiveListed(mem[p])
       /\ ~Installing(p) => ActiveIfAny(mem[p])

\* The domain of a DNS tunnel that was added is served by the router in the end,
\* unless another command leaves no DNS tunnel with that domain in the file.
\* (With a fault in between the handler may not reach the router.)
AddedIsRouted ==
  \A p \in Procs, d \in Domains :
    pc[p] = "route" /\ IsDNSTunnel(job[p].new) /\ job[p].new.domain = d
    ~> \/ router.state = "serving" /\ d \in DOMAIN router.routes
       \/ file # Torn /\ \A i \in DOMAIN file.tunnels :
                           IsDNSTunnel(file.tunnels[i]) => file.tunnels[i].domain # d
       \/ faults > 0

\* router.go on RemoveTunnel: the router is restarted to drop the route of the
\* removed tunnel.  With additions and removals only, a router that serves has
\* no route for a domain without a tunnel.
RemovedRouteDropped ==
  Settled /\ file # Torn /\ router.state = "serving" =>
    DOMAIN router.routes \subseteq {file.tunnels[i].domain : i \in DOMAIN file.tunnels}
===============================================================================
