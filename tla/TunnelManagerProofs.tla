-------------------------- MODULE TunnelManagerProofs --------------------------
(***************************************************************************)
(* Theorems about TunnelManager, for any number of processes, tags,        *)
(* domains, commands and failures.                                         *)
(*                                                                         *)
(* What can go wrong with a process's copy of the configuration depends on *)
(* where its handler is: a handler that renames must still find the old    *)
(* tag and not the new one, a loop over tags must still find each of them. *)
(* At(c, l, j) says for every command what its copy c, its statement l and *)
(* its locals j have to do with each other.  It does not mention the file  *)
(* or other processes, so what these do cannot disturb it, and the file is *)
(* only ever written from a copy for which it holds.                       *)
(***************************************************************************)
EXTENDS TunnelManager, ConfigurationProofs

-------------------------------------------------------------------------------
(***************************************************************************)
(* The inductive invariant                                                 *)
(***************************************************************************)
TagsIn(todo) == {todo[i] : i \in DOMAIN todo}

CommandNames == {"none", "add", "edit", "remove", "mtu", "update", "restart", "mode", "switch",
                 "import", "install", "wizard", "uninstall"}

Job == [cmd : CommandNames, todo : Seq(Tags), old : Tunnel \cup {NoTunnel},
        new : Tunnel \cup {NoTunnel}, mode : {"single", "multi"},
        shared : Tags \cup {NoTag}, dns : Nat]

\* A tunnel that passed ValidateNewTunnel and is not in the configuration yet.
IsNew(c, t) == t \in Tunnel /\ t.tag \notin TagsOf(c) /\ (NeedsDomain(t) => t.domain # NoDomain)

AddAt(c, l, j) ==
  /\ l \in {"keys", "register", "truncate", "write", "create", "start", "route", "reroute",
            "createRouter", "done"}
  /\ j.new \in Tunnel /\ j.todo = <<j.new.tag>>
  /\ l \in {"keys", "register"} => IsNew(c, j.new)
  /\ l \in {"truncate", "write", "create", "start"} => j.new.tag \in TagsOf(c)

\* Until the old unit is removed the configuration has the old tag and not the
\* new one; from then on it has the new one.
EditAt(c, l, j) ==
  /\ l \in {"renameDir", "stop", "removeUnit", "settings", "importKey", "finish", "truncate",
            "write", "create", "start", "done"}
  /\ j.old \in Tunnel /\ j.new \in Tunnel
  /\ \E tag \in TagsOf(c) :
       /\ j.todo = <<tag>>
       /\ \/ tag = j.new.tag /\ l \notin {"renameDir", "removeUnit"}
          \/ j.new.tag \notin TagsOf(c) /\ l \in {"renameDir", "stop", "removeUnit", "done"}

\* The tags that are still to be removed are all there, each once.
RemoveAt(c, l, j) ==
  /\ l \in {"stop", "removeUnit", "unroute", "reroute", "forget", "truncate", "write", "done"}
  /\ l \in {"stop", "removeUnit", "unroute", "reroute", "forget"} => j.todo # <<>>
  /\ TagsIn(j.todo) \subseteq TagsOf(c)
  /\ \A i, k \in DOMAIN j.todo : j.todo[i] = j.todo[k] => i = k

MTUAt(c, l, j) ==
  /\ l \in {"truncate", "write", "stop", "create", "start", "done"}
  /\ l # "done" => j.todo # <<>>
  /\ TagsIn(j.todo) \subseteq TagsOf(c)

UpdateAt(c, l, j) ==
  /\ l \in {"stop", "create", "start", "restartRouter", "done"}
  /\ l \in {"stop", "create", "start"} => j.todo # <<>>
  /\ TagsIn(j.todo) \subseteq TagsOf(c)

RestartAt(l, j) ==
  l \in {"restart", "restartRouter", "done"} /\ (l = "restart" => j.todo # <<>>)

ModeAt(l, j) ==
  /\ l \in {"restart", "ensureRouter", "createRouter", "truncate", "write", "done"}
  /\ l = "restart" => j.todo # <<>>

SwitchAt(c, l, j) ==
  /\ l \in {"stopActive", "startActive", "restartRouter", "truncate", "write", "done"}
  /\ \E tag \in TagsOf(c) : j.todo = <<tag>>

\* Where install and wizard are while they work on the tunnel in hand, and where
\* they go through those they have gathered.
InstallAt(c, l, j) ==
  /\ l \in {"truncate", "write", "collect", "keys", "gather", "multi", "create", "start",
            "startRouter", "done"}
  /\ l \in {"keys", "gather"} => IsNew(c, j.new)
  /\ l \in {"multi", "create", "start"} => j.todo # <<>>
  /\ l \in {"truncate", "write"} /\ j.mode = "multi" => j.todo # <<>>
  /\ TagsIn(j.todo) \subseteq TagsOf(c)

UninstallAt(l, j) ==
  /\ l \in {"stop", "removeUnit", "removeRouter", "removeConfigDir", "done"}
  /\ l \in {"stop", "removeUnit"} => j.todo # <<>>

At(c, l, j) ==
  /\ j.cmd = "none"      => l = "idle"
  /\ j.cmd = "add"       => AddAt(c, l, j)
  /\ j.cmd = "edit"      => EditAt(c, l, j)
  /\ j.cmd = "remove"    => RemoveAt(c, l, j)
  /\ j.cmd = "mtu"       => MTUAt(c, l, j)
  /\ j.cmd = "update"    => UpdateAt(c, l, j)
  /\ j.cmd = "restart"   => RestartAt(l, j)
  /\ j.cmd = "mode"      => ModeAt(l, j)
  /\ j.cmd = "switch"    => SwitchAt(c, l, j)
  /\ j.cmd = "import"    => l \in {"truncate", "write", "done"}
  /\ j.cmd \in {"install", "wizard"} => InstallAt(c, l, j)
  /\ j.cmd = "uninstall" => UninstallAt(l, j)

\* A handler in order: the copy is sound, and the handler is where it can be.
Fine(c, l, j) == Sound(c) /\ l \in Statement /\ j \in Job /\ At(c, l, j)

HandlersFine ==
  /\ mem \in [Procs -> Config] /\ pc \in [Procs -> Statement] /\ job \in [Procs -> Job]
  /\ \A p \in Procs : Fine(mem[p], pc[p], job[p])

RouterTyped(r) ==
  /\ r.state \in RouterStates /\ r.default \in Nat
  /\ \A d \in DOMAIN r.routes : d \in Domains /\ r.routes[d] \in Nat

HostFine ==
  /\ file \in Config \cup {Torn} /\ (file # Torn => Sound(file))
  /\ dir \in [Tags -> Keys \cup {NoDir, NoFiles, Caddyfile}]
  /\ unit \in [Tags -> Tunnel \cup {NoUnit}]
  /\ running \in [Tags -> Tunnel \cup {NoUnit}]
  /\ RouterTyped(router)
  /\ commands \in 0..MaxCommands /\ faults \in 0..MaxFaults

IInv == HostFine /\ HandlersFine

-------------------------------------------------------------------------------
(***************************************************************************)
(* Handlers, one at a time                                                 *)
(***************************************************************************)
LEMMA FineFields ==
  ASSUME NEW c, NEW l, NEW j, Fine(c, l, j)
  PROVE  c \in Config /\ l \in Statement /\ j \in Job /\ Sound(c) /\ At(c, l, j)
  BY DEF Fine, Sound

\* What one process does with its own copy, statement and locals leaves the
\* others in order.
LEMMA OneHandler ==
  ASSUME HandlersFine, NEW p \in Procs, NEW c, NEW l, NEW j, Fine(c, l, j),
         mem' = [mem EXCEPT ![p] = c], pc' = [pc EXCEPT ![p] = l], job' = [job EXCEPT ![p] = j]
  PROVE  HandlersFine'
<1>1. c \in Config /\ l \in Statement /\ j \in Job
  BY FineFields
<1>2. /\ mem' \in [Procs -> Config] /\ pc' \in [Procs -> Statement] /\ job' \in [Procs -> Job]
  BY <1>1 DEF HandlersFine
<1>3. \A q \in Procs : Fine(mem'[q], pc'[q], job'[q])
  <2> TAKE q \in Procs
  <2>1. CASE q = p
    BY <2>1 DEF HandlersFine
  <2>2. CASE q # p
    <3>1. mem'[q] = mem[q] /\ pc'[q] = pc[q] /\ job'[q] = job[q]
      BY <2>2 DEF HandlersFine
    <3>2. QED
      BY <3>1 DEF HandlersFine
  <2>3. QED
    BY <2>1, <2>2
<1>4. QED
  BY <1>2, <1>3 DEF HandlersFine

LEMMA HandlerMoves ==
  ASSUME HandlersFine, NEW p \in Procs, NEW l, Goto(p, l), UNCHANGED <<mem, job>>,
         Fine(mem[p], l, job[p])
  PROVE  HandlersFine'
<1>1. mem' = [mem EXCEPT ![p] = mem[p]] /\ job' = [job EXCEPT ![p] = job[p]]
  BY DEF HandlersFine
<1>2. pc' = [pc EXCEPT ![p] = l]
  BY DEF Goto
<1>3. QED
  BY <1>1, <1>2, OneHandler

LEMMA HandlerWorks ==
  ASSUME HandlersFine, NEW p \in Procs, NEW l, NEW j, Goto(p, l), UNCHANGED mem,
         job' = [job EXCEPT ![p] = j], Fine(mem[p], l, j)
  PROVE  HandlersFine'
<1>1. mem' = [mem EXCEPT ![p] = mem[p]]
  BY DEF HandlersFine
<1>2. pc' = [pc EXCEPT ![p] = l]
  BY DEF Goto
<1>3. QED
  BY <1>1, <1>2, OneHandler

LEMMA HandlerChanges ==
  ASSUME HandlersFine, NEW p \in Procs, NEW l, NEW c, Goto(p, l), UNCHANGED job,
         mem' = [mem EXCEPT ![p] = c], Fine(c, l, job[p])
  PROVE  HandlersFine'
<1>1. job' = [job EXCEPT ![p] = job[p]]
  BY DEF HandlersFine
<1>2. pc' = [pc EXCEPT ![p] = l]
  BY DEF Goto
<1>3. QED
  BY <1>1, <1>2, OneHandler

\* What Load returns is sound.
LEMMA LoadedSound ==
  ASSUME HostFine
  PROVE  Loaded \in Config /\ Sound(Loaded)
  BY DefaultConfigSound DEF HostFine, Loaded, Sound

LEMMA NoJobTyped == NoJob \in Job
<1>1. <<>> \in Seq(Tags)
  OBVIOUS
<1>2. QED
  BY <1>1 DEF NoJob, Job, CommandNames

\* A command begins: the host is left alone.
LEMMA BeginFine ==
  ASSUME IInv, NEW p \in Procs, NEW c, NEW l, NEW j, Begin(p, c, l, j), Fine(c, l, j)
  PROVE  IInv'
<1>1. HandlersFine'
  BY OneHandler DEF IInv, Begin, Goto
<1>2. HostFine'
  <2>1. commands' \in 0..MaxCommands
    BY ManagerAssumption DEF IInv, HostFine, Begin
  <2>2. QED
    BY <2>1 DEF IInv, HostFine, Begin, host, RouterTyped
<1>3. QED
  BY <1>1, <1>2 DEF IInv

-------------------------------------------------------------------------------
(***************************************************************************)
(* The tags a loop goes through                                            *)
(***************************************************************************)

\* The tags of some tunnels of a configuration, in their order: each is a tag of
\* the configuration, none comes twice, and there is one if there is a tunnel.
LEMMA InOrderTags ==
  ASSUME NEW c, Sound(c), NEW which \in SUBSET (DOMAIN c.tunnels)
  PROVE  LET todo == InOrder(c.tunnels, which)
         IN  /\ todo \in Seq(Tags) /\ TagsIn(todo) \subseteq TagsOf(c)
             /\ \A i, k \in DOMAIN todo : todo[i] = todo[k] => i = k
             /\ which # {} => todo # <<>>
<1> DEFINE n == Cardinality(which)
           Enumerates(f) == f \in [1..n -> which] /\ \A i, j \in DOMAIN f : i < j => f[i] < f[j]
           at == CHOOSE f \in [1..n -> which] : \A i, j \in DOMAIN f : i < j => f[i] < f[j]
           todo == InOrder(c.tunnels, which)
<1>1. /\ c \in Config /\ Len(c.tunnels) \in Nat /\ DOMAIN c.tunnels = 1..Len(c.tunnels)
      /\ \A i \in DOMAIN c.tunnels : c.tunnels[i].tag \in Tags
  BY ConfigFields DEF Sound, Tunnel
<1>2. n \in Nat /\ \E f \in [1..n -> which] : \A i, j \in DOMAIN f : i < j => f[i] < f[j]
  BY <1>1, InOrderExists
<1>3. at \in [1..n -> which] /\ \A i, j \in 1..n : i < j => at[i] < at[j]
  <2>1. at \in [1..n -> which] /\ \A i, j \in DOMAIN at : i < j => at[i] < at[j]
    BY <1>2
  <2>2. QED
    BY <2>1
<1>4. todo = [i \in 1..n |-> c.tunnels[at[i]].tag]
  BY DEF InOrder
<1>5. which # {} => n # 0
  BY <1>1, IndicesFinite, FS_Subset, FS_EmptySet
<1> HIDE DEF n, at, todo
<1>6. \A i \in 1..n : at[i] \in DOMAIN c.tunnels /\ at[i] \in Nat
  BY <1>1, <1>3
<1>7. todo \in [1..n -> Tags] /\ DOMAIN todo = 1..n
  BY <1>1, <1>4, <1>6
<1>8. todo \in Seq(Tags)
  BY <1>2, <1>7, SeqDef
<1>9. TagsIn(todo) \subseteq TagsOf(c)
  BY <1>4, <1>6, <1>7 DEF TagsIn, TagsOf
<1>10. ASSUME NEW i \in 1..n, NEW k \in 1..n, todo[i] = todo[k]  PROVE i = k
  <2>1. at[i] = at[k]
    BY <1>4, <1>6, <1>10 DEF Sound, UniqueTags
  <2>2. i \in Int /\ k \in Int /\ ~(at[i] < at[k]) /\ ~(at[k] < at[i])
    BY <1>2, <1>6, <2>1
  <2>3. QED
    BY <1>3, <2>2
<1>11. which # {} => todo # <<>>
  BY <1>2, <1>5, <1>7
<1>12. QED
  BY <1>7, <1>8, <1>9, <1>10, <1>11 DEF todo

-------------------------------------------------------------------------------
(***************************************************************************)
(* Commands begin                                                          *)
(***************************************************************************)

\* One tag as a list of tags.
LEMMA OneTag ==
  ASSUME NEW tag \in Tags
  PROVE  /\ <<tag>> \in Seq(Tags) /\ <<tag>> # <<>> /\ TagsIn(<<tag>>) = {tag}
         /\ DOMAIN <<tag>> = {1} /\ Head(<<tag>>) = tag /\ Tail(<<tag>>) = <<>>
<1>1. /\ <<tag>> \in Seq(Tags) /\ <<tag>> # <<>> /\ DOMAIN <<tag>> = 1..1
      /\ <<tag>>[1] = tag /\ Head(<<tag>>) = tag /\ Tail(<<tag>>) = <<>>
  OBVIOUS
<1>2. 1..1 = {1}
  OBVIOUS
<1>3. QED
  BY <1>1, <1>2 DEF TagsIn

\* The tunnel the operator asks for is one, with the port the code gives it.
LEMMA WantedTyped ==
  ASSUME NEW c \in Config, NEW t \in WantedTunnels(c), ValidNewTunnel(c, t)
  PROVE  IsNew(c, t)
<1> DEFINE doms(tr) == IF NeedsDomain([transport |-> tr]) THEN Domains ELSE {NoDomain}
           mtus(tr) == IF HasKeyPair([transport |-> tr]) THEN Mtus ELSE {DefaultMTU}
           exts(tr) == IF tr = "external" THEN ExternalPorts ELSE {0}
           all(tr)  == {Wanted(c, tr, tag, b, d, mtu, ext) :
                          tag \in Tags, b \in Backends(tr), d \in doms(tr), mtu \in mtus(tr),
                          ext \in exts(tr)}
<1>a. PICK tr \in NewTransports : t \in all(tr)
  BY DEF WantedTunnels
<1>1. PICK tag \in Tags, b \in Backends(tr), d \in doms(tr), mtu \in mtus(tr), ext \in exts(tr) :
        t = Wanted(c, tr, tag, b, d, mtu, ext)
  BY <1>a
<1>2. tr \in Transports /\ d \in Domains \cup {NoDomain} /\ mtu \in Mtus /\ ext \in Nat
  BY ManagerAssumption, ConfigurationAssumption
<1> HIDE DEF doms, mtus, exts
<1>3. b \in {"socks", "ssh", "external"}
  BY DEF Backends
<1>4. NextAvailablePort(c) \in Nat
  <2>1. BasePort \in Nat /\ Len(c.tunnels) \in Nat
    BY ConfigurationAssumption, ConfigFields
  <2>2. NextAvailablePort(c) \in BasePort..(BasePort + Len(c.tunnels))
    BY NextPortFree
  <2>3. QED
    BY <2>1, <2>2
<1>5. t \in Tunnel
  BY <1>1, <1>2, <1>3, <1>4 DEF Wanted, Tunnel
<1>6. QED
  BY <1>5 DEF ValidNewTunnel, IsNew

LEMMA AddFine ==
  ASSUME NEW c, Sound(c), NEW t, IsNew(c, t), NEW s \in Tags \cup {NoTag}
  PROVE  Fine(c, "keys", AddJob(t, s))
<1>1. t \in Tunnel /\ t.tag \in Tags
  BY DEF IsNew, Tunnel
<1>2. AddJob(t, s) \in Job
  BY <1>1, NoJobTyped, OneTag DEF AddJob, Job, CommandNames
<1>3. At(c, "keys", AddJob(t, s))
  BY <1>1 DEF At, AddAt, AddJob, NoJob
<1>4. QED
  BY <1>2, <1>3 DEF Fine, Statement

LEMMA BeginAddFine ==
  ASSUME IInv, NEW p \in Procs, BeginAdd(p)  PROVE IInv'
<1>1. PICK t \in WantedTunnels(Loaded) :
        ValidNewTunnel(Loaded, t) /\ Begin(p, Loaded, "keys", AddJob(t, NoTag))
  BY DEF BeginAdd
<1>2. Fine(Loaded, "keys", AddJob(t, NoTag))
  BY <1>1, LoadedSound, WantedTyped, AddFine DEF IInv
<1>3. QED
  BY <1>1, <1>2, BeginFine

\* The handler of a process, and what is known of its copy and its locals.
LEMMA HandlerOf ==
  ASSUME IInv, NEW p \in Procs
  PROVE  /\ Fine(mem[p], pc[p], job[p]) /\ Sound(mem[p]) /\ mem[p] \in Config
         /\ job[p] \in Job /\ At(mem[p], pc[p], job[p])
  BY DEF IInv, HandlersFine, Fine

LEMMA AddAgainFine ==
  ASSUME IInv, NEW p \in Procs, AddForSSH(p) \/ AddInBatch(p)  PROVE IInv'
<1>1. Sound(mem[p]) /\ mem[p] \in Config /\ job[p].shared \in Tags \cup {NoTag}
  BY HandlerOf DEF Job
<1>2. file # Torn => Sound(file) /\ file \in Config
  BY DEF IInv, HostFine, Sound
<1>3. CASE AddForSSH(p)
  <2>1. PICK t \in WantedTunnels(mem[p]) :
          ValidNewTunnel(mem[p], t) /\ Begin(p, mem[p], "keys", AddJob(t, job[p].shared))
    BY <1>3 DEF AddForSSH
  <2>2. Fine(mem[p], "keys", AddJob(t, job[p].shared))
    BY <1>1, <2>1, WantedTyped, AddFine
  <2>3. QED
    BY <2>1, <2>2, BeginFine
<1>4. CASE AddInBatch(p)
  <2> DEFINE c == IF job[p].shared = NoTag \/ file = Torn THEN mem[p] ELSE file
  <2>1. PICK t \in WantedTunnels(c) : ValidNewTunnel(c, t) /\ Begin(p, c, "keys", AddJob(t, NoTag))
    BY <1>4 DEF AddInBatch
  <2>2. c \in Config /\ Sound(c)
    BY <1>1, <1>2
  <2> HIDE DEF c
  <2>3. Fine(c, "keys", AddJob(t, NoTag))
    BY <2>1, <2>2, WantedTyped, AddFine
  <2>4. QED
    BY <2>1, <2>3, BeginFine
<1>5. QED
  BY <1>3, <1>4

\* An edit, with or without a rename.
LEMMA BeginEditFine ==
  ASSUME IInv, NEW p \in Procs, BeginEdit(p)  PROVE IInv'
<1>1. Loaded \in Config /\ Sound(Loaded)
  BY LoadedSound DEF IInv
<1>2. PICK tag \in TagsOf(Loaded), newTag \in Tags :
        LET t == GetTunnel(Loaded, tag) IN
        /\ newTag = tag \/ newTag \notin TagsOf(Loaded)
        /\ Begin(p, Loaded, IF newTag = tag THEN "settings" ELSE "renameDir",
                 [NoJob EXCEPT !.cmd = "edit", !.todo = <<tag>>, !.old = t,
                               !.new = [t EXCEPT !.tag = newTag]])
  BY DEF BeginEdit
<1> DEFINE t == GetTunnel(Loaded, tag)
           new == [t EXCEPT !.tag = newTag]
           l == IF newTag = tag THEN "settings" ELSE "renameDir"
           j == [NoJob EXCEPT !.cmd = "edit", !.todo = <<tag>>, !.old = t, !.new = new]
<1>3. t \in Tunnel /\ new \in Tunnel /\ new.tag = newTag /\ tag \in Tags
  BY <1>1, GetTunnelFound, TagsOfType DEF Tunnel
<1> HIDE DEF t, new
<1>4. j \in Job
  BY <1>3, NoJobTyped, OneTag DEF Job, CommandNames
<1>5. At(Loaded, l, j)
  BY <1>2, <1>3 DEF At, EditAt, NoJob
<1>6. Fine(Loaded, l, j)
  BY <1>1, <1>4, <1>5 DEF Fine, Statement
<1>7. QED
  BY <1>2, <1>6, BeginFine DEF t, new

\* Commands that go through the tunnels of the configuration.
LEMMA BeginRemoveFine ==
  ASSUME IInv, NEW p \in Procs, BeginRemove(p)  PROVE IInv'
<1>1. Loaded \in Config /\ Sound(Loaded) /\ DOMAIN Loaded.tunnels = 1..Len(Loaded.tunnels)
      /\ Len(Loaded.tunnels) \in Nat
  BY LoadedSound, ConfigFields DEF IInv
<1>2. PICK todo \in {<<tag>> : tag \in TagsOf(Loaded)} \cup {InOrder(Loaded.tunnels, DOMAIN Loaded.tunnels)} :
        Begin(p, Loaded, Enter("remove", todo), [NoJob EXCEPT !.cmd = "remove", !.todo = todo])
  BY DEF BeginRemove
<1> DEFINE j == [NoJob EXCEPT !.cmd = "remove", !.todo = todo]
<1>3. /\ todo \in Seq(Tags) /\ todo # <<>> /\ TagsIn(todo) \subseteq TagsOf(Loaded)
      /\ \A i, k \in DOMAIN todo : todo[i] = todo[k] => i = k
  <2>1. CASE todo \in {<<tag>> : tag \in TagsOf(Loaded)}
    <3>1. PICK tag \in TagsOf(Loaded) : todo = <<tag>>
      BY <2>1
    <3>2. QED
      BY <1>1, <3>1, TagsOfType, OneTag
  <2>2. CASE todo = InOrder(Loaded.tunnels, DOMAIN Loaded.tunnels)
    <3>1. DOMAIN Loaded.tunnels # {}
      BY <1>1 DEF BeginRemove
    <3>2. QED
      BY <1>1, <2>2, <3>1, InOrderTags
  <2>3. QED
    BY <1>2, <2>1, <2>2
<1>4. j \in Job
  BY <1>3 DEF Job, NoJob, CommandNames
<1>5. Enter("remove", todo) = "stop"
  BY <1>3 DEF Enter, LoopStart
<1>6. At(Loaded, "stop", j)
  BY <1>3 DEF At, RemoveAt, NoJob
<1>7. Fine(Loaded, Enter("remove", todo), j)
  BY <1>1, <1>4, <1>5, <1>6 DEF Fine, Statement
<1>8. QED
  BY <1>2, <1>7, BeginFine

LEMMA BeginMTUFine ==
  ASSUME IInv, NEW p \in Procs, BeginMTU(p)  PROVE IInv'
<1> DEFINE which == {i \in DOMAIN Loaded.tunnels : HasKeyPair(Loaded.tunnels[i])}
           todo == InOrder(Loaded.tunnels, which)
           j == [NoJob EXCEPT !.cmd = "mtu", !.todo = todo]
<1>1. Loaded \in Config /\ Sound(Loaded)
  BY LoadedSound DEF IInv
<1>2. PICK mtu \in Mtus :
        WithMTU(Loaded, mtu) # Loaded /\ Begin(p, WithMTU(Loaded, mtu), "truncate", j)
  BY DEF BeginMTU
<1> DEFINE c == WithMTU(Loaded, mtu)
<1>3. Sound(c) /\ TagsOf(c) = TagsOf(Loaded) /\ which # {}
  BY <1>1, <1>2, WithMTUSound
<1>4. todo \in Seq(Tags) /\ todo # <<>> /\ TagsIn(todo) \subseteq TagsOf(Loaded)
  BY <1>1, <1>3, InOrderTags
<1> HIDE DEF todo, c
<1>5. j \in Job
  BY <1>4 DEF Job, NoJob, CommandNames
<1>6. At(c, "truncate", j)
  BY <1>3, <1>4 DEF At, MTUAt, NoJob
<1>7. Fine(c, "truncate", j)
  BY <1>3, <1>5, <1>6 DEF Fine, Statement
<1>8. QED
  BY <1>2, <1>7, BeginFine DEF c

LEMMA BeginAllFine ==
  ASSUME IInv, NEW p \in Procs, BeginAll(p)  PROVE IInv'
<1> DEFINE which == {i \in DOMAIN Loaded.tunnels : ~IsDirectTransport(Loaded.tunnels[i])}
           todo == InOrder(Loaded.tunnels, which)
           j(cmd) == [NoJob EXCEPT !.cmd = cmd, !.todo = todo]
<1>1. Loaded \in Config /\ Sound(Loaded)
  BY LoadedSound DEF IInv
<1>2. PICK cmd \in {"update", "restart"} : Begin(p, Loaded, Enter(cmd, todo), j(cmd))
  BY DEF BeginAll
<1>3. todo \in Seq(Tags) /\ TagsIn(todo) \subseteq TagsOf(Loaded)
  BY <1>1, InOrderTags
<1> HIDE DEF todo
<1>4. j(cmd) \in Job
  BY <1>3 DEF Job, NoJob, CommandNames
<1>5. /\ cmd = "update"  => Enter(cmd, todo) = IF todo = <<>> THEN "restartRouter" ELSE "stop"
      /\ cmd = "restart" => Enter(cmd, todo) = IF todo = <<>> THEN "restartRouter" ELSE "restart"
  BY DEF Enter, LoopStart, LoopEnd
<1>6. At(Loaded, Enter(cmd, todo), j(cmd))
  BY <1>3, <1>5 DEF At, UpdateAt, RestartAt, NoJob
<1>7. Fine(Loaded, Enter(cmd, todo), j(cmd))
  BY <1>1, <1>4, <1>5, <1>6 DEF Fine, Statement
<1>8. QED
  BY <1>2, <1>7, BeginFine

LEMMA BeginModeFine ==
  ASSUME IInv, NEW p \in Procs, BeginMode(p)  PROVE IInv'
<1> DEFINE which == {i \in DOMAIN Loaded.tunnels :
                       HasManagedService(Loaded.tunnels[i]) /\ Loaded.tunnels[i].enabled}
           todo == InOrder(Loaded.tunnels, which)
           j(mode) == [NoJob EXCEPT !.cmd = "mode", !.todo = todo, !.mode = mode]
<1>1. Loaded \in Config /\ Sound(Loaded)
  BY LoadedSound DEF IInv
<1>2. PICK mode \in {"single", "multi"} : Begin(p, Loaded, Enter("mode", todo), j(mode))
  BY DEF BeginMode
<1>3. todo \in Seq(Tags)
  BY <1>1, InOrderTags
<1> HIDE DEF todo
<1>4. j(mode) \in Job
  BY <1>3 DEF Job, NoJob, CommandNames
<1>5. Enter("mode", todo) = IF todo = <<>> THEN "ensureRouter" ELSE "restart"
  BY DEF Enter, LoopStart, LoopEnd
<1>6. At(Loaded, Enter("mode", todo), j(mode))
  BY <1>5 DEF At, ModeAt, NoJob
<1>7. Fine(Loaded, Enter("mode", todo), j(mode))
  BY <1>1, <1>4, <1>5, <1>6 DEF Fine, Statement
<1>8. QED
  BY <1>2, <1>7, BeginFine

LEMMA BeginSwitchFine ==
  ASSUME IInv, NEW p \in Procs, BeginSwitch(p)  PROVE IInv'
<1>1. Loaded \in Config /\ Sound(Loaded)
  BY LoadedSound DEF IInv
<1>2. PICK tag \in TagsOf(Loaded) :
        Begin(p, Loaded, "stopActive", [NoJob EXCEPT !.cmd = "switch", !.todo = <<tag>>])
  BY DEF BeginSwitch
<1> DEFINE j == [NoJob EXCEPT !.cmd = "switch", !.todo = <<tag>>]
<1>3. tag \in Tags
  BY <1>1, TagsOfType
<1>4. j \in Job
  BY <1>3, NoJobTyped, OneTag DEF Job, CommandNames
<1>5. At(Loaded, "stopActive", j)
  BY DEF At, SwitchAt, NoJob
<1>6. Fine(Loaded, "stopActive", j)
  BY <1>1, <1>4, <1>5 DEF Fine, Statement
<1>7. QED
  BY <1>2, <1>6, BeginFine

\* ValidConfig has what a sound configuration needs: Validate looks at tags and
\* at domains.
LEMMA BeginImportFine ==
  ASSUME IInv, NEW p \in Procs, BeginImport(p)  PROVE IInv'
<1>1. PICK c \in Imports :
        ValidConfig(c) /\ Begin(p, c, "truncate", [NoJob EXCEPT !.cmd = "import"])
  BY DEF BeginImport
<1> DEFINE j == [NoJob EXCEPT !.cmd = "import"]
<1>2. Sound(c)
  BY <1>1, ManagerAssumption DEF ValidConfig, Sound, UniqueTags, Domained
<1>3. j \in Job
  BY NoJobTyped DEF Job, CommandNames
<1>4. At(c, "truncate", j)
  BY DEF At, NoJob
<1>5. Fine(c, "truncate", j)
  BY <1>2, <1>3, <1>4 DEF Fine, Statement
<1>6. QED
  BY <1>1, <1>5, BeginFine

LEMMA BeginInstallFine ==
  ASSUME IInv, NEW p \in Procs, BeginInstall(p)  PROVE IInv'
<1>1. Sound(Loaded)
  BY LoadedSound DEF IInv
<1>2. PICK cmd \in {"install", "wizard"}, l \in {"truncate", "collect"} :
        Begin(p, Loaded, l, [NoJob EXCEPT !.cmd = cmd])
  BY DEF BeginInstall
<1> DEFINE j == [NoJob EXCEPT !.cmd = cmd]
<1>3. j \in Job
  BY NoJobTyped DEF Job, CommandNames
<1>4. At(Loaded, l, j)
  BY DEF At, InstallAt, NoJob, TagsIn
<1>5. Fine(Loaded, l, j)
  BY <1>1, <1>3, <1>4 DEF Fine, Statement
<1>6. QED
  BY <1>2, <1>5, BeginFine

LEMMA BeginUninstallFine ==
  ASSUME IInv, NEW p \in Procs, BeginUninstall(p)  PROVE IInv'
<1> DEFINE tags == {tag \in Tags : unit[tag] # NoUnit}
           n == IF router.state = "absent" THEN 0 ELSE 1
           j(todo) == [NoJob EXCEPT !.cmd = "uninstall", !.todo = todo, !.dns = n]
<1>1. Sound(Loaded)
  BY LoadedSound DEF IInv
<1>2. PICK todo \in Orders(tags) : Begin(p, Loaded, Enter("uninstall", todo), j(todo))
  BY DEF BeginUninstall
<1>3. todo \in Seq(Tags)
  <2>1. Cardinality(tags) \in Nat
    BY ManagerAssumption, FS_Subset, FS_CardinalityType
  <2>2. todo \in [1..Cardinality(tags) -> Tags]
    BY DEF Orders
  <2> HIDE DEF tags
  <2>3. QED
    BY <2>1, <2>2, SeqDef
<1> HIDE DEF tags
<1>4. j(todo) \in Job
  BY <1>3, NoJobTyped DEF Job, NoJob, CommandNames
<1>5. Enter("uninstall", todo) = IF todo = <<>> THEN "removeConfigDir" ELSE "stop"
  BY DEF Enter, LoopStart, LoopEnd
<1>6. At(Loaded, Enter("uninstall", todo), j(todo))
  BY <1>5 DEF At, UninstallAt, NoJob
<1>7. Fine(Loaded, Enter("uninstall", todo), j(todo))
  BY <1>1, <1>4, <1>5, <1>6 DEF Fine, Statement
<1>8. QED
  BY <1>2, <1>7, BeginFine

-------------------------------------------------------------------------------
(***************************************************************************)
(* A handler goes on                                                       *)
(***************************************************************************)
Dirs  == [Tags -> Keys \cup {NoDir, NoFiles, Caddyfile}]
Units == [Tags -> Tunnel \cup {NoUnit}]

LEMMA HostKept ==
  ASSUME HostFine, UNCHANGED <<host, commands>>, Fault \/ NoFault
  PROVE  HostFine'
<1>1. faults' \in 0..MaxFaults
  BY ManagerAssumption DEF HostFine, Fault, NoFault
<1>2. QED
  BY <1>1 DEF HostFine, host, RouterTyped

LEMMA HostChanged ==
  ASSUME HostFine, UNCHANGED <<file, commands>>, Fault \/ NoFault,
         dir' \in Dirs, unit' \in Units, running' \in Units, RouterTyped(router')
  PROVE  HostFine'
<1>1. faults' \in 0..MaxFaults
  BY ManagerAssumption DEF HostFine, Fault, NoFault
<1>2. QED
  BY <1>1 DEF HostFine, RouterTyped, Dirs, Units

LEMMA HostTypes ==
  ASSUME HostFine
  PROVE  dir \in Dirs /\ unit \in Units /\ running \in Units /\ RouterTyped(router)
  BY DEF HostFine, Dirs, Units

LEMMA RouterInTyped ==
  ASSUME NEW s \in RouterStates  PROVE RouterTyped(RouterIn(s))
<1>1. DOMAIN <<>> = {}
  OBVIOUS
<1>2. QED
  BY <1>1 DEF RouterTyped, RouterIn

\* A handler that has begun can return an error from anywhere.
LEMMA DoneFine ==
  ASSUME NEW c, NEW l, NEW j, Fine(c, l, j), l # "idle"
  PROVE  Fine(c, "done", j)
<1>1. At(c, "done", j)
  <2>1. At(c, l, j) /\ j \in Job
    BY DEF Fine
  <2>2. j.cmd = "add" => AddAt(c, "done", j)
    BY <2>1 DEF At, AddAt
  <2>3. j.cmd = "edit" => EditAt(c, "done", j)
    BY <2>1 DEF At, EditAt
  <2>4. j.cmd = "remove" => RemoveAt(c, "done", j)
    BY <2>1 DEF At, RemoveAt
  <2>5. j.cmd = "switch" => SwitchAt(c, "done", j)
    BY <2>1 DEF At, SwitchAt
  <2>6. QED
    BY <2>1, <2>2, <2>3, <2>4, <2>5
       DEF At, MTUAt, UpdateAt, RestartAt, ModeAt, InstallAt, UninstallAt
<1>2. QED
  BY <1>1 DEF Fine, Statement

\* Statements that work on a tag have one, and those that look its tunnel up
\* find it.
LEMMA CurrentFound ==
  ASSUME NEW c, NEW l, NEW j, Fine(c, l, j)
  PROVE  /\ l \in OnCurrent => j.todo # <<>>
         /\ l \in OnTunnel => Head(j.todo) \in TagsOf(c)
<1>1. At(c, l, j) /\ j.todo \in Seq(Tags) /\ j.cmd \in CommandNames /\ c \in Config
  BY DEF Fine, Job, Sound
<1>2. ASSUME j.todo # <<>>  PROVE Head(j.todo) \in TagsIn(j.todo)
  <2>1. 1 \in DOMAIN j.todo /\ Head(j.todo) = j.todo[1]
    BY <1>1, <1>2
  <2>2. QED
    BY <2>1 DEF TagsIn
<1>0. \A tag \in Tags : <<tag>> # <<>> /\ Head(<<tag>>) = tag
  BY OneTag
<1>3. j.cmd = "add" => j.todo # <<>> /\ (l \in OnTunnel => Head(j.todo) \in TagsOf(c))
  <2>1. ASSUME j.cmd = "add"
        PROVE  /\ j.new.tag \in Tags /\ j.todo = <<j.new.tag>>
               /\ l \in OnTunnel => j.new.tag \in TagsOf(c)
    BY <1>1, <2>1 DEF At, AddAt, OnTunnel, Tunnel
  <2>2. QED
    BY <1>0, <2>1
<1>4. j.cmd = "edit" => j.todo # <<>> /\ Head(j.todo) \in TagsOf(c)
  <2>1. j.cmd = "edit" => \E tag \in TagsOf(c) : j.todo = <<tag>>
    BY <1>1 DEF At, EditAt
  <2>2. QED
    BY <1>0, <1>1, <2>1, TagsOfType
<1>5. j.cmd = "switch" => j.todo # <<>> /\ Head(j.todo) \in TagsOf(c)
  <2>1. j.cmd = "switch" => \E tag \in TagsOf(c) : j.todo = <<tag>>
    BY <1>1 DEF At, SwitchAt
  <2>2. QED
    BY <1>0, <1>1, <2>1, TagsOfType
<1>6. j.cmd = "remove" /\ l \in OnCurrent => j.todo # <<>> /\ Head(j.todo) \in TagsOf(c)
  BY <1>1, <1>2 DEF At, RemoveAt, OnCurrent
<1>7. j.cmd = "mtu" /\ l \in OnCurrent => j.todo # <<>> /\ Head(j.todo) \in TagsOf(c)
  BY <1>1, <1>2 DEF At, MTUAt, OnCurrent
<1>8. j.cmd = "update" /\ l \in OnCurrent => j.todo # <<>> /\ Head(j.todo) \in TagsOf(c)
  BY <1>1, <1>2 DEF At, UpdateAt, OnCurrent
<1>9. j.cmd \in {"install", "wizard"} /\ l \in OnCurrent => j.todo # <<>> /\ Head(j.todo) \in TagsOf(c)
  BY <1>1, <1>2 DEF At, InstallAt, OnCurrent
<1>10. j.cmd \in {"restart", "mode", "uninstall", "none", "import"} /\ l \in OnCurrent
         => j.todo # <<>> /\ l \notin OnTunnel
  BY <1>1 DEF At, RestartAt, ModeAt, UninstallAt, OnCurrent, OnTunnel
<1>11. l \in OnTunnel => l \in OnCurrent
  BY DEF OnTunnel, OnCurrent
<1>12. QED
  BY <1>1, <1>3, <1>4, <1>5, <1>6, <1>7, <1>8, <1>9, <1>10, <1>11 DEF CommandNames

\* The tag in hand, and its tunnel.
LEMMA CurrentOf ==
  ASSUME IInv, NEW p \in Procs
  PROVE  /\ pc[p] \in OnCurrent => job[p].todo # <<>> /\ Current(p) \in Tags
         /\ pc[p] \in OnTunnel =>
              /\ Current(p) \in TagsOf(mem[p])
              /\ GetTunnel(mem[p], Current(p)) \in Tunnel
              /\ GetTunnel(mem[p], Current(p)).tag = Current(p)
<1>1. Fine(mem[p], pc[p], job[p]) /\ mem[p] \in Config /\ job[p].todo \in Seq(Tags)
  BY HandlerOf DEF Job
<1>2. job[p].todo # <<>> => Head(job[p].todo) \in Tags
  BY <1>1
<1>3. QED
  BY <1>1, <1>2, CurrentFound, GetTunnelFound DEF Current

\* The rest of a loop: its tags are among those before, and the one in hand is
\* not if none comes twice.
LEMMA TailTags ==
  ASSUME NEW todo \in Seq(Tags), todo # <<>>
  PROVE  /\ Tail(todo) \in Seq(Tags) /\ TagsIn(Tail(todo)) \subseteq TagsIn(todo)
         /\ Head(todo) \in TagsIn(todo)
         /\ (\A i, k \in DOMAIN todo : todo[i] = todo[k] => i = k)
              => /\ \A i, k \in DOMAIN Tail(todo) : Tail(todo)[i] = Tail(todo)[k] => i = k
                 /\ Head(todo) \notin TagsIn(Tail(todo))
<1>1. /\ Tail(todo) \in Seq(Tags) /\ Len(todo) \in Nat /\ DOMAIN todo = 1..Len(todo)
      /\ Len(Tail(todo)) = Len(todo) - 1 /\ DOMAIN Tail(todo) = 1..(Len(todo) - 1)
      /\ \A i \in 1..(Len(todo) - 1) : Tail(todo)[i] = todo[i + 1]
      /\ Head(todo) = todo[1] /\ 1 \in DOMAIN todo
  BY HeadTailProperties
<1> DEFINE n == Len(todo)
           rest == Tail(todo)
<1>2. \A i \in DOMAIN rest : i + 1 \in DOMAIN todo /\ rest[i] = todo[i + 1] /\ i + 1 # 1 /\ i \in Nat
  BY <1>1
<1> HIDE DEF rest
<1>3. TagsIn(rest) \subseteq TagsIn(todo)
  BY <1>2 DEF TagsIn
<1>4. Head(todo) \in TagsIn(todo)
  BY <1>1 DEF TagsIn
<1>5. ASSUME \A i, k \in DOMAIN todo : todo[i] = todo[k] => i = k
      PROVE  /\ \A i, k \in DOMAIN rest : rest[i] = rest[k] => i = k
             /\ Head(todo) \notin TagsIn(rest)
  <2>1. ASSUME NEW i \in DOMAIN rest, NEW k \in DOMAIN rest, rest[i] = rest[k]  PROVE i = k
    <3>1. i + 1 = k + 1
      BY <1>2, <1>5, <2>1
    <3>2. QED
      BY <1>2, <3>1
  <2>2. \A i \in DOMAIN rest : rest[i] # todo[1]
    BY <1>1, <1>2, <1>5
  <2>3. QED
    BY <1>1, <2>1, <2>2 DEF TagsIn
<1>6. QED
  BY <1>1, <1>3, <1>4, <1>5 DEF rest

\* The next round of a loop that leaves the configuration alone, or its end.
LEMMA AdvanceFine ==
  ASSUME IInv, NEW p \in Procs, job[p].todo # <<>>,
         job[p].cmd \in {"mtu", "update", "restart", "mode", "install", "wizard", "uninstall"},
         Advance(p), UNCHANGED mem
  PROVE  HandlersFine'
<1> DEFINE rest == Tail(job[p].todo)
           j == [job[p] EXCEPT !.todo = rest]
           l == Enter(job[p].cmd, rest)
<1>1. Fine(mem[p], pc[p], job[p]) /\ job[p] \in Job /\ At(mem[p], pc[p], job[p]) /\ Sound(mem[p])
  BY HandlerOf
<1>2. rest \in Seq(Tags) /\ TagsIn(rest) \subseteq TagsIn(job[p].todo)
  BY <1>1, TailTags DEF Job
<1> HIDE DEF rest
<1>3. j \in Job /\ j.todo = rest /\ j.cmd = job[p].cmd /\ j.mode = job[p].mode /\ j.new = job[p].new
  BY <1>1, <1>2 DEF Job
<1>4. l = IF rest = <<>>
          THEN [mtu |-> "done", update |-> "restartRouter", mode |-> "ensureRouter",
                restart |-> "restartRouter", install |-> "startRouter", wizard |-> "startRouter",
                uninstall |-> "removeConfigDir"][job[p].cmd]
          ELSE [mtu |-> "stop", update |-> "stop", mode |-> "restart", restart |-> "restart",
                install |-> "create", wizard |-> "create", uninstall |-> "stop"][job[p].cmd]
  BY DEF Enter, LoopStart, LoopEnd
<1> HIDE DEF j, l
<1>5. At(mem[p], l, j)
  BY <1>1, <1>2, <1>3, <1>4
     DEF At, MTUAt, UpdateAt, RestartAt, ModeAt, InstallAt, UninstallAt
<1>6. l \in Statement
  BY <1>4 DEF Statement
<1>7. Fine(mem[p], l, j)
  BY <1>1, <1>3, <1>5, <1>6 DEF Fine
<1>8. job' = [job EXCEPT ![p] = j] /\ Goto(p, l)
  BY DEF Advance, j, l, rest
<1>9. QED
  BY <1>7, <1>8, HandlerWorks DEF IInv

\* What follows an attempt to create or to start a service.
LEMMA AfterFailedFine ==
  ASSUME IInv, NEW p \in Procs, pc[p] \in {"create", "start"}, AfterFailed(p), UNCHANGED mem
  PROVE  HandlersFine'
<1>1. Fine(mem[p], pc[p], job[p]) /\ job[p].todo # <<>>
  BY HandlerOf, CurrentOf DEF OnCurrent
<1>2. CASE Warns(p)
  BY <1>1, <1>2, AdvanceFine DEF AfterFailed, Warns
<1>3. CASE ~Warns(p)
  <2>1. Fine(mem[p], "done", job[p])
    BY <1>1, DoneFine
  <2>2. Goto(p, "done") /\ UNCHANGED job
    BY <1>3 DEF AfterFailed
  <2>3. QED
    BY <2>1, <2>2, HandlerMoves DEF IInv
<1>4. QED
  BY <1>2, <1>3

LEMMA AfterUnitFine ==
  ASSUME IInv, NEW p \in Procs, pc[p] \in {"create", "start"}, AfterUnit(p), UNCHANGED mem
  PROVE  HandlersFine'
<1>1. Fine(mem[p], pc[p], job[p]) /\ job[p].todo # <<>>
  BY HandlerOf, CurrentOf DEF OnCurrent
<1>2. CASE Warns(p) \/ Installing(p)
  BY <1>1, <1>2, AdvanceFine DEF AfterUnit, Warns, Installing
<1>3. CASE ~(Warns(p) \/ Installing(p))
  <2> DEFINE l == IF job[p].cmd = "add" THEN "route" ELSE "done"
  <2>1. Fine(mem[p], "done", job[p])
    BY <1>1, DoneFine
  <2>2. job[p].cmd = "add" => Fine(mem[p], "route", job[p])
    BY <1>1 DEF Fine, At, AddAt, Statement
  <2>3. Fine(mem[p], l, job[p])
    BY <2>1, <2>2
  <2>4. Goto(p, l) /\ UNCHANGED job
    BY <1>3 DEF AfterUnit
  <2>5. QED
    BY <2>3, <2>4, HandlerMoves DEF IInv
<1>4. QED
  BY <1>2, <1>3

-------------------------------------------------------------------------------
(***************************************************************************)
(* Every step keeps the invariant                                          *)
(***************************************************************************)

\* Handlers return an error and leave everything as it is.
LEMMA ErrorFine ==
  ASSUME IInv, NEW p \in Procs, pc[p] # "idle", Goto(p, "done"),
         UNCHANGED <<host, mem, job, commands>>, Fault \/ NoFault
  PROVE  IInv'
<1>1. Fine(mem[p], "done", job[p])
  BY HandlerOf, DoneFine
<1>2. HandlersFine'
  BY <1>1, HandlerMoves DEF IInv
<1>3. QED
  BY <1>2, HostKept DEF IInv

LEMMA ServiceTyped ==
  ASSUME HostFine, NEW tag \in Tags,
         ServiceStop(tag) \/ ServiceStart(tag) \/ ServiceRestart(tag) \/ UNCHANGED running
  PROVE  running' \in Units
<1>1. CASE ServiceStop(tag)
  BY <1>1, HostTypes DEF ServiceStop, Units
<1>2. CASE ServiceStart(tag)
  BY <1>2, HostTypes DEF ServiceStart, Units
<1>3. CASE ServiceRestart(tag)
  BY <1>3, HostTypes DEF ServiceRestart, Units
<1>4. CASE UNCHANGED running
  BY <1>4, HostTypes
<1>5. QED
  BY <1>1, <1>2, <1>3, <1>4

\* slipgate start and stop: one step each.
LEMMA OneServiceFine ==
  ASSUME IInv, NEW p \in Procs, StartTunnel(p) \/ StopTunnel(p)  PROVE IInv'
<1>1. PICK tag \in TagsOf(Loaded) : ServiceStart(tag) \/ ServiceStop(tag)
  BY DEF StartTunnel, StopTunnel
<1>2. tag \in Tags
  BY <1>1, LoadedSound, TagsOfType DEF IInv
<1>3. running' \in Units
  BY <1>1, <1>2, ServiceTyped DEF IInv
<1>4. commands' \in 0..MaxCommands
  BY ManagerAssumption DEF IInv, HostFine, StartTunnel, StopTunnel
<1>5. UNCHANGED <<file, dir, unit, router, mem, pc, job, faults>>
  BY DEF StartTunnel, StopTunnel
<1>6. HostFine'
  BY <1>3, <1>4, <1>5 DEF IInv, HostFine, RouterTyped, Units
<1>7. HandlersFine'
  BY <1>5 DEF IInv, HandlersFine
<1>8. QED
  BY <1>6, <1>7 DEF IInv

\* The directory of a new tunnel, with its key files.
LEMMA SetUpDirFine ==
  ASSUME IInv, NEW p \in Procs, SetUpDir(p)  PROVE IInv'
<1> DEFINE c == mem[p]
           t == job[p].new
           l == IF Installing(p) THEN "gather" ELSE "register"
<1>1. /\ Sound(c) /\ job[p] \in Job /\ At(c, "keys", job[p])
      /\ UNCHANGED <<file, unit, running, router, mem, commands>> /\ Goto(p, l) /\ NoFault
  BY HandlerOf DEF SetUpDir
<1>2. IsNew(c, t) /\ t \in Tunnel /\ t.tag \in Tags
  <2>1. IsNew(c, t)
    BY <1>1 DEF At, AddAt, EditAt, RemoveAt, MTUAt, UpdateAt, RestartAt, ModeAt, SwitchAt,
                InstallAt, UninstallAt, Job, CommandNames
  <2>2. QED
    BY <2>1 DEF IsNew, Tunnel
<1>3. PICK k \in Keys \cup {NoKey} :
        /\ dir' \in Dirs
        /\ job' = [job EXCEPT ![p].new.pub = k] \/ UNCHANGED job
  <2>1. CASE HasKeyFiles(t)
    <3>1. PICK k \in Keys : /\ dir' = [dir EXCEPT ![t.tag] = k]
                            /\ job' = [job EXCEPT ![p].new.pub = IF HasKeyPair(t) THEN k ELSE NoKey]
      BY <2>1 DEF SetUpDir
    <3>2. dir' \in Dirs
      BY <1>2, <3>1, HostTypes DEF IInv, Dirs
    <3>3. WITNESS (IF HasKeyPair(t) THEN k ELSE NoKey) \in Keys \cup {NoKey}
    <3>4. QED
      BY <3>1, <3>2
  <2>2. CASE ~HasKeyFiles(t)
    <3>1. /\ dir' = [dir EXCEPT ![t.tag] = IF @ = NoDir /\ MakesDir(p) THEN NoFiles ELSE @]
          /\ UNCHANGED job
      BY <2>2 DEF SetUpDir
    <3>2. dir' \in Dirs
      BY <1>2, <3>1, HostTypes DEF IInv, Dirs
    <3>3. WITNESS NoKey \in Keys \cup {NoKey}
    <3>4. QED
      BY <3>1, <3>2
  <2>3. QED
    BY <2>1, <2>2
<1>4. PICK v \in Tunnel : /\ v.tag = t.tag /\ v.transport = t.transport /\ v.domain = t.domain
                          /\ job' = [job EXCEPT ![p] = [job[p] EXCEPT !.new = v]]
  <2>1. CASE job' = [job EXCEPT ![p].new.pub = k]
    <3> DEFINE v == [t EXCEPT !.pub = k]
    <3>1. v \in Tunnel /\ v.tag = t.tag /\ v.transport = t.transport /\ v.domain = t.domain
      BY <1>2 DEF Tunnel
    <3>2. job' = [job EXCEPT ![p] = [job[p] EXCEPT !.new = v]]
      BY <2>1
    <3> HIDE DEF v
    <3>3. QED
      BY <3>1, <3>2
  <2>2. CASE UNCHANGED job
    <3>1. job' = [job EXCEPT ![p] = [job[p] EXCEPT !.new = t]]
      BY <1>1, <2>2 DEF Job, IInv, HandlersFine
    <3>2. QED
      BY <1>2, <3>1
  <2>3. QED
    BY <1>3, <2>1, <2>2
<1> DEFINE j == [job[p] EXCEPT !.new = v]
<1>5. /\ j \in Job /\ j.new = v /\ j.cmd = job[p].cmd /\ j.todo = job[p].todo
      /\ j.mode = job[p].mode
  BY <1>1 DEF Job
<1> HIDE DEF j
<1>6. IsNew(c, v)
  BY <1>2, <1>4 DEF IsNew, NeedsDomain, IsDirectTransport
<1>7. Fine(c, l, j)
  <2>1. At(c, l, j)
    BY <1>1, <1>4, <1>5, <1>6
       DEF At, AddAt, EditAt, RemoveAt, MTUAt, UpdateAt, RestartAt, ModeAt, SwitchAt,
           InstallAt, UninstallAt, Installing
  <2>2. QED
    BY <1>1, <1>5, <2>1 DEF Fine, Statement
<1>8. HandlersFine'
  BY <1>1, <1>4, <1>7, HandlerWorks DEF IInv, j
<1>9. HostFine'
  BY <1>1, <1>3, HostChanged, HostTypes DEF IInv
<1>10. QED
  BY <1>8, <1>9 DEF IInv

LEMMA SetUpDirFailsFine ==
  ASSUME IInv, NEW p \in Procs, SetUpDirFails(p)  PROVE IInv'
<1> DEFINE t == job[p].new
<1>1. /\ Fine(mem[p], "keys", job[p])
      /\ UNCHANGED <<file, unit, running, router, mem, job, commands>> /\ Goto(p, "done") /\ Fault
  BY HandlerOf DEF SetUpDirFails
<1>2. t.tag \in Tags
  BY <1>1 DEF Fine, At, AddAt, EditAt, RemoveAt, MTUAt, UpdateAt, RestartAt, ModeAt, SwitchAt,
              InstallAt, UninstallAt, IsNew, Tunnel, Job, CommandNames
<1>3. dir' \in Dirs
  <2>1. PICK content \in {dir[t.tag]} \cup {NoFiles} \cup Keys : dir' = [dir EXCEPT ![t.tag] = content]
    BY DEF SetUpDirFails
  <2>2. QED
    BY <1>2, <2>1, HostTypes DEF IInv, Dirs
<1>4. HostFine'
  BY <1>1, <1>3, HostChanged, HostTypes DEF IInv
<1>5. HandlersFine'
  BY <1>1, DoneFine, HandlerMoves DEF IInv
<1>6. QED
  BY <1>4, <1>5 DEF IInv

LEMMA RegisterTunnelFine ==
  ASSUME IInv, NEW p \in Procs, RegisterTunnel(p)  PROVE IInv'
<1> DEFINE t == job[p].new
           c == Register(mem[p], t)
<1>1. Sound(mem[p]) /\ job[p] \in Job /\ At(mem[p], "register", job[p])
  BY HandlerOf DEF RegisterTunnel
<1>2. job[p].cmd = "add" /\ AddAt(mem[p], "register", job[p])
  BY <1>1 DEF At, EditAt, RemoveAt, MTUAt, UpdateAt, RestartAt, ModeAt, SwitchAt,
              InstallAt, UninstallAt, Job, CommandNames
<1>3. Sound(c) /\ TagsOf(c) = TagsOf(mem[p]) \cup {t.tag}
  BY <1>1, <1>2, RegisterSound DEF AddAt, IsNew
<1> HIDE DEF c
<1>4. Fine(c, "truncate", job[p])
  BY <1>1, <1>2, <1>3 DEF Fine, At, AddAt, Statement
<1>5. QED
  BY <1>4, HandlerChanges, HostKept DEF IInv, RegisterTunnel, c

\* router.AddTunnel
LEMMA RouteTunnelFine ==
  ASSUME IInv, NEW p \in Procs, RouteTunnel(p)  PROVE IInv'
<1> DEFINE j == [job[p] EXCEPT !.shared = IF @ = NoTag THEN job[p].new.tag ELSE @]
<1>1. Sound(mem[p]) /\ job[p] \in Job /\ At(mem[p], "route", job[p])
  BY HandlerOf DEF RouteTunnel
<1>2. job[p].cmd = "add" /\ AddAt(mem[p], "route", job[p])
  BY <1>1 DEF At, EditAt, RemoveAt, MTUAt, UpdateAt, RestartAt, ModeAt, SwitchAt,
              InstallAt, UninstallAt, Job, CommandNames
<1>3. job[p].new.tag \in Tags
  BY <1>2 DEF AddAt, Tunnel
<1>4. j \in Job /\ j.cmd = job[p].cmd /\ j.new = job[p].new /\ j.todo = job[p].todo
  BY <1>1, <1>3 DEF Job
<1>5. job' = [job EXCEPT ![p] = j]
  BY DEF RouteTunnel
<1> HIDE DEF j
<1>6. \A l \in {"done", "reroute", "createRouter"} : Fine(mem[p], l, j)
  BY <1>1, <1>2, <1>4 DEF Fine, At, AddAt, Statement
<1>7. PICK l \in {"done", "reroute", "createRouter"} : Goto(p, l)
  BY DEF RouteTunnel, AddToRouter
<1>8. HandlersFine'
  BY <1>5, <1>6, <1>7, HandlerWorks DEF IInv, RouteTunnel
<1>9. QED
  BY <1>8, HostKept DEF IInv, RouteTunnel

\* The restart after it, and the one after router.RemoveTunnel.
LEMMA RerouteFine ==
  ASSUME IInv, NEW p \in Procs, Reroute(p)  PROVE IInv'
<1>1. Fine(mem[p], "reroute", job[p]) /\ job[p] \in Job /\ At(mem[p], "reroute", job[p])
  BY HandlerOf DEF Reroute
<1>2. \/ job[p].cmd = "add"
      \/ job[p].cmd = "remove" /\ RemoveAt(mem[p], "reroute", job[p])
  BY <1>1 DEF At, EditAt, MTUAt, UpdateAt, RestartAt, ModeAt, SwitchAt, InstallAt, UninstallAt,
              Job, CommandNames
<1>3. Fine(mem[p], "done", job[p])
  BY <1>1, DoneFine
<1>4. job[p].cmd = "remove" => Fine(mem[p], "forget", job[p])
  BY <1>1, <1>2 DEF Fine, At, RemoveAt, Statement
<1>5. RouterTyped(router')
  BY HostTypes, RouterInTyped DEF IInv, Reroute, RouterRestart, RouterStates
<1>6. QED
  BY <1>2, <1>3, <1>4, <1>5, HandlerMoves, HostChanged, HostTypes DEF IInv, Reroute

-------------------------------------------------------------------------------
\* Config.Save

LEMMA TruncateFine ==
  ASSUME IInv, NEW p \in Procs, Truncate(p)  PROVE IInv'
<1>1. Fine(mem[p], "truncate", job[p])
  BY HandlerOf DEF Truncate
<1>2. At(mem[p], "write", job[p])
  BY <1>1 DEF Fine, At, AddAt, EditAt, RemoveAt, MTUAt, UpdateAt, RestartAt, ModeAt, SwitchAt,
              InstallAt, UninstallAt
<1>3. Fine(mem[p], "write", job[p])
  BY <1>1, <1>2 DEF Fine, Statement
<1>4. HandlersFine'
  BY <1>3, HandlerMoves DEF IInv, Truncate
<1>5. HostFine'
  BY DEF IInv, HostFine, Truncate, NoFault, RouterTyped
<1>6. QED
  BY <1>4, <1>5 DEF IInv

\* The file is written from a sound copy.
LEMMA WriteFileFine ==
  ASSUME IInv, NEW p \in Procs, WriteFile(p)  PROVE IInv'
<1> DEFINE l == IF job[p].cmd = "edit" /\ IsDirectTransport(job[p].new) THEN "done"
                ELSE IF Installing(p) THEN AfterInstallSave(p) ELSE AfterSave[job[p].cmd]
<1>1. /\ Fine(mem[p], "write", job[p]) /\ Sound(mem[p]) /\ mem[p] \in Config /\ job[p] \in Job
      /\ At(mem[p], "write", job[p])
  BY HandlerOf DEF WriteFile
<1>2. Fine(mem[p], "done", job[p])
  BY <1>1, DoneFine
<1>3. job[p].cmd = "add" => Fine(mem[p], "create", job[p])
  BY <1>1 DEF Fine, At, AddAt, Statement
<1>4. job[p].cmd = "edit" => Fine(mem[p], "stop", job[p])
  BY <1>1 DEF Fine, At, EditAt, Statement
<1>5. job[p].cmd = "mtu" => Fine(mem[p], "stop", job[p])
  BY <1>1 DEF Fine, At, MTUAt, Statement
<1>6. Installing(p) => Fine(mem[p], AfterInstallSave(p), job[p])
  <2>1. /\ AfterInstallSave(p) \in {"collect", "multi", "create"}
        /\ AfterInstallSave(p) # "collect" => job[p].todo # <<>>
    BY DEF AfterInstallSave
  <2>2. QED
    BY <1>1, <2>1 DEF Fine, At, InstallAt, Statement, Installing
<1>7. job[p].cmd \in {"add", "edit", "mtu", "remove", "mode", "switch", "import", "install", "wizard"}
  BY <1>1 DEF At, UpdateAt, RestartAt, UninstallAt, Job, CommandNames
<1>8. Fine(mem[p], l, job[p])
  BY <1>2, <1>3, <1>4, <1>5, <1>6, <1>7 DEF AfterSave, Installing
<1> HIDE DEF l
<1>9. Goto(p, l)
  BY DEF WriteFile, l
<1>10. HandlersFine'
  BY <1>8, <1>9, HandlerMoves DEF IInv, WriteFile
<1>11. HostFine'
  BY <1>1 DEF IInv, HostFine, WriteFile, NoFault, RouterTyped
<1>12. QED
  BY <1>10, <1>11 DEF IInv

LEMMA SaveFailsFine ==
  ASSUME IInv, NEW p \in Procs, SaveFails(p)  PROVE IInv'
<1> DEFINE l == IF job[p].cmd = "wizard" /\ job[p].mode = "multi" THEN "create" ELSE "done"
<1>1. Fine(mem[p], pc[p], job[p]) /\ pc[p] \in {"truncate", "write"}
  BY HandlerOf DEF SaveFails
<1>2. Fine(mem[p], "done", job[p])
  BY <1>1, DoneFine
<1>3. l = "create" => Fine(mem[p], "create", job[p])
  BY <1>1 DEF Fine, At, InstallAt, Statement
<1>4. Fine(mem[p], l, job[p])
  BY <1>2, <1>3
<1> HIDE DEF l
<1>5. Goto(p, l)
  BY DEF SaveFails, l
<1>6. QED
  BY <1>4, <1>5, HandlerMoves, HostKept DEF IInv, SaveFails

-------------------------------------------------------------------------------
\* Services of tunnels

LEMMA StopFine ==
  ASSUME IInv, NEW p \in Procs, Stop(p)  PROVE IInv'
<1> DEFINE l == IF Removing(p) THEN "removeUnit" ELSE "create"
<1>1. /\ Fine(mem[p], "stop", job[p]) /\ Sound(mem[p]) /\ mem[p] \in Config /\ job[p] \in Job
      /\ At(mem[p], "stop", job[p]) /\ Current(p) \in Tags
  BY HandlerOf, CurrentOf DEF Stop, OnCurrent
<1>2. job[p].cmd \in {"edit", "remove", "mtu", "update", "uninstall"}
  BY <1>1 DEF At, AddAt, RestartAt, ModeAt, SwitchAt, InstallAt, Job, CommandNames
<1>3. job[p].cmd = "edit" => EditAt(mem[p], l, job[p])
  <2>1. SUFFICES ASSUME job[p].cmd = "edit"  PROVE EditAt(mem[p], l, job[p])
    OBVIOUS
  <2>2. EditAt(mem[p], "stop", job[p])
    BY <1>1, <2>1 DEF At
  <2>3. PICK tag \in TagsOf(mem[p]) :
          job[p].todo = <<tag>> /\ (tag = job[p].new.tag \/ job[p].new.tag \notin TagsOf(mem[p]))
    BY <2>2 DEF EditAt
  <2>4. Current(p) = tag
    BY <1>1, <2>3, OneTag, TagsOfType DEF Current
  <2>5. l = IF tag # job[p].new.tag THEN "removeUnit" ELSE "create"
    BY <2>1, <2>4 DEF Removing
  <2> HIDE DEF l
  <2>6. QED
    BY <2>2, <2>3, <2>5 DEF EditAt
<1>4. job[p].cmd # "edit" => l = IF job[p].cmd \in {"remove", "uninstall"} THEN "removeUnit" ELSE "create"
  BY DEF Removing
<1>5. l \in Statement
  BY DEF Statement
<1> HIDE DEF l
<1>6. At(mem[p], l, job[p])
  BY <1>1, <1>2, <1>3, <1>4 DEF At, RemoveAt, MTUAt, UpdateAt, UninstallAt
<1>7. Fine(mem[p], l, job[p])
  BY <1>1, <1>5, <1>6 DEF Fine
<1>8. HandlersFine'
  BY <1>7, HandlerMoves DEF IInv, Stop, l
<1>9. running' \in Units
  BY <1>1, ServiceTyped DEF IInv, Stop
<1>10. HostFine'
  BY <1>9, HostChanged, HostTypes DEF IInv, Stop
<1>11. QED
  BY <1>8, <1>10 DEF IInv

\* A rename: from here on the copy has the new tag.
LEMMA RemoveUnitFine ==
  ASSUME IInv, NEW p \in Procs, RemoveUnit(p)  PROVE IInv'
<1>1. /\ Fine(mem[p], "removeUnit", job[p]) /\ Sound(mem[p]) /\ mem[p] \in Config /\ job[p] \in Job
      /\ At(mem[p], "removeUnit", job[p]) /\ Current(p) \in Tags /\ job[p].todo # <<>>
  BY HandlerOf, CurrentOf DEF RemoveUnit, OnCurrent
<1>2. job[p].cmd \in {"edit", "remove", "uninstall"}
  BY <1>1 DEF At, AddAt, MTUAt, UpdateAt, RestartAt, ModeAt, SwitchAt, InstallAt, Job, CommandNames
<1>3. HostFine'
  <2>1. unit' \in Units
    BY <1>1, HostTypes DEF IInv, RemoveUnit, ServiceRemove, Units
  <2>2. QED
    BY <2>1, HostChanged, HostTypes DEF IInv, RemoveUnit
<1>4. CASE job[p].cmd = "remove"
  <2>1. Fine(mem[p], "unroute", job[p])
    BY <1>1, <1>4 DEF Fine, At, RemoveAt, Statement
  <2>2. Goto(p, "unroute") /\ UNCHANGED <<mem, job>>
    BY <1>4 DEF RemoveUnit
  <2>3. QED
    BY <1>3, <2>1, <2>2, HandlerMoves DEF IInv
<1>5. CASE job[p].cmd = "uninstall"
  <2>1. Advance(p) /\ UNCHANGED mem
    BY <1>5 DEF RemoveUnit
  <2>2. QED
    BY <1>1, <1>3, <1>5, <2>1, AdvanceFine DEF IInv
<1>6. CASE job[p].cmd = "edit"
  <2> DEFINE new == job[p].new.tag
             c == Rename(mem[p], Current(p), new)
             j == [job[p] EXCEPT !.todo = <<new>>]
  <2>1. PICK tag \in TagsOf(mem[p]) : job[p].todo = <<tag>> /\ new \notin TagsOf(mem[p])
    BY <1>1, <1>6 DEF At, EditAt
  <2>2. Current(p) = tag /\ job[p].new \in Tunnel /\ job[p].old \in Tunnel /\ new \in Tags
    BY <1>1, <1>6, <2>1, OneTag, TagsOfType DEF Current, At, EditAt, Tunnel
  <2>3. Sound(c) /\ new \in TagsOf(c)
    BY <1>1, <2>1, <2>2, RenameSound
  <2>4. j \in Job /\ j.cmd = "edit" /\ j.todo = <<new>> /\ j.new = job[p].new /\ j.old = job[p].old
    BY <1>1, <1>6, <2>2, OneTag DEF Job
  <2> HIDE DEF c, j
  <2>5. At(c, "settings", j)
    BY <2>2, <2>3, <2>4 DEF At, EditAt
  <2>6. Fine(c, "settings", j)
    BY <2>3, <2>4, <2>5 DEF Fine, Statement
  <2>7. /\ mem' = [mem EXCEPT ![p] = c] /\ job' = [job EXCEPT ![p] = j]
        /\ pc' = [pc EXCEPT ![p] = "settings"]
    BY <1>6 DEF RemoveUnit, Goto, c, j
  <2>8. QED
    BY <1>3, <2>6, <2>7, OneHandler DEF IInv
<1>7. QED
  BY <1>2, <1>4, <1>5, <1>6

\* The tunnel in hand, and its domain.
LEMMA CurrentTunnel ==
  ASSUME IInv, NEW p \in Procs, pc[p] \in OnTunnel
  PROVE  LET t == GetTunnel(mem[p], Current(p))
         IN  /\ Current(p) \in TagsOf(mem[p]) /\ t \in Tunnel /\ t.tag = Current(p) /\ t.tag \in Tags
             /\ NeedsDomain(t) => t.domain # NoDomain
<1>1. Sound(mem[p]) /\ mem[p] \in Config /\ Current(p) \in TagsOf(mem[p])
  BY HandlerOf, CurrentOf
<1>2. QED
  BY <1>1, GetTunnelFound, IndexOfFound, TagsOfType DEF Sound, Domained, GetTunnel

LEMMA CreateFine ==
  ASSUME IInv, NEW p \in Procs, Create(p) \/ CreateFails(p)  PROVE IInv'
<1> DEFINE t == GetTunnel(mem[p], Current(p))
<1>1. /\ Fine(mem[p], "create", job[p]) /\ pc[p] = "create"
      /\ job[p] \in Job /\ At(mem[p], "create", job[p]) /\ t \in Tunnel /\ t.tag \in Tags
  BY HandlerOf, CurrentTunnel DEF Create, CreateFails, OnTunnel
<1> DEFINE written == IF t.transport = "naive" THEN [dir EXCEPT ![t.tag] = Caddyfile] ELSE dir
           made    == [unit EXCEPT ![t.tag] = t]
<1>2. written \in Dirs /\ made \in Units
  BY <1>1, HostTypes DEF IInv, Dirs, Units
<1> HIDE DEF written, made, t
<1>3. dir' \in {dir, written} /\ unit' \in {unit, made}
  BY DEF Create, CreateFails, t, written, made
<1>4. UNCHANGED <<file, running, router, mem, commands>> /\ (Fault \/ NoFault)
  BY DEF Create, CreateFails
<1>5. HostFine'
  BY <1>2, <1>3, <1>4, HostChanged, HostTypes DEF IInv
<1>6. HandlersFine'
  <2>1. CASE CreateFails(p)
    BY <1>1, <1>4, <2>1, AfterFailedFine DEF CreateFails
  <2>2. CASE Create(p) /\ ~HasUnit(t)
    BY <1>1, <1>4, <2>2, AfterUnitFine DEF Create, t
  <2>3. CASE Create(p) /\ HasUnit(t)
    <3>1. Goto(p, "start") /\ UNCHANGED job
      BY <2>3 DEF Create, t
    <3>2. At(mem[p], "start", job[p])
      BY <1>1 DEF At, AddAt, EditAt, RemoveAt, MTUAt, UpdateAt, RestartAt, ModeAt, SwitchAt,
                  InstallAt, UninstallAt
    <3>3. Fine(mem[p], "start", job[p])
      BY <1>1, <3>2 DEF Fine, Statement
    <3>4. QED
      BY <1>4, <3>1, <3>3, HandlerMoves DEF IInv
  <2>4. QED
    BY <2>1, <2>2, <2>3
<1>7. QED
  BY <1>5, <1>6 DEF IInv

LEMMA StartFine ==
  ASSUME IInv, NEW p \in Procs, Start(p) \/ StartFails(p)  PROVE IInv'
<1>1. pc[p] \in {"create", "start"} /\ GetTunnel(mem[p], Current(p)).tag \in Tags
  BY CurrentTunnel DEF Start, StartFails, OnTunnel
<1>2. CASE Start(p)
  <2>1. running' \in Units
    BY <1>1, <1>2, ServiceTyped DEF IInv, Start
  <2>2. UNCHANGED <<file, dir, unit, router, mem, commands>> /\ NoFault /\ AfterUnit(p)
    BY <1>2 DEF Start
  <2>3. QED
    BY <1>1, <2>1, <2>2, AfterUnitFine, HostChanged, HostTypes DEF IInv
<1>3. CASE StartFails(p)
  <2>1. UNCHANGED <<host, mem, commands>> /\ (Fault \/ NoFault) /\ AfterFailed(p)
    BY <1>3 DEF StartFails
  <2>2. QED
    BY <1>1, <2>1, AfterFailedFine, HostKept DEF IInv
<1>4. QED
  BY <1>2, <1>3

LEMMA RestartFine ==
  ASSUME IInv, NEW p \in Procs, Restart(p) \/ RestartFails(p)  PROVE IInv'
<1>1. /\ Fine(mem[p], "restart", job[p]) /\ At(mem[p], "restart", job[p]) /\ job[p] \in Job
      /\ job[p].todo # <<>> /\ Current(p) \in Tags /\ pc[p] = "restart"
  BY HandlerOf, CurrentOf DEF Restart, RestartFails, OnCurrent
<1>2. job[p].cmd \in {"restart", "mode"}
  BY <1>1 DEF At, AddAt, EditAt, RemoveAt, MTUAt, UpdateAt, SwitchAt, InstallAt, UninstallAt, Job, CommandNames
<1>3. /\ UNCHANGED <<file, dir, unit, router, mem, commands>> /\ (Fault \/ NoFault)
      /\ ServiceRestart(Current(p)) \/ UNCHANGED running
      /\ Advance(p) \/ (Goto(p, "done") /\ UNCHANGED job)
  BY DEF Restart, RestartFails, host
<1>4. HostFine'
  <2>1. running' \in Units
    BY <1>1, <1>3, ServiceTyped DEF IInv
  <2>2. QED
    BY <1>3, <2>1, HostChanged, HostTypes DEF IInv
<1>5. CASE Advance(p)
  BY <1>1, <1>2, <1>3, <1>4, <1>5, AdvanceFine DEF IInv
<1>6. CASE Goto(p, "done") /\ UNCHANGED job
  BY <1>1, <1>3, <1>4, <1>6, DoneFine, HandlerMoves DEF IInv
<1>7. QED
  BY <1>3, <1>5, <1>6

-------------------------------------------------------------------------------
\* edit

\* A handler at one of the statements that only handleTunnelEdit has.
LEMMA EditOf ==
  ASSUME IInv, NEW p \in Procs, pc[p] \in {"renameDir", "settings", "importKey", "finish"}
  PROVE  /\ job[p].cmd = "edit" /\ EditAt(mem[p], pc[p], job[p])
         /\ job[p].old.tag \in Tags /\ job[p].new.tag \in Tags
<1>1. At(mem[p], pc[p], job[p]) /\ job[p] \in Job
  BY HandlerOf
<1>2. job[p].cmd = "edit"
  BY <1>1 DEF At, AddAt, RemoveAt, MTUAt, UpdateAt, RestartAt, ModeAt, SwitchAt, InstallAt,
              UninstallAt, Job, CommandNames
<1>3. EditAt(mem[p], pc[p], job[p])
  BY <1>1, <1>2 DEF At
<1>4. QED
  BY <1>2, <1>3 DEF EditAt, Tunnel

LEMMA RenameDirFine ==
  ASSUME IInv, NEW p \in Procs, RenameDir(p)  PROVE IInv'
<1>1. /\ Fine(mem[p], "renameDir", job[p]) /\ EditAt(mem[p], "renameDir", job[p])
      /\ job[p].cmd = "edit" /\ job[p].old.tag \in Tags /\ job[p].new.tag \in Tags
  BY HandlerOf, EditOf DEF RenameDir
<1>2. Fine(mem[p], "stop", job[p])
  BY <1>1 DEF Fine, At, EditAt, Statement
<1>3. dir' \in Dirs
  BY <1>1, HostTypes DEF IInv, Dirs, RenameDir
<1>4. QED
  BY <1>2, <1>3, HandlerMoves, HostChanged, HostTypes DEF IInv, RenameDir

\* The tunnel is written through its pointer and keeps its tag.
LEMMA EditFine ==
  ASSUME IInv, NEW p \in Procs, pc[p] \in {"settings", "importKey"},
         NEW t \in Tunnel, t.tag = Current(p), NeedsDomain(t) => t.domain # NoDomain,
         NEW l \in {"importKey", "finish"}, Goto(p, l), UNCHANGED job,
         mem' = [mem EXCEPT ![p] = Replace(@, Current(p), t)]
  PROVE  HandlersFine'
<1> DEFINE c == Replace(mem[p], Current(p), t)
<1>1. Sound(mem[p]) /\ job[p] \in Job /\ job[p].cmd = "edit" /\ EditAt(mem[p], pc[p], job[p])
  BY HandlerOf, EditOf
<1>2. Current(p) \in TagsOf(mem[p])
  BY CurrentTunnel DEF OnTunnel
<1>3. Sound(c) /\ TagsOf(c) = TagsOf(mem[p])
  <2>1. Sound(c) /\ TagsOf(c) = (TagsOf(mem[p]) \ {Current(p)}) \cup {t.tag}
    BY <1>1, <1>2, ReplaceSound
  <2> HIDE DEF c
  <2>2. QED
    BY <1>2, <2>1
<1> HIDE DEF c
<1>4. EditAt(c, l, job[p])
  BY <1>1, <1>3 DEF EditAt
<1>5. Fine(c, l, job[p])
  BY <1>1, <1>3, <1>4 DEF Fine, At, Statement
<1>6. mem' = [mem EXCEPT ![p] = c]
  BY DEF c
<1>7. QED
  BY <1>5, <1>6, HandlerChanges DEF IInv

LEMMA SettingsFine ==
  ASSUME IInv, NEW p \in Procs, Settings(p)  PROVE IInv'
<1> DEFINE t == GetTunnel(mem[p], Current(p))
           domains == IF IsDirectTransport(t) THEN {t.domain} ELSE {t.domain} \cup Domains
           mtus    == IF HasSettings(t) THEN Mtus ELSE {t.mtu}
<1>1. /\ t \in Tunnel /\ t.tag = Current(p) /\ (NeedsDomain(t) => t.domain # NoDomain)
      /\ pc[p] \in {"settings", "importKey"}
  BY CurrentTunnel DEF Settings, OnTunnel
<1>2. PICK d \in domains, m \in mtus :
        mem' = [mem EXCEPT ![p] = Replace(@, t.tag, [t EXCEPT !.domain = d, !.mtu = m])]
  BY DEF Settings
<1> DEFINE new == [t EXCEPT !.domain = d, !.mtu = m]
<1>3. /\ d \in Domains \cup {NoDomain} /\ m \in Mtus
      /\ d = t.domain \/ d \in Domains
  BY <1>1 DEF Tunnel
<1>4. new \in Tunnel /\ new.tag = Current(p) /\ new.transport = t.transport /\ new.domain = d
  BY <1>1, <1>3 DEF Tunnel
<1>5. PICK l \in {"importKey", "finish"} : Goto(p, l)
  BY DEF Settings
<1>6. UNCHANGED <<host, job, commands>> /\ NoFault
  BY DEF Settings
<1> HIDE DEF new, t, domains, mtus
<1>7. NeedsDomain(new) => new.domain # NoDomain
  BY <1>1, <1>3, <1>4, ConfigurationAssumption DEF NeedsDomain, IsDirectTransport
<1>8. mem' = [mem EXCEPT ![p] = Replace(@, Current(p), new)]
  BY <1>1, <1>2 DEF new
<1>9. HandlersFine'
  BY <1>1, <1>4, <1>5, <1>6, <1>7, <1>8, EditFine
<1>10. QED
  BY <1>6, <1>9, HostKept DEF IInv

LEMMA ImportKeyFine ==
  ASSUME IInv, NEW p \in Procs, ImportKey(p)  PROVE IInv'
<1> DEFINE t == GetTunnel(mem[p], Current(p))
<1>1. /\ t \in Tunnel /\ t.tag = Current(p) /\ (NeedsDomain(t) => t.domain # NoDomain)
      /\ pc[p] \in {"settings", "importKey"} /\ t.tag \in Tags
      /\ EditAt(mem[p], "importKey", job[p]) /\ Fine(mem[p], "importKey", job[p])
      /\ job[p].cmd = "edit"
  BY CurrentTunnel, EditOf, HandlerOf DEF ImportKey, OnTunnel
<1>2. UNCHANGED <<file, unit, running, router, job, commands>> /\ NoFault /\ Goto(p, "finish")
  BY DEF ImportKey
<1>3. CASE dir[t.tag] = NoDir
  <2>1. UNCHANGED <<dir, mem>>
    BY <1>3 DEF ImportKey
  <2>2. Fine(mem[p], "finish", job[p])
    BY <1>1 DEF Fine, At, EditAt, Statement
  <2>3. QED
    BY <1>2, <2>1, <2>2, HandlerMoves, HostChanged, HostTypes DEF IInv
<1>4. CASE dir[t.tag] # NoDir
  <2>1. PICK k \in Keys :
          /\ dir' = [dir EXCEPT ![t.tag] = k]
          /\ mem' = [mem EXCEPT ![p] = Replace(@, t.tag, [t EXCEPT !.keyDir = t.tag, !.pub = k])]
    BY <1>4 DEF ImportKey
  <2> DEFINE new == [t EXCEPT !.keyDir = t.tag, !.pub = k]
  <2>2. new \in Tunnel /\ new.tag = Current(p) /\ new.transport = t.transport /\ new.domain = t.domain
    BY <1>1 DEF Tunnel
  <2>3. dir' \in Dirs
    BY <1>1, <2>1, HostTypes DEF IInv, Dirs
  <2>4. mem' = [mem EXCEPT ![p] = Replace(@, Current(p), new)]
    BY <1>1, <2>1
  <2> HIDE DEF new, t
  <2>5. NeedsDomain(new) => new.domain # NoDomain
    BY <1>1, <2>2 DEF NeedsDomain, IsDirectTransport
  <2>6. HandlersFine'
    BY <1>1, <1>2, <2>2, <2>4, <2>5, EditFine
  <2>7. QED
    BY <1>2, <2>3, <2>6, HostChanged, HostTypes DEF IInv
<1>5. QED
  BY <1>3, <1>4

LEMMA ImportKeyFailsFine ==
  ASSUME IInv, NEW p \in Procs, ImportKeyFails(p)  PROVE IInv'
<1>1. /\ Fine(mem[p], "importKey", job[p]) /\ EditAt(mem[p], "importKey", job[p])
      /\ job[p].cmd = "edit" /\ Current(p) \in Tags
  BY HandlerOf, EditOf, CurrentOf DEF ImportKeyFails, OnCurrent
<1>2. Fine(mem[p], "finish", job[p])
  BY <1>1 DEF Fine, At, EditAt, Statement
<1>3. dir' \in Dirs
  BY <1>1, HostTypes DEF IInv, Dirs, ImportKeyFails
<1>4. QED
  BY <1>2, <1>3, HandlerMoves, HostChanged, HostTypes DEF IInv, ImportKeyFails

LEMMA FinishEditFine ==
  ASSUME IInv, NEW p \in Procs, FinishEdit(p)  PROVE IInv'
<1> DEFINE l == IF GetTunnel(mem[p], Current(p)) = job[p].old THEN "done" ELSE "truncate"
<1>1. /\ Fine(mem[p], "finish", job[p]) /\ EditAt(mem[p], "finish", job[p]) /\ job[p].cmd = "edit"
  BY HandlerOf, EditOf DEF FinishEdit
<1>2. Fine(mem[p], l, job[p])
  BY <1>1 DEF Fine, At, EditAt, Statement
<1> HIDE DEF l
<1>3. Goto(p, l)
  BY DEF FinishEdit, l
<1>4. QED
  BY <1>2, <1>3, HandlerMoves, HostKept DEF IInv, FinishEdit

-------------------------------------------------------------------------------
\* remove

LEMMA RemoveOf ==
  ASSUME IInv, NEW p \in Procs, pc[p] \in {"unroute", "forget"}
  PROVE  job[p].cmd = "remove" /\ RemoveAt(mem[p], pc[p], job[p])
<1>1. At(mem[p], pc[p], job[p]) /\ job[p] \in Job
  BY HandlerOf
<1>2. job[p].cmd = "remove"
  BY <1>1 DEF At, AddAt, EditAt, MTUAt, UpdateAt, RestartAt, ModeAt, SwitchAt, InstallAt,
              UninstallAt, Job, CommandNames
<1>3. QED
  BY <1>1, <1>2 DEF At

LEMMA UnrouteFine ==
  ASSUME IInv, NEW p \in Procs, Unroute(p)  PROVE IInv'
<1>1. Fine(mem[p], "unroute", job[p]) /\ RemoveAt(mem[p], "unroute", job[p]) /\ job[p].cmd = "remove"
  BY HandlerOf, RemoveOf DEF Unroute
<1>2. \A l \in {"reroute", "forget"} : Fine(mem[p], l, job[p])
  BY <1>1 DEF Fine, At, RemoveAt, Statement
<1>3. PICK l \in {"reroute", "forget"} : Goto(p, l)
  BY DEF Unroute
<1>4. QED
  BY <1>2, <1>3, HandlerMoves, HostKept DEF IInv, Unroute

\* The tunnel in hand leaves the copy, and its tag the tags to go.
LEMMA ForgetTunnelFine ==
  ASSUME IInv, NEW p \in Procs, ForgetTunnel(p)  PROVE IInv'
<1> DEFINE c == Deregister(mem[p], Current(p))
           rest == Tail(job[p].todo)
           l == Enter(job[p].cmd, rest)
           j == [job[p] EXCEPT !.todo = rest]
<1>1. /\ Sound(mem[p]) /\ job[p] \in Job /\ job[p].cmd = "remove"
      /\ RemoveAt(mem[p], "forget", job[p]) /\ job[p].todo # <<>> /\ job[p].todo \in Seq(Tags)
      /\ Current(p) \in TagsOf(mem[p]) /\ Current(p) \in Tags
  BY HandlerOf, RemoveOf, CurrentOf DEF ForgetTunnel, OnCurrent, OnTunnel, Job
<1>2. Sound(c) /\ TagsOf(c) = TagsOf(mem[p]) \ {Current(p)}
  BY <1>1, DeregisterSound
<1>3. /\ rest \in Seq(Tags) /\ TagsIn(rest) \subseteq TagsIn(job[p].todo)
      /\ \A i, k \in DOMAIN rest : rest[i] = rest[k] => i = k
      /\ Current(p) \notin TagsIn(rest)
  BY <1>1, TailTags DEF RemoveAt, Current
<1>4. TagsIn(rest) \subseteq TagsOf(c)
  BY <1>1, <1>2, <1>3 DEF RemoveAt
<1>5. l = IF rest = <<>> THEN "truncate" ELSE "stop"
  BY <1>1 DEF Enter, LoopStart, LoopEnd
<1> HIDE DEF c, rest, l
<1>6. j \in Job /\ j.cmd = "remove" /\ j.todo = rest
  BY <1>1, <1>3 DEF Job
<1> HIDE DEF j
<1>7. Fine(c, l, j)
  BY <1>2, <1>3, <1>4, <1>5, <1>6 DEF Fine, At, RemoveAt, Statement
<1>8. /\ mem' = [mem EXCEPT ![p] = c] /\ job' = [job EXCEPT ![p] = j] /\ pc' = [pc EXCEPT ![p] = l]
  BY DEF ForgetTunnel, Advance, Goto, c, rest, l, j
<1>9. HandlersFine'
  BY <1>7, <1>8, OneHandler DEF IInv
<1>10. dir' \in Dirs
  BY <1>1, HostTypes DEF IInv, Dirs, ForgetTunnel
<1>11. QED
  BY <1>9, <1>10, HostChanged, HostTypes DEF IInv, ForgetTunnel

-------------------------------------------------------------------------------
\* mode, switch, and the end of update and restart

\* The mode is set when the router is there.
LEMMA ModeFine ==
  ASSUME IInv, NEW p \in Procs, job[p].cmd = "mode",
         mem' = [mem EXCEPT ![p].mode = job[p].mode], Goto(p, "truncate"), UNCHANGED job
  PROVE  HandlersFine'
<1> DEFINE c == [mem[p] EXCEPT !.mode = job[p].mode]
<1>1. Sound(mem[p]) /\ mem[p] \in Config /\ job[p] \in Job /\ At(mem[p], pc[p], job[p])
  BY HandlerOf
<1>2. c \in Config /\ c.tunnels = mem[p].tunnels
  BY <1>1 DEF Config, Job
<1>3. mem' = [mem EXCEPT ![p] = c]
  OBVIOUS
<1> HIDE DEF c
<1>4. Sound(c)
  BY <1>1, <1>2, SameTunnels
<1>5. Fine(c, "truncate", job[p])
  BY <1>1, <1>4 DEF Fine, At, ModeAt, Statement
<1>6. QED
  BY <1>3, <1>5, HandlerChanges DEF IInv

LEMMA EnsureRouterFine ==
  ASSUME IInv, NEW p \in Procs, EnsureRouter(p)  PROVE IInv'
<1>1. Fine(mem[p], "ensureRouter", job[p]) /\ job[p] \in Job /\ At(mem[p], "ensureRouter", job[p])
  BY HandlerOf DEF EnsureRouter
<1>2. job[p].cmd = "mode"
  BY <1>1 DEF At, AddAt, EditAt, RemoveAt, MTUAt, UpdateAt, RestartAt, SwitchAt, InstallAt,
              UninstallAt, Job, CommandNames
<1>3. CASE RouterActive
  BY <1>2, <1>3, ModeFine, HostKept DEF IInv, EnsureRouter
<1>4. CASE ~RouterActive
  <2>1. Fine(mem[p], "createRouter", job[p])
    BY <1>1, <1>2 DEF Fine, At, ModeAt, Statement
  <2>2. QED
    BY <1>4, <2>1, HandlerMoves, HostKept DEF IInv, EnsureRouter
<1>5. QED
  BY <1>3, <1>4

LEMMA CreateRouterFine ==
  ASSUME IInv, NEW p \in Procs, CreateRouter(p)  PROVE IInv'
<1>1. Fine(mem[p], "done", job[p])
  BY HandlerOf, DoneFine DEF CreateRouter
<1>2. RouterTyped(router')
  BY HostTypes, RouterInTyped DEF IInv, CreateRouter, RouterStates
<1>3. HostFine'
  BY <1>2, HostChanged, HostTypes DEF IInv, CreateRouter
<1>4. CASE job[p].cmd = "mode"
  BY <1>3, <1>4, ModeFine DEF IInv, CreateRouter
<1>5. CASE job[p].cmd # "mode"
  BY <1>1, <1>3, <1>5, HandlerMoves DEF IInv, CreateRouter
<1>6. QED
  BY <1>4, <1>5

\* A handler at one of the statements that only SwitchActive has.
LEMMA SwitchOf ==
  ASSUME IInv, NEW p \in Procs, pc[p] \in {"stopActive", "startActive"}
  PROVE  job[p].cmd = "switch" /\ SwitchAt(mem[p], pc[p], job[p])
<1>1. At(mem[p], pc[p], job[p]) /\ job[p] \in Job
  BY HandlerOf
<1>2. job[p].cmd = "switch"
  BY <1>1 DEF At, AddAt, EditAt, RemoveAt, MTUAt, UpdateAt, RestartAt, ModeAt, InstallAt,
              UninstallAt, Job, CommandNames
<1>3. QED
  BY <1>1, <1>2 DEF At

LEMMA SwitchFine ==
  ASSUME IInv, NEW p \in Procs, StopActive(p) \/ StartActive(p)  PROVE IInv'
<1>1. /\ Fine(mem[p], pc[p], job[p]) /\ mem[p] \in Config
      /\ SwitchAt(mem[p], pc[p], job[p]) /\ job[p].cmd = "switch"
      /\ Current(p) \in Tags
  BY HandlerOf, SwitchOf, CurrentOf DEF StopActive, StartActive, OnCurrent
<1>2. PICK tag \in Tags : ServiceStop(tag) \/ ServiceStart(tag) \/ UNCHANGED running
  <2>1. CASE StopActive(p)
    <3>1. (ServiceStop(mem[p].active) /\ mem[p].active \in TagsOf(mem[p])) \/ UNCHANGED running
      BY <2>1 DEF StopActive
    <3>2. QED
      BY <1>1, <3>1, TagsOfType
  <2>2. CASE StartActive(p)
    <3>1. pc[p] \in OnTunnel
      BY <2>2 DEF StartActive, OnTunnel
    <3>2. GetTunnel(mem[p], Current(p)).tag \in Tags
      BY <3>1, CurrentTunnel
    <3>3. QED
      BY <2>2, <3>2 DEF StartActive
  <2>3. QED
    BY <2>1, <2>2
<1>3. running' \in Units
  BY <1>2, ServiceTyped DEF IInv
<1>4. /\ UNCHANGED <<file, dir, unit, router, mem, job, commands>> /\ NoFault
      /\ Goto(p, "startActive") \/ Goto(p, "restartRouter")
  BY DEF StopActive, StartActive
<1>5. Fine(mem[p], "startActive", job[p]) /\ Fine(mem[p], "restartRouter", job[p])
  BY <1>1 DEF Fine, At, SwitchAt, Statement
<1>6. HandlersFine'
  BY <1>4, <1>5, HandlerMoves DEF IInv
<1>7. QED
  BY <1>3, <1>4, <1>6, HostChanged, HostTypes DEF IInv

LEMMA RestartRouterFine ==
  ASSUME IInv, NEW p \in Procs, RestartRouter(p)  PROVE IInv'
<1>1. /\ Fine(mem[p], "restartRouter", job[p]) /\ Sound(mem[p]) /\ mem[p] \in Config /\ job[p] \in Job
      /\ At(mem[p], "restartRouter", job[p])
  BY HandlerOf DEF RestartRouter
<1>2. RouterTyped(router')
  BY HostTypes, RouterInTyped DEF IInv, RestartRouter, RouterRestart, RouterStates
<1>3. HostFine'
  BY <1>2, HostChanged, HostTypes DEF IInv, RestartRouter
<1>4. CASE job[p].cmd = "switch" /\ router.state # "absent"
  <2> DEFINE c == [mem[p] EXCEPT !.active = Current(p)]
  <2>1. PICK tag \in TagsOf(mem[p]) : job[p].todo = <<tag>>
    BY <1>1, <1>4 DEF At, SwitchAt
  <2>2. tag \in Tags /\ Current(p) = tag
    BY <1>1, <2>1, TagsOfType, OneTag DEF Current
  <2>3. c \in Config /\ c.tunnels = mem[p].tunnels
    BY <1>1, <2>2 DEF Config
  <2>4. mem' = [mem EXCEPT ![p] = c] /\ Goto(p, "truncate") /\ UNCHANGED job
    BY <1>4 DEF RestartRouter
  <2> HIDE DEF c
  <2>5. Sound(c) /\ TagsOf(c) = TagsOf(mem[p])
    BY <1>1, <2>3, SameTunnels
  <2>6. Fine(c, "truncate", job[p])
    BY <1>1, <1>4, <2>1, <2>5 DEF Fine, At, SwitchAt, Statement
  <2>7. QED
    BY <1>3, <2>4, <2>6, HandlerChanges DEF IInv
<1>5. CASE ~(job[p].cmd = "switch" /\ router.state # "absent")
  <2>1. UNCHANGED <<mem, job>> /\ Goto(p, "done")
    BY <1>5 DEF RestartRouter
  <2>2. Fine(mem[p], "done", job[p])
    BY <1>1, DoneFine
  <2>3. QED
    BY <1>3, <2>1, <2>2, HandlerMoves DEF IInv
<1>6. QED
  BY <1>4, <1>5

-------------------------------------------------------------------------------
\* install and wizard

LEMMA InstallOf ==
  ASSUME IInv, NEW p \in Procs, pc[p] \in {"collect", "gather", "multi", "startRouter"}
  PROVE  job[p].cmd \in {"install", "wizard"} /\ InstallAt(mem[p], pc[p], job[p])
<1>1. At(mem[p], pc[p], job[p]) /\ job[p] \in Job
  BY HandlerOf
<1>2. job[p].cmd \in {"install", "wizard"}
  BY <1>1 DEF At, AddAt, EditAt, RemoveAt, MTUAt, UpdateAt, RestartAt, ModeAt, SwitchAt,
              UninstallAt, Job, CommandNames
<1>3. QED
  BY <1>1, <1>2 DEF At

LEMMA CollectFine ==
  ASSUME IInv, NEW p \in Procs, Collect(p)  PROVE IInv'
<1>1. /\ Sound(mem[p]) /\ mem[p] \in Config /\ job[p] \in Job
      /\ job[p].cmd \in {"install", "wizard"} /\ InstallAt(mem[p], "collect", job[p])
  BY HandlerOf, InstallOf DEF Collect
<1> DEFINE shared(t) == IF job[p].new # NoTunnel /\ job[p].new.transport = t.transport
                        THEN job[p].new.tag ELSE NoTag
           j(t) == [job[p] EXCEPT !.new = t, !.shared = shared(t)]
<1>2. PICK t \in WantedTunnels(mem[p]) :
        /\ ValidNewTunnel(mem[p], t)
        /\ job' = [job EXCEPT ![p].new = t, ![p].shared = shared(t)]
  BY DEF Collect
<1>3. IsNew(mem[p], t) /\ t \in Tunnel
  BY <1>1, <1>2, WantedTyped DEF IsNew
<1>4. shared(t) \in Tags \cup {NoTag}
  BY <1>1 DEF Job, Tunnel
<1>5. job' = [job EXCEPT ![p] = j(t)]
  BY <1>2
<1> HIDE DEF shared
<1>6. /\ j(t) \in Job /\ j(t).new = t /\ j(t).cmd = job[p].cmd /\ j(t).todo = job[p].todo
      /\ j(t).mode = job[p].mode
  BY <1>1, <1>3, <1>4 DEF Job
<1> HIDE DEF j
<1>7. InstallAt(mem[p], "keys", j(t))
  BY <1>1, <1>3, <1>6 DEF InstallAt
<1>8. Fine(mem[p], "keys", j(t))
  BY <1>1, <1>6, <1>7 DEF Fine, At, Statement
<1>9. QED
  BY <1>5, <1>8, HandlerWorks, HostKept DEF IInv, Collect

LEMMA GatherFine ==
  ASSUME IInv, NEW p \in Procs, Gather(p)  PROVE IInv'
<1> DEFINE t == job[p].new
           c == [mem[p] EXCEPT !.tunnels = Append(@, t)]
           todo == Append(job[p].todo, t.tag)
           dns == IF IsDNSTunnel(t) THEN job[p].dns + 1 ELSE job[p].dns
           j == [job[p] EXCEPT !.todo = todo, !.dns = dns]
<1>1. /\ Sound(mem[p]) /\ mem[p] \in Config /\ job[p] \in Job
      /\ job[p].cmd \in {"install", "wizard"} /\ InstallAt(mem[p], "gather", job[p])
      /\ job[p].todo \in Seq(Tags) /\ job[p].dns \in Nat
  BY HandlerOf, InstallOf DEF Gather, Job
<1>2. t \in Tunnel /\ t.tag \in Tags /\ IsNew(mem[p], t)
  BY <1>1 DEF InstallAt, IsNew, Tunnel
<1>3. Sound(c) /\ TagsOf(c) = TagsOf(mem[p]) \cup {t.tag}
  BY <1>1, <1>2, GatherSound DEF IsNew
<1>4. todo \in Seq(Tags) /\ TagsIn(todo) = TagsIn(job[p].todo) \cup {t.tag}
  <2> DEFINE n == Len(job[p].todo)
  <2>1. /\ todo \in Seq(Tags) /\ n \in Nat /\ DOMAIN job[p].todo = 1..n /\ DOMAIN todo = 1..(n + 1)
        /\ \A i \in 1..n : todo[i] = job[p].todo[i]
        /\ todo[n + 1] = t.tag
    BY <1>1, <1>2, AppendProperties
  <2> HIDE DEF todo, n
  <2>2. /\ \A i \in 1..(n + 1) : i \in 1..n \/ i = n + 1
        /\ n + 1 \in 1..(n + 1) /\ 1..n \subseteq 1..(n + 1)
    BY <2>1
  <2>3. QED
    BY <2>1, <2>2 DEF TagsIn
<1>5. /\ mem' = [mem EXCEPT ![p] = c] /\ job' = [job EXCEPT ![p] = j] /\ pc' = [pc EXCEPT ![p] = "collect"]
  BY DEF Gather, Goto
<1>a. dns \in Nat
  BY <1>1
<1> HIDE DEF c, todo, dns
<1>6. j \in Job /\ j.cmd = job[p].cmd /\ j.todo = todo
  BY <1>a, <1>1, <1>4 DEF Job
<1> HIDE DEF j
<1>7. TagsIn(todo) \subseteq TagsOf(c)
  BY <1>1, <1>3, <1>4 DEF InstallAt
<1>8. Fine(c, "collect", j)
  BY <1>1, <1>3, <1>6, <1>7 DEF Fine, At, InstallAt, Statement
<1>9. QED
  BY <1>5, <1>8, OneHandler, HostKept DEF IInv, Gather

LEMMA SaveInstalledFine ==
  ASSUME IInv, NEW p \in Procs, SaveInstalled(p)  PROVE IInv'
<1> DEFINE l == IF job[p].todo = <<>> THEN "done" ELSE "truncate"
           first == Head(job[p].todo)
           set == job[p].cmd = "install" /\ job[p].todo # <<>>
           c == IF set THEN [mem[p] EXCEPT !.active = first, !.default = first] ELSE mem[p]
<1>1. /\ Sound(mem[p]) /\ mem[p] \in Config /\ job[p] \in Job /\ job[p].todo \in Seq(Tags)
      /\ job[p].cmd \in {"install", "wizard"} /\ InstallAt(mem[p], "collect", job[p])
  BY HandlerOf, InstallOf DEF SaveInstalled, Job
<1>2. job[p].todo # <<>> => first \in Tags
  BY <1>1
<1>3. c \in Config /\ c.tunnels = mem[p].tunnels
  BY <1>1, <1>2 DEF Config
<1>4. mem' = [mem EXCEPT ![p] = c]
  BY DEF SaveInstalled, IInv, HandlersFine
<1> HIDE DEF c
<1>5. Sound(c) /\ TagsOf(c) = TagsOf(mem[p])
  BY <1>1, <1>3, SameTunnels
<1>6. Fine(c, l, job[p])
  BY <1>1, <1>5 DEF Fine, At, InstallAt, Statement
<1>7. UNCHANGED <<host, job, commands>> /\ NoFault /\ Goto(p, l)
  BY DEF SaveInstalled
<1> HIDE DEF l
<1>8. QED
  BY <1>4, <1>6, <1>7, HandlerChanges, HostKept DEF IInv

LEMMA MultiModeFine ==
  ASSUME IInv, NEW p \in Procs, MultiMode(p)  PROVE IInv'
<1> DEFINE c == [mem[p] EXCEPT !.mode = "multi"]
           j == [job[p] EXCEPT !.mode = "multi"]
<1>1. /\ Sound(mem[p]) /\ mem[p] \in Config /\ job[p] \in Job
      /\ job[p].cmd \in {"install", "wizard"} /\ InstallAt(mem[p], "multi", job[p])
  BY HandlerOf, InstallOf DEF MultiMode
<1>2. c \in Config /\ c.tunnels = mem[p].tunnels
  BY <1>1 DEF Config
<1>3. j \in Job /\ j.cmd = job[p].cmd /\ j.todo = job[p].todo
  BY <1>1 DEF Job
<1>4. /\ mem' = [mem EXCEPT ![p] = c] /\ job' = [job EXCEPT ![p] = j]
      /\ pc' = [pc EXCEPT ![p] = "truncate"]
  BY DEF MultiMode, Goto
<1> HIDE DEF c, j
<1>5. Sound(c) /\ TagsOf(c) = TagsOf(mem[p])
  BY <1>1, <1>2, SameTunnels
<1>6. Fine(c, "truncate", j)
  BY <1>1, <1>3, <1>5 DEF Fine, At, InstallAt, Statement
<1>7. QED
  BY <1>4, <1>6, OneHandler, HostKept DEF IInv, MultiMode

LEMMA StartRouterFine ==
  ASSUME IInv, NEW p \in Procs, StartRouter(p)  PROVE IInv'
<1>1. Fine(mem[p], "done", job[p])
  BY HandlerOf, DoneFine DEF StartRouter
<1>2. RouterTyped(router')
  BY HostTypes, RouterInTyped DEF IInv, StartRouter, RouterStates
<1>3. QED
  BY <1>1, <1>2, HandlerMoves, HostChanged, HostTypes DEF IInv, StartRouter

-------------------------------------------------------------------------------
\* uninstall, and the end of a process

LEMMA UninstallOf ==
  ASSUME IInv, NEW p \in Procs,
         pc[p] \in {"removeRouter", "removeConfigDir"} \/ job[p].cmd = "uninstall"
  PROVE  job[p].cmd = "uninstall" /\ UninstallAt(pc[p], job[p])
<1>1. At(mem[p], pc[p], job[p]) /\ job[p] \in Job
  BY HandlerOf
<1>2. job[p].cmd = "uninstall"
  BY <1>1 DEF At, AddAt, EditAt, RemoveAt, MTUAt, UpdateAt, RestartAt, ModeAt, SwitchAt,
              InstallAt, Job, CommandNames
<1>3. QED
  BY <1>1, <1>2 DEF At

LEMMA StopRouterFine ==
  ASSUME IInv, NEW p \in Procs, StopRouter(p)  PROVE IInv'
<1>1. Fine(mem[p], pc[p], job[p]) /\ job[p].cmd = "uninstall"
  BY HandlerOf DEF StopRouter
<1>2. Fine(mem[p], "removeRouter", job[p])
  BY <1>1 DEF Fine, At, UninstallAt, Statement
<1>3. RouterTyped(router')
  BY HostTypes, RouterInTyped DEF IInv, StopRouter, RouterStates
<1>4. QED
  BY <1>2, <1>3, HandlerMoves, HostChanged, HostTypes DEF IInv, StopRouter

LEMMA RemoveRouterFine ==
  ASSUME IInv, NEW p \in Procs, RemoveRouter(p)  PROVE IInv'
<1> DEFINE l == Enter("uninstall", job[p].todo)
           j == [job[p] EXCEPT !.dns = 0]
<1>1. Sound(mem[p]) /\ job[p] \in Job /\ job[p].cmd = "uninstall"
  BY HandlerOf, UninstallOf DEF RemoveRouter
<1>2. l = IF job[p].todo = <<>> THEN "removeConfigDir" ELSE "stop"
  BY DEF Enter, LoopStart, LoopEnd
<1>3. j \in Job /\ j.cmd = "uninstall" /\ j.todo = job[p].todo
  BY <1>1 DEF Job
<1>4. job' = [job EXCEPT ![p] = j] /\ Goto(p, l)
  BY DEF RemoveRouter
<1> HIDE DEF l, j
<1>5. Fine(mem[p], l, j)
  BY <1>1, <1>2, <1>3 DEF Fine, At, UninstallAt, Statement
<1>6. RouterTyped(router')
  BY RouterInTyped DEF RemoveRouter, RouterStates
<1>7. QED
  BY <1>4, <1>5, <1>6, HandlerWorks, HostChanged, HostTypes DEF IInv, RemoveRouter

LEMMA RemoveConfigDirFine ==
  ASSUME IInv, NEW p \in Procs, RemoveConfigDir(p)  PROVE IInv'
<1>1. Fine(mem[p], "done", job[p])
  BY HandlerOf, DoneFine DEF RemoveConfigDir
<1>2. HandlersFine'
  BY <1>1, HandlerMoves DEF IInv, RemoveConfigDir
<1>3. HostFine'
  BY DEF IInv, HostFine, RemoveConfigDir, NoFault, RouterTyped
<1>4. QED
  BY <1>2, <1>3 DEF IInv

\* The next command starts from a fresh copy.
LEMMA ForgetFine ==
  ASSUME IInv, NEW p \in Procs, End(p) \/ Crash(p)  PROVE IInv'
<1>1. Forget(p) /\ UNCHANGED <<host, commands>> /\ (Fault \/ NoFault)
  BY DEF End, Crash
<1>2. Fine(DefaultConfig, "idle", NoJob)
  <2>1. At(DefaultConfig, "idle", NoJob)
    BY DEF At, NoJob
  <2>2. QED
    BY <2>1, DefaultConfigSound, NoJobTyped DEF Fine, Statement
<1>3. HandlersFine'
  BY <1>1, <1>2, OneHandler DEF IInv, Forget, Goto
<1>4. QED
  BY <1>1, <1>3, HostKept DEF IInv

-------------------------------------------------------------------------------
\* The router: Serve registers domains of tunnels that have one, and ports.

LEMMA ServedTyped ==
  ASSUME NEW c, Sound(c)
  PROVE  /\ Table!DefaultOf(ServedEntries(c), c.default) \in Nat
         /\ \A d \in DOMAIN Table!RoutesOf(ServedEntries(c)) :
              d \in Domains /\ Table!RoutesOf(ServedEntries(c))[d] \in Nat
<1> DEFINE e == ServedEntries(c)
           n == Len(c.tunnels)
<1>1. /\ n \in Nat /\ DOMAIN c.tunnels = 1..n /\ \A i \in 1..n : c.tunnels[i] \in Tunnel
      /\ \A i \in 1..n : NeedsDomain(c.tunnels[i]) => c.tunnels[i].domain # NoDomain
  BY ConfigFields DEF Sound, Domained
<1>2. /\ DOMAIN e = 1..n
      /\ \A i \in 1..n : /\ e[i].backend = c.tunnels[i].port /\ e[i].backend \in Nat
                         /\ e[i].domain = c.tunnels[i].domain
                         /\ e[i].dns = IsDNSTunnel(c.tunnels[i])
  BY <1>1 DEF ServedEntries, Tunnel
<1> HIDE DEF e, n
<1>3. \A i \in 1..n : e[i].dns => e[i].domain \in Domains
  <2>1. \A i \in 1..n : e[i].dns => NeedsDomain(c.tunnels[i])
    BY <1>2 DEF IsDNSTunnel, NeedsDomain, IsDirectTransport
  <2>2. \A i \in 1..n : c.tunnels[i].domain \in Domains \cup {NoDomain}
    BY <1>1 DEF Tunnel
  <2>3. QED
    BY <1>1, <1>2, <2>1, <2>2
<1>4. Table!DefaultOf(e, c.default) \in Nat
  <2> DEFINE tagged == {i \in DOMAIN e : e[i].tag = c.default}
             first  == CHOOSE i \in tagged : \A j \in tagged : i <= j
  <2>1. ASSUME tagged # {}  PROVE first \in 1..n
    <3>1. tagged \in SUBSET Nat
      BY <1>1, <1>2
    <3>2. \E i \in tagged : \A j \in tagged : i <= j
      BY <2>1, <3>1, LeastNat
    <3>3. QED
      BY <1>2, <3>2
  <2>2. Table!DefaultOf(e, c.default) = IF tagged # {} /\ e[first].dns THEN e[first].backend ELSE 0
    BY DEF Table!DefaultOf
  <2> HIDE DEF tagged, first
  <2>3. QED
    BY <1>2, <2>1, <2>2
<1>5. ASSUME NEW d \in DOMAIN Table!RoutesOf(e)
      PROVE  d \in Domains /\ Table!RoutesOf(e)[d] \in Nat
  <2> DEFINE S == Table!Served(e)
             T == {i \in S : e[i].domain = d}
  <2>1. S \subseteq 1..n /\ \A i \in S : e[i].dns
    BY <1>2 DEF Table!Served
  <2>2. d \in {e[i].domain : i \in S} /\ Table!RoutesOf(e)[d] = e[Table!LastServed(e, d)].backend
    BY DEF Table!RoutesOf
  <2>3. \E i \in T : \A j \in T : j <= i
    <3>1. T \in SUBSET Nat /\ T # {} /\ \A i \in T : i <= n
      BY <1>1, <2>1, <2>2
    <3> HIDE DEF T
    <3>2. QED
      BY <1>1, <3>1, GreatestNat
  <2>4. Table!LastServed(e, d) \in S
    BY <2>3 DEF Table!LastServed
  <2> HIDE DEF S, T
  <2>5. QED
    BY <1>2, <1>3, <2>1, <2>2, <2>4
<1>6. QED
  BY <1>4, <1>5 DEF e

LEMMA RouterFine ==
  ASSUME IInv, Router  PROVE IInv'
<1>1. RouterTyped(router')
  <2>1. CASE RouterLoads
    <3>1. Sound(file)
      BY <2>1 DEF IInv, HostFine, RouterLoads
    <3>2. /\ router'.state = "serving" /\ router'.routes = Table!RoutesOf(ServedEntries(file))
          /\ router'.default = Table!DefaultOf(ServedEntries(file), file.default)
      BY <2>1 DEF RouterLoads
    <3>3. QED
      BY <3>1, <3>2, ServedTyped DEF RouterTyped, RouterStates
  <2>2. CASE RouterFails \/ RouterRetries
    BY <2>2, RouterInTyped DEF RouterFails, RouterRetries, RouterStates
  <2>3. QED
    BY <2>1, <2>2 DEF Router
<1>2. UNCHANGED <<file, dir, unit, running, proc, bounds>>
  BY DEF Router, RouterLoads, RouterFails, RouterRetries
<1>3. HostFine'
  BY <1>1, <1>2, HostChanged, HostTypes DEF IInv, bounds, NoFault
<1>4. HandlersFine'
  BY <1>2 DEF IInv, HandlersFine, proc
<1>5. QED
  BY <1>3, <1>4 DEF IInv

-------------------------------------------------------------------------------
(***************************************************************************)
(* Type correctness                                                        *)
(***************************************************************************)
LEMMA InitFine == Init => IInv
<1> SUFFICES ASSUME Init  PROVE IInv
  OBVIOUS
<1>1. Fine(DefaultConfig, "idle", NoJob) /\ DefaultConfig \in Config
  <2>1. At(DefaultConfig, "idle", NoJob)
    BY DEF At, NoJob
  <2>2. QED
    BY <2>1, DefaultConfigSound, NoJobTyped DEF Fine, Statement, Sound
<1>2. HandlersFine
  BY <1>1, NoJobTyped DEF Init, HandlersFine, Statement
<1>3. HostFine
  BY <1>1, RouterInTyped, ManagerAssumption DEF Init, HostFine, Fine, RouterStates
<1>4. QED
  BY <1>2, <1>3 DEF IInv

LEMMA NextFine == IInv /\ [Next]_vars => IInv'
<1> SUFFICES ASSUME IInv, [Next]_vars  PROVE IInv'
  OBVIOUS
<1>1. CASE UNCHANGED vars
  BY <1>1 DEF vars, IInv, HostFine, HandlersFine, RouterTyped
<1>2. CASE Router
  BY <1>2, RouterFine
<1>3. ASSUME NEW p \in Procs, Begins(p)  PROVE IInv'
  BY <1>3, BeginAddFine, AddAgainFine, BeginEditFine, BeginRemoveFine, BeginMTUFine, BeginAllFine,
     OneServiceFine, BeginModeFine, BeginSwitchFine, BeginImportFine, BeginInstallFine,
     BeginUninstallFine DEF Begins
<1>4. ASSUME NEW p \in Procs, Answers(p)  PROVE IInv'
  BY <1>4, RegisterTunnelFine, SettingsFine, CollectFine, GatherFine, SaveInstalledFine DEF Answers
<1>5. ASSUME NEW p \in Procs, Statements(p)  PROVE IInv'
  BY <1>5, SetUpDirFine, RouteTunnelFine, RerouteFine, CreateRouterFine, TruncateFine,
     WriteFileFine, StopFine, RemoveUnitFine, CreateFine, StartFine, RestartFine, RenameDirFine, ImportKeyFine, FinishEditFine,
     UnrouteFine, ForgetTunnelFine, EnsureRouterFine, SwitchFine, RestartRouterFine,
     MultiModeFine, StartRouterFine, StopRouterFine, RemoveRouterFine, RemoveConfigDirFine
     DEF Statements
<1>6. ASSUME NEW p \in Procs, Failures(p)  PROVE IInv'
  <2>1. CASE AddFails(p) \/ CollectFails(p) \/ RenameDirFails(p) \/ EditFails(p) \/ StartActiveFails(p)
    <3>1. /\ pc[p] # "idle" /\ Goto(p, "done") /\ UNCHANGED <<host, mem, job, commands>>
          /\ Fault \/ NoFault
      BY <2>1 DEF AddFails, CollectFails, RenameDirFails, EditFails, StartActiveFails
    <3>2. QED
      BY <3>1, ErrorFine
  <2>2. QED
    BY <1>6, <2>1, SetUpDirFailsFine, SaveFailsFine, CreateFine, StartFine, RestartFine,
       ImportKeyFailsFine, ForgetFine DEF Failures
<1>7. ASSUME NEW p \in Procs, End(p)  PROVE IInv'
  BY <1>7, ForgetFine
<1>8. QED
  BY <1>1, <1>2, <1>3, <1>4, <1>5, <1>6, <1>7 DEF Next

\* Every variable of the host and of the handlers keeps its type, and no handler
\* reaches a statement whose tunnel its copy of the configuration does not have:
\* GetTunnel never returns nil where the code does not look, whatever fails and
\* whatever other processes do to the file.
THEOREM TypeCorrect == Spec => []TypeOK
<1>1. IInv => TypeOK
  <2> SUFFICES ASSUME IInv  PROVE TypeOK
    OBVIOUS
  <2>1. ASSUME NEW p \in Procs
        PROVE  /\ pc[p] \in OnCurrent => job[p].todo # <<>>
               /\ pc[p] \in OnTunnel  => Current(p) \in TagsOf(mem[p])
    BY CurrentOf
  <2>2. QED
    BY <2>1 DEF TypeOK, IInv, HostFine, HandlersFine, RouterTyped
<1>2. QED
  BY InitFine, NextFine, <1>1, PTL DEF Spec

-------------------------------------------------------------------------------
(***************************************************************************)
(* The active tunnel                                                       *)
(*                                                                         *)
(* A copy may be without an active tunnel while install adds the first     *)
(* ones; every other handler, and install where it saves, has one if there *)
(* is a tunnel, unless the wizard is in use, which never sets it.          *)
(***************************************************************************)
Saving == {"truncate", "write", "multi"}

ActiveAt(c, l, j) ==
  /\ ActiveListed(c)
  /\ j.cmd \notin {"install", "wizard"} \/ l \in Saving => ActiveIfAny(c)
  /\ j.cmd = "wizard" => "wizard" \in Commands

ActiveFine ==
  /\ file # Torn => ActiveListed(file) /\ ActiveIfAny(file)
  /\ \A p \in Procs : ActiveAt(mem[p], pc[p], job[p])

\* Validate does not look at Route.Active: the backups that are imported have
\* to be right.  Those that this program has made are.
ImportsConsistent == \A c \in Imports : ValidConfig(c) => ActiveListed(c) /\ ActiveIfAny(c)

LEMMA ActiveLoaded ==
  ASSUME ActiveFine
  PROVE  ActiveListed(Loaded) /\ ActiveIfAny(Loaded)
  BY DEF ActiveFine, Loaded, DefaultConfig, ActiveListed, ActiveIfAny, TagsOf

LEMMA OneActive ==
  ASSUME IInv, ActiveFine, NEW p \in Procs, NEW c, NEW l, NEW j, ActiveAt(c, l, j),
         UNCHANGED file \/ file' = Torn,
         mem' = [mem EXCEPT ![p] = c], pc' = [pc EXCEPT ![p] = l], job' = [job EXCEPT ![p] = j]
  PROVE  ActiveFine'
<1>1. \A q \in Procs : ActiveAt(mem'[q], pc'[q], job'[q])
  <2> TAKE q \in Procs
  <2>1. CASE q = p
    BY <2>1 DEF IInv, HandlersFine
  <2>2. CASE q # p
    <3>1. mem'[q] = mem[q] /\ pc'[q] = pc[q] /\ job'[q] = job[q]
      BY <2>2 DEF IInv, HandlersFine
    <3>2. QED
      BY <3>1 DEF ActiveFine
  <2>3. QED
    BY <2>1, <2>2
<1>2. file' # Torn => ActiveListed(file') /\ ActiveIfAny(file')
  BY DEF ActiveFine
<1>3. QED
  BY <1>1, <1>2 DEF ActiveFine

LEMMA BeginActive ==
  ASSUME IInv, ActiveFine, NEW p \in Procs, NEW c, NEW l, NEW j, Begin(p, c, l, j), ActiveAt(c, l, j)
  PROVE  ActiveFine'
  BY OneActive DEF Begin, Goto, host

\* Steps that leave the copy alone, and that do not lead install to a Save.
LEMMA CalmActive ==
  ASSUME IInv, ActiveFine, NEW p \in Procs, NEW l, Goto(p, l), UNCHANGED mem,
         UNCHANGED file \/ file' = Torn,
         \A q \in Procs : job'[q].cmd = job[q].cmd,
         l \in Saving => pc[p] \in Saving \/ job[p].cmd \notin {"install", "wizard"}
  PROVE  ActiveFine'
<1>1. \A q \in Procs : ActiveAt(mem'[q], pc'[q], job'[q])
  <2> TAKE q \in Procs
  <2>1. ActiveAt(mem[q], pc[q], job[q]) /\ mem'[q] = mem[q] /\ job'[q].cmd = job[q].cmd
    BY DEF ActiveFine
  <2>2. pc'[q] = IF q = p THEN l ELSE pc[q]
    BY DEF IInv, HandlersFine, Goto
  <2>3. QED
    BY <2>1, <2>2 DEF ActiveAt
<1>2. file' # Torn => ActiveListed(file') /\ ActiveIfAny(file')
  BY DEF ActiveFine
<1>3. QED
  BY <1>1, <1>2 DEF ActiveFine

LEMMA SameCommand ==
  ASSUME IInv, NEW p \in Procs, NEW j, job' = [job EXCEPT ![p] = j], j.cmd = job[p].cmd
  PROVE  \A q \in Procs : job'[q].cmd = job[q].cmd
  BY DEF IInv, HandlersFine

LEMMA AdvanceActive ==
  ASSUME IInv, ActiveFine, NEW p \in Procs, Advance(p), UNCHANGED <<file, mem>>,
         job[p].cmd \in DOMAIN LoopStart
  PROVE  ActiveFine'
<1> DEFINE j == [job[p] EXCEPT !.todo = Tail(@)]
           l == Enter(job[p].cmd, Tail(job[p].todo))
<1>1. job' = [job EXCEPT ![p] = j] /\ Goto(p, l)
  BY DEF Advance
<1>2. j.cmd = job[p].cmd
  BY HandlerOf DEF Job
<1>3. \A q \in Procs : job'[q].cmd = job[q].cmd
  BY <1>1, <1>2, SameCommand
<1>4. job[p].cmd \in {"install", "wizard"} => l \in {"create", "startRouter"}
  BY DEF Enter, LoopStart, LoopEnd
<1> HIDE DEF l, j
<1>5. QED
  BY <1>1, <1>3, <1>4, CalmActive DEF Saving

\* What follows an attempt to create or to start a service.
LEMMA AfterActive ==
  ASSUME IInv, ActiveFine, NEW p \in Procs, AfterUnit(p) \/ AfterFailed(p), UNCHANGED <<file, mem>>
  PROVE  ActiveFine'
<1>1. CASE Advance(p) /\ (Warns(p) \/ Installing(p))
  <2>1. job[p].cmd \in DOMAIN LoopStart
    BY <1>1 DEF Warns, Installing, LoopStart
  <2>2. QED
    BY <1>1, <2>1, AdvanceActive
<1>2. CASE UNCHANGED job /\ (Goto(p, "done") \/ Goto(p, "route"))
  BY <1>2, CalmActive DEF Saving
<1>3. QED
  BY <1>1, <1>2 DEF AfterUnit, AfterFailed

\* Commands begin with the configuration of the file, with that of the process,
\* or with a backup.
LEMMA BeginsActive ==
  ASSUME IInv, ActiveFine, ImportsConsistent, NEW p \in Procs, Begins(p)
  PROVE  ActiveFine'
<1>1. ActiveListed(Loaded) /\ ActiveIfAny(Loaded) /\ Sound(Loaded)
  BY ActiveLoaded, LoadedSound DEF IInv
<1>2. CASE BeginAdd(p) \/ AddForSSH(p) \/ AddInBatch(p)
  <2>1. PICK c, t, s : /\ Begin(p, c, "keys", AddJob(t, s))
                       /\ ActiveListed(c) /\ ActiveIfAny(c)
    <3>1. CASE BeginAdd(p)
      BY <1>1, <3>1 DEF BeginAdd
    <3>2. job[p].cmd = "add" => ActiveListed(mem[p]) /\ ActiveIfAny(mem[p])
      BY DEF ActiveFine, ActiveAt
    <3>3. CASE AddForSSH(p)
      BY <3>2, <3>3 DEF AddForSSH
    <3>4. CASE AddInBatch(p)
      <4> DEFINE c == IF job[p].shared = NoTag \/ file = Torn THEN mem[p] ELSE file
      <4>1. ActiveListed(c) /\ ActiveIfAny(c)
        BY <3>2, <3>4 DEF AddInBatch, ActiveFine
      <4>2. \E t : Begin(p, c, "keys", AddJob(t, NoTag))
        BY <3>4 DEF AddInBatch
      <4> HIDE DEF c
      <4>3. QED
        BY <4>1, <4>2
    <3>5. QED
      BY <1>2, <3>1, <3>3, <3>4
  <2>2. AddJob(t, s).cmd = "add"
    BY DEF AddJob, NoJob
  <2>3. ActiveAt(c, "keys", AddJob(t, s))
    BY <2>1, <2>2 DEF ActiveAt
  <2>4. QED
    BY <2>1, <2>3, BeginActive
<1>3. CASE BeginEdit(p) \/ BeginRemove(p) \/ BeginAll(p) \/ BeginMode(p) \/ BeginSwitch(p) \/ BeginUninstall(p)
  <2>1. PICK l, j : /\ Begin(p, Loaded, l, j)
                    /\ j.cmd \in {"edit", "remove", "update", "restart", "mode", "switch", "uninstall"}
    <3>1. CASE BeginEdit(p)
      <4>1. PICK l, todo, old, new :
              Begin(p, Loaded, l, [NoJob EXCEPT !.cmd = "edit", !.todo = todo, !.old = old, !.new = new])
        BY <3>1 DEF BeginEdit
      <4>2. [NoJob EXCEPT !.cmd = "edit", !.todo = todo, !.old = old, !.new = new].cmd = "edit"
        BY DEF NoJob
      <4>3. QED
        BY <4>1, <4>2
    <3>2. CASE BeginRemove(p) \/ BeginAll(p) \/ BeginSwitch(p)
      <4>1. PICK cmd \in {"remove", "update", "restart", "switch"} :
              \E l, todo : Begin(p, Loaded, l, [NoJob EXCEPT !.cmd = cmd, !.todo = todo])
        BY <3>2 DEF BeginRemove, BeginAll, BeginSwitch
      <4>2. \A todo : [NoJob EXCEPT !.cmd = cmd, !.todo = todo].cmd = cmd
        BY DEF NoJob
      <4>3. QED
        BY <4>1, <4>2
    <3>3. CASE BeginMode(p)
      <4>1. PICK l, todo, mode : Begin(p, Loaded, l, [NoJob EXCEPT !.cmd = "mode", !.todo = todo, !.mode = mode])
        BY <3>3 DEF BeginMode
      <4>2. [NoJob EXCEPT !.cmd = "mode", !.todo = todo, !.mode = mode].cmd = "mode"
        BY DEF NoJob
      <4>3. QED
        BY <4>1, <4>2
    <3>4. CASE BeginUninstall(p)
      <4>1. PICK l, todo, n : Begin(p, Loaded, l, [NoJob EXCEPT !.cmd = "uninstall", !.todo = todo, !.dns = n])
        BY <3>4 DEF BeginUninstall
      <4>2. [NoJob EXCEPT !.cmd = "uninstall", !.todo = todo, !.dns = n].cmd = "uninstall"
        BY DEF NoJob
      <4>3. QED
        BY <4>1, <4>2
    <3>5. QED
      BY <1>3, <3>1, <3>2, <3>3, <3>4
  <2>2. ActiveAt(Loaded, l, j)
    BY <1>1, <2>1 DEF ActiveAt
  <2>3. QED
    BY <2>1, <2>2, BeginActive
<1>4. CASE BeginMTU(p)
  <2> DEFINE j(todo) == [NoJob EXCEPT !.cmd = "mtu", !.todo = todo]
  <2>1. PICK mtu \in Mtus : /\ WithMTU(Loaded, mtu) # Loaded
                            /\ \E todo : Begin(p, WithMTU(Loaded, mtu), "truncate", j(todo))
    BY <1>4 DEF BeginMTU
  <2>1a. PICK todo : Begin(p, WithMTU(Loaded, mtu), "truncate", j(todo))
    BY <2>1
  <2>1b. j(todo).cmd = "mtu"
    BY DEF NoJob
  <2> DEFINE c == WithMTU(Loaded, mtu)
  <2>2. /\ TagsOf(c) = TagsOf(Loaded) /\ c.active = Loaded.active /\ Loaded.tunnels # <<>>
    BY <1>1, <2>1, WithMTUSound
  <2> HIDE DEF c
  <2> HIDE DEF j
  <2>3. ActiveAt(c, "truncate", j(todo))
    BY <1>1, <2>1b, <2>2 DEF ActiveAt, ActiveListed, ActiveIfAny
  <2>4. QED
    BY <2>1a, <2>3, BeginActive DEF c
<1>5. CASE StartTunnel(p) \/ StopTunnel(p)
  BY <1>5 DEF StartTunnel, StopTunnel, ActiveFine
<1>6. CASE BeginImport(p)
  <2>1. PICK c \in Imports :
          ValidConfig(c) /\ Begin(p, c, "truncate", [NoJob EXCEPT !.cmd = "import"])
    BY <1>6 DEF BeginImport
  <2>2. ActiveAt(c, "truncate", [NoJob EXCEPT !.cmd = "import"])
    BY <2>1 DEF ActiveAt, ImportsConsistent, NoJob
  <2>3. QED
    BY <2>1, <2>2, BeginActive
<1>7. CASE BeginInstall(p)
  <2>1. PICK cmd \in Commands \cap {"install", "wizard"} :
          Begin(p, Loaded, IF file = Torn THEN "truncate" ELSE "collect", [NoJob EXCEPT !.cmd = cmd])
    BY <1>7 DEF BeginInstall
  <2>2. ActiveAt(Loaded, IF file = Torn THEN "truncate" ELSE "collect", [NoJob EXCEPT !.cmd = cmd])
    BY <1>1 DEF ActiveAt, NoJob
  <2>3. QED
    BY <2>1, <2>2, BeginActive
<1>8. QED
  BY <1>2, <1>3, <1>4, <1>5, <1>6, <1>7 DEF Begins

LEMMA AnswersActive ==
  ASSUME IInv, ActiveFine, NEW p \in Procs, Answers(p)
  PROVE  ActiveFine'
<1>1. /\ Sound(mem[p]) /\ mem[p] \in Config /\ ActiveAt(mem[p], pc[p], job[p])
      /\ At(mem[p], pc[p], job[p]) /\ job[p] \in Job
  BY HandlerOf DEF ActiveFine
<1>2. CASE RegisterTunnel(p)
  <2> DEFINE c == Register(mem[p], job[p].new)
  <2>1. IsNew(mem[p], job[p].new)
    BY <1>1, <1>2 DEF RegisterTunnel, At, AddAt, EditAt, RemoveAt, MTUAt, UpdateAt, RestartAt,
       ModeAt, SwitchAt, InstallAt, UninstallAt, Job, CommandNames
  <2>2. ActiveListed(c) /\ c.active # NoTag
    BY <1>1, <2>1, RegisterSound DEF IsNew, ActiveAt
  <2>3. /\ mem' = [mem EXCEPT ![p] = c] /\ pc' = [pc EXCEPT ![p] = "truncate"] /\ UNCHANGED <<job, file>>
        /\ job' = [job EXCEPT ![p] = job[p]]
    BY <1>2 DEF RegisterTunnel, Goto, host, IInv, HandlersFine
  <2> HIDE DEF c
  <2>4. ActiveAt(c, "truncate", job[p])
    BY <1>1, <2>2 DEF ActiveAt, ActiveIfAny
  <2>5. QED
    BY <2>3, <2>4, OneActive
<1>3. CASE Settings(p)
  <2> DEFINE t == GetTunnel(mem[p], Current(p))
  <2>1. job[p].cmd = "edit" /\ pc[p] \in OnTunnel /\ t \in Tunnel /\ t.tag = Current(p)
        /\ Current(p) \in TagsOf(mem[p]) /\ (NeedsDomain(t) => t.domain # NoDomain)
    BY <1>3, EditOf, CurrentTunnel DEF Settings, OnTunnel
  <2>2. PICK d \in Domains \cup {t.domain}, m \in Mtus \cup {t.mtu} :
          mem' = [mem EXCEPT ![p] = Replace(@, t.tag, [t EXCEPT !.domain = d, !.mtu = m])]
    BY <1>3 DEF Settings
  <2> DEFINE new == [t EXCEPT !.domain = d, !.mtu = m]
             c == Replace(mem[p], t.tag, new)
  <2>3. new \in Tunnel /\ new.tag = t.tag /\ (NeedsDomain(new) => new.domain # NoDomain)
    BY <2>1, ConfigurationAssumption DEF Tunnel, NeedsDomain, IsDirectTransport
  <2> HIDE DEF new
  <2>4. /\ TagsOf(c) = (TagsOf(mem[p]) \ {t.tag}) \cup {new.tag}
        /\ c.active = mem[p].active /\ c.tunnels # <<>>
    BY <1>1, <2>1, <2>3, ReplaceSound
  <2>5. mem[p].tunnels # <<>>
    BY <1>1, <2>1, ConfigFields DEF TagsOf
  <2> HIDE DEF c
  <2>6. PICK l \in {"importKey", "finish"} : Goto(p, l)
    BY <1>3 DEF Settings
  <2>7. ActiveAt(c, l, job[p])
    BY <1>1, <2>1, <2>3, <2>4, <2>5 DEF ActiveAt, ActiveListed, ActiveIfAny
  <2>8. mem' = [mem EXCEPT ![p] = c] /\ job' = [job EXCEPT ![p] = job[p]] /\ UNCHANGED file
    BY <1>3, <2>2 DEF Settings, host, c, new, IInv, HandlersFine
  <2>9. QED
    BY <2>6, <2>7, <2>8, OneActive DEF Goto
<1>4. CASE Collect(p)
  <2>1. PICK t, s : job' = [job EXCEPT ![p].new = t, ![p].shared = s]
    BY <1>4 DEF Collect
  <2>2. \A q \in Procs : job'[q].cmd = job[q].cmd
    <3>1. job' = [job EXCEPT ![p] = [job[p] EXCEPT !.new = t, !.shared = s]]
      BY <2>1
    <3>2. [job[p] EXCEPT !.new = t, !.shared = s].cmd = job[p].cmd
      BY <1>1 DEF Job
    <3>3. QED
      BY <3>1, <3>2, SameCommand
  <2>3. QED
    BY <1>4, <2>2, CalmActive DEF Collect, host, Saving
<1>5. CASE Gather(p)
  <2> DEFINE t == job[p].new
             c == [mem[p] EXCEPT !.tunnels = Append(@, t)]
             j == [job[p] EXCEPT !.todo = Append(@, t.tag),
                                 !.dns = IF IsDNSTunnel(t) THEN @ + 1 ELSE @]
  <2>1. job[p].cmd \in {"install", "wizard"} /\ IsNew(mem[p], t)
    BY <1>5, InstallOf DEF Gather, InstallAt
  <2>2. TagsOf(c) = TagsOf(mem[p]) \cup {t.tag} /\ c.active = mem[p].active
    BY <1>1, <2>1, GatherSound DEF IsNew
  <2>3. /\ mem' = [mem EXCEPT ![p] = c] /\ pc' = [pc EXCEPT ![p] = "collect"]
        /\ job' = [job EXCEPT ![p] = j] /\ UNCHANGED file
    BY <1>5 DEF Gather, Goto, host
  <2>4. j.cmd = job[p].cmd
    BY <1>1 DEF Job
  <2> HIDE DEF c, j
  <2>5. ActiveAt(c, "collect", j)
    BY <1>1, <2>1, <2>2, <2>4 DEF ActiveAt, ActiveListed, Saving
  <2>6. QED
    BY <2>3, <2>5, OneActive
<1>6. CASE SaveInstalled(p)
  <2> DEFINE l == IF job[p].todo = <<>> THEN "done" ELSE "truncate"
             first == Head(job[p].todo)
             set == job[p].cmd = "install" /\ job[p].todo # <<>>
             c == IF set THEN [mem[p] EXCEPT !.active = first, !.default = first] ELSE mem[p]
  <2>1. job[p].cmd \in {"install", "wizard"} /\ TagsIn(job[p].todo) \subseteq TagsOf(mem[p])
    BY <1>6, InstallOf DEF SaveInstalled, InstallAt
  <2>2. job[p].todo # <<>> => first \in TagsOf(mem[p]) /\ first # NoTag
    <3>1. job[p].todo # <<>> => first \in TagsIn(job[p].todo)
      BY <1>1, TailTags DEF Job
    <3>2. QED
      BY <1>1, <2>1, <3>1, TagsOfType, ConfigurationAssumption
  <2>3. /\ c.tunnels = mem[p].tunnels /\ (set => c.active = first)
        /\ ~set => c = mem[p]
    BY <1>1 DEF Config
  <2>4. /\ mem' = [mem EXCEPT ![p] = c] /\ pc' = [pc EXCEPT ![p] = l]
        /\ job' = [job EXCEPT ![p] = job[p]] /\ UNCHANGED file
    BY <1>6 DEF SaveInstalled, Goto, host, IInv, HandlersFine
  <2> HIDE DEF c, first
  <2>5. ActiveAt(c, l, job[p])
    BY <1>1, <2>1, <2>2, <2>3 DEF ActiveAt, ActiveListed, ActiveIfAny, Saving, TagsOf
  <2> HIDE DEF l
  <2>6. QED
    BY <2>4, <2>5, OneActive
<1>7. QED
  BY <1>2, <1>3, <1>4, <1>5, <1>6 DEF Answers

\* The statements of the handlers.
LEMMA StatementsActive ==
  ASSUME IInv, ActiveFine, NEW p \in Procs, Statements(p)
  PROVE  ActiveFine'
<1>1. /\ Sound(mem[p]) /\ mem[p] \in Config /\ ActiveAt(mem[p], pc[p], job[p])
      /\ At(mem[p], pc[p], job[p]) /\ job[p] \in Job
      /\ UNCHANGED job => job' = [job EXCEPT ![p] = job[p]]
  BY HandlerOf DEF ActiveFine, IInv, HandlersFine
<1>2. CASE SetUpDir(p)
  <2> DEFINE l == IF Installing(p) THEN "gather" ELSE "register"
  <2>1. \A q \in Procs : job'[q].cmd = job[q].cmd
    <3>1. UNCHANGED job \/ \E k : job' = [job EXCEPT ![p] = [job[p] EXCEPT !.new.pub = k]]
      BY <1>2 DEF SetUpDir
    <3>2. \A k : [job[p] EXCEPT !.new.pub = k].cmd = job[p].cmd
      BY <1>1 DEF Job
    <3>3. CASE UNCHANGED job
      BY <3>3
    <3>4. QED
      BY <3>1, <3>2, <3>3, SameCommand
  <2>2. Goto(p, l) /\ UNCHANGED <<file, mem>>
    BY <1>2 DEF SetUpDir
  <2>3. l \notin Saving
    BY DEF Saving
  <2> HIDE DEF l
  <2>4. QED
    BY <2>1, <2>2, <2>3, CalmActive
<1>3. CASE RouteTunnel(p)
  <2> DEFINE j == [job[p] EXCEPT !.shared = IF @ = NoTag THEN job[p].new.tag ELSE @]
  <2>1. job' = [job EXCEPT ![p] = j] /\ j.cmd = job[p].cmd
    BY <1>1, <1>3 DEF RouteTunnel, Job
  <2> HIDE DEF j
  <2>2. \A q \in Procs : job'[q].cmd = job[q].cmd
    BY <2>1, SameCommand
  <2>3. PICK l \in {"done", "reroute", "createRouter"} : Goto(p, l)
    BY <1>3 DEF RouteTunnel, AddToRouter
  <2>4. QED
    BY <1>3, <2>2, <2>3, CalmActive DEF RouteTunnel, Saving, host
<1>4. CASE Truncate(p)
  BY <1>4, CalmActive DEF Truncate, Saving
<1>5. CASE WriteFile(p)
  <2>1. ActiveListed(mem[p]) /\ ActiveIfAny(mem[p])
    BY <1>1, <1>5 DEF WriteFile, ActiveAt, Saving
  <2>2. PICK l : Goto(p, l) /\ UNCHANGED <<mem, job>> /\ file' = mem[p]
    BY <1>5 DEF WriteFile
  <2>3. \A q \in Procs : ActiveAt(mem'[q], pc'[q], job'[q])
    <3> TAKE q \in Procs
    <3>1. ActiveAt(mem[q], pc[q], job[q]) /\ mem'[q] = mem[q] /\ job'[q] = job[q]
      BY <2>2 DEF ActiveFine
    <3>2. q # p => pc'[q] = pc[q]
      BY <2>2 DEF IInv, HandlersFine, Goto
    <3>3. CASE q = p
      BY <2>1, <3>1, <3>3 DEF ActiveAt
    <3>4. QED
      BY <3>1, <3>2, <3>3
  <2>4. QED
    BY <2>1, <2>2, <2>3 DEF ActiveFine
<1>6. CASE Stop(p) \/ RenameDir(p) \/ Unroute(p) \/ Reroute(p) \/ StopActive(p) \/ StartActive(p)
           \/ StartRouter(p) \/ StopRouter(p) \/ RemoveConfigDir(p)
  <2>1. PICK l \in Statement \ Saving : Goto(p, l)
    BY <1>6 DEF Stop, RenameDir, Unroute, Reroute, StopActive, StartActive, StartRouter, StopRouter,
                RemoveConfigDir, Saving, Statement
  <2>2. UNCHANGED <<mem, job>> /\ (UNCHANGED file \/ file' = Torn)
    BY <1>6 DEF Stop, RenameDir, Unroute, Reroute, StopActive, StartActive, StartRouter, StopRouter,
                RemoveConfigDir, host
  <2>3. QED
    BY <2>1, <2>2, CalmActive
<1>7. CASE RemoveUnit(p)
  <2>1. CASE job[p].cmd = "remove"
    BY <1>7, <2>1, CalmActive DEF RemoveUnit, Saving
  <2>2. CASE job[p].cmd = "uninstall"
    BY <1>7, <2>2, AdvanceActive DEF RemoveUnit, LoopStart
  <2>3. CASE job[p].cmd \notin {"remove", "uninstall"}
    <3> DEFINE new == job[p].new.tag
               c == Rename(mem[p], Current(p), new)
               j == [job[p] EXCEPT !.todo = <<new>>]
    <3>1. job[p].cmd = "edit" /\ EditAt(mem[p], "removeUnit", job[p])
      BY <1>1, <1>7, <2>3 DEF RemoveUnit, At, AddAt, MTUAt, UpdateAt, RestartAt, ModeAt, SwitchAt,
         InstallAt, Job, CommandNames
    <3>2. PICK tag \in TagsOf(mem[p]) : job[p].todo = <<tag>> /\ new \notin TagsOf(mem[p])
      BY <3>1 DEF EditAt
    <3>3. Current(p) = tag /\ new \in Tags
      BY <1>1, <3>1, <3>2, OneTag, TagsOfType DEF Current, EditAt, Tunnel
    <3>4. /\ ActiveListed(c) /\ (c.active = NoTag => mem[p].active = NoTag)
          /\ mem[p].tunnels # <<>>
      BY <1>1, <3>2, <3>3, RenameSound DEF ActiveAt
    <3>5. j.cmd = "edit"
      BY <1>1, <3>1 DEF Job
    <3>6. /\ mem' = [mem EXCEPT ![p] = c] /\ job' = [job EXCEPT ![p] = j]
          /\ pc' = [pc EXCEPT ![p] = "settings"] /\ UNCHANGED file
      BY <1>7, <2>3 DEF RemoveUnit, Goto
    <3> HIDE DEF c, j
    <3>7. ActiveAt(c, "settings", j)
      BY <1>1, <3>1, <3>4, <3>5 DEF ActiveAt, ActiveIfAny
    <3>8. QED
      BY <3>6, <3>7, OneActive
  <2>4. QED
    BY <2>1, <2>2, <2>3
<1>8. CASE Create(p) \/ Start(p)
  <2>1. AfterUnit(p) \/ (Goto(p, "start") /\ UNCHANGED job)
    BY <1>8 DEF Create, Start
  <2>2. UNCHANGED <<file, mem>>
    BY <1>8 DEF Create, Start
  <2>3. QED
    BY <2>1, <2>2, AfterActive, CalmActive DEF Saving
<1>9. CASE Restart(p)
  <2>1. job[p].cmd \in {"restart", "mode"}
    BY <1>1, <1>9 DEF Restart, At, AddAt, EditAt, RemoveAt, MTUAt, UpdateAt, SwitchAt, InstallAt,
       UninstallAt, Job, CommandNames
  <2>2. UNCHANGED <<file, mem>> /\ (Advance(p) \/ (Goto(p, "done") /\ UNCHANGED job))
    BY <1>9 DEF Restart
  <2>3. QED
    BY <2>1, <2>2, AdvanceActive, CalmActive DEF Saving, LoopStart
<1>10. CASE ImportKey(p)
  <2> DEFINE t == GetTunnel(mem[p], Current(p))
  <2>1. /\ job[p].cmd = "edit" /\ t \in Tunnel /\ t.tag = Current(p) /\ t.tag \in Tags
        /\ Current(p) \in TagsOf(mem[p]) /\ (NeedsDomain(t) => t.domain # NoDomain)
    BY <1>10, EditOf, CurrentTunnel DEF ImportKey, OnTunnel
  <2>2. CASE UNCHANGED mem
    BY <1>10, <2>2, CalmActive DEF ImportKey, Saving
  <2>3. CASE ~UNCHANGED mem
    <3>1. PICK k \in Keys :
            mem' = [mem EXCEPT ![p] = Replace(@, t.tag, [t EXCEPT !.keyDir = t.tag, !.pub = k])]
      BY <1>10, <2>3 DEF ImportKey
    <3> DEFINE new == [t EXCEPT !.keyDir = t.tag, !.pub = k]
               c == Replace(mem[p], t.tag, new)
    <3>2. new \in Tunnel /\ new.tag = t.tag /\ (NeedsDomain(new) => new.domain # NoDomain)
      BY <2>1 DEF Tunnel, NeedsDomain, IsDirectTransport
    <3>3. mem' = [mem EXCEPT ![p] = c] /\ pc' = [pc EXCEPT ![p] = "finish"] /\ UNCHANGED file
      BY <1>10, <3>1 DEF ImportKey, Goto
    <3>4. job' = [job EXCEPT ![p] = job[p]]
      BY <1>1, <1>10 DEF ImportKey
    <3> HIDE DEF new
    <3>5. /\ TagsOf(c) = (TagsOf(mem[p]) \ {t.tag}) \cup {new.tag}
          /\ c.active = mem[p].active
      BY <1>1, <2>1, <3>2, ReplaceSound
    <3>6. mem[p].tunnels # <<>>
      BY <1>1, <2>1, ConfigFields DEF TagsOf
    <3> HIDE DEF c, t
    <3>7. ActiveAt(c, "finish", job[p])
      BY <1>1, <2>1, <3>2, <3>5, <3>6 DEF ActiveAt, ActiveListed, ActiveIfAny
    <3>8. QED
      BY <3>3, <3>4, <3>7, OneActive
  <2>4. QED
    BY <2>2, <2>3
<1>11. CASE FinishEdit(p)
  <2>1. job[p].cmd = "edit"
    BY <1>11, EditOf DEF FinishEdit
  <2>2. QED
    BY <1>11, <2>1, CalmActive DEF FinishEdit, host
<1>12. CASE ForgetTunnel(p)
  <2> DEFINE c == Deregister(mem[p], Current(p))
             j == [job[p] EXCEPT !.todo = Tail(@)]
             l == Enter(job[p].cmd, Tail(job[p].todo))
  <2>1. job[p].cmd = "remove" /\ Current(p) \in TagsOf(mem[p])
    BY <1>12, RemoveOf, CurrentOf DEF ForgetTunnel, OnTunnel
  <2>2. /\ ActiveListed(c)
        /\ c.active = NoTag => mem[p].active = NoTag \/ c.tunnels = <<>>
    BY <1>1, <2>1, DeregisterSound DEF ActiveAt
  <2>3. mem[p].tunnels # <<>>
    BY <1>1, <2>1, ConfigFields DEF TagsOf
  <2>4. j.cmd = "remove"
    BY <1>1, <2>1 DEF Job
  <2>5. /\ mem' = [mem EXCEPT ![p] = c] /\ job' = [job EXCEPT ![p] = j] /\ pc' = [pc EXCEPT ![p] = l]
        /\ UNCHANGED file
    BY <1>12 DEF ForgetTunnel, Advance, Goto
  <2> HIDE DEF c, j, l
  <2>6. ActiveAt(c, l, j)
    BY <1>1, <2>1, <2>2, <2>3, <2>4 DEF ActiveAt, ActiveIfAny
  <2>7. QED
    BY <2>5, <2>6, OneActive
<1>13. CASE EnsureRouter(p) \/ CreateRouter(p)
  <2>1. CASE Goto(p, "truncate") /\ mem' = [mem EXCEPT ![p].mode = job[p].mode] /\ job[p].cmd = "mode"
    <3> DEFINE c == [mem[p] EXCEPT !.mode = job[p].mode]
    <3>1. c.tunnels = mem[p].tunnels /\ c.active = mem[p].active
      BY <1>1 DEF Config
    <3>2. /\ mem' = [mem EXCEPT ![p] = c] /\ job' = [job EXCEPT ![p] = job[p]]
          /\ pc' = [pc EXCEPT ![p] = "truncate"] /\ UNCHANGED file
      BY <1>1, <1>13, <2>1 DEF EnsureRouter, CreateRouter, Goto, host
    <3> HIDE DEF c
    <3>3. ActiveAt(c, "truncate", job[p])
      BY <1>1, <2>1, <3>1 DEF ActiveAt, ActiveListed, ActiveIfAny, TagsOf
    <3>4. QED
      BY <3>2, <3>3, OneActive
  <2>2. CASE \E l \in {"createRouter", "done"} : Goto(p, l) /\ UNCHANGED mem
    BY <1>13, <2>2, CalmActive DEF EnsureRouter, CreateRouter, Saving, host
  <2>3. EnsureRouter(p) => job[p].cmd = "mode"
    BY <1>1 DEF EnsureRouter, At, AddAt, EditAt, RemoveAt, MTUAt, UpdateAt, RestartAt,
       SwitchAt, InstallAt, UninstallAt, Job, CommandNames
  <2>4. QED
    BY <1>13, <2>1, <2>2, <2>3 DEF EnsureRouter, CreateRouter
<1>14. CASE RestartRouter(p)
  <2>1. CASE job[p].cmd = "switch" /\ router.state # "absent"
    <3> DEFINE c == [mem[p] EXCEPT !.active = Current(p)]
    <3>1. PICK tag \in TagsOf(mem[p]) : job[p].todo = <<tag>>
      BY <1>1, <2>1 DEF At, SwitchAt
    <3>2. Current(p) = tag /\ tag # NoTag
      BY <1>1, <3>1, OneTag, TagsOfType, ConfigurationAssumption DEF Current
    <3>3. c.tunnels = mem[p].tunnels /\ c.active = tag
      BY <1>1, <3>2 DEF Config
    <3>4. /\ mem' = [mem EXCEPT ![p] = c] /\ job' = [job EXCEPT ![p] = job[p]]
          /\ pc' = [pc EXCEPT ![p] = "truncate"] /\ UNCHANGED file
      BY <1>1, <1>14, <2>1 DEF RestartRouter, Goto
    <3> HIDE DEF c
    <3>5. ActiveAt(c, "truncate", job[p])
      BY <2>1, <3>1, <3>2, <3>3 DEF ActiveAt, ActiveListed, ActiveIfAny, TagsOf
    <3>6. QED
      BY <3>4, <3>5, OneActive
  <2>2. CASE ~(job[p].cmd = "switch" /\ router.state # "absent")
    BY <1>14, <2>2, CalmActive DEF RestartRouter, Saving
  <2>3. QED
    BY <2>1, <2>2
<1>15. CASE MultiMode(p)
  <2> DEFINE c == [mem[p] EXCEPT !.mode = "multi"]
             j == [job[p] EXCEPT !.mode = "multi"]
  <2>1. c.tunnels = mem[p].tunnels /\ c.active = mem[p].active /\ j.cmd = job[p].cmd
    BY <1>1 DEF Config, Job
  <2>2. /\ mem' = [mem EXCEPT ![p] = c] /\ job' = [job EXCEPT ![p] = j]
        /\ pc' = [pc EXCEPT ![p] = "truncate"] /\ UNCHANGED file /\ pc[p] = "multi"
    BY <1>15 DEF MultiMode, Goto, host
  <2> HIDE DEF c, j
  <2>3. ActiveAt(c, "truncate", j)
    BY <1>1, <2>1, <2>2 DEF ActiveAt, ActiveListed, ActiveIfAny, TagsOf, Saving
  <2>4. QED
    BY <2>2, <2>3, OneActive
<1>16. CASE RemoveRouter(p)
  <2> DEFINE j == [job[p] EXCEPT !.dns = 0]
  <2>1. job' = [job EXCEPT ![p] = j] /\ j.cmd = job[p].cmd
    BY <1>1, <1>16 DEF RemoveRouter, Job
  <2> HIDE DEF j
  <2>2. \A q \in Procs : job'[q].cmd = job[q].cmd
    BY <2>1, SameCommand
  <2>3. PICK l \in Statement \ Saving : Goto(p, l)
    BY <1>16 DEF RemoveRouter, Enter, LoopStart, LoopEnd, Saving, Statement
  <2>4. QED
    BY <1>16, <2>2, <2>3, CalmActive DEF RemoveRouter
<1>17. QED
  BY <1>2, <1>3, <1>4, <1>5, <1>6, <1>7, <1>8, <1>9, <1>10, <1>11, <1>12, <1>13, <1>14, <1>15, <1>16
     DEF Statements

LEMMA FailuresActive ==
  ASSUME IInv, ActiveFine, NEW p \in Procs, Failures(p) \/ End(p)
  PROVE  ActiveFine'
<1>1. CASE SetUpDirFails(p) \/ AddFails(p) \/ CollectFails(p) \/ SaveFails(p) \/ RenameDirFails(p)
           \/ ImportKeyFails(p) \/ EditFails(p) \/ StartActiveFails(p)
  <2>1. Goto(p, "done") \/ Goto(p, "finish") \/ Goto(p, "create")
    BY <1>1 DEF SetUpDirFails, AddFails, CollectFails, SaveFails, RenameDirFails, ImportKeyFails,
                EditFails, StartActiveFails
  <2>2. UNCHANGED <<file, mem, job>>
    BY <1>1 DEF SetUpDirFails, AddFails, CollectFails, SaveFails, RenameDirFails, ImportKeyFails,
                EditFails, StartActiveFails, host
  <2>3. QED
    BY <2>1, <2>2, CalmActive DEF Saving
<1>2. CASE CreateFails(p) \/ StartFails(p)
  BY <1>2, AfterActive DEF CreateFails, StartFails, host
<1>3. CASE RestartFails(p)
  <2>1. At(mem[p], "restart", job[p]) /\ job[p] \in Job
    BY <1>3, HandlerOf DEF RestartFails
  <2>2. job[p].cmd \in {"restart", "mode"}
    BY <2>1 DEF At, AddAt, EditAt, RemoveAt, MTUAt, UpdateAt, SwitchAt, InstallAt,
       UninstallAt, Job, CommandNames
  <2>3. UNCHANGED <<file, mem>> /\ (Advance(p) \/ (Goto(p, "done") /\ UNCHANGED job))
    BY <1>3 DEF RestartFails, host
  <2>4. QED
    BY <2>2, <2>3, AdvanceActive, CalmActive DEF Saving, LoopStart
<1>4. CASE End(p) \/ Crash(p)
  <2>1. ActiveAt(DefaultConfig, "idle", NoJob)
    BY DEF ActiveAt, ActiveListed, ActiveIfAny, DefaultConfig, NoJob
  <2>2. QED
    BY <1>4, <2>1, OneActive DEF End, Crash, Forget, Goto, host
<1>5. QED
  BY <1>1, <1>2, <1>3, <1>4 DEF Failures

\* Tags stay unique, and Route.Active names a tunnel or is empty for a reason, in
\* the file and in every copy of it: for any number of processes that overwrite
\* each other's changes, whatever fails or dies, provided that the backups that
\* are imported have it too.  The router and every handler that begins after an
\* accident start from such a file.
THEOREM ConfigurationStaysConsistent ==
  ASSUME ImportsConsistent
  PROVE  Spec => []ConfigurationConsistent
<1>1. Init => ActiveFine
  <2> SUFFICES ASSUME Init  PROVE ActiveFine
    OBVIOUS
  <2>1. ActiveAt(DefaultConfig, "idle", NoJob) /\ ActiveListed(DefaultConfig) /\ ActiveIfAny(DefaultConfig)
    BY DEF ActiveAt, ActiveListed, ActiveIfAny, DefaultConfig, NoJob
  <2>2. QED
    BY <2>1 DEF Init, ActiveFine
<1>2. IInv /\ ActiveFine /\ [Next]_vars => ActiveFine'
  <2> SUFFICES ASSUME IInv, ActiveFine, [Next]_vars  PROVE ActiveFine'
    OBVIOUS
  <2>1. CASE UNCHANGED vars
    BY <2>1 DEF vars, ActiveFine
  <2>2. CASE Router
    BY <2>2 DEF Router, RouterLoads, RouterFails, RouterRetries, proc, ActiveFine
  <2>3. ASSUME NEW p \in Procs,
               Begins(p) \/ Answers(p) \/ Statements(p) \/ Failures(p) \/ End(p)
        PROVE  ActiveFine'
    BY <2>3, BeginsActive, AnswersActive, StatementsActive, FailuresActive
  <2>4. QED
    BY <2>1, <2>2, <2>3 DEF Next
<1>3. IInv /\ ActiveFine => ConfigurationConsistent
  <2> SUFFICES ASSUME IInv, ActiveFine  PROVE ConfigurationConsistent
    OBVIOUS
  <2>1. file # Torn => UniqueTags(file) /\ ActiveListed(file) /\ ActiveIfAny(file)
    BY DEF IInv, HostFine, Sound, ActiveFine
  <2>2. ASSUME NEW p \in Procs
        PROVE  /\ UniqueTags(mem[p]) /\ ActiveListed(mem[p])
               /\ ~Installing(p) => ActiveIfAny(mem[p])
    BY HandlerOf DEF Sound, ActiveFine, ActiveAt, Installing
  <2>3. QED
    BY <2>1, <2>2 DEF ConfigurationConsistent
<1>4. QED
  BY InitFine, NextFine, <1>1, <1>2, <1>3, PTL DEF Spec

-------------------------------------------------------------------------------
(***************************************************************************)
(* Units and ports                                                         *)
(*                                                                         *)
(* Of a tunnel, its place is what the server of its unit is known and      *)
(* reached by: tag, transport and port.  One process, whose writes         *)
(* complete, works like this: whatever unit there is has its place in the  *)
(* file, unless the file is just being written, and in the process's copy; *)
(* and where the process writes units, it has saved its copy before.       *)
(***************************************************************************)
Place(t)    == [tag |-> t.tag, transport |-> t.transport, port |-> t.port]
PlacesOf(c) == {Place(c.tunnels[i]) : i \in DOMAIN c.tunnels}
OnFile(f)   == IF f = Torn THEN {} ELSE PlacesOf(f)

UnitsIn(u, S) == \A tag \in Tags : u[tag] # NoUnit => u[tag].tag = tag /\ Place(u[tag]) \in S

\* Ports of servers that NextAvailablePort has chosen differ.
Apart(S) ==
  \A x, y \in S : HasManagedService(x) /\ HasManagedService(y) /\ x.port = y.port => x.tag = y.tag

FreshIn(S, t) ==
  \A x \in S : HasManagedService(x) /\ HasManagedService(t) => x.port # t.port

\* Removing, of a handler's locals.
Removes(j) == j.cmd \in {"remove", "uninstall"} \/ (j.cmd = "edit" /\ Head(j.todo) # j.new.tag)

\* The copy is in the file: where a unit is about to be written, and where the
\* wizard goes on to that although a second Save fails.
SavedAt(l, j) ==
  \/ l \in {"create", "start", "multi"}
  \/ l = "stop" /\ ~Removes(j)
  \/ l = "truncate" /\ j.cmd \in {"install", "wizard"} /\ j.mode = "multi"

OwnAt(f, u, c, l, j) ==
  /\ Apart(PlacesOf(c))
  /\ l # "write" => UnitsIn(u, OnFile(f))
  /\ l # "idle"  => UnitsIn(u, PlacesOf(c))
  /\ l \in {"keys", "register", "gather"} => FreshIn(PlacesOf(c), j.new)
  /\ SavedAt(l, j) => PlacesOf(c) \subseteq OnFile(f)
  /\ j.cmd \in {"install", "wizard"} /\ l \in {"collect", "keys", "gather"} => j.mode = "single"
  /\ l \in {"unroute", "forget"} \/ (l = "reroute" /\ j.cmd = "remove") => u[Head(j.todo)] = NoUnit
  /\ j.cmd = "uninstall" /\ l \in {"stop", "removeUnit", "removeRouter"} =>
       \A tag \in Tags : u[tag] # NoUnit => tag \in TagsIn(j.todo)
  /\ l = "removeConfigDir" => \A tag \in Tags : u[tag] = NoUnit

OwnFine == Apart(OnFile(file)) /\ \A p \in Procs : OwnAt(file, unit, mem[p], pc[p], job[p])

\* One process, no imports, and every Save that truncates the file writes it.
Alone(q) == Procs = {q} /\ "import" \notin Commands /\ ~TornWrites

-------------------------------------------------------------------------------
\* What the handlers' operators do to the places of a configuration.
LEMMA PlaceFields ==
  ASSUME NEW t
  PROVE  /\ Place(t).tag = t.tag /\ Place(t).transport = t.transport /\ Place(t).port = t.port
         /\ HasManagedService(Place(t)) <=> HasManagedService(t)
  BY DEF Place, HasManagedService, IsDNSTunnel

LEMMA SamePlaces ==
  ASSUME NEW c, NEW d, d.tunnels = c.tunnels
  PROVE  PlacesOf(d) = PlacesOf(c)
  BY DEF PlacesOf

LEMMA PlaceFound ==
  ASSUME NEW c, Sound(c), NEW tag \in TagsOf(c)
  PROVE  /\ Place(GetTunnel(c, tag)) \in PlacesOf(c)
         /\ \A x \in PlacesOf(c) : x.tag = tag => x = Place(GetTunnel(c, tag))
<1>1. c \in Config /\ UniqueTags(c)
  BY DEF Sound
<1>2. IndexOf(c, tag) \in DOMAIN c.tunnels
  BY <1>1, IndexOfFound
<1>3. ASSUME NEW i \in DOMAIN c.tunnels, Place(c.tunnels[i]).tag = tag
      PROVE  Place(c.tunnels[i]) = Place(GetTunnel(c, tag))
  <2>1. c.tunnels[i].tag = tag
    BY <1>3, PlaceFields
  <2>2. IndexOf(c, tag) = i
    BY <1>1, <2>1, IndexOfUnique
  <2>3. QED
    BY <2>2 DEF GetTunnel
<1>4. QED
  BY <1>2, <1>3 DEF PlacesOf, GetTunnel

LEMMA AppendPlaces ==
  ASSUME NEW c \in Config, NEW t \in Tunnel, NEW d, d.tunnels = Append(c.tunnels, t)
  PROVE  PlacesOf(d) = PlacesOf(c) \cup {Place(t)}
<1> DEFINE s == c.tunnels
           n == Len(c.tunnels)
<1>1. s \in Seq(Tunnel) /\ n \in Nat /\ DOMAIN s = 1..n
  BY ConfigFields
<1> HIDE DEF s, n
<1>2. Append(s, t) \in Seq(Tunnel) /\ Len(s) = n
  BY <1>1 DEF n, s
<1>3. /\ DOMAIN Append(s, t) = 1..(n + 1) /\ Append(s, t)[n + 1] = t
      /\ \A i \in 1..n : Append(s, t)[i] = s[i]
  BY <1>1, <1>2, AppendProperties
<1>4. 1..(n + 1) = (1..n) \cup {n + 1}
  BY <1>1
<1>5. QED
  BY <1>1, <1>3, <1>4 DEF PlacesOf, s

LEMMA RegisterPlaces ==
  ASSUME NEW c \in Config, NEW t \in Tunnel
  PROVE  PlacesOf(Register(c, t)) = PlacesOf(c) \cup {Place(t)}
<1>1. Register(c, t).tunnels = Append(c.tunnels, t)
  BY DEF Register
<1>2. QED
  BY <1>1, AppendPlaces

LEMMA WithMTUPlaces ==
  ASSUME NEW c \in Config, NEW mtu \in Mtus
  PROVE  PlacesOf(WithMTU(c, mtu)) = PlacesOf(c)
<1> DEFINE new == [i \in DOMAIN c.tunnels |->
                     IF HasKeyPair(c.tunnels[i]) THEN [c.tunnels[i] EXCEPT !.mtu = mtu]
                                                 ELSE c.tunnels[i]]
<1>1. \A i \in DOMAIN c.tunnels : c.tunnels[i] \in Tunnel
  BY ConfigFields
<1>2. \A i \in DOMAIN c.tunnels : Place(new[i]) = Place(c.tunnels[i])
  BY <1>1 DEF Tunnel, Place
<1>3. WithMTU(c, mtu).tunnels = new
  BY DEF WithMTU, Config
<1>4. DOMAIN new = DOMAIN c.tunnels
  OBVIOUS
<1> HIDE DEF new
<1>5. QED
  BY <1>2, <1>3, <1>4 DEF PlacesOf

LEMMA ReplacePlaces ==
  ASSUME NEW c, Sound(c), NEW tag \in TagsOf(c), NEW t
  PROVE  LET d == Replace(c, tag, t)
         IN  /\ \A x \in PlacesOf(d) : x = Place(t) \/ (x \in PlacesOf(c) /\ x.tag # tag)
             /\ \A x \in PlacesOf(c) : x.tag # tag => x \in PlacesOf(d)
             /\ Place(t) \in PlacesOf(d)
<1> DEFINE d == Replace(c, tag, t)
           k == IndexOf(c, tag)
<1>1. c \in Config /\ UniqueTags(c)
  BY DEF Sound
<1>2. k \in DOMAIN c.tunnels /\ c.tunnels[k].tag = tag
  BY <1>1, IndexOfFound
<1>3. d.tunnels = [c.tunnels EXCEPT ![k] = t]
  BY <1>1 DEF Replace, Config
<1> HIDE DEF d, k
<1>4. DOMAIN d.tunnels = DOMAIN c.tunnels /\ d.tunnels[k] = t
      /\ \A i \in DOMAIN c.tunnels : i # k => d.tunnels[i] = c.tunnels[i]
  BY <1>2, <1>3
<1>5. \A i \in DOMAIN c.tunnels : i # k => Place(c.tunnels[i]).tag # tag
  BY <1>1, <1>2, PlaceFields DEF UniqueTags
<1>6. Place(c.tunnels[k]).tag = tag
  BY <1>2, PlaceFields
<1>7. QED
  BY <1>2, <1>4, <1>5, <1>6 DEF PlacesOf, d

\* A setting is changed, or a key.
LEMMA SettingPlaces ==
  ASSUME NEW c, Sound(c), NEW tag \in TagsOf(c), NEW t, Place(t) = Place(GetTunnel(c, tag))
  PROVE  PlacesOf(Replace(c, tag, t)) = PlacesOf(c)
<1> DEFINE S == PlacesOf(c)
           R == PlacesOf(Replace(c, tag, t))
<1>1. /\ \A x \in R : x = Place(t) \/ (x \in S /\ x.tag # tag)
      /\ \A x \in S : x.tag # tag => x \in R
      /\ Place(t) \in R
  BY ReplacePlaces
<1>2. Place(t) \in S /\ \A x \in S : x.tag = tag => x = Place(t)
  BY PlaceFound
<1> HIDE DEF S, R
<1>3. \A x \in R : x \in S
  BY <1>1, <1>2
<1>4. \A x \in S : x \in R
  BY <1>1, <1>2
<1>5. R = S
  BY <1>3, <1>4
<1>6. QED
  BY <1>5 DEF R, S

LEMMA RenamePlaces ==
  ASSUME NEW c, Sound(c), NEW tag \in TagsOf(c), NEW newTag \in Tags, newTag \notin TagsOf(c)
  PROVE  LET d == Rename(c, tag, newTag)
         IN  /\ Apart(PlacesOf(c)) => Apart(PlacesOf(d))
             /\ \A x \in PlacesOf(c) : x.tag # tag => x \in PlacesOf(d)
<1> DEFINE t == GetTunnel(c, tag)
           moved == [t EXCEPT !.tag = newTag, !.keyDir = IF HasKeyPair(t) THEN newTag ELSE @]
           r == Replace(c, tag, moved)
           d == Rename(c, tag, newTag)
<1>1. c \in Config /\ t \in Tunnel /\ t.tag = tag /\ Place(t) \in PlacesOf(c)
  BY GetTunnelFound, PlaceFound DEF Sound
<1>2. moved.tag = newTag /\ moved.transport = t.transport /\ moved.port = t.port
  BY <1>1 DEF Tunnel
<1>3. d.tunnels = r.tunnels
  <2>1. d = [r EXCEPT !.active  = IF @ = tag THEN newTag ELSE @,
                      !.default = IF @ = tag THEN newTag ELSE @]
    BY DEF Rename
  <2>2. r = [c EXCEPT !.tunnels[IndexOf(c, tag)] = moved]
    BY DEF Replace
  <2> HIDE DEF moved, r, d
  <2>3. QED
    BY <1>1, <2>1, <2>2 DEF Config
<1> HIDE DEF moved, r, d, t
<1>4. PlacesOf(d) = PlacesOf(r)
  BY <1>3, SamePlaces
<1>5. /\ \A x \in PlacesOf(r) : x = Place(moved) \/ (x \in PlacesOf(c) /\ x.tag # tag)
      /\ \A x \in PlacesOf(c) : x.tag # tag => x \in PlacesOf(r)
  BY ReplacePlaces DEF r
<1>6. /\ Place(moved).port = Place(t).port /\ Place(t).tag = tag
      /\ HasManagedService(Place(moved)) <=> HasManagedService(Place(t))
  BY <1>1, <1>2 DEF Place, HasManagedService, IsDNSTunnel
<1>7. ASSUME Apart(PlacesOf(c))  PROVE Apart(PlacesOf(r))
  <2> SUFFICES ASSUME NEW x \in PlacesOf(r), NEW y \in PlacesOf(r), HasManagedService(x),
                      HasManagedService(y), x.port = y.port
               PROVE  x.tag = y.tag
    BY DEF Apart
  <2>1. CASE x = Place(moved) /\ y = Place(moved)
    BY <2>1
  <2>2. CASE x = Place(moved) /\ y \in PlacesOf(c) /\ y.tag # tag
    BY <1>1, <1>6, <1>7, <2>2 DEF Apart
  <2>3. CASE y = Place(moved) /\ x \in PlacesOf(c) /\ x.tag # tag
    BY <1>1, <1>6, <1>7, <2>3 DEF Apart
  <2>4. CASE x \in PlacesOf(c) /\ y \in PlacesOf(c)
    BY <1>7, <2>4 DEF Apart
  <2>5. QED
    BY <1>5, <2>1, <2>2, <2>3, <2>4
<1>8. QED
  BY <1>4, <1>5, <1>7 DEF d

LEMMA DeregisterPlaces ==
  ASSUME NEW c, Sound(c), NEW tag \in TagsOf(c)
  PROVE  LET d == Deregister(c, tag)
         IN  /\ PlacesOf(d) \subseteq PlacesOf(c)
             /\ \A x \in PlacesOf(c) : x.tag # tag => x \in PlacesOf(d)
<1> DEFINE d == Deregister(c, tag)
           w == WithoutTunnel(c, tag)
           k == IndexOf(c, tag)
           n == Len(c.tunnels)
<1>1. /\ c \in Config /\ n \in Nat /\ DOMAIN c.tunnels = 1..n
  BY ConfigFields DEF Sound
<1>2. k \in 1..n /\ c.tunnels[k].tag = tag
  BY <1>1, IndexOfFound
<1>3. /\ w \in Seq(Tunnel) /\ Len(w) = n - 1
      /\ \A i \in 1..(n - 1) : w[i] = IF i < k THEN c.tunnels[i] ELSE c.tunnels[i + 1]
  BY <1>1, WithoutTunnelElements
<1>4. d.tunnels = w
  BY <1>1 DEF Deregister, Config
<1> HIDE DEF d, w, k, n
<1>5. DOMAIN w = 1..(n - 1)
  BY <1>1, <1>3
<1>6. ASSUME NEW i \in 1..(n - 1)  PROVE Place(w[i]) \in PlacesOf(c)
  <2>1. w[i] = c.tunnels[i] \/ w[i] = c.tunnels[i + 1]
    BY <1>3
  <2>2. i \in 1..n /\ i + 1 \in 1..n
    BY <1>1
  <2>3. QED
    BY <1>1, <2>1, <2>2 DEF PlacesOf
<1>7. ASSUME NEW i \in 1..n, i # k
      PROVE  \E m \in 1..(n - 1) : w[m] = c.tunnels[i]
  <2>1. CASE i < k
    <3>1. i \in 1..(n - 1)
      BY <1>1, <1>2, <2>1
    <3>2. QED
      BY <1>3, <2>1, <3>1
  <2>2. CASE i > k
    <3>1. i - 1 \in 1..(n - 1) /\ ~(i - 1 < k) /\ (i - 1) + 1 = i
      BY <1>1, <1>2, <2>2
    <3>2. QED
      BY <1>3, <3>1
  <2>3. QED
    BY <1>1, <1>2, <1>7, <2>1, <2>2
<1>8. ASSUME NEW x \in PlacesOf(c), x.tag # tag  PROVE x \in PlacesOf(d)
  <2>1. PICK i \in 1..n : x = Place(c.tunnels[i])
    BY <1>1 DEF PlacesOf
  <2>2. i # k
    BY <1>2, <1>8, <2>1, PlaceFields
  <2>3. PICK m \in 1..(n - 1) : w[m] = c.tunnels[i]
    BY <1>7, <2>2
  <2>4. QED
    BY <1>4, <1>5, <2>1, <2>3 DEF PlacesOf
<1>9. PlacesOf(d) \subseteq PlacesOf(c)
  BY <1>4, <1>5, <1>6 DEF PlacesOf
<1>10. QED
  BY <1>8, <1>9 DEF d

\* A tunnel that is added gets a port that no other tunnel has.
LEMMA WantedFresh ==
  ASSUME NEW c \in Config, NEW t \in WantedTunnels(c), ValidNewTunnel(c, t)
  PROVE  FreshIn(PlacesOf(c), t)
<1> DEFINE doms(tr) == IF NeedsDomain([transport |-> tr]) THEN Domains ELSE {NoDomain}
           mtus(tr) == IF HasKeyPair([transport |-> tr]) THEN Mtus ELSE {DefaultMTU}
           exts(tr) == IF tr = "external" THEN ExternalPorts ELSE {0}
           all(tr)  == {Wanted(c, tr, tag, b, d, mtu, ext) :
                          tag \in Tags, b \in Backends(tr), d \in doms(tr), mtu \in mtus(tr),
                          ext \in exts(tr)}
<1>1. PICK tr \in NewTransports : t \in all(tr)
  BY DEF WantedTunnels
<1>2. PICK tag, b, d, mtu, ext : t = Wanted(c, tr, tag, b, d, mtu, ext)
  BY <1>1
<1>3. HasManagedService(t) => t.port = NextAvailablePort(c)
  BY <1>2 DEF Wanted, HasManagedService, IsDNSTunnel
<1>4. \A x \in PlacesOf(c) : x.port # NextAvailablePort(c)
  BY NextPortFree, PlaceFields DEF PlacesOf
<1>5. QED
  BY <1>3, <1>4 DEF FreshIn

LEMMA FreshApart ==
  ASSUME NEW S, Apart(S), NEW t, FreshIn(S, t)
  PROVE  Apart(S \cup {Place(t)})
<1>1. Place(t).port = t.port /\ (HasManagedService(Place(t)) <=> HasManagedService(t))
  BY PlaceFields
<1>2. QED
  BY <1>1 DEF Apart, FreshIn

-------------------------------------------------------------------------------
(***************************************************************************)
(* Units and ports: the steps                                              *)
(***************************************************************************)
LEMMA OwnOf ==
  ASSUME OwnFine, NEW p \in Procs
  PROVE  /\ OwnAt(file, unit, mem[p], pc[p], job[p])
         /\ Apart(OnFile(file)) /\ Apart(PlacesOf(mem[p]))
         /\ pc[p] # "write" => UnitsIn(unit, OnFile(file))
         /\ pc[p] # "idle"  => UnitsIn(unit, PlacesOf(mem[p]))
  BY DEF OwnFine, OwnAt

\* There is no other process.
LEMMA OwnStep ==
  ASSUME NEW q, Alone(q), NEW p \in Procs, Apart(OnFile(file')),
         OwnAt(file', unit', mem'[p], pc'[p], job'[p])
  PROVE  OwnFine'
  BY DEF Alone, OwnFine

LEMMA Moves ==
  ASSUME IInv, NEW p \in Procs
  PROVE  /\ \A l : pc' = [pc EXCEPT ![p] = l] => pc'[p] = l
         /\ \A l : Goto(p, l) => pc'[p] = l
         /\ \A c : mem' = [mem EXCEPT ![p] = c] => mem'[p] = c
         /\ \A j : job' = [job EXCEPT ![p] = j] => job'[p] = j
  BY DEF IInv, HandlersFine, Goto

LEMMA UnitsKept ==
  ASSUME NEW u, NEW S, NEW T, UnitsIn(u, S), NEW tag, u[tag] = NoUnit,
         \A x \in S : x.tag # tag => x \in T
  PROVE  UnitsIn(u, T)
<1> SUFFICES ASSUME NEW g \in Tags, u[g] # NoUnit
             PROVE  u[g].tag = g /\ Place(u[g]) \in T
  BY DEF UnitsIn
<1>1. u[g].tag = g /\ Place(u[g]) \in S
  BY DEF UnitsIn
<1>2. Place(u[g]).tag = g /\ g # tag
  BY <1>1, PlaceFields
<1>3. QED
  BY <1>1, <1>2

LEMMA UnitsMore ==
  ASSUME NEW u, NEW S, NEW T, UnitsIn(u, S), S \subseteq T
  PROVE  UnitsIn(u, T)
  BY DEF UnitsIn

LEMMA UnitRemoved ==
  ASSUME NEW u \in Units, NEW S, UnitsIn(u, S), NEW tag \in Tags
  PROVE  UnitsIn([u EXCEPT ![tag] = NoUnit], S)
  BY DEF UnitsIn, Units

LEMMA UnitWritten ==
  ASSUME NEW u \in Units, NEW S, UnitsIn(u, S), NEW t, t.tag \in Tags, Place(t) \in S
  PROVE  UnitsIn([u EXCEPT ![t.tag] = t], S)
<1> DEFINE w == [u EXCEPT ![t.tag] = t]
<1>1. w[t.tag] = t /\ \A g \in Tags : g # t.tag => w[g] = u[g]
  BY DEF Units
<1> HIDE DEF w
<1>2. ASSUME NEW g \in Tags, w[g] # NoUnit  PROVE w[g].tag = g /\ Place(w[g]) \in S
  <2>1. CASE g = t.tag
    BY <1>1, <2>1
  <2>2. CASE g # t.tag
    BY <1>1, <1>2, <2>2 DEF UnitsIn
  <2>3. QED
    BY <2>1, <2>2
<1>3. UnitsIn(w, S)
  BY <1>2 DEF UnitsIn
<1>4. QED
  BY <1>3 DEF w

\* Statements at which nothing more is known.
Plain == {"done", "route", "restart", "restartRouter", "startRouter", "ensureRouter", "createRouter",
          "renameDir", "settings", "importKey", "finish", "stopActive", "startActive"}

LEMMA PlainOwn ==
  ASSUME NEW q, Alone(q), IInv, OwnFine, NEW p \in Procs, pc[p] \notin {"idle", "write"},
         NEW l \in Plain, Goto(p, l), UNCHANGED <<file, unit>>,
         PlacesOf(mem'[p]) = PlacesOf(mem[p])
  PROVE  OwnFine'
<1>1. pc'[p] = l
  BY Moves
<1>2. OwnAt(file', unit', mem'[p], l, job'[p])
  BY OwnOf DEF OwnAt, SavedAt, Plain
<1>3. QED
  BY <1>1, <1>2, OwnOf, OwnStep

LEMMA LoadedOwn ==
  ASSUME OwnFine, NEW p \in Procs, pc[p] # "write"
  PROVE  /\ PlacesOf(Loaded) = OnFile(file) /\ Apart(PlacesOf(Loaded))
         /\ UnitsIn(unit, PlacesOf(Loaded)) /\ UnitsIn(unit, OnFile(file))
<1>1. PlacesOf(DefaultConfig) = {}
  BY DEF PlacesOf, DefaultConfig
<1>2. PlacesOf(Loaded) = OnFile(file)
  BY <1>1 DEF Loaded, OnFile
<1>3. QED
  BY <1>2, OwnOf

LEMMA BeginOwn ==
  ASSUME NEW q, Alone(q), IInv, OwnFine, NEW p \in Procs, NEW c, NEW l, NEW j, Begin(p, c, l, j),
         OwnAt(file, unit, c, l, j)
  PROVE  OwnFine'
<1>1. /\ mem' = [mem EXCEPT ![p] = c] /\ job' = [job EXCEPT ![p] = j] /\ Goto(p, l)
      /\ UNCHANGED <<file, unit>>
  BY DEF Begin, host
<1>2. mem'[p] = c /\ pc'[p] = l /\ job'[p] = j
  BY <1>1, Moves
<1>3. QED
  BY <1>1, <1>2, OwnOf, OwnStep

\* Commands begin with the configuration of the file, or with that of the
\* process.
LEMMA AddOwn ==
  ASSUME NEW q, Alone(q), IInv, OwnFine, NEW p \in Procs, BeginAdd(p) \/ AddForSSH(p) \/ AddInBatch(p)
  PROVE  OwnFine'
<1>1. Sound(mem[p]) /\ mem[p] \in Config /\ Loaded \in Config /\ (file # Torn => file \in Config)
  BY HandlerOf, LoadedSound DEF IInv, HostFine, Sound
<1>2. PICK c, t, s :
        /\ c \in Config /\ t \in WantedTunnels(c) /\ ValidNewTunnel(c, t)
        /\ Begin(p, c, "keys", AddJob(t, s)) /\ pc[p] \in {"idle", "done"}
        /\ PlacesOf(c) = OnFile(file) \/ (c = mem[p] /\ pc[p] = "done")
  <2>1. CASE BeginAdd(p)
    <3>1. PICK t \in WantedTunnels(Loaded) :
            ValidNewTunnel(Loaded, t) /\ Begin(p, Loaded, "keys", AddJob(t, NoTag))
      BY <2>1 DEF BeginAdd
    <3>2. pc[p] = "idle"
      BY <2>1 DEF BeginAdd, Idle
    <3>3. PlacesOf(Loaded) = OnFile(file)
      BY <3>2, LoadedOwn
    <3>4. QED
      BY <1>1, <3>1, <3>2, <3>3
  <2>2. CASE AddForSSH(p)
    <3>1. PICK t \in WantedTunnels(mem[p]) :
            ValidNewTunnel(mem[p], t) /\ Begin(p, mem[p], "keys", AddJob(t, job[p].shared))
      BY <2>2 DEF AddForSSH
    <3>2. pc[p] = "done"
      BY <2>2 DEF AddForSSH
    <3>3. QED
      BY <1>1, <3>1, <3>2
  <2>3. CASE AddInBatch(p)
    <3> DEFINE c == IF job[p].shared = NoTag \/ file = Torn THEN mem[p] ELSE file
    <3>1. PICK t \in WantedTunnels(c) : ValidNewTunnel(c, t) /\ Begin(p, c, "keys", AddJob(t, NoTag))
      BY <2>3 DEF AddInBatch
    <3>2. pc[p] = "done"
      BY <2>3 DEF AddInBatch
    <3>3. c \in Config /\ (c = mem[p] \/ PlacesOf(c) = OnFile(file))
      BY <1>1 DEF OnFile
    <3> HIDE DEF c
    <3>4. QED
      BY <3>1, <3>2, <3>3
  <2>4. QED
    BY <2>1, <2>2, <2>3
<1> DEFINE j == AddJob(t, s)
<1>3. j.cmd = "add" /\ j.new = t
  BY DEF AddJob, NoJob
<1> HIDE DEF j
<1>4. FreshIn(PlacesOf(c), t)
  BY <1>2, WantedFresh
<1>5. Apart(PlacesOf(c)) /\ UnitsIn(unit, PlacesOf(c)) /\ UnitsIn(unit, OnFile(file))
  BY <1>2, OwnOf
<1>6. OwnAt(file, unit, c, "keys", j)
  BY <1>3, <1>4, <1>5 DEF OwnAt, SavedAt
<1>7. QED
  BY <1>2, <1>6, BeginOwn DEF j

\* The rest of the commands that begin with what Load returns.
LEMMA LoadsOwn ==
  ASSUME NEW q, Alone(q), IInv, OwnFine, NEW p \in Procs, pc[p] = "idle", NEW l, NEW j,
         Begin(p, Loaded, l, j),
         \/ l \in Plain
         \/ l = "stop" /\ j.cmd \in {"remove", "update"}
         \/ l = "truncate" /\ (j.cmd = "remove" \/ j.mode = "single")
         \/ l = "collect" /\ j.mode = "single"
         \/ /\ l \in {"stop", "removeConfigDir"} /\ j.cmd = "uninstall"
            /\ \A tag \in Tags : unit[tag] # NoUnit => l = "stop" /\ tag \in TagsIn(j.todo)
  PROVE  OwnFine'
<1>1. /\ Apart(PlacesOf(Loaded)) /\ UnitsIn(unit, PlacesOf(Loaded)) /\ UnitsIn(unit, OnFile(file))
      /\ PlacesOf(Loaded) \subseteq OnFile(file)
  BY LoadedOwn
<1>2. OwnAt(file, unit, Loaded, l, j)
  BY <1>1 DEF OwnAt, SavedAt, Removes, Plain
<1>3. QED
  BY <1>2, BeginOwn

LEMMA BeginsOwn ==
  ASSUME NEW q, Alone(q), IInv, OwnFine, NEW p \in Procs, Begins(p)
  PROVE  OwnFine'
<1>1. CASE BeginAdd(p) \/ AddForSSH(p) \/ AddInBatch(p)
  BY <1>1, AddOwn
<1>2. CASE BeginEdit(p)
  <2>1. PICK l \in {"settings", "renameDir"} : \E j : Begin(p, Loaded, l, j)
    BY <1>2 DEF BeginEdit
  <2>2. pc[p] = "idle" /\ l \in Plain
    BY <1>2 DEF BeginEdit, Idle, Plain
  <2>3. QED
    BY <2>1, <2>2, LoadsOwn
<1>3. CASE BeginRemove(p)
  <2> DEFINE job0(todo) == [NoJob EXCEPT !.cmd = "remove", !.todo = todo]
  <2>1. PICK todo : Begin(p, Loaded, Enter("remove", todo), job0(todo))
    BY <1>3 DEF BeginRemove
  <2>2. pc[p] = "idle" /\ job0(todo).cmd = "remove"
    BY <1>3 DEF BeginRemove, Idle, NoJob
  <2>3. Enter("remove", todo) \in {"stop", "truncate"}
    BY DEF Enter, LoopStart, LoopEnd
  <2> HIDE DEF job0
  <2>4. QED
    BY <2>1, <2>2, <2>3, LoadsOwn
<1>4. CASE BeginMTU(p)
  <2> DEFINE job0(todo) == [NoJob EXCEPT !.cmd = "mtu", !.todo = todo]
  <2>1. PICK mtu, todo : mtu \in Mtus /\ Begin(p, WithMTU(Loaded, mtu), "truncate", job0(todo))
    BY <1>4 DEF BeginMTU
  <2>2. pc[p] = "idle" /\ job0(todo).cmd = "mtu"
    BY <1>4 DEF BeginMTU, Idle, NoJob
  <2> DEFINE c == WithMTU(Loaded, mtu)
  <2>3. PlacesOf(c) = PlacesOf(Loaded)
    BY <2>1, WithMTUPlaces, LoadedSound DEF IInv
  <2>4. Apart(PlacesOf(c)) /\ UnitsIn(unit, PlacesOf(c)) /\ UnitsIn(unit, OnFile(file))
    BY <2>2, <2>3, LoadedOwn
  <2> HIDE DEF c, job0
  <2>5. OwnAt(file, unit, c, "truncate", job0(todo))
    BY <2>2, <2>4 DEF OwnAt, SavedAt
  <2>6. QED
    BY <2>1, <2>5, BeginOwn DEF c
<1>5. CASE BeginAll(p)
  <2> DEFINE job0(cmd, todo) == [NoJob EXCEPT !.cmd = cmd, !.todo = todo]
  <2>0. PICK cmd \in {"update", "restart"} :
          \E todo : Begin(p, Loaded, Enter(cmd, todo), job0(cmd, todo))
    BY <1>5 DEF BeginAll
  <2>1. PICK todo : Begin(p, Loaded, Enter(cmd, todo), job0(cmd, todo))
    BY <2>0
  <2>2. pc[p] = "idle" /\ job0(cmd, todo).cmd = cmd
    BY <1>5 DEF BeginAll, Idle, NoJob
  <2>3. \/ Enter(cmd, todo) \in {"restart", "restartRouter"}
        \/ Enter(cmd, todo) = "stop" /\ cmd = "update"
    BY DEF Enter, LoopStart, LoopEnd
  <2> HIDE DEF job0
  <2>4. QED
    BY <2>1, <2>2, <2>3, LoadsOwn DEF Plain
<1>6. CASE StartTunnel(p) \/ StopTunnel(p)
  BY <1>6 DEF StartTunnel, StopTunnel, OwnFine
<1>7. CASE BeginMode(p)
  <2>1. PICK todo, j : Begin(p, Loaded, Enter("mode", todo), j)
    BY <1>7 DEF BeginMode
  <2>2. pc[p] = "idle"
    BY <1>7 DEF BeginMode, Idle
  <2>3. Enter("mode", todo) \in Plain
    BY DEF Enter, LoopStart, LoopEnd, Plain
  <2>4. QED
    BY <2>1, <2>2, <2>3, LoadsOwn
<1>8. CASE BeginSwitch(p)
  <2>1. PICK j : Begin(p, Loaded, "stopActive", j)
    BY <1>8 DEF BeginSwitch
  <2>2. pc[p] = "idle" /\ "stopActive" \in Plain
    BY <1>8 DEF BeginSwitch, Idle, Plain
  <2>3. QED
    BY <2>1, <2>2, LoadsOwn
<1>9. CASE BeginImport(p)
  BY <1>9 DEF BeginImport, Alone
<1>10. CASE BeginInstall(p)
  <2> DEFINE job0(cmd) == [NoJob EXCEPT !.cmd = cmd]
  <2>1. PICK cmd : Begin(p, Loaded, IF file = Torn THEN "truncate" ELSE "collect", job0(cmd))
    BY <1>10 DEF BeginInstall
  <2>2. pc[p] = "idle" /\ job0(cmd).mode = "single"
    BY <1>10 DEF BeginInstall, NoJob
  <2> HIDE DEF job0
  <2> DEFINE l == IF file = Torn THEN "truncate" ELSE "collect"
  <2>3. l \in {"truncate", "collect"}
    OBVIOUS
  <2> HIDE DEF l
  <2>4. Begin(p, Loaded, l, job0(cmd))
    BY <2>1 DEF l
  <2>5. QED
    BY <2>2, <2>3, <2>4, LoadsOwn
<1>11. CASE BeginUninstall(p)
  <2> DEFINE U == {tag \in Tags : unit[tag] # NoUnit}
             dns == IF router.state = "absent" THEN 0 ELSE 1
             job0(todo) == [NoJob EXCEPT !.cmd = "uninstall", !.todo = todo, !.dns = dns]
  <2>1. PICK todo \in Orders(U) : Begin(p, Loaded, Enter("uninstall", todo), job0(todo))
    BY <1>11 DEF BeginUninstall
  <2>2. pc[p] = "idle"
    BY <1>11 DEF BeginUninstall
  <2>3. job0(todo).cmd = "uninstall" /\ job0(todo).todo = todo
    BY DEF NoJob
  <2>4. \A tag \in U : \E i \in DOMAIN todo : todo[i] = tag
    BY DEF Orders
  <2> HIDE DEF job0
  <2> DEFINE l == Enter("uninstall", todo)
  <2>5. l \in {"stop", "removeConfigDir"} /\ (todo # <<>> => l = "stop")
    BY DEF Enter, LoopStart, LoopEnd
  <2> HIDE DEF l
  <2>6. DOMAIN todo # {} => todo # <<>>
    OBVIOUS
  <2>7. \A tag \in Tags : unit[tag] # NoUnit => l = "stop" /\ tag \in TagsIn(job0(todo).todo)
    BY <2>3, <2>4, <2>5, <2>6 DEF TagsIn
  <2>8. Begin(p, Loaded, l, job0(todo))
    BY <2>1 DEF l
  <2>9. QED
    BY <2>2, <2>3, <2>5, <2>7, <2>8, LoadsOwn
<1>12. QED
  BY <1>1, <1>2, <1>3, <1>4, <1>5, <1>6, <1>7, <1>8, <1>9, <1>10, <1>11 DEF Begins

LEMMA AnswersOwn ==
  ASSUME NEW q, Alone(q), IInv, OwnFine, NEW p \in Procs, Answers(p)
  PROVE  OwnFine'
<1>1. /\ Sound(mem[p]) /\ mem[p] \in Config /\ At(mem[p], pc[p], job[p]) /\ job[p] \in Job
      /\ OwnAt(file, unit, mem[p], pc[p], job[p]) /\ Apart(OnFile(file)) /\ Apart(PlacesOf(mem[p]))
  BY HandlerOf, OwnOf
<1>2. CASE RegisterTunnel(p)
  <2> DEFINE t == job[p].new
             c == Register(mem[p], t)
  <2>1. job[p].cmd = "add" /\ t \in Tunnel
    BY <1>1, <1>2 DEF RegisterTunnel, At, AddAt, EditAt, RemoveAt, MTUAt, UpdateAt, RestartAt,
       ModeAt, SwitchAt, InstallAt, UninstallAt, Job, CommandNames
  <2>2. /\ mem' = [mem EXCEPT ![p] = c] /\ Goto(p, "truncate") /\ UNCHANGED <<job, file, unit>>
        /\ pc[p] = "register"
    BY <1>2 DEF RegisterTunnel, host
  <2>3. mem'[p] = c /\ pc'[p] = "truncate" /\ job'[p] = job[p]
    BY <2>2, Moves
  <2>4. PlacesOf(c) = PlacesOf(mem[p]) \cup {Place(t)}
    BY <1>1, <2>1, RegisterPlaces
  <2>5. FreshIn(PlacesOf(mem[p]), t) /\ UnitsIn(unit, PlacesOf(mem[p])) /\ UnitsIn(unit, OnFile(file))
    BY <1>1, <2>2 DEF OwnAt
  <2>6. Apart(PlacesOf(c))
    BY <1>1, <2>4, <2>5, FreshApart
  <2>7. UnitsIn(unit, PlacesOf(c))
    BY <2>4, <2>5, UnitsMore
  <2> HIDE DEF c, t
  <2>8. OwnAt(file, unit, c, "truncate", job[p])
    BY <2>1, <2>5, <2>6, <2>7 DEF OwnAt, SavedAt
  <2>9. QED
    BY <1>1, <2>2, <2>3, <2>8, OwnStep
<1>3. CASE Settings(p)
  <2> DEFINE t == GetTunnel(mem[p], Current(p))
  <2>1. /\ t \in Tunnel /\ t.tag = Current(p) /\ Current(p) \in TagsOf(mem[p]) /\ pc[p] = "settings"
    BY <1>3, CurrentTunnel DEF Settings, OnTunnel
  <2>2. PICK d, m : mem' = [mem EXCEPT ![p] = Replace(@, t.tag, [t EXCEPT !.domain = d, !.mtu = m])]
    BY <1>3 DEF Settings
  <2> DEFINE new == [t EXCEPT !.domain = d, !.mtu = m]
  <2>3. Place(new) = Place(t)
    BY <2>1 DEF Place, Tunnel
  <2>4. mem'[p] = Replace(mem[p], t.tag, new)
    BY <2>2, Moves
  <2> HIDE DEF new
  <2>5. PlacesOf(mem'[p]) = PlacesOf(mem[p])
    BY <1>1, <2>1, <2>3, <2>4, SettingPlaces
  <2>6. PICK l \in {"importKey", "finish"} : Goto(p, l)
    BY <1>3 DEF Settings
  <2>7. UNCHANGED <<file, unit>> /\ l \in Plain
    BY <1>3 DEF Settings, host, Plain
  <2>8. QED
    BY <2>1, <2>5, <2>6, <2>7, PlainOwn
<1>4. CASE Collect(p)
  <2>0. PICK t \in WantedTunnels(mem[p]) :
          /\ NextToInstall(p, t) /\ ValidNewTunnel(mem[p], t)
          /\ job' = [job EXCEPT ![p].new = t,
                                ![p].shared = IF job[p].new # NoTunnel /\ job[p].new.transport = t.transport
                                              THEN job[p].new.tag ELSE NoTag]
    BY <1>4 DEF Collect
  <2> DEFINE s == IF job[p].new # NoTunnel /\ job[p].new.transport = t.transport
                  THEN job[p].new.tag ELSE NoTag
  <2>1. job' = [job EXCEPT ![p] = [job[p] EXCEPT !.new = t, !.shared = s]]
    BY <2>0
  <2> HIDE DEF s
  <2> DEFINE j == [job[p] EXCEPT !.new = t, !.shared = s]
  <2>2. j.cmd = job[p].cmd /\ j.mode = job[p].mode /\ j.new = t
    BY <1>1 DEF Job
  <2> HIDE DEF j
  <2>3. pc[p] = "collect" /\ Goto(p, "keys") /\ UNCHANGED <<mem, file, unit>>
    BY <1>4 DEF Collect, host
  <2>4. job[p].cmd \in {"install", "wizard"}
    BY <2>3, InstallOf
  <2>5. mem'[p] = mem[p] /\ pc'[p] = "keys" /\ job'[p] = j
    BY <2>1, <2>3, Moves DEF j
  <2>6. FreshIn(PlacesOf(mem[p]), t)
    BY <1>1, <2>0, WantedFresh
  <2>7. OwnAt(file, unit, mem[p], "keys", j)
    BY <1>1, <2>2, <2>3, <2>4, <2>6 DEF OwnAt, SavedAt
  <2>8. QED
    BY <1>1, <2>3, <2>5, <2>7, OwnStep
<1>5. CASE Gather(p)
  <2> DEFINE t == job[p].new
             c == [mem[p] EXCEPT !.tunnels = Append(@, t)]
             j == [job[p] EXCEPT !.todo = Append(@, t.tag),
                                 !.dns = IF IsDNSTunnel(t) THEN @ + 1 ELSE @]
  <2>1. job[p].cmd \in {"install", "wizard"} /\ t \in Tunnel
    BY <1>5, InstallOf DEF Gather, InstallAt, IsNew
  <2>2. /\ mem' = [mem EXCEPT ![p] = c] /\ Goto(p, "collect") /\ job' = [job EXCEPT ![p] = j]
        /\ UNCHANGED <<file, unit>> /\ pc[p] = "gather"
    BY <1>5 DEF Gather, host
  <2>3. mem'[p] = c /\ pc'[p] = "collect" /\ job'[p] = j
    BY <2>2, Moves
  <2>4. j.cmd = job[p].cmd /\ j.mode = job[p].mode
    BY <1>1 DEF Job
  <2>5. c.tunnels = Append(mem[p].tunnels, t)
    BY <1>1 DEF Config
  <2> HIDE DEF c, j, t
  <2>6. PlacesOf(c) = PlacesOf(mem[p]) \cup {Place(t)}
    BY <1>1, <2>1, <2>5, AppendPlaces
  <2>7. /\ FreshIn(PlacesOf(mem[p]), t) /\ UnitsIn(unit, PlacesOf(mem[p])) /\ UnitsIn(unit, OnFile(file))
        /\ job[p].mode = "single"
    BY <1>1, <2>1, <2>2 DEF OwnAt, t
  <2>8. Apart(PlacesOf(c)) /\ UnitsIn(unit, PlacesOf(c))
    BY <1>1, <2>6, <2>7, FreshApart, UnitsMore
  <2>9. OwnAt(file, unit, c, "collect", j)
    BY <2>4, <2>7, <2>8 DEF OwnAt, SavedAt
  <2>10. QED
    BY <1>1, <2>2, <2>3, <2>9, OwnStep
<1>6. CASE SaveInstalled(p)
  <2> DEFINE l == IF job[p].todo = <<>> THEN "done" ELSE "truncate"
             first == Head(job[p].todo)
             set == job[p].cmd = "install" /\ job[p].todo # <<>>
             c == IF set THEN [mem[p] EXCEPT !.active = first, !.default = first] ELSE mem[p]
  <2>1. /\ mem' = [mem EXCEPT ![p] = c] /\ Goto(p, l) /\ UNCHANGED <<job, file, unit>>
        /\ pc[p] = "collect"
    BY <1>6 DEF SaveInstalled, host, IInv, HandlersFine
  <2>2. mem'[p] = c /\ pc'[p] = l /\ job'[p] = job[p]
    BY <2>1, Moves
  <2>3. job[p].cmd \in {"install", "wizard"}
    BY <2>1, InstallOf
  <2>4. c.tunnels = mem[p].tunnels
    BY <1>1 DEF Config
  <2>5. l \in {"done", "truncate"}
    OBVIOUS
  <2> HIDE DEF c, l
  <2>6. PlacesOf(c) = PlacesOf(mem[p])
    BY <2>4, SamePlaces
  <2>7. OwnAt(file, unit, c, l, job[p])
    BY <1>1, <2>1, <2>3, <2>5, <2>6 DEF OwnAt, SavedAt
  <2>8. QED
    BY <1>1, <2>1, <2>2, <2>7, OwnStep
<1>7. QED
  BY <1>2, <1>3, <1>4, <1>5, <1>6 DEF Answers

\* Where services are created, and what follows.
LEMMA ServiceOf ==
  ASSUME IInv, NEW p \in Procs, pc[p] \in {"create", "start"}
  PROVE  job[p].cmd \in {"add", "edit", "mtu", "update", "install", "wizard"}
<1>1. At(mem[p], pc[p], job[p]) /\ job[p] \in Job
  BY HandlerOf
<1>2. QED
  BY <1>1 DEF At, RemoveAt, RestartAt, ModeAt, SwitchAt, UninstallAt, Job, CommandNames

LEMMA AfterOwn ==
  ASSUME NEW q, Alone(q), IInv, OwnFine, NEW p \in Procs, pc[p] \in {"create", "start"},
         AfterUnit(p) \/ AfterFailed(p) \/ (Goto(p, "start") /\ UNCHANGED job), UNCHANGED <<file, mem>>,
         UnitsIn(unit', PlacesOf(mem[p]))
  PROVE  OwnFine'
<1>1. job[p].cmd \in {"add", "edit", "mtu", "update", "install", "wizard"} /\ job[p] \in Job
  BY ServiceOf, HandlerOf
<1>2. /\ PlacesOf(mem[p]) \subseteq OnFile(file) /\ Apart(PlacesOf(mem[p])) /\ Apart(OnFile(file))
  BY OwnOf DEF OwnAt, SavedAt
<1>3. UnitsIn(unit', OnFile(file))
  BY <1>2, UnitsMore
<1>4. PICK l, j : /\ Goto(p, l) /\ job' = [job EXCEPT ![p] = j] /\ j.cmd = job[p].cmd
                  /\ \/ l \in {"done", "route", "restartRouter", "startRouter", "start", "create"}
                     \/ l = "stop" /\ j.cmd \in {"mtu", "update"}
  <2>1. CASE Advance(p) /\ job[p].cmd \in {"mtu", "update", "install", "wizard"}
    <3> DEFINE j == [job[p] EXCEPT !.todo = Tail(@)]
               l == Enter(job[p].cmd, Tail(job[p].todo))
    <3>1. job' = [job EXCEPT ![p] = j] /\ Goto(p, l)
      BY <2>1 DEF Advance
    <3>2. j.cmd = job[p].cmd
      BY <1>1 DEF Job
    <3>3. \/ l \in {"done", "restartRouter", "startRouter", "create"}
          \/ l = "stop" /\ job[p].cmd \in {"mtu", "update"}
      BY <2>1 DEF Enter, LoopStart, LoopEnd
    <3> HIDE DEF j, l
    <3>4. QED
      BY <3>1, <3>2, <3>3
  <2>2. CASE UNCHANGED job /\ (Goto(p, "done") \/ Goto(p, "route") \/ Goto(p, "start"))
    <3>1. job' = [job EXCEPT ![p] = job[p]]
      BY <2>2 DEF IInv, HandlersFine
    <3>2. QED
      BY <2>2, <3>1
  <2>3. QED
    BY <2>1, <2>2 DEF AfterUnit, AfterFailed, Warns, Installing
<1>5. pc'[p] = l /\ job'[p] = j /\ mem'[p] = mem[p]
  BY <1>4, Moves
<1>6. OwnAt(file, unit', mem[p], l, j)
  BY <1>1, <1>2, <1>3, <1>4 DEF OwnAt
<1>7. QED
  BY <1>2, <1>5, <1>6, OwnStep

LEMMA ServicesOwn ==
  ASSUME NEW q, Alone(q), IInv, OwnFine, NEW p \in Procs,
         Create(p) \/ CreateFails(p) \/ Start(p) \/ StartFails(p)
  PROVE  OwnFine'
<1>1. CASE Create(p) \/ CreateFails(p)
  <2> DEFINE t == GetTunnel(mem[p], Current(p))
             made == [unit EXCEPT ![t.tag] = t]
  <2>1. pc[p] = "create" /\ t \in Tunnel /\ t.tag \in Tags /\ Current(p) \in TagsOf(mem[p])
    BY <1>1, CurrentTunnel DEF Create, CreateFails, OnTunnel
  <2>2. Place(t) \in PlacesOf(mem[p]) /\ UnitsIn(unit, PlacesOf(mem[p])) /\ unit \in Units
    BY <2>1, HandlerOf, PlaceFound, OwnOf, HostTypes DEF IInv, Units
  <2>3. UnitsIn(made, PlacesOf(mem[p]))
    BY <2>1, <2>2, UnitWritten
  <2>4. unit' = unit \/ unit' = made
    BY <1>1 DEF Create, CreateFails
  <2>5. UnitsIn(unit', PlacesOf(mem[p]))
    BY <2>2, <2>3, <2>4
  <2>6. /\ AfterUnit(p) \/ AfterFailed(p) \/ (Goto(p, "start") /\ UNCHANGED job)
        /\ UNCHANGED <<file, mem>>
    BY <1>1 DEF Create, CreateFails
  <2>7. QED
    BY <2>1, <2>5, <2>6, AfterOwn
<1>2. CASE Start(p) \/ StartFails(p)
  <2>1. pc[p] = "start" /\ UNCHANGED <<file, mem, unit>> /\ (AfterUnit(p) \/ AfterFailed(p))
    BY <1>2 DEF Start, StartFails, host
  <2>2. UnitsIn(unit', PlacesOf(mem[p]))
    BY <2>1, OwnOf
  <2>3. QED
    BY <2>1, <2>2, AfterOwn
<1>3. QED
  BY <1>1, <1>2

\* Saving: the file is empty while it is written, and then it is the copy.
LEMMA SaveOwn ==
  ASSUME NEW q, Alone(q), IInv, OwnFine, NEW p \in Procs, Truncate(p) \/ WriteFile(p) \/ SaveFails(p)
  PROVE  OwnFine'
<1>1. /\ mem[p] \in Config /\ mem[p] # Torn /\ At(mem[p], pc[p], job[p]) /\ job[p] \in Job
      /\ OwnAt(file, unit, mem[p], pc[p], job[p]) /\ Apart(OnFile(file)) /\ Apart(PlacesOf(mem[p]))
  BY HandlerOf, OwnOf, ManagerAssumption
<1>2. CASE Truncate(p)
  <2>1. /\ mem'[p] = mem[p] /\ pc'[p] = "write" /\ job'[p] = job[p] /\ file' = Torn
        /\ UNCHANGED unit /\ pc[p] = "truncate"
    BY <1>2, Moves DEF Truncate
  <2>2. OnFile(file') = {}
    BY <2>1 DEF OnFile
  <2>3. Apart(OnFile(file'))
    BY <2>2 DEF Apart
  <2>4. OwnAt(file', unit', mem[p], "write", job[p])
    BY <1>1, <2>1 DEF OwnAt, SavedAt
  <2>5. QED
    BY <2>1, <2>3, <2>4, OwnStep
<1>3. CASE WriteFile(p)
  <2>1. PICK l : /\ l = IF job[p].cmd = "edit" /\ IsDirectTransport(job[p].new) THEN "done"
                        ELSE IF Installing(p) THEN AfterInstallSave(p) ELSE AfterSave[job[p].cmd]
                 /\ Goto(p, l)
    BY <1>3 DEF WriteFile
  <2>2. /\ mem'[p] = mem[p] /\ pc'[p] = l /\ job'[p] = job[p] /\ file' = mem[p]
        /\ UNCHANGED unit /\ pc[p] = "write"
    BY <1>3, <2>1, Moves DEF WriteFile
  <2>3. job[p].cmd \in {"add", "edit", "remove", "mtu", "mode", "switch", "import", "install", "wizard"}
    BY <1>1, <2>2 DEF At, UpdateAt, RestartAt, UninstallAt, Job, CommandNames
  <2>4. Installing(p) => l \in {"create", "multi"} \/ (l = "collect" /\ job[p].mode = "single")
    <3>1. Installing(p) /\ job[p].mode # "single" => job[p].todo # <<>>
      BY <1>1, <2>2 DEF At, InstallAt, Installing, Job
    <3>2. QED
      BY <2>1, <3>1 DEF AfterInstallSave, Installing
  <2>5. ~Installing(p) => l \in {"done", "create", "stop"}
    BY <2>1, <2>3 DEF AfterSave, Installing
  <2>6. OnFile(file') = PlacesOf(mem[p])
    BY <1>1, <2>2 DEF OnFile
  <2>7. UnitsIn(unit, PlacesOf(mem[p]))
    BY <1>1, <2>2 DEF OwnAt
  <2>8. OwnAt(file', unit', mem[p], l, job[p])
    BY <1>1, <2>2, <2>3, <2>4, <2>5, <2>6, <2>7 DEF OwnAt, Installing
  <2>9. QED
    BY <1>1, <2>2, <2>6, <2>8, OwnStep
<1>4. CASE SaveFails(p)
  <2>1. pc[p] = "truncate" /\ UNCHANGED <<mem, job, file, unit>>
    BY <1>4 DEF SaveFails, Alone, host
  <2>2. CASE Goto(p, "done")
    BY <2>1, <2>2, PlainOwn DEF Plain
  <2>3. CASE Goto(p, "create") /\ job[p].cmd = "wizard" /\ job[p].mode = "multi"
    <3>1. mem'[p] = mem[p] /\ pc'[p] = "create" /\ job'[p] = job[p]
      BY <2>1, <2>3, Moves
    <3>2. OwnAt(file, unit, mem[p], "create", job[p])
      BY <1>1, <2>1, <2>3 DEF OwnAt, SavedAt
    <3>3. QED
      BY <1>1, <2>1, <3>1, <3>2, OwnStep
  <2>4. QED
    BY <1>4, <2>2, <2>3 DEF SaveFails
<1>5. QED
  BY <1>2, <1>3, <1>4

\* Steps of a handler that leave host and copy alone.
LEMMA QuietOwn ==
  ASSUME NEW q, Alone(q), IInv, OwnFine, NEW p \in Procs, NEW l, NEW j,
         Goto(p, l), job' = [job EXCEPT ![p] = j], UNCHANGED <<file, mem, unit>>,
         OwnAt(file, unit, mem[p], l, j)
  PROVE  OwnFine'
  BY Moves, OwnOf, OwnStep

\* Removing: the unit goes before the tunnel leaves the copy.
LEMMA RemoveUnitOwn ==
  ASSUME NEW q, Alone(q), IInv, OwnFine, NEW p \in Procs, RemoveUnit(p)
  PROVE  OwnFine'
<1> DEFINE tag == Current(p)
           gone == [unit EXCEPT ![tag] = NoUnit]
<1>1. /\ mem[p] \in Config /\ Sound(mem[p]) /\ At(mem[p], "removeUnit", job[p]) /\ job[p] \in Job
      /\ OwnAt(file, unit, mem[p], pc[p], job[p]) /\ Apart(OnFile(file)) /\ Apart(PlacesOf(mem[p]))
      /\ pc[p] = "removeUnit" /\ unit' = gone /\ UNCHANGED file
  BY HandlerOf, OwnOf DEF RemoveUnit, ServiceRemove
<1>2. tag \in Tags /\ job[p].todo # <<>> /\ job[p].todo \in Seq(Tags) /\ unit \in Units
  BY <1>1, CurrentOf, HostTypes DEF OnCurrent, Job, IInv, Units
<1>3. /\ gone[tag] = NoUnit /\ \A g \in Tags : g # tag => gone[g] = unit[g]
  BY <1>2 DEF Units
<1>4. UnitsIn(gone, OnFile(file)) /\ UnitsIn(gone, PlacesOf(mem[p]))
  BY <1>1, <1>2, UnitRemoved DEF OwnAt
<1>5. tag = Head(job[p].todo)
  BY DEF Current
<1> HIDE DEF gone, tag
<1>6. CASE job[p].cmd = "remove"
  <2>1. mem'[p] = mem[p] /\ pc'[p] = "unroute" /\ job'[p] = job[p]
    BY <1>6, Moves DEF RemoveUnit
  <2>2. OwnAt(file, gone, mem[p], "unroute", job[p])
    BY <1>1, <1>3, <1>4, <1>5, <1>6 DEF OwnAt, SavedAt
  <2>3. QED
    BY <1>1, <2>1, <2>2, OwnStep
<1>7. CASE job[p].cmd = "uninstall"
  <2> DEFINE j == [job[p] EXCEPT !.todo = Tail(@)]
             l == Enter(job[p].cmd, Tail(job[p].todo))
  <2>1. mem'[p] = mem[p] /\ pc'[p] = l /\ job'[p] = j
    <3>1. Advance(p) /\ UNCHANGED mem
      BY <1>7 DEF RemoveUnit
    <3>2. job' = [job EXCEPT ![p] = j] /\ Goto(p, l)
      BY <3>1 DEF Advance
    <3> HIDE DEF j, l
    <3>3. QED
      BY <3>1, <3>2, Moves
  <2>2. j.cmd = "uninstall" /\ j.todo = Tail(job[p].todo)
    BY <1>1, <1>7 DEF Job
  <2>3. l = IF j.todo = <<>> THEN "removeConfigDir" ELSE "stop"
    BY <1>7, <2>2 DEF Enter, LoopStart, LoopEnd
  <2> HIDE DEF j, l
  <2>4. \A g \in TagsIn(job[p].todo) : g # tag => g \in TagsIn(j.todo)
    <3> TAKE g \in TagsIn(job[p].todo)
    <3>1. HAVE g # tag
    <3>2. PICK i \in DOMAIN job[p].todo : job[p].todo[i] = g
      BY DEF TagsIn
    <3>3. /\ DOMAIN job[p].todo = 1..Len(job[p].todo) /\ Len(job[p].todo) \in Nat
          /\ DOMAIN j.todo = 1..(Len(job[p].todo) - 1) /\ job[p].todo[1] = tag
          /\ \A k \in 1..(Len(job[p].todo) - 1) : j.todo[k] = job[p].todo[k + 1]
      BY <1>2, <1>5, <2>2, HeadTailProperties
    <3>4. i - 1 \in DOMAIN j.todo /\ j.todo[i - 1] = g
      <4>1. i # 1
        BY <3>1, <3>2, <3>3
      <4>2. i - 1 \in 1..(Len(job[p].todo) - 1) /\ (i - 1) + 1 = i
        BY <3>3, <4>1
      <4>3. QED
        BY <3>2, <3>3, <4>2
    <3>5. QED
      BY <3>4 DEF TagsIn
  <2>5. \A g \in Tags : gone[g] # NoUnit => g \in TagsIn(j.todo)
    BY <1>1, <1>3, <1>7, <2>4 DEF OwnAt
  <2>6. j.todo = <<>> => TagsIn(j.todo) = {}
    BY DEF TagsIn
  <2>7. OwnAt(file, gone, mem[p], l, j)
    BY <1>1, <1>4, <2>2, <2>3, <2>5, <2>6 DEF OwnAt, SavedAt, Removes
  <2>8. QED
    BY <1>1, <2>1, <2>7, OwnStep
<1>8. CASE job[p].cmd \notin {"remove", "uninstall"}
  <2> DEFINE new == job[p].new.tag
             c == Rename(mem[p], tag, new)
             j == [job[p] EXCEPT !.todo = <<new>>]
  <2>1. job[p].cmd = "edit" /\ EditAt(mem[p], "removeUnit", job[p])
    BY <1>1, <1>8 DEF At, AddAt, MTUAt, UpdateAt, RestartAt, ModeAt, SwitchAt,
       InstallAt, Job, CommandNames
  <2>2. PICK g \in TagsOf(mem[p]) : job[p].todo = <<g>> /\ new \notin TagsOf(mem[p])
    BY <2>1 DEF EditAt
  <2>3. tag = g /\ new \in Tags
    BY <1>1, <1>5, <2>1, <2>2, OneTag, TagsOfType DEF EditAt, Tunnel
  <2>4. /\ Apart(PlacesOf(c)) /\ \A x \in PlacesOf(mem[p]) : x.tag # tag => x \in PlacesOf(c)
    BY <1>1, <2>2, <2>3, RenamePlaces
  <2>5. mem'[p] = c /\ pc'[p] = "settings" /\ job'[p] = j
    BY <1>8, Moves DEF RemoveUnit, tag
  <2>6. j.cmd = "edit"
    BY <1>1, <2>1 DEF Job
  <2> HIDE DEF c, j
  <2>7. UnitsIn(gone, PlacesOf(c))
    BY <1>3, <1>4, <2>4, UnitsKept
  <2>8. OwnAt(file, gone, c, "settings", j)
    BY <1>4, <2>4, <2>6, <2>7 DEF OwnAt, SavedAt
  <2>9. QED
    BY <1>1, <2>5, <2>8, OwnStep
<1>9. QED
  BY <1>6, <1>7, <1>8

LEMMA ForgetOwn ==
  ASSUME NEW q, Alone(q), IInv, OwnFine, NEW p \in Procs, ForgetTunnel(p)
  PROVE  OwnFine'
<1> DEFINE tag == Current(p)
           c == Deregister(mem[p], tag)
           j == [job[p] EXCEPT !.todo = Tail(@)]
           l == Enter(job[p].cmd, Tail(job[p].todo))
<1>1. /\ mem[p] \in Config /\ Sound(mem[p]) /\ job[p] \in Job
      /\ OwnAt(file, unit, mem[p], pc[p], job[p]) /\ Apart(OnFile(file)) /\ Apart(PlacesOf(mem[p]))
      /\ pc[p] = "forget" /\ UNCHANGED <<file, unit>>
  BY HandlerOf, OwnOf DEF ForgetTunnel
<1>2. job[p].cmd = "remove" /\ tag \in TagsOf(mem[p]) /\ tag = Head(job[p].todo)
  BY <1>1, RemoveOf, CurrentOf DEF OnTunnel, Current
<1>3. mem'[p] = c /\ pc'[p] = l /\ job'[p] = j
  <2>1. mem' = [mem EXCEPT ![p] = c] /\ job' = [job EXCEPT ![p] = j] /\ Goto(p, l)
    BY DEF ForgetTunnel, Advance
  <2> HIDE DEF c, j, l
  <2>2. QED
    BY <2>1, Moves
<1>4. j.cmd = "remove" /\ l \in {"stop", "truncate"}
  BY <1>1, <1>2 DEF Job, Enter, LoopStart, LoopEnd
<1>5. /\ PlacesOf(c) \subseteq PlacesOf(mem[p])
      /\ \A x \in PlacesOf(mem[p]) : x.tag # tag => x \in PlacesOf(c)
  BY <1>1, <1>2, DeregisterPlaces
<1> HIDE DEF c, j, l, tag
<1>6. unit[tag] = NoUnit /\ UnitsIn(unit, PlacesOf(mem[p])) /\ UnitsIn(unit, OnFile(file))
  BY <1>1, <1>2 DEF OwnAt
<1>7. UnitsIn(unit, PlacesOf(c))
  BY <1>5, <1>6, UnitsKept
<1>8. Apart(PlacesOf(c))
  BY <1>1, <1>5 DEF Apart
<1>9. OwnAt(file, unit, c, l, j)
  BY <1>4, <1>6, <1>7, <1>8 DEF OwnAt, SavedAt, Removes
<1>10. QED
  BY <1>1, <1>3, <1>9, OwnStep

LEMMA StatementsOwn ==
  ASSUME NEW q, Alone(q), IInv, OwnFine, NEW p \in Procs, Statements(p)
  PROVE  OwnFine'
<1>1. /\ Sound(mem[p]) /\ mem[p] \in Config /\ At(mem[p], pc[p], job[p]) /\ job[p] \in Job
      /\ OwnAt(file, unit, mem[p], pc[p], job[p]) /\ Apart(OnFile(file)) /\ Apart(PlacesOf(mem[p]))
      /\ UNCHANGED job => job' = [job EXCEPT ![p] = job[p]]
  BY HandlerOf, OwnOf DEF IInv, HandlersFine
<1>2. CASE SetUpDir(p)
  <2>1. PICK l : /\ l = IF Installing(p) THEN "gather" ELSE "register"
                 /\ Goto(p, l) /\ UNCHANGED <<file, mem, unit>> /\ pc[p] = "keys"
    BY <1>2 DEF SetUpDir
  <2>2. PICK j : /\ job' = [job EXCEPT ![p] = j] /\ j.cmd = job[p].cmd /\ j.mode = job[p].mode
                 /\ j.new.transport = job[p].new.transport /\ j.new.port = job[p].new.port
    <3>1. CASE UNCHANGED job
      BY <1>1, <3>1
    <3>2. CASE ~UNCHANGED job
      <4>1. PICK k : job' = [job EXCEPT ![p] = [job[p] EXCEPT !.new.pub = k]]
        BY <1>2, <3>2 DEF SetUpDir
      <4> DEFINE j == [job[p] EXCEPT !.new.pub = k]
      <4>2. job[p].new \in Tunnel
        BY <1>1, <2>1 DEF At, AddAt, EditAt, RemoveAt, MTUAt, UpdateAt, RestartAt, ModeAt,
           SwitchAt, InstallAt, UninstallAt, IsNew, Job, CommandNames
      <4>3. j.cmd = job[p].cmd /\ j.mode = job[p].mode /\ j.new = [job[p].new EXCEPT !.pub = k]
        BY <1>1 DEF Job
      <4>4. /\ [job[p].new EXCEPT !.pub = k].transport = job[p].new.transport
            /\ [job[p].new EXCEPT !.pub = k].port = job[p].new.port
        BY <4>2 DEF Tunnel
      <4> HIDE DEF j
      <4>5. QED
        BY <4>1, <4>3, <4>4 DEF j
    <3>3. QED
      BY <3>1, <3>2
  <2>3. FreshIn(PlacesOf(mem[p]), j.new)
    BY <1>1, <2>1, <2>2 DEF OwnAt, FreshIn, HasManagedService, IsDNSTunnel
  <2>4. l \in {"gather", "register"} /\ (l = "gather" => Installing(p))
    BY <2>1
  <2>5. OwnAt(file, unit, mem[p], l, j)
    BY <1>1, <2>1, <2>2, <2>3, <2>4 DEF OwnAt, SavedAt
  <2>6. QED
    BY <2>1, <2>2, <2>5, QuietOwn
<1>3. CASE RouteTunnel(p)
  <2> DEFINE j == [job[p] EXCEPT !.shared = IF @ = NoTag THEN job[p].new.tag ELSE @]
  <2>1. PICK l \in {"done", "reroute", "createRouter"} : Goto(p, l)
    BY <1>3 DEF RouteTunnel, AddToRouter
  <2>2. /\ job' = [job EXCEPT ![p] = j] /\ UNCHANGED <<file, mem, unit>> /\ pc[p] = "route"
    BY <1>3 DEF RouteTunnel, host
  <2>3. job[p].cmd = "add" /\ j.cmd = "add"
    BY <1>1, <2>2 DEF At, EditAt, RemoveAt, MTUAt, UpdateAt, RestartAt, ModeAt, SwitchAt,
       InstallAt, UninstallAt, Job, CommandNames
  <2> HIDE DEF j
  <2>4. OwnAt(file, unit, mem[p], l, j)
    BY <1>1, <2>2, <2>3 DEF OwnAt, SavedAt
  <2>5. QED
    BY <2>1, <2>2, <2>4, QuietOwn
<1>4. CASE Stop(p)
  <2>1. PICK l : /\ l = IF Removing(p) THEN "removeUnit" ELSE "create"
                 /\ Goto(p, l) /\ UNCHANGED <<file, mem, unit, job>> /\ pc[p] = "stop"
    BY <1>4 DEF Stop
  <2>2. Removing(p) <=> Removes(job[p])
    BY DEF Removing, Removes, Current
  <2>3. OwnAt(file, unit, mem[p], l, job[p])
    BY <1>1, <2>1, <2>2 DEF OwnAt, SavedAt
  <2>4. QED
    BY <1>1, <2>1, <2>3, QuietOwn
<1>5. CASE Restart(p)
  <2>1. job[p].cmd \in {"restart", "mode"}
    BY <1>1, <1>5 DEF Restart, At, AddAt, EditAt, RemoveAt, MTUAt, UpdateAt, SwitchAt, InstallAt,
       UninstallAt, Job, CommandNames
  <2>2. PICK l \in Plain : Goto(p, l)
    BY <1>5, <2>1 DEF Restart, Advance, Enter, LoopStart, LoopEnd, Plain
  <2>3. QED
    BY <1>5, <2>2, PlainOwn DEF Restart
<1>6. CASE RenameDir(p)
  <2>1. job[p].cmd = "edit" /\ EditAt(mem[p], "renameDir", job[p]) /\ pc[p] = "renameDir"
    BY <1>6, EditOf DEF RenameDir
  <2>2. PICK tag \in TagsOf(mem[p]) : job[p].todo = <<tag>> /\ job[p].new.tag \notin TagsOf(mem[p])
    BY <2>1 DEF EditAt
  <2>3. Head(job[p].todo) = tag
    BY <1>1, <2>2, OneTag, TagsOfType
  <2>4. OwnAt(file, unit, mem[p], "stop", job[p])
    BY <1>1, <2>1, <2>2, <2>3 DEF OwnAt, SavedAt, Removes
  <2>5. QED
    BY <1>1, <1>6, <2>4, QuietOwn DEF RenameDir
<1>7. CASE RemoveUnit(p) \/ ForgetTunnel(p)
  BY <1>7, RemoveUnitOwn, ForgetOwn
<1>8. CASE Create(p) \/ Start(p)
  BY <1>8, ServicesOwn
<1>9. CASE Truncate(p) \/ WriteFile(p)
  BY <1>9, SaveOwn
<1>10. CASE ImportKey(p)
  <2> DEFINE t == GetTunnel(mem[p], Current(p))
  <2>1. /\ t \in Tunnel /\ t.tag = Current(p) /\ Current(p) \in TagsOf(mem[p])
    BY <1>10, CurrentTunnel DEF ImportKey, OnTunnel
  <2>2. PlacesOf(mem'[p]) = PlacesOf(mem[p])
    <3>1. CASE UNCHANGED mem
      BY <3>1
    <3>2. CASE ~UNCHANGED mem
      <4>1. PICK k : mem' = [mem EXCEPT ![p] = Replace(@, t.tag, [t EXCEPT !.keyDir = t.tag, !.pub = k])]
        BY <1>10, <3>2 DEF ImportKey
      <4> DEFINE new == [t EXCEPT !.keyDir = t.tag, !.pub = k]
      <4>2. Place(new) = Place(t)
        BY <2>1 DEF Place, Tunnel
      <4>3. mem'[p] = Replace(mem[p], t.tag, new)
        BY <4>1, Moves
      <4> HIDE DEF new
      <4>4. QED
        BY <1>1, <2>1, <4>2, <4>3, SettingPlaces
    <3>3. QED
      BY <3>1, <3>2
  <2>3. /\ Goto(p, "finish") /\ UNCHANGED <<file, unit>> /\ pc[p] \notin {"idle", "write"}
        /\ "finish" \in Plain
    BY <1>10 DEF ImportKey, Plain
  <2>4. QED
    BY <2>2, <2>3, PlainOwn
<1>11. CASE FinishEdit(p)
  <2>1. job[p].cmd = "edit" /\ pc[p] = "finish" /\ UNCHANGED <<file, mem, unit, job>>
    BY <1>11, EditOf DEF FinishEdit, host
  <2>2. PICK l \in {"done", "truncate"} : Goto(p, l)
    BY <1>11 DEF FinishEdit
  <2>3. OwnAt(file, unit, mem[p], l, job[p])
    BY <1>1, <2>1 DEF OwnAt, SavedAt
  <2>4. QED
    BY <1>1, <2>1, <2>2, <2>3, QuietOwn
<1>12. CASE Unroute(p)
  <2>1. PICK l \in {"reroute", "forget"} : Goto(p, l)
    BY <1>12 DEF Unroute
  <2>2. UNCHANGED <<file, mem, unit, job>> /\ pc[p] = "unroute"
    BY <1>12 DEF Unroute, host
  <2>3. OwnAt(file, unit, mem[p], l, job[p])
    BY <1>1, <2>2 DEF OwnAt, SavedAt
  <2>4. QED
    BY <1>1, <2>1, <2>2, <2>3, QuietOwn
<1>13. CASE EnsureRouter(p) \/ CreateRouter(p) \/ RestartRouter(p)
  <2>1. CASE pc'[p] = "truncate"
    <3> DEFINE ensured == [mem[p] EXCEPT !.mode = job[p].mode]
               switched == [mem[p] EXCEPT !.active = Current(p)]
    <3>1. job[p].cmd \in {"mode", "switch"}
      <4>1. CASE EnsureRouter(p)
        BY <1>1, <4>1 DEF EnsureRouter, At, AddAt, EditAt, RemoveAt, MTUAt, UpdateAt, RestartAt,
           SwitchAt, InstallAt, UninstallAt, Job, CommandNames
      <4>2. CASE CreateRouter(p) \/ RestartRouter(p)
        <5>1. Goto(p, "truncate") \/ Goto(p, "done")
          BY <4>2 DEF CreateRouter, RestartRouter
        <5>2. ~Goto(p, "done")
          BY <2>1, Moves
        <5>3. QED
          BY <4>2, <5>1, <5>2 DEF CreateRouter, RestartRouter
      <4>3. QED
        BY <1>13, <4>1, <4>2
    <3>2. mem' = mem \/ mem' = [mem EXCEPT ![p] = ensured] \/ mem' = [mem EXCEPT ![p] = switched]
      BY <1>13 DEF EnsureRouter, CreateRouter, RestartRouter
    <3>3. ensured.tunnels = mem[p].tunnels /\ switched.tunnels = mem[p].tunnels
      BY <1>1 DEF Config
    <3> HIDE DEF ensured, switched
    <3>4. PlacesOf(mem'[p]) = PlacesOf(mem[p])
      <4>1. mem'[p] \in {mem[p], ensured, switched}
        BY <3>2, Moves
      <4>2. QED
        BY <3>3, <4>1, SamePlaces
    <3>5. /\ job'[p] = job[p] /\ UNCHANGED <<file, unit>>
          /\ pc[p] \in {"ensureRouter", "createRouter", "restartRouter"}
      BY <1>13 DEF EnsureRouter, CreateRouter, RestartRouter, host
    <3>6. OwnAt(file, unit, mem'[p], "truncate", job[p])
      BY <1>1, <3>1, <3>4, <3>5 DEF OwnAt, SavedAt
    <3>7. QED
      BY <1>1, <2>1, <3>5, <3>6, OwnStep
  <2>2. CASE pc'[p] # "truncate"
    <3>1. ~Goto(p, "truncate")
      BY <2>2, Moves
    <3>2. PICK l \in {"createRouter", "done"} : Goto(p, l) /\ UNCHANGED mem
      BY <1>13, <3>1 DEF EnsureRouter, CreateRouter, RestartRouter
    <3>3. UNCHANGED <<file, unit>> /\ pc[p] \notin {"idle", "write"}
      BY <1>13 DEF EnsureRouter, CreateRouter, RestartRouter, host
    <3>4. QED
      BY <3>2, <3>3, PlainOwn DEF Plain
  <2>3. QED
    BY <2>1, <2>2
<1>14. CASE MultiMode(p)
  <2> DEFINE c == [mem[p] EXCEPT !.mode = "multi"]
             j == [job[p] EXCEPT !.mode = "multi"]
  <2>1. c.tunnels = mem[p].tunnels /\ j.cmd = job[p].cmd /\ j.mode = "multi"
    BY <1>1 DEF Config, Job
  <2>2. /\ mem' = [mem EXCEPT ![p] = c] /\ Goto(p, "truncate") /\ job' = [job EXCEPT ![p] = j]
        /\ UNCHANGED <<file, unit>> /\ pc[p] = "multi"
    BY <1>14 DEF MultiMode, host
  <2> HIDE DEF c, j
  <2>3. mem'[p] = c /\ pc'[p] = "truncate" /\ job'[p] = j
    BY <2>2, Moves
  <2>4. PlacesOf(c) = PlacesOf(mem[p])
    BY <2>1, SamePlaces
  <2>5. OwnAt(file, unit, c, "truncate", j)
    BY <1>1, <2>2, <2>4 DEF OwnAt, SavedAt
  <2>6. QED
    BY <1>1, <2>2, <2>3, <2>5, OwnStep
<1>15. CASE StopRouter(p)
  <2>1. /\ pc[p] \in {"stop", "removeConfigDir"} /\ job[p].cmd = "uninstall"
        /\ Goto(p, "removeRouter") /\ UNCHANGED <<file, mem, unit, job>>
    BY <1>15 DEF StopRouter
  <2>2. OwnAt(file, unit, mem[p], "removeRouter", job[p])
    BY <1>1, <2>1 DEF OwnAt, SavedAt
  <2>3. QED
    BY <1>1, <2>1, <2>2, QuietOwn
<1>16. CASE RemoveRouter(p)
  <2> DEFINE j == [job[p] EXCEPT !.dns = 0]
             l == Enter("uninstall", job[p].todo)
  <2>1. /\ pc[p] = "removeRouter" /\ job' = [job EXCEPT ![p] = j]
        /\ Goto(p, l) /\ UNCHANGED <<file, mem, unit>>
    BY <1>16 DEF RemoveRouter
  <2>2. j.cmd = job[p].cmd /\ j.todo = job[p].todo
    BY <1>1 DEF Job
  <2>3. job[p].cmd = "uninstall"
    BY <2>1, UninstallOf
  <2>4. l = IF job[p].todo = <<>> THEN "removeConfigDir" ELSE "stop"
    BY DEF Enter, LoopStart, LoopEnd
  <2>5. job[p].todo = <<>> => TagsIn(job[p].todo) = {}
    BY DEF TagsIn
  <2> HIDE DEF j, l
  <2>6. OwnAt(file, unit, mem[p], l, j)
    BY <1>1, <2>1, <2>2, <2>3, <2>4, <2>5 DEF OwnAt, SavedAt, Removes
  <2>7. QED
    BY <2>1, <2>6, QuietOwn
<1>17. CASE RemoveConfigDir(p)
  <2>1. /\ mem'[p] = mem[p] /\ pc'[p] = "done" /\ job'[p] = job[p] /\ file' = Torn
        /\ UNCHANGED unit /\ pc[p] = "removeConfigDir"
    BY <1>17, Moves DEF RemoveConfigDir
  <2>2. OnFile(file') = {}
    BY <2>1 DEF OnFile
  <2>3. Apart(OnFile(file')) /\ UnitsIn(unit, {})
    BY <1>1, <2>1, <2>2 DEF Apart, UnitsIn, OwnAt
  <2>4. OwnAt(file', unit', mem[p], "done", job[p])
    BY <1>1, <2>1, <2>2, <2>3 DEF OwnAt, SavedAt
  <2>5. QED
    BY <2>1, <2>3, <2>4, OwnStep
<1>18. CASE StopActive(p) \/ StartActive(p) \/ StartRouter(p)
  <2>1. PICK l \in Plain : Goto(p, l)
    BY <1>18 DEF StopActive, StartActive, StartRouter, Plain
  <2>2. UNCHANGED <<file, mem, unit>> /\ pc[p] \notin {"idle", "write"}
    BY <1>18 DEF StopActive, StartActive, StartRouter
  <2>3. QED
    BY <2>1, <2>2, PlainOwn
<1>19. CASE Reroute(p)
  <2>1. PICK l : /\ l = IF job[p].cmd = "remove" THEN "forget" ELSE "done"
                 /\ Goto(p, l) /\ UNCHANGED <<file, mem, unit, job>> /\ pc[p] = "reroute"
    BY <1>19 DEF Reroute
  <2>2. OwnAt(file, unit, mem[p], l, job[p])
    BY <1>1, <2>1 DEF OwnAt, SavedAt
  <2>3. QED
    BY <1>1, <2>1, <2>2, QuietOwn
<1>20. QED
  BY <1>2, <1>3, <1>4, <1>5, <1>6, <1>7, <1>8, <1>9, <1>10, <1>11, <1>12, <1>13, <1>14, <1>15,
     <1>16, <1>17, <1>18, <1>19 DEF Statements

LEMMA FailuresOwn ==
  ASSUME NEW q, Alone(q), IInv, OwnFine, NEW p \in Procs, Failures(p) \/ End(p)
  PROVE  OwnFine'
<1>1. CASE SetUpDirFails(p) \/ AddFails(p) \/ CollectFails(p) \/ RenameDirFails(p)
           \/ ImportKeyFails(p) \/ EditFails(p) \/ StartActiveFails(p)
  <2>1. /\ Goto(p, "done") \/ Goto(p, "finish")
        /\ UNCHANGED <<file, mem, unit>> /\ pc[p] \notin {"idle", "write"}
    BY <1>1 DEF SetUpDirFails, AddFails, CollectFails, RenameDirFails, ImportKeyFails, EditFails,
                StartActiveFails, host
  <2>2. QED
    BY <2>1, PlainOwn DEF Plain
<1>2. CASE CreateFails(p) \/ StartFails(p)
  BY <1>2, ServicesOwn
<1>3. CASE SaveFails(p)
  BY <1>3, SaveOwn
<1>4. CASE RestartFails(p)
  <2>1. At(mem[p], "restart", job[p]) /\ job[p] \in Job
    BY <1>4, HandlerOf DEF RestartFails
  <2>2. job[p].cmd \in {"restart", "mode"}
    BY <2>1 DEF At, AddAt, EditAt, RemoveAt, MTUAt, UpdateAt, SwitchAt, InstallAt,
       UninstallAt, Job, CommandNames
  <2>3. PICK l \in Plain : Goto(p, l)
    BY <1>4, <2>2 DEF RestartFails, Advance, Enter, LoopStart, LoopEnd, Plain
  <2>4. QED
    BY <1>4, <2>3, PlainOwn DEF RestartFails, host
<1>5. CASE End(p) \/ Crash(p)
  <2>1. /\ mem' = [mem EXCEPT ![p] = DefaultConfig] /\ Goto(p, "idle")
        /\ job' = [job EXCEPT ![p] = NoJob] /\ UNCHANGED <<file, unit>> /\ pc[p] # "write"
    BY <1>5 DEF End, Crash, Forget, host, Alone
  <2>2. mem'[p] = DefaultConfig /\ pc'[p] = "idle" /\ job'[p] = NoJob
    BY <2>1, Moves
  <2>3. PlacesOf(DefaultConfig) = {}
    BY DEF PlacesOf, DefaultConfig
  <2>4. Apart(PlacesOf(DefaultConfig))
    BY <2>3 DEF Apart
  <2>5. OwnAt(file, unit, DefaultConfig, "idle", NoJob)
    BY <2>1, <2>4, OwnOf DEF OwnAt, SavedAt
  <2>6. QED
    BY <2>1, <2>2, <2>5, OwnOf, OwnStep
<1>6. QED
  BY <1>1, <1>2, <1>3, <1>4, <1>5 DEF Failures

LEMMA AlwaysOwn ==
  ASSUME NEW q, Alone(q)
  PROVE  /\ Init => OwnFine
         /\ IInv /\ OwnFine /\ [Next]_vars => OwnFine'
<1>1. ASSUME Init  PROVE OwnFine
  <2>1. PlacesOf(DefaultConfig) = {} /\ OnFile(file) = {}
    BY <1>1 DEF PlacesOf, DefaultConfig, OnFile, Init
  <2>2. Apart({}) /\ UnitsIn(unit, {})
    BY <1>1 DEF Apart, UnitsIn, Init
  <2>3. OwnAt(file, unit, DefaultConfig, "idle", NoJob)
    BY <2>1, <2>2 DEF OwnAt, SavedAt
  <2>4. QED
    BY <1>1, <2>1, <2>2, <2>3 DEF OwnFine, Init
<1>2. ASSUME IInv, OwnFine, [Next]_vars  PROVE OwnFine'
  <2>1. CASE UNCHANGED vars
    BY <1>2, <2>1 DEF vars, OwnFine
  <2>2. CASE Router
    BY <1>2, <2>2 DEF Router, RouterLoads, RouterFails, RouterRetries, proc, OwnFine
  <2>3. ASSUME NEW p \in Procs,
               Begins(p) \/ Answers(p) \/ Statements(p) \/ Failures(p) \/ End(p)
        PROVE  OwnFine'
    BY <1>2, <2>3, BeginsOwn, AnswersOwn, StatementsOwn, FailuresOwn
  <2>4. QED
    BY <1>2, <2>1, <2>2, <2>3 DEF Next
<1>3. QED
  BY <1>1, <1>2

\* Nothing a failed or killed command leaves on the host is out of reach of the
\* commands that follow: whatever unit file there is belongs to a tunnel of the
\* configuration file, for any sequence of commands and failures of one process
\* that imports nothing and whose writes, once begun, complete.
THEOREM UnitsAreListed ==
  ASSUME NEW q, Alone(q)
  PROVE  Spec => []UnitsListed
<1>1. OwnFine => UnitsListed
  <2> SUFFICES ASSUME OwnFine, NEW tag \in Tags, unit[tag] # NoUnit
               PROVE  tag \in Listed \/ \E p \in Procs : pc[p] = "write" /\ tag \in TagsOf(mem[p])
    BY DEF UnitsListed
  <2>1. \A c : (\E x \in PlacesOf(c) : x.tag = tag) => tag \in TagsOf(c)
    BY PlaceFields DEF PlacesOf, TagsOf
  <2>2. Place(unit[tag]).tag = unit[tag].tag
    BY PlaceFields
  <2>3. q \in Procs
    BY DEF Alone
  <2>4. CASE pc[q] = "write"
    <3>1. unit[tag].tag = tag /\ Place(unit[tag]) \in PlacesOf(mem[q])
      BY <2>3, <2>4, OwnOf DEF UnitsIn
    <3>2. tag \in TagsOf(mem[q])
      BY <2>1, <2>2, <3>1
    <3>3. QED
      BY <2>3, <2>4, <3>2
  <2>5. CASE pc[q] # "write"
    <3>1. unit[tag].tag = tag /\ Place(unit[tag]) \in OnFile(file)
      BY <2>3, <2>5, OwnOf DEF UnitsIn
    <3>2. tag \in Listed
      BY <2>1, <2>2, <3>1 DEF Listed, OnFile
    <3>3. QED
      BY <3>2
  <2>6. QED
    BY <2>4, <2>5
<1>2. Init => OwnFine
  BY AlwaysOwn
<1>3. IInv /\ OwnFine /\ [Next]_vars => OwnFine'
  BY AlwaysOwn
<1>4. QED
  BY InitFine, NextFine, <1>1, <1>2, <1>3, PTL DEF Spec

\* Under the same conditions, no two units on the host were given the same port
\* by NextAvailablePort, which looks at the tunnels of a copy of the file and not
\* at the host.
THEOREM PortsDiffer ==
  ASSUME NEW q, Alone(q)
  PROVE  Spec => []NoPortClash
<1>1. OwnFine => NoPortClash
  <2> SUFFICES ASSUME OwnFine, NEW a \in Tags, NEW b \in Tags, a # b, unit[a] # NoUnit, unit[b] # NoUnit,
                      HasManagedService(unit[a]), HasManagedService(unit[b])
               PROVE  unit[a].port # unit[b].port
    BY DEF NoPortClash
  <2>1. q \in Procs
    BY DEF Alone
  <2>2. PICK S : Apart(S) /\ UnitsIn(unit, S)
    BY <2>1, OwnOf
  <2>3. /\ unit[a].tag = a /\ Place(unit[a]) \in S
        /\ unit[b].tag = b /\ Place(unit[b]) \in S
    BY <2>2 DEF UnitsIn
  <2>4. /\ Place(unit[a]).tag = a /\ Place(unit[a]).port = unit[a].port
        /\ Place(unit[b]).tag = b /\ Place(unit[b]).port = unit[b].port
        /\ HasManagedService(Place(unit[a])) /\ HasManagedService(Place(unit[b]))
    BY <2>3, PlaceFields
  <2>5. QED
    BY <2>2, <2>3, <2>4 DEF Apart
<1>2. Init => OwnFine
  BY AlwaysOwn
<1>3. IInv /\ OwnFine /\ [Next]_vars => OwnFine'
  BY AlwaysOwn
<1>4. QED
  BY InitFine, NextFine, <1>1, <1>2, <1>3, PTL DEF Spec
===============================================================================
