---------------------------- MODULE UserStoreProofs ----------------------------
(***************************************************************************)
(* Theorems about UserStore, for any number of users, passwords, commands  *)
(* and failures.                                                           *)
(*                                                                         *)
(* A command that has begun is going to make up for what is not as it      *)
(* should be yet: At says which parts of its plan are still to come at     *)
(* each step.  Every further invariant is of the form `two copies agree,   *)
(* or the handler is before the part that brings them together'.           *)
(***************************************************************************)
EXTENDS UserStore, FiniteSetTheorems, SequenceTheorems, TLAPS

-------------------------------------------------------------------------------
(***************************************************************************)
(* What the handlers still have to do                                      *)
(***************************************************************************)
CommandNames == UserCommands \cup {"none", "warp", "restart", "update", "install", "wizard", "uninstall"}

Job == [cmd : CommandNames, todo : Seq(Users), user : Users \cup {NoPass},
        pass : Passwords \cup {NoPass}, addr : {"127.0.0.1", "0.0.0.0"},
        made : BOOLEAN, clean : BOOLEAN]

\* Steps of setupSOCKSMulti and of warp.Setup.
InProxy == {"creds", "reload", "create", "restart"}
InSetup == {"register", "socksUser", "wgConf", "wgUnit"}

\* The parts of a plan are a part p and then others.
First(s, p)   == s # <<>> /\ Head(s) = p
ProxyLast(s)  == s # <<>> /\ Head(s) \in {"local", "wide"} /\ Tail(s) = <<>>

\* What add, bulk_add and remove end with.
Refreshing(cmd, c) == IF cmd # "edit_password" /\ c.warp THEN <<"refresh">> ELSE <<>>

AddAt(cmd, c, l, s) ==
  /\ l \in {"account", "save", "conf", "live"} \cup InProxy
  /\ l = "account" => First(s, "save") /\ First(Tail(s), "local") /\ Tail(Tail(s)) = Refreshing(cmd, c)
  /\ l = "save" => First(s, "local") /\ Tail(s) = Refreshing(cmd, c)
  /\ l \in InProxy => s = Refreshing(cmd, c)
  /\ l \in {"conf", "live"} => s = <<>>

RemoveAt(cmd, c, l, s) ==
  /\ l \in {"unaccount", "save", "conf", "live"} \cup InProxy
  /\ l = "unaccount" => First(s, "local") /\ First(Tail(s), "save") /\ Tail(Tail(s)) = Refreshing(cmd, c)
  /\ l \in InProxy => First(s, "save") /\ Tail(s) = Refreshing(cmd, c)
  /\ l = "save" => s = Refreshing(cmd, c)
  /\ l \in {"conf", "live"} => s = <<>>

WarpAt(l, s) ==
  /\ l \in {"up", "saveFlag", "conf", "live", "down", "flush"} \cup InSetup \cup InProxy
  /\ l \in {"up", "saveFlag"} \cup InSetup => ProxyLast(s)
  /\ l \in {"conf", "live"} => First(s, "enable") /\ ProxyLast(Tail(s))
  /\ l \in {"down", "flush"} => First(s, "saveFlag") /\ ProxyLast(Tail(s))
  /\ l \in InProxy => s = <<>>

\* install and wizard: WARP and the proxy come last, and before them a user.
AfterWarp(s) ==
  \/ s = <<>>
  \/ First(s, "free") /\ Tail(s) # <<>> /\ Head(Tail(s)) \in {"local", "wide"}
     /\ (Tail(Tail(s)) = <<>> \/ ProxyLast(Tail(Tail(s))))

AfterUser(cmd, s) == AfterWarp(s) \/ (cmd = "install" /\ First(s, "setup") /\ AfterWarp(Tail(s)))

AfterTunnels(cmd, s) ==
  AfterUser(cmd, s) \/ (First(s, "account") /\ First(Tail(s), "save") /\ AfterUser(cmd, Tail(Tail(s))))

InstallAt(cmd, l, s) ==
  /\ l \in {"default", "save", "account", "up", "saveFlag", "free"} \cup InSetup \cup InProxy
  /\ l = "default" => First(s, "save") /\ AfterTunnels(cmd, Tail(s))
  /\ l = "save" => AfterTunnels(cmd, s)
  /\ l = "account" => First(s, "save") /\ AfterUser(cmd, Tail(s))
  /\ l \in {"up", "saveFlag"} \cup InSetup => cmd = "install" /\ AfterWarp(s)
  /\ l = "free" => s # <<>> /\ Head(s) \in {"local", "wide"} /\ (Tail(s) = <<>> \/ ProxyLast(Tail(s)))
  /\ l \in InProxy => s = <<>> \/ ProxyLast(s)

At(cmd, c, l, s) ==
  /\ cmd \in {"add", "bulk_add", "edit_password"} => AddAt(cmd, c, l, s)
  /\ cmd = "remove" => RemoveAt(cmd, c, l, s)
  /\ cmd = "warp" => WarpAt(l, s)
  /\ cmd \in {"restart", "update"} => l \in {"bounce"} \cup InProxy /\ s = <<>>
  /\ cmd \in {"install", "wizard"} => InstallAt(cmd, l, s)
  /\ cmd = "uninstall" => l \in {"services", "uninstallWarp", "wipe"} /\ s = <<>>
  /\ cmd # "none"

\* A user is still to be created.
Creating(l, s) ==
  \/ l = "account"
  \/ l = "save" /\ First(s, "account")
  \/ l = "default" /\ First(Tail(s), "account")

\* An installation has nothing to do but to set WARP up.
OnlyWarp(l, s) ==
  \/ s = <<>> /\ l \in {"save", "up", "saveFlag"} \cup InSetup
  \/ l = "save" /\ First(s, "setup") /\ Tail(s) = <<>>

\* The users a handler is going to create, or the one it removes.
UsersAt(l, s, j) ==
  /\ Creating(l, s) => j.todo # <<>> /\ j.pass \in Passwords
  /\ j.cmd \in {"add", "edit_password", "remove"} => j.user \in Users
  /\ j.cmd \in {"add", "edit_password", "install"} /\ Creating(l, s) => j.todo = <<j.user>>
  /\ j.cmd \in UserCommands /\ l \in InProxy => j.addr = "127.0.0.1"

HandlerFine == pc # "idle" => At(job.cmd, mem, pc, plan) /\ UsersAt(pc, plan, job)

\* A unit of WARP is there only with its configuration, and so is the service.
WarpFine ==
  /\ wgUnit \/ wgUp => IsSetUp
  /\ pc = "wgUnit" => IsSetUp
  /\ pc = "uninstallWarp" => ~wgUnit /\ ~wgUp

\* There is a process or a session only with a unit.
ProxyFine ==
  /\ ServerActive => unit # Absent
  /\ pc \in {"bounce", "restart"} => unit # Absent
  /\ session # "none" => server.state = "running"

FlowTyped == pc \in Steps /\ plan \in Seq(Parts) /\ (pc = "idle" => plan = <<>>) /\ job \in Job
FlowFine  == FlowTyped /\ HandlerFine

IInv == TypeOK /\ FlowFine /\ WarpFine /\ ProxyFine

-------------------------------------------------------------------------------
(***************************************************************************)
(* The copies, while nothing has failed                                    *)
(***************************************************************************)
\* Where the command's copy is ahead of the file.
Unsaved(cmd) ==
  CASE cmd \in {"add", "bulk_add", "edit_password"} -> {"account", "save"}
    [] cmd = "remove" -> {"save"} \cup InProxy
    [] cmd = "warp" -> {"saveFlag"}
    [] cmd \in {"install", "wizard"} -> {"default", "account", "save", "saveFlag"}
    [] OTHER -> {"services", "uninstallWarp", "wipe"}

FileFollows ==
  /\ file = Absent => pc \in {"idle", "default"}
  /\ pc = "default" => file = Absent
  /\ job.cmd = "uninstall" /\ pc # "idle" => mem = EmptyConfig
  /\ file # mem => pc \in Unsaved(job.cmd) \/ (pc = "idle" /\ file = Absent /\ mem = EmptyConfig)

\* A host without a configuration, where a first user is being created, or where
\* an installation enables WARP.
EnablesWarp(l, s) == l = "up" \/ (~mem.warp /\ (l \in InSetup \/ (l = "save" /\ First(s, "setup"))))

FreshHost ==
  \/ file = Absent
  \/ job.cmd \in {"install", "wizard"} /\ pc # "idle" /\ Creating(pc, plan)
  \/ job.cmd = "install" /\ EnablesWarp(pc, plan)
  => credsFile = Absent /\ unit = Absent
FreshRules ==
  \/ file = Absent /\ pc \in {"idle", "default"}
  \/ job.cmd = "install" /\ pc # "idle" /\ Creating(pc, plan)
  \/ job.cmd = "wizard" /\ pc # "idle"
  => ~wgUp /\ ~mem.warp

\* install comes to the proxy only with no user but the one it has created.
FirstUser ==
  job.cmd = "install" /\ pc # "idle" =>
    IF Creating(pc, plan) THEN mem.users = NoCreds
    ELSE mem.users = CredsToWrite \/ OnlyWarp(pc, plan)

CredsFollow ==
  credsFile \notin {Absent, mem.users} =>
    \/ job.cmd \in {"add", "bulk_add", "edit_password"} /\ pc \in {"account", "save", "creds"}
    \/ job.cmd = "remove" /\ pc = "creds"
    \/ job.cmd = "uninstall" /\ pc # "idle"

UserFollows ==
  /\ runAs = "slipgate-socks" =>
       mem.warp \/ (job.cmd = "warp" /\ pc \in {"saveFlag", "creds"}) \/ job.cmd = "uninstall"
  /\ unit # Absent /\ unit.user # ExpectedUser(mem) =>
       \/ job.cmd = "warp" /\ pc \in {"saveFlag", "creds", "reload", "create"}
       \/ job.cmd = "uninstall" /\ pc = "services"
  /\ pc \in {"reload", "create", "restart"} => credsFile = mem.users /\ runAs = ExpectedUser(mem)
  /\ unit # Absent => credsFile # Absent /\ pc \notin {"uninstallWarp", "wipe"}

ServerFollows ==
  pc # "restart" =>
    /\ unit # Absent => server.state # "stopped"
    /\ ServerActive => server.as = unit

WarpFollows ==
  /\ wgUp # mem.warp => pc \in {"flush", "services"}
  /\ pc = "flush" => ~wgUp
  /\ wgUp => publicRule
  /\ ~wgUp /\ pc \notin {"flush", "uninstallWarp"} => liveRules = {} /\ ~publicRule
  /\ IsSetUp => wgUnit \/ pc \in {"wgUnit", "uninstallWarp"}
  /\ pc = "up" => wgUnit
  /\ pc \in {"live", "up", "wgUnit"} => wgConf = UserUIDs(WithAccount(mem))
  /\ pc = "conf" /\ job.cmd = "warp" => IsSetUp
  /\ IsSetUp \/ pc = "wgConf" => socksAccount

RulesFollow ==
  wgUp /\ liveRules # UserUIDs(WithAccount(mem)) =>
    \/ job.cmd \in {"add", "bulk_add"} /\ pc \in {"account", "save", "conf", "live"} \cup InProxy
    \/ job.cmd = "remove" /\ pc \in {"save", "conf", "live"} \cup InProxy
    \/ pc = "services"

AccountsFollow == \A u \in UsersOf(mem) : account[u] = mem.users[u]

EditsOne == job.cmd = "edit_password" /\ pc # "idle" => job.user \in UsersOf(mem)

Following ==
  faults = 0 =>
    /\ FileFollows /\ FreshHost /\ FreshRules /\ FirstUser /\ CredsFollow /\ UserFollows
    /\ ServerFollows /\ WarpFollows /\ RulesFollow /\ AccountsFollow /\ EditsOne

-------------------------------------------------------------------------------
(***************************************************************************)
(* A user command without a failure of its own, whatever failed before     *)
(***************************************************************************)
Repairing ==
  /\ job.cmd = "bulk_add" => job.user = NoPass
  /\ job.clean /\ job.cmd \in UserCommands =>
       /\ pc \notin {"account", "unaccount", "creds"} /\ ~(job.cmd # "remove" /\ pc = "save") => credsFile = mem.users
       /\ pc \notin {"account", "unaccount", "save"} /\ ~(job.cmd = "remove" /\ pc \in InProxy) => file = mem
       /\ pc \notin {"account", "unaccount"} /\ job.user # NoPass => account[job.user] = mem.users[job.user]
       /\ pc = "idle" /\ job.cmd # "edit_password" /\ mem.warp /\ wgUp => liveRules = UserUIDs(WithAccount(mem))

-------------------------------------------------------------------------------
(***************************************************************************)
(* Plans                                                                   *)
(***************************************************************************)
\* FirstStep as a table.
LEMMA FirstSteps ==
  /\ Parts = {"account", "unaccount", "default", "save", "free", "local", "wide", "bounce", "refresh",
              "setup", "enable", "disable", "saveFlag", "uninstall"}
  /\ FirstStep["account"] = "account" /\ FirstStep["unaccount"] = "unaccount"
  /\ FirstStep["default"] = "default" /\ FirstStep["save"] = "save" /\ FirstStep["free"] = "free"
  /\ FirstStep["local"] = "creds" /\ FirstStep["wide"] = "creds" /\ FirstStep["bounce"] = "bounce"
  /\ FirstStep["refresh"] = "conf" /\ FirstStep["setup"] = "register" /\ FirstStep["enable"] = "up"
  /\ FirstStep["disable"] = "down" /\ FirstStep["saveFlag"] = "saveFlag"
  /\ FirstStep["uninstall"] = "services"
BY DEF FirstStep, Parts

\* The steps a handler can be at.
LEMMA AllSteps ==
  Steps = {"account", "unaccount", "default", "save", "free", "creds", "bounce", "conf", "register", "up",
           "down", "saveFlag", "services", "idle", "reload", "create", "restart", "live", "socksUser",
           "wgConf", "wgUnit", "flush", "uninstallWarp", "wipe"}
BY FirstSteps DEF Steps

\* Head and Tail of a sequence that has elements, and of one that was prefixed.
LEMMA Taking ==
  ASSUME NEW S, NEW s \in Seq(S), s # <<>>
  PROVE  Head(s) \in S /\ Tail(s) \in Seq(S)
OBVIOUS

LEMMA Prefixing ==
  ASSUME NEW S, NEW a \in S, NEW s \in Seq(S)
  PROVE  /\ <<a>> \o s \in Seq(S) /\ <<a>> \o s # <<>>
         /\ Head(<<a>> \o s) = a /\ Tail(<<a>> \o s) = s
OBVIOUS

LEMMA Literal ==
  ASSUME NEW S, NEW a \in S
  PROVE  /\ <<a>> \in Seq(S) /\ <<a>> # <<>> /\ Head(<<a>>) = a /\ Tail(<<a>>) = <<>>
         /\ \A b \in S : /\ <<a, b>> \in Seq(S) /\ <<a, b>> # <<>>
                         /\ Head(<<a, b>>) = a /\ Tail(<<a, b>>) = <<b>>
         /\ \A b, c \in S : /\ <<a, b, c>> \in Seq(S) /\ <<a, b, c>> # <<>>
                            /\ Head(<<a, b, c>>) = a /\ Tail(<<a, b, c>>) = <<b, c>>
OBVIOUS

LEMMA Joining ==
  ASSUME NEW S, NEW a \in S, NEW b \in S, NEW c \in S
  PROVE  <<a, b>> \o <<c>> = <<a, b, c>> /\ <<a, b>> \o <<>> = <<a, b>>
<1>1. /\ <<a, b>> \in Seq(S) /\ <<c>> \in Seq(S) /\ <<a, b, c>> \in Seq(S)
      /\ Len(<<a, b>>) = 2 /\ Len(<<c>>) = 1 /\ Len(<<a, b, c>>) = 3
  OBVIOUS
<1> DEFINE s == <<a, b>> \o <<c>>
<1>2. s \in Seq(S) /\ Len(s) = 3
  BY <1>1
<1>3. s[1] = a /\ s[2] = b /\ s[3] = c
  BY <1>1
<1> HIDE DEF s
<1>4. \A i \in 1..Len(s) : s[i] = <<a, b, c>>[i]
  <2>1. SUFFICES ASSUME NEW i \in {1, 2, 3}  PROVE s[i] = <<a, b, c>>[i]
    BY <1>2
  <2>2. QED
    BY <1>3
<1>5. s = <<a, b, c>>
  BY <1>1, <1>2, <1>4, SeqEqual
<1>6. <<a, b>> \o <<>> = <<a, b>>
  BY <1>1, ConcatEmptySeq
<1>7. QED
  BY <1>5, <1>6 DEF s

\* Where GoOn leaves a handler: at the first step of the next part with the
\* locals it had, but for the address; or at its end with its outcome.
LEMMA GoingOn ==
  ASSUME NEW parts \in Seq(Parts), NEW j \in Job, GoOn(parts, j)
  PROVE  /\ pc' \in Steps /\ plan' \in Seq(Parts) /\ job' \in Job
         /\ pc' \in {"idle"} \cup {FirstStep[part] : part \in Parts}
         /\ job'.cmd = j.cmd
         /\ pc' = "idle" <=> parts = <<>>
         /\ parts = <<>> =>
              /\ plan' = <<>>
              /\ j.cmd \in UserCommands => job'.clean = j.clean /\ job'.user = j.user
         /\ parts # <<>> =>
              /\ Head(parts) \in Parts /\ pc' = FirstStep[Head(parts)] /\ plan' = Tail(parts)
              /\ job'.todo = j.todo /\ job'.user = j.user /\ job'.pass = j.pass
              /\ job'.clean = j.clean /\ job'.made = j.made
              /\ Head(parts) = "local" => job'.addr = "127.0.0.1"
              /\ Head(parts) \notin {"local", "wide"} => job'.addr = j.addr
<1>1. CASE parts = <<>>
  <2>1. pc' = "idle" /\ plan' = <<>> /\ job' = Outcome(j)
    BY <1>1 DEF GoOn
  <2>2. job' \in Job /\ job'.cmd = j.cmd
    <3>1. /\ j.cmd \in CommandNames /\ j.user \in Users \cup {NoPass} /\ j.clean \in BOOLEAN
          /\ <<>> \in Seq(Users)
      BY DEF Job
    <3>2. QED
      BY <2>1, <3>1 DEF Outcome, NoJob, Job
  <2>3. j.cmd \in UserCommands => job'.clean = j.clean /\ job'.user = j.user
    BY <2>1 DEF Outcome, NoJob
  <2>4. QED
    BY <1>1, <2>1, <2>2, <2>3, AllSteps
<1>2. CASE parts # <<>>
  <2>1. Head(parts) \in Parts /\ Tail(parts) \in Seq(Parts)
    BY <1>2, Taking
  <2>2. /\ pc' = FirstStep[Head(parts)] /\ plan' = Tail(parts)
        /\ job' = [j EXCEPT !.addr = IF Head(parts) \in {"local", "wide"} THEN Address(Head(parts)) ELSE @]
    BY <1>2 DEF GoOn
  <2>3. pc' \in Steps /\ pc' # "idle"
    BY <2>1, <2>2, FirstSteps, AllSteps
  <2>4. Address(Head(parts)) \in {"127.0.0.1", "0.0.0.0"}
    BY DEF Address
  <2>5. job' \in Job
    BY <2>2, <2>4 DEF Job
  <2>6. Head(parts) = "local" => job'.addr = "127.0.0.1"
    BY <2>2 DEF Address, Job
  <2>7. QED
    BY <1>2, <2>1, <2>2, <2>3, <2>5, <2>6 DEF Job
<1>3. QED
  BY <1>1, <1>2

\* The part after this one is one that its command may be at, and it creates
\* users only if users were still to be created.
LEMMA NextPart ==
  ASSUME NEW cmd \in CommandNames, NEW c, NEW l, NEW s \in Seq(Parts), At(cmd, c, l, s), s # <<>>
  PROVE  /\ At(cmd, c, FirstStep[Head(s)], Tail(s))
         /\ Creating(FirstStep[Head(s)], Tail(s)) => Creating(l, s)
<1> DEFINE k == FirstStep[Head(s)]
<1>1. /\ Head(s) \in Parts /\ Tail(s) \in Seq(Parts)
      /\ Tail(s) # <<>> => Head(Tail(s)) \in Parts /\ Tail(Tail(s)) \in Seq(Parts)
  BY Taking
<1>2. Refreshing(cmd, c) # <<>> =>
        Head(Refreshing(cmd, c)) = "refresh" /\ Tail(Refreshing(cmd, c)) = <<>>
  BY DEF Refreshing
<1>3. CASE cmd \in {"add", "bulk_add", "edit_password"}
  <2>1. AddAt(cmd, c, k, Tail(s)) /\ k # "account" /\ (k = "save" => Head(Tail(s)) = "local")
    BY <1>1, <1>2, <1>3, FirstSteps DEF At, AddAt, First, InProxy
  <2>2. QED
    BY <1>1, <1>3, <2>1, FirstSteps DEF At, Creating, First, UserCommands, AddAt
<1>4. CASE cmd = "remove"
  <2>1. RemoveAt(cmd, c, k, Tail(s))
    BY <1>1, <1>2, <1>4, FirstSteps DEF At, RemoveAt, First, InProxy
  <2>2. k = "save" => Tail(s) = <<>> \/ Head(Tail(s)) = "refresh"
    BY <1>2, <2>1 DEF RemoveAt
  <2>3. QED
    BY <1>1, <1>4, <2>1, <2>2, FirstSteps DEF At, Creating, First, RemoveAt
<1>5. CASE cmd = "warp"
  BY <1>1, <1>5, FirstSteps DEF At, WarpAt, First, ProxyLast, InProxy, InSetup, Creating
<1>6. CASE cmd \in {"restart", "update", "uninstall"}
  BY <1>6 DEF At
<1>7. CASE cmd \in {"install", "wizard"}
  <2> InstallAt(cmd, l, s) /\ Head(s) \in Parts
    BY <1>1, <1>7 DEF At
  <2>1. InstallAt(cmd, k, Tail(s)) /\ k # "default"
    <3>1. CASE l = "default"
      BY <1>1, <3>1, FirstSteps DEF InstallAt, First, InProxy, InSetup
    <3>2. CASE l = "account"
      BY <1>1, <3>2, FirstSteps DEF InstallAt, First, AfterTunnels, InProxy, InSetup
    <3>3. CASE l = "free"
      BY <1>1, <3>3, FirstSteps DEF InstallAt, ProxyLast, InProxy, InSetup
    <3>4. CASE l \in InProxy
      BY <1>1, <3>4, FirstSteps DEF InstallAt, ProxyLast, InProxy, InSetup
    <3>5. AfterWarp(s) => InstallAt(cmd, k, Tail(s)) /\ k # "default"
      BY <1>1, FirstSteps DEF AfterWarp, InstallAt, First, InProxy, InSetup
    <3>6. CASE l \in {"up", "saveFlag"} \cup InSetup
      BY <3>5, <3>6 DEF InstallAt
    <3>7. CASE l = "save"
      <4>1. CASE cmd = "install" /\ First(s, "setup") /\ AfterWarp(Tail(s))
        BY <1>1, <4>1, FirstSteps DEF InstallAt, First, InProxy, InSetup
      <4>2. CASE First(s, "account") /\ First(Tail(s), "save") /\ AfterUser(cmd, Tail(Tail(s)))
        BY <1>1, <4>2, FirstSteps DEF InstallAt, First, InProxy, InSetup
      <4>3. QED
        BY <3>5, <3>7, <4>1, <4>2 DEF InstallAt, AfterTunnels, AfterUser
    <3>8. QED
      BY <3>1, <3>2, <3>3, <3>4, <3>6, <3>7 DEF InstallAt
  <2>2. Creating(k, Tail(s)) => Creating(l, s)
    BY <1>1, <1>7, <2>1, FirstSteps
    DEF At, InstallAt, AfterTunnels, AfterUser, AfterWarp, First, ProxyLast, InProxy, InSetup, Creating
  <2>3. QED
    BY <1>7, <2>1, <2>2 DEF At
<1>8. QED
  BY <1>3, <1>4, <1>5, <1>6, <1>7 DEF At, CommandNames, UserCommands

-------------------------------------------------------------------------------
(***************************************************************************)
(* The handler's control                                                   *)
(***************************************************************************)
\* The parts of TypeOK that an action changes or leaves alone together.
ProxyTyped ==
  /\ credsFile \in Creds \cup {Absent} /\ unit \in Unit \cup {Absent}
  /\ server \in Process /\ session \in Sessions
WarpTyped ==
  /\ wgConf \in (SUBSET Uids) \cup {NoConf} /\ liveRules \in SUBSET Uids
  /\ wgUnit \in BOOLEAN /\ wgUp \in BOOLEAN /\ publicRule \in BOOLEAN /\ socksAccount \in BOOLEAN
StoreTyped ==
  /\ file \in Config \cup {Absent} /\ mem \in Config
  /\ account \in [Users -> Passwords \cup {NoPass, Locked}]
  /\ runAs \in {"slipgate", "slipgate-socks"}
BoundsTyped == commands \in 0..MaxCommands /\ faults \in 0..MaxFaults

LEMMA Split == IInv <=> ProxyTyped /\ WarpTyped /\ StoreTyped /\ BoundsTyped /\ FlowFine /\ WarpFine /\ ProxyFine
<1>1. pc = "account" /\ FlowFine => job.todo # <<>> /\ job.pass \in Passwords
  BY DEF FlowFine, HandlerFine, UsersAt, Creating
<1>2. QED
  BY <1>1 DEF IInv, TypeOK, ProxyTyped, WarpTyped, StoreTyped, BoundsTyped, FlowFine, FlowTyped

LEMMA SplitNext ==
  ProxyTyped' /\ WarpTyped' /\ StoreTyped' /\ BoundsTyped' /\ FlowFine' /\ WarpFine' /\ ProxyFine' => IInv'
<1>1. pc' = "account" /\ FlowFine' => job'.todo # <<>> /\ job'.pass \in Passwords
  BY DEF FlowFine, HandlerFine, UsersAt, Creating
<1>2. QED
  BY <1>1 DEF IInv, TypeOK, ProxyTyped, WarpTyped, StoreTyped, BoundsTyped, FlowFine, FlowTyped

\* Shapes of a plan depend on the configuration through WARP's flag only.
LEMMA SameAt ==
  ASSUME NEW cmd, NEW c, NEW d, NEW l, NEW s, At(cmd, c, l, s), d.warp = c.warp \/ cmd \notin UserCommands
  PROVE  At(cmd, d, l, s)
<1>1. cmd \in UserCommands => Refreshing(cmd, d) = Refreshing(cmd, c)
  BY DEF Refreshing
<1>2. cmd \in {"add", "bulk_add", "edit_password"} => AddAt(cmd, d, l, s)
  BY <1>1 DEF At, AddAt, UserCommands
<1>3. cmd = "remove" => RemoveAt(cmd, d, l, s)
  BY <1>1 DEF At, RemoveAt, UserCommands
<1>4. QED
  BY <1>2, <1>3 DEF At

\* The locals a step leaves alone.
SameLocals(j) == /\ j \in Job /\ j.cmd = job.cmd /\ j.todo = job.todo /\ j.user = job.user
                 /\ j.pass = job.pass /\ j.addr = job.addr

LEMMA Unclean ==
  ASSUME job \in Job
  PROVE  SameLocals(job) /\ SameLocals([job EXCEPT !.clean = FALSE]) /\ [job EXCEPT !.clean = FALSE].clean = FALSE
BY DEF SameLocals, Job

\* A part is done and the next one begins.
LEMMA Continuing ==
  ASSUME FlowFine, pc # "idle", NEW j, SameLocals(j), GoOn(plan, j),
         mem'.warp = mem.warp \/ job.cmd \notin UserCommands
  PROVE  FlowFine' /\ pc' \in {"idle"} \cup ({FirstStep[part] : part \in Parts} \ {"bounce"})
<1>1. plan \in Seq(Parts) /\ j \in Job /\ j.cmd = job.cmd /\ job.cmd \in CommandNames
  BY DEF FlowFine, FlowTyped, SameLocals, Job
<1>2. FlowTyped' /\ job'.cmd = job.cmd /\ pc' \in {"idle"} \cup {FirstStep[part] : part \in Parts}
  BY <1>1, GoingOn DEF FlowTyped
<1>3. CASE plan = <<>>
  BY <1>1, <1>2, <1>3, GoingOn, FirstSteps DEF FlowFine, HandlerFine
<1>4. CASE plan # <<>>
  <2>1. At(job.cmd, mem', pc, plan)
    BY SameAt DEF FlowFine, HandlerFine
  <2>2. /\ At(job.cmd, mem', FirstStep[Head(plan)], Tail(plan))
        /\ Creating(FirstStep[Head(plan)], Tail(plan)) => Creating(pc, plan)
    BY <1>1, <1>4, <2>1, NextPart
  <2>3. /\ Head(plan) \in Parts /\ pc' = FirstStep[Head(plan)] /\ plan' = Tail(plan)
        /\ job'.todo = j.todo /\ job'.user = j.user /\ job'.pass = j.pass
        /\ Head(plan) = "local" => job'.addr = "127.0.0.1"
    BY <1>1, <1>4, GoingOn
  <2>4. pc' # "bounce"
    BY <2>2, <2>3, <1>1, <1>4, <2>1 DEF At, AddAt, RemoveAt, WarpAt, InstallAt, InProxy, InSetup, CommandNames, UserCommands
  <2>5. job.cmd \in UserCommands /\ pc' \in InProxy => Head(plan) = "local"
    <3>1. pc' \in InProxy => Head(plan) \in {"local", "wide"}
      BY <2>3, FirstSteps DEF InProxy
    <3>2. job.cmd \in UserCommands => Head(plan) # "wide"
      BY <1>4, <2>1 DEF At, AddAt, RemoveAt, First, Refreshing, UserCommands
    <3>3. QED
      BY <3>1, <3>2
  <2>6. UsersAt(pc', plan', job')
    BY <1>2, <2>2, <2>3, <2>5 DEF UsersAt, SameLocals, FlowFine, HandlerFine
  <2>7. QED
    BY <1>2, <2>2, <2>3, <2>4, <2>6 DEF FlowFine, HandlerFine
<1>5. QED
  BY <1>3, <1>4

\* The handler returns.
LEMMA Returning ==
  ASSUME job \in Job, Return
  PROVE  FlowFine' /\ pc' = "idle" /\ plan' = <<>>
<1>1. [job EXCEPT !.clean = FALSE] \in Job /\ <<>> \in Seq(Parts)
  BY Unclean DEF SameLocals
<1>2. QED
  BY <1>1, GoingOn DEF Return, FlowFine, FlowTyped, HandlerFine

\* The next step of the same part.
WithinPart == {<<"creds", "reload">>, <<"reload", "create">>, <<"create", "restart">>, <<"conf", "live">>,
               <<"register", "socksUser">>, <<"socksUser", "wgConf">>, <<"wgConf", "wgUnit">>,
               <<"wgUnit", "up">>, <<"up", "saveFlag">>, <<"down", "flush">>,
               <<"services", "uninstallWarp">>, <<"uninstallWarp", "wipe">>}

LEMMA Staying ==
  ASSUME FlowFine, pc # "idle", NEW l, <<pc, l>> \in WithinPart, pc' = l, plan' = plan, SameLocals(job'),
         mem'.warp = mem.warp \/ job.cmd \notin UserCommands
  PROVE  FlowFine'
<1>1. At(job.cmd, mem', pc, plan) /\ UsersAt(pc, plan, job)
  BY SameAt DEF FlowFine, HandlerFine
<1>2. FlowTyped'
  BY AllSteps DEF FlowFine, FlowTyped, WithinPart, SameLocals
<1>3. At(job.cmd, mem', l, plan)
  BY <1>1 DEF At, AddAt, RemoveAt, WarpAt, InstallAt, InProxy, InSetup, WithinPart
<1>4. UsersAt(l, plan, job')
  BY <1>1 DEF UsersAt, Creating, InProxy, WithinPart, SameLocals
<1>5. QED
  BY <1>2, <1>3, <1>4 DEF FlowFine, HandlerFine, SameLocals

-------------------------------------------------------------------------------
(***************************************************************************)
(* Commands begin                                                          *)
(***************************************************************************)
LEMMA LoadedTyped == IInv => Loaded \in Config /\ UsersOf(Loaded) \subseteq Users
<1>1. EmptyConfig \in Config
  BY DEF EmptyConfig, Config, NoCreds, Creds
<1>2. QED
  BY <1>1, Split DEF StoreTyped, Loaded, UsersOf

\* The state in which a command has begun.
LEMMA Begun ==
  ASSUME NEW cmd \in CommandNames, NEW c, NEW parts \in Seq(Parts), parts # <<>>,
         NEW todo \in Seq(Users), NEW u \in Users \cup {NoPass}, NEW p \in Passwords \cup {NoPass},
         Begin(cmd, c, parts, todo, u, p)
  PROVE  /\ pc' = FirstStep[Head(parts)] /\ plan' = Tail(parts) /\ Head(parts) \in Parts
         /\ pc' \in {FirstStep[part] : part \in Parts} /\ pc' # "idle"
         /\ FlowTyped'
         /\ job'.cmd = cmd /\ job'.todo = todo /\ job'.user = u /\ job'.pass = p /\ job'.clean = TRUE
         /\ mem' = c /\ UNCHANGED faults /\ pc = "idle"
         /\ runAs' \in {"slipgate"} \cup (IF job.cmd \in {"update", "uninstall"} THEN {} ELSE {runAs})
         /\ UNCHANGED <<proxyVars, warpVars, storeVars>>
<1> DEFINE j == [NoJob EXCEPT !.cmd = cmd, !.todo = todo, !.user = u, !.pass = p]
<1>1. /\ j \in Job /\ j.cmd = cmd /\ j.todo = todo /\ j.user = u /\ j.pass = p /\ j.clean = TRUE
  BY DEF NoJob, Job
<1>2. GoOn(parts, j)
  BY DEF Begin
<1> HIDE DEF j
<1>3. /\ pc' = FirstStep[Head(parts)] /\ plan' = Tail(parts) /\ Head(parts) \in Parts
      /\ pc' \in Steps /\ plan' \in Seq(Parts) /\ job' \in Job /\ job'.cmd = cmd /\ pc' # "idle"
      /\ job'.todo = todo /\ job'.user = u /\ job'.pass = p /\ job'.clean = TRUE
  BY <1>1, <1>2, GoingOn
<1>4. FlowTyped'
  BY <1>3 DEF FlowTyped
<1>5. /\ mem' = c /\ UNCHANGED faults /\ pc = "idle"
      /\ runAs' \in {"slipgate"} \cup (IF job.cmd \in {"update", "uninstall"} THEN {} ELSE {runAs})
      /\ UNCHANGED <<proxyVars, warpVars, storeVars>>
  BY DEF Begin, SameHost
<1>6. QED
  BY <1>3, <1>4, <1>5

\* A command whose plan is one of its command keeps the invariant.
LEMMA Beginning ==
  ASSUME IInv, NEW cmd \in CommandNames, NEW c \in Config, NEW parts \in Seq(Parts), parts # <<>>,
         NEW todo \in Seq(Users), NEW u \in Users \cup {NoPass}, NEW p \in Passwords \cup {NoPass},
         Begin(cmd, c, parts, todo, u, p),
         At(cmd, c, FirstStep[Head(parts)], Tail(parts)),
         Creating(FirstStep[Head(parts)], Tail(parts)) => todo # <<>> /\ p \in Passwords,
         cmd \in {"add", "edit_password", "remove"} => u \in Users /\ todo = <<u>>,
         cmd = "install" /\ todo # <<>> => todo = <<u>>,
         cmd \in UserCommands => Head(parts) \in {"account", "unaccount"},
         Head(parts) = "bounce" => unit # Absent
  PROVE  IInv'
<1> USE UserStoreAssumption
<1>1. /\ pc' = FirstStep[Head(parts)] /\ plan' = Tail(parts) /\ Head(parts) \in Parts
      /\ pc' \in {FirstStep[part] : part \in Parts} /\ FlowTyped'
      /\ job'.cmd = cmd /\ job'.todo = todo /\ job'.user = u /\ job'.pass = p
      /\ mem' = c /\ UNCHANGED faults
      /\ runAs' \in {"slipgate"} \cup (IF job.cmd \in {"update", "uninstall"} THEN {} ELSE {runAs})
      /\ UNCHANGED <<proxyVars, warpVars, storeVars>>
  BY Begun
<1>2. ProxyTyped' /\ WarpTyped' /\ StoreTyped'
  BY <1>1, Split DEF ProxyTyped, WarpTyped, StoreTyped, proxyVars, warpVars, storeVars
<1>3. BoundsTyped'
  BY Split DEF Begin, BoundsTyped
<1>4. FlowFine'
  <2>1. cmd \in UserCommands => pc' \notin InProxy
    BY <1>1, FirstSteps DEF InProxy
  <2>2. UsersAt(pc', plan', job')
    BY <1>1, <2>1 DEF UsersAt
  <2>3. QED
    BY <1>1, <2>2 DEF FlowFine, HandlerFine
<1>5. WarpFine'
  BY <1>1, Split, FirstSteps DEF WarpFine, warpVars, IsSetUp
<1>6. ProxyFine'
  BY <1>1, Split, FirstSteps DEF ProxyFine, proxyVars, ServerActive
<1>7. QED
  BY <1>2, <1>3, <1>4, <1>5, <1>6, SplitNext

\* The plans of the user commands, written out part by part.
LEMMA UserPlans ==
  ASSUME NEW r, r \in {<<>>, <<"refresh">>}
  PROVE  /\ <<"account", "save", "local">> \o r \in Seq(Parts)
         /\ <<"account", "save", "local">> \o r # <<>>
         /\ Head(<<"account", "save", "local">> \o r) = "account"
         /\ First(Tail(<<"account", "save", "local">> \o r), "save")
         /\ First(Tail(Tail(<<"account", "save", "local">> \o r)), "local")
         /\ Tail(Tail(Tail(<<"account", "save", "local">> \o r))) = r
         /\ <<"unaccount", "local", "save">> \o r \in Seq(Parts)
         /\ <<"unaccount", "local", "save">> \o r # <<>>
         /\ Head(<<"unaccount", "local", "save">> \o r) = "unaccount"
         /\ First(Tail(<<"unaccount", "local", "save">> \o r), "local")
         /\ First(Tail(Tail(<<"unaccount", "local", "save">> \o r)), "save")
         /\ Tail(Tail(Tail(<<"unaccount", "local", "save">> \o r))) = r
<1>1. {"account", "unaccount", "save", "local", "refresh"} \subseteq Parts
  BY FirstSteps
<1>2. r \in Seq(Parts)
  <2>1. <<"refresh">> \in Seq(Parts) /\ <<>> \in Seq(Parts)
    BY <1>1, Literal
  <2>2. QED
    BY <2>1
<1>3. /\ <<"local">> \o r \in Seq(Parts) /\ First(<<"local">> \o r, "local") /\ Tail(<<"local">> \o r) = r
      /\ <<"save">> \o r \in Seq(Parts) /\ First(<<"save">> \o r, "save") /\ Tail(<<"save">> \o r) = r
  BY <1>1, <1>2, Prefixing DEF First
<1> DEFINE sl == <<"save">> \o (<<"local">> \o r)
           ls == <<"local">> \o (<<"save">> \o r)
<1>4. /\ sl \in Seq(Parts) /\ First(sl, "save") /\ Tail(sl) = <<"local">> \o r
      /\ ls \in Seq(Parts) /\ First(ls, "local") /\ Tail(ls) = <<"save">> \o r
  BY <1>1, <1>3, Prefixing DEF First
<1>5. /\ <<"account", "save", "local">> \o r = <<"account">> \o sl
      /\ <<"unaccount", "local", "save">> \o r = <<"unaccount">> \o ls
  BY <1>2
<1> HIDE DEF sl, ls
<1>6. /\ <<"account">> \o sl \in Seq(Parts) /\ First(<<"account">> \o sl, "account") /\ Tail(<<"account">> \o sl) = sl
      /\ <<"unaccount">> \o ls \in Seq(Parts) /\ First(<<"unaccount">> \o ls, "unaccount")
      /\ Tail(<<"unaccount">> \o ls) = ls
  BY <1>1, <1>4, Prefixing DEF First
<1>7. QED
  BY <1>3, <1>4, <1>5, <1>6 DEF First

LEMMA Regrouping == \A x, y, z \in Seq(Parts) : (x \o y) \o z = x \o (y \o z)
<1> SUFFICES ASSUME NEW x \in Seq(Parts), NEW y \in Seq(Parts), NEW z \in Seq(Parts)
             PROVE  (x \o y) \o z = x \o (y \o z)
  OBVIOUS
<1>1. QED
  BY ConcatAssociative

\* The plans of install and of the wizard, whatever was chosen.
Planned(t, a, w, f) == t \o a \o w \o f

Installs(cmd, c, t, a, s) ==
  /\ s \in Seq(Parts) /\ s # <<>> /\ At(cmd, c, FirstStep[Head(s)], Tail(s))
  /\ Head(s) = Head(t) /\ Head(s) \in {"save", "default"}
  /\ Creating(FirstStep[Head(s)], Tail(s)) <=> a # <<>>

LEMMA InstallPlans ==
  ASSUME NEW cmd \in {"install", "wizard"}, NEW t \in {<<"save">>, <<"default", "save">>},
         NEW a \in {<<>>, <<"account", "save">>}, NEW w \in {<<>>, <<"setup">>}, cmd = "install" \/ w = <<>>,
         NEW f \in Seq(Parts), AfterWarp(f), NEW c
  PROVE  Installs(cmd, c, t, a, Planned(t, a, w, f))
<1> DEFINE s == Planned(t, a, w, f)
<1>0. s = t \o a \o w \o f
  BY DEF Planned
<1> HIDE DEF s
<1>1. {"default", "save", "account", "setup"} \subseteq Parts
  BY FirstSteps
<1>2. /\ t \in Seq(Parts) /\ a \in Seq(Parts) /\ w \in Seq(Parts)
  <2>1. /\ <<"save">> \in Seq(Parts) /\ <<"default", "save">> \in Seq(Parts) /\ <<>> \in Seq(Parts)
        /\ <<"account", "save">> \in Seq(Parts) /\ <<"setup">> \in Seq(Parts)
    BY <1>1, Literal
  <2>2. QED
    BY <2>1
<1> DEFINE wf == w \o f
           awf == a \o wf
<1>3. wf \in Seq(Parts) /\ AfterUser(cmd, wf) /\ (First(wf, "account") <=> FALSE)
  <2>1. CASE w = <<>>
    <3>1. wf = f
      BY <2>1
    <3>2. QED
      BY <3>1 DEF AfterUser, AfterWarp, First
  <2>2. CASE w = <<"setup">>
    <3>1. wf \in Seq(Parts) /\ wf # <<>> /\ Head(wf) = "setup" /\ Tail(wf) = f
      BY <1>1, <2>2, Prefixing
    <3>2. QED
      BY <2>2, <3>1 DEF AfterUser, First
  <2>3. QED
    BY <2>1, <2>2
<1>4. awf \in Seq(Parts) /\ AfterTunnels(cmd, awf) /\ (First(awf, "account") <=> a # <<>>)
  <2>1. CASE a = <<>>
    <3>1. awf = wf
      BY <1>3, <2>1
    <3>2. QED
      BY <1>3, <2>1, <3>1 DEF AfterTunnels
  <2>2. CASE a = <<"account", "save">>
    <3> HIDE DEF wf
    <3>1. awf = <<"account">> \o (<<"save">> \o wf)
      BY <1>3, <2>2
    <3>2. <<"save">> \o wf \in Seq(Parts) /\ First(<<"save">> \o wf, "save") /\ Tail(<<"save">> \o wf) = wf
      BY <1>1, <1>3, Prefixing DEF First
    <3>3. awf \in Seq(Parts) /\ First(awf, "account") /\ Tail(awf) = <<"save">> \o wf
      BY <1>1, <3>1, <3>2, Prefixing DEF First
    <3>4. QED
      BY <1>3, <2>2, <3>2, <3>3 DEF AfterTunnels
  <2>3. QED
    BY <2>1, <2>2
<1>5. s = t \o awf
  <2>1. t \o a \in Seq(Parts)
    BY <1>2
  <2> DEFINE ta == t \o a
  <2>2. ta \in Seq(Parts) /\ s = (ta \o w) \o f
    BY <1>0, <2>1
  <2> HIDE DEF ta, wf
  <2>3. (ta \o w) \o f = ta \o (w \o f)
    <3>1. w \in Seq(Parts) /\ f \in Seq(Parts)
      BY <1>2
    <3>2. QED
      BY <2>2, <3>1, Regrouping, Zenon
  <2>4. (t \o a) \o wf = t \o (a \o wf)
    <3>1. t \in Seq(Parts) /\ a \in Seq(Parts) /\ wf \in Seq(Parts)
      BY <1>2, <1>3
    <3>2. QED
      BY <3>1, Regrouping, Zenon
  <2>5. QED
    BY <2>2, <2>3, <2>4 DEF ta, wf
<1> HIDE DEF awf
<1>6. ASSUME t = <<"save">>  PROVE Installs(cmd, c, t, a, s)
  <2>1. s \in Seq(Parts) /\ s # <<>> /\ Head(s) = "save" /\ Tail(s) = awf
    BY <1>1, <1>4, <1>5, <1>6, Prefixing
  <2>2. FirstStep[Head(s)] = "save"
    BY <2>1, FirstSteps
  <2>3. InstallAt(cmd, "save", awf) /\ Head(t) = "save"
    BY <1>4, <1>6 DEF InstallAt, InProxy, InSetup
  <2>4. QED
    BY <1>4, <1>6, <2>1, <2>2, <2>3 DEF At, Creating, UserCommands, Installs
<1>7. ASSUME t = <<"default", "save">>  PROVE Installs(cmd, c, t, a, s)
  <2>1. <<"save">> \o awf \in Seq(Parts) /\ First(<<"save">> \o awf, "save") /\ Tail(<<"save">> \o awf) = awf
    BY <1>1, <1>4, Prefixing DEF First
  <2>2. s = <<"default">> \o (<<"save">> \o awf)
    BY <1>4, <1>5, <1>7
  <2>3. s \in Seq(Parts) /\ s # <<>> /\ Head(s) = "default" /\ Tail(s) = <<"save">> \o awf
    BY <1>1, <2>1, <2>2, Prefixing
  <2>4. FirstStep[Head(s)] = "default"
    BY <2>3, FirstSteps
  <2>5. InstallAt(cmd, "default", Tail(s)) /\ Head(t) = "default"
    <3>1. InstallAt(cmd, "default", Tail(s))
      BY <1>4, <2>1, <2>3 DEF InstallAt, InProxy, InSetup
    <3>2. QED
      BY <1>1, <1>7, <3>1, Literal
  <2>6. QED
    BY <1>4, <1>7, <2>1, <2>3, <2>4, <2>5 DEF At, Creating, UserCommands, First, Installs
<1>8. Installs(cmd, c, t, a, s)
  BY <1>6, <1>7
<1>9. QED
  BY <1>8 DEF s

\* What is known of the state in which command cmd has begun at step l.
Started(cmd, c, l) ==
  /\ pc = "idle" /\ pc' = l /\ job'.cmd = cmd /\ mem' = c /\ faults' = faults
  /\ runAs' \in {"slipgate"} \cup (IF job.cmd \in {"update", "uninstall"} THEN {} ELSE {runAs})
  /\ UNCHANGED <<proxyVars, warpVars, storeVars>>

LEMMA Starting ==
  ASSUME NEW cmd \in CommandNames, NEW c, NEW parts \in Seq(Parts), parts # <<>>,
         NEW todo \in Seq(Users), NEW u \in Users \cup {NoPass}, NEW p \in Passwords \cup {NoPass},
         Begin(cmd, c, parts, todo, u, p)
  PROVE  Started(cmd, c, FirstStep[Head(parts)]) /\ job'.user = u /\ job'.todo = todo /\ plan' = Tail(parts)
BY Begun DEF Started

LEMMA BeginningAdd ==
  ASSUME IInv, BeginAdd
  PROVE  IInv' /\ Started("add", Loaded, "account") /\ file # Absent
<1>1. PICK u \in Users \ UsersOf(Loaded), p \in Passwords :
        /\ file # Absent
        /\ Begin("add", Loaded, <<"account", "save", "local">> \o Refresh, <<u>>, u, p)
  BY DEF BeginAdd
<1> DEFINE s == <<"account", "save", "local">> \o Refresh
<1>2. Refresh \in {<<>>, <<"refresh">>} /\ Refresh = Refreshing("add", Loaded)
  BY DEF Refresh, Refreshing
<1>3. /\ s \in Seq(Parts) /\ s # <<>> /\ Head(s) = "account"
      /\ First(Tail(s), "save") /\ First(Tail(Tail(s)), "local") /\ Tail(Tail(Tail(s))) = Refresh
  BY <1>2, UserPlans
<1> HIDE DEF s
<1>4. At("add", Loaded, "account", Tail(s))
  BY <1>2, <1>3 DEF At, AddAt, InProxy, UserCommands
<1>5. <<u>> \in Seq(Users) /\ <<u>> # <<>> /\ "add" \in CommandNames /\ Loaded \in Config
  BY LoadedTyped, Literal DEF CommandNames, UserCommands
<1>6. Begin("add", Loaded, s, <<u>>, u, p)
  BY <1>1 DEF s
<1>7. IInv'
  <2>1. /\ FirstStep[Head(s)] = "account" /\ At("add", Loaded, FirstStep[Head(s)], Tail(s))
        /\ Head(s) \in {"account", "unaccount"} /\ Head(s) # "bounce" /\ "add" # "install"
    BY <1>3, <1>4, FirstSteps
  <2>2. Creating(FirstStep[Head(s)], Tail(s)) => <<u>> # <<>> /\ p \in Passwords
    BY <1>5, <2>1
  <2>3. QED
    BY <1>3, <1>5, <1>6, <2>1, <2>2, Beginning
<1>8. Started("add", Loaded, "account")
  BY <1>3, <1>5, <1>6, Starting, FirstSteps
<1>9. QED
  BY <1>1, <1>7, <1>8

LEMMA BeginningBulkAdd ==
  ASSUME IInv, BeginBulkAdd
  PROVE  IInv' /\ Started("bulk_add", Loaded, "account") /\ job'.user = NoPass /\ file # Absent
<1>1. PICK n \in BulkCounts, p \in Passwords :
        \E todo \in [1..n -> Users \ UsersOf(Loaded)] :
          /\ file # Absent
          /\ Begin("bulk_add", Loaded, <<"account", "save", "local">> \o Refresh, todo, NoPass, p)
  BY DEF BeginBulkAdd
<1>2. PICK todo \in [1..n -> Users \ UsersOf(Loaded)] :
        /\ file # Absent
        /\ Begin("bulk_add", Loaded, <<"account", "save", "local">> \o Refresh, todo, NoPass, p)
  BY <1>1
<1> DEFINE s == <<"account", "save", "local">> \o Refresh
<1>3. Refresh \in {<<>>, <<"refresh">>} /\ Refresh = Refreshing("bulk_add", Loaded)
  BY DEF Refresh, Refreshing
<1>4. /\ s \in Seq(Parts) /\ s # <<>> /\ Head(s) = "account"
      /\ First(Tail(s), "save") /\ First(Tail(Tail(s)), "local") /\ Tail(Tail(Tail(s))) = Refresh
  BY <1>3, UserPlans
<1> HIDE DEF s
<1>5. At("bulk_add", Loaded, "account", Tail(s))
  BY <1>3, <1>4 DEF At, AddAt, InProxy, UserCommands
<1>6. todo \in Seq(Users) /\ todo # <<>>
  <2>1. Cardinality(Users) \in Nat
    BY FS_CardinalityType, UserStoreAssumption
  <2>2. n \in Nat /\ n >= 1
    BY <2>1 DEF BulkCounts
  <2>3. todo \in [1..n -> Users]
    OBVIOUS
  <2>4. todo \in Seq(Users) /\ Len(todo) = n
    BY <2>2, <2>3
  <2>5. QED
    BY <2>2, <2>4
<1>7. "bulk_add" \in CommandNames /\ Loaded \in Config
  BY LoadedTyped DEF CommandNames, UserCommands
<1>8. Begin("bulk_add", Loaded, s, todo, NoPass, p)
  BY <1>2 DEF s
<1>9. IInv'
  <2>1. /\ FirstStep[Head(s)] = "account" /\ At("bulk_add", Loaded, FirstStep[Head(s)], Tail(s))
        /\ Head(s) \in {"account", "unaccount"} /\ Head(s) # "bounce" /\ "bulk_add" # "install"
    BY <1>4, <1>5, FirstSteps
  <2>2. Creating(FirstStep[Head(s)], Tail(s)) => todo # <<>> /\ p \in Passwords
    BY <1>6, <2>1
  <2>3. QED
    BY <1>4, <1>6, <1>7, <1>8, <2>1, <2>2, Beginning
<1>10. Started("bulk_add", Loaded, "account") /\ job'.user = NoPass
  BY <1>4, <1>6, <1>7, <1>8, Starting, FirstSteps
<1>11. QED
  BY <1>2, <1>9, <1>10

LEMMA BeginningEditPassword ==
  ASSUME IInv, BeginEditPassword
  PROVE  IInv' /\ Started("edit_password", Loaded, "account") /\ job'.user \in UsersOf(Loaded)
<1>1. PICK u \in UsersOf(Loaded), p \in Passwords :
        Begin("edit_password", Loaded, <<"account", "save", "local">>, <<u>>, u, p)
  BY DEF BeginEditPassword
<1> DEFINE s == <<"account", "save", "local">>
<1>2. <<"account", "save", "local">> \o <<>> = s
  BY FirstSteps, Literal
<1>3. /\ s \in Seq(Parts) /\ s # <<>> /\ Head(s) = "account"
      /\ First(Tail(s), "save") /\ First(Tail(Tail(s)), "local") /\ Tail(Tail(Tail(s))) = <<>>
  BY <1>2, UserPlans
<1> HIDE DEF s
<1>4. At("edit_password", Loaded, "account", Tail(s))
  BY <1>3 DEF At, AddAt, InProxy, UserCommands, Refreshing
<1>5. u \in Users /\ <<u>> \in Seq(Users) /\ <<u>> # <<>> /\ "edit_password" \in CommandNames /\ Loaded \in Config
  BY LoadedTyped, Literal DEF CommandNames, UserCommands
<1>6. Begin("edit_password", Loaded, s, <<u>>, u, p)
  BY <1>1 DEF s
<1>7. IInv'
  <2>1. /\ FirstStep[Head(s)] = "account" /\ At("edit_password", Loaded, FirstStep[Head(s)], Tail(s))
        /\ Head(s) \in {"account", "unaccount"} /\ Head(s) # "bounce" /\ "edit_password" # "install"
    BY <1>3, <1>4, FirstSteps
  <2>2. Creating(FirstStep[Head(s)], Tail(s)) => <<u>> # <<>> /\ p \in Passwords
    BY <1>5, <2>1
  <2>3. QED
    BY <1>3, <1>5, <1>6, <2>1, <2>2, Beginning
<1>8. Started("edit_password", Loaded, "account") /\ job'.user = u
  <2>1. FirstStep[Head(s)] = "account"
    BY <1>3, FirstSteps
  <2>2. Started("edit_password", Loaded, FirstStep[Head(s)]) /\ job'.user = u
    BY <1>3, <1>5, <1>6, Starting
  <2>3. QED
    BY <2>1, <2>2
<1>9. QED
  BY <1>7, <1>8

LEMMA BeginningRemove ==
  ASSUME IInv, BeginRemove
  PROVE  IInv' /\ Started("remove", Loaded, "unaccount") /\ file # Absent
<1>1. PICK u \in Users :
        /\ file # Absent
        /\ Begin("remove", Loaded, <<"unaccount", "local", "save">> \o Refresh, <<u>>, u, NoPass)
  BY DEF BeginRemove
<1> DEFINE s == <<"unaccount", "local", "save">> \o Refresh
<1>2. Refresh \in {<<>>, <<"refresh">>} /\ Refresh = Refreshing("remove", Loaded)
  BY DEF Refresh, Refreshing
<1>3. /\ s \in Seq(Parts) /\ s # <<>> /\ Head(s) = "unaccount"
      /\ First(Tail(s), "local") /\ First(Tail(Tail(s)), "save") /\ Tail(Tail(Tail(s))) = Refresh
  BY <1>2, UserPlans
<1> HIDE DEF s
<1>4. At("remove", Loaded, "unaccount", Tail(s)) /\ ~Creating("unaccount", Tail(s))
  BY <1>2, <1>3 DEF At, RemoveAt, InProxy, UserCommands, Creating
<1>5. <<u>> \in Seq(Users) /\ "remove" \in CommandNames /\ Loaded \in Config
  BY LoadedTyped, Literal DEF CommandNames, UserCommands
<1>6. Begin("remove", Loaded, s, <<u>>, u, NoPass)
  BY <1>1 DEF s
<1>7. IInv'
  <2>1. /\ FirstStep[Head(s)] = "unaccount" /\ At("remove", Loaded, FirstStep[Head(s)], Tail(s))
        /\ Head(s) \in {"account", "unaccount"} /\ Head(s) # "bounce" /\ "remove" # "install"
    BY <1>3, <1>4, FirstSteps
  <2>2. Creating(FirstStep[Head(s)], Tail(s)) => <<u>> # <<>> /\ NoPass \in Passwords
    BY <1>4, <2>1
  <2>3. QED
    BY <1>3, <1>5, <1>6, <2>1, <2>2, Beginning
<1>8. Started("remove", Loaded, "unaccount")
  BY <1>3, <1>5, <1>6, Starting, FirstSteps
<1>9. QED
  BY <1>1, <1>7, <1>8

LEMMA BeginningWarp ==
  ASSUME IInv, BeginWarp
  PROVE  /\ IInv' /\ file # Absent
         /\ \/ ~IsSetUp /\ Started("warp", Loaded, "register")
            \/ IsSetUp /\ Started("warp", Loaded, "conf")
            \/ IsSetUp /\ Started("warp", Loaded, "down")
<1> DEFINE z == ProxyPart(Loaded)
<1>1. z \in {"local", "wide"} /\ {"local", "wide", "setup", "refresh", "enable", "disable", "saveFlag"} \subseteq Parts
  BY FirstSteps DEF ProxyPart
<1>2. file # Absent
  BY DEF BeginWarp
<1>3. "warp" \in CommandNames /\ "warp" \notin UserCommands \cup {"install"} /\ Loaded \in Config /\ <<>> \in Seq(Users)
  BY LoadedTyped DEF CommandNames, UserCommands
<1>4. CASE ~IsSetUp /\ Begin("warp", Loaded, <<"setup", z>>, <<>>, NoPass, NoPass)
  <2> DEFINE s == <<"setup", z>>
  <2>1. s \in Seq(Parts) /\ s # <<>> /\ Head(s) = "setup" /\ ProxyLast(Tail(s))
    BY <1>1, Literal DEF ProxyLast
  <2>2. Begin("warp", Loaded, s, <<>>, NoPass, NoPass)
    BY <1>4
  <2> HIDE DEF s
  <2>3. FirstStep[Head(s)] = "register" /\ Head(s) # "bounce"
    BY <2>1, FirstSteps
  <2>4. At("warp", Loaded, FirstStep[Head(s)], Tail(s)) /\ ~Creating(FirstStep[Head(s)], Tail(s))
    BY <2>1, <2>3 DEF At, WarpAt, InProxy, InSetup, UserCommands, Creating
  <2>5. IInv'
    BY <1>3, <2>1, <2>2, <2>3, <2>4, Beginning
  <2>6. Started("warp", Loaded, FirstStep[Head(s)])
    BY <1>3, <2>1, <2>2, Starting
  <2>7. QED
    BY <1>2, <1>4, <2>3, <2>5, <2>6
<1>5. ASSUME IsSetUp, NEW a, NEW b, NEW l,
             \/ a = "refresh" /\ b = "enable" /\ l = "conf"
             \/ a = "disable" /\ b = "saveFlag" /\ l = "down",
             Begin("warp", Loaded, <<a, b>> \o <<z>>, <<>>, NoPass, NoPass)
      PROVE  IInv' /\ Started("warp", Loaded, l)
  <2> DEFINE s == <<a, b>> \o <<z>>
  <2>1. s \in Seq(Parts) /\ s # <<>> /\ Head(s) = a /\ First(Tail(s), b) /\ ProxyLast(Tail(Tail(s)))
    <3>1. a \in Parts /\ b \in Parts /\ z \in Parts
      BY <1>1, <1>5
    <3> HIDE DEF z
    <3>2. s = <<a, b, z>>
      BY <3>1, Joining
    <3>3. QED
      BY <1>1, <3>1, <3>2, Literal DEF First, ProxyLast
  <2>2. Begin("warp", Loaded, s, <<>>, NoPass, NoPass)
    BY <1>5
  <2> HIDE DEF s
  <2>3. FirstStep[Head(s)] = l /\ Head(s) # "bounce" /\ l \in {"conf", "down"}
    BY <1>5, <2>1, FirstSteps
  <2>4. At("warp", Loaded, l, Tail(s)) /\ ~Creating(l, Tail(s))
    BY <1>5, <2>1 DEF At, WarpAt, InProxy, InSetup, UserCommands, Creating, First
  <2>5. IInv'
    BY <1>3, <2>1, <2>2, <2>3, <2>4, Beginning
  <2>6. Started("warp", Loaded, FirstStep[Head(s)])
    BY <1>3, <2>1, <2>2, Starting
  <2>7. QED
    BY <2>3, <2>5, <2>6
<1>6. CASE ~IsSetUp
  BY <1>4, <1>6 DEF BeginWarp
<1>7. CASE IsSetUp
  <2>1. \/ Begin("warp", Loaded, <<"refresh", "enable">> \o <<z>>, <<>>, NoPass, NoPass)
        \/ Begin("warp", Loaded, <<"disable", "saveFlag">> \o <<z>>, <<>>, NoPass, NoPass)
    BY <1>7 DEF BeginWarp
  <2> HIDE DEF z
  <2>2. \/ IInv' /\ Started("warp", Loaded, "conf")
        \/ IInv' /\ Started("warp", Loaded, "down")
    BY <1>5, <1>7, <2>1
  <2>3. QED
    BY <1>2, <1>7, <2>2
<1>8. QED
  BY <1>6, <1>7

\* restart and update have a plan of one part.
LEMMA BeginningOne ==
  ASSUME IInv, NEW cmd \in {"restart", "update"}, NEW part \in {"bounce", "local", "wide"},
         unit # Absent, Begin(cmd, Loaded, <<part>>, <<>>, NoPass, NoPass)
  PROVE  IInv' /\ Started(cmd, Loaded, FirstStep[part])
<1> DEFINE s == <<part>>
<1>1. /\ s \in Seq(Parts) /\ s # <<>> /\ Head(s) = part /\ Tail(s) = <<>>
      /\ FirstStep[part] \in {"bounce", "creds"}
  BY FirstSteps, Literal
<1>2. Begin(cmd, Loaded, s, <<>>, NoPass, NoPass)
  OBVIOUS
<1> HIDE DEF s
<1>3. /\ cmd \in CommandNames /\ cmd \notin UserCommands \cup {"install"} /\ Loaded \in Config
      /\ <<>> \in Seq(Users)
  BY LoadedTyped DEF CommandNames, UserCommands
<1>4. At(cmd, Loaded, FirstStep[Head(s)], Tail(s)) /\ ~Creating(FirstStep[Head(s)], Tail(s))
  BY <1>1 DEF At, InProxy, Creating
<1>5. IInv'
  BY <1>1, <1>2, <1>3, <1>4, Beginning
<1>6. Started(cmd, Loaded, FirstStep[Head(s)])
  BY <1>1, <1>2, <1>3, Starting
<1>7. QED
  BY <1>1, <1>5, <1>6

LEMMA BeginningRestart ==
  ASSUME IInv, BeginRestart
  PROVE  /\ IInv' /\ unit # Absent
         /\ \/ unit.user = ExpectedUser(Loaded) /\ Started("restart", Loaded, "bounce")
            \/ unit.user # ExpectedUser(Loaded) /\ Started("restart", Loaded, "creds")
<1>1. ProxyPart(Loaded) \in {"local", "wide"}
  BY DEF ProxyPart
<1>2. CASE unit.user = ExpectedUser(Loaded)
  BY <1>2, BeginningOne, FirstSteps DEF BeginRestart
<1>3. CASE unit.user # ExpectedUser(Loaded)
  BY <1>1, <1>3, BeginningOne, FirstSteps DEF BeginRestart
<1>4. QED
  BY <1>2, <1>3

LEMMA BeginningUpdate ==
  ASSUME IInv, BeginUpdate
  PROVE  IInv' /\ unit # Absent /\ Started("update", Loaded, "creds")
<1>1. CASE Loaded.direct
  BY <1>1, BeginningOne, FirstSteps DEF BeginUpdate
<1>2. CASE ~Loaded.direct
  BY <1>2, BeginningOne, FirstSteps DEF BeginUpdate
<1>3. QED
  BY <1>1, <1>2

LEMMA BeginningUninstall ==
  ASSUME IInv, BeginUninstall
  PROVE  IInv' /\ Started("uninstall", EmptyConfig, "services")
<1> DEFINE s == <<"uninstall">>
<1>1. s \in Seq(Parts) /\ s # <<>> /\ Head(s) = "uninstall" /\ Tail(s) = <<>> /\ FirstStep[Head(s)] = "services"
  BY FirstSteps, Literal
<1>2. Begin("uninstall", EmptyConfig, s, <<>>, NoPass, NoPass)
  BY DEF BeginUninstall
<1> HIDE DEF s
<1>3. /\ "uninstall" \in CommandNames /\ "uninstall" \notin UserCommands \cup {"install"}
      /\ EmptyConfig \in Config /\ <<>> \in Seq(Users)
  BY DEF CommandNames, UserCommands, EmptyConfig, Config, NoCreds, Creds
<1>4. At("uninstall", EmptyConfig, FirstStep[Head(s)], Tail(s)) /\ ~Creating(FirstStep[Head(s)], Tail(s))
  BY <1>1, <1>3 DEF At, Creating
<1>5. IInv'
  BY <1>1, <1>2, <1>3, <1>4, Beginning
<1>6. Started("uninstall", EmptyConfig, FirstStep[Head(s)])
  BY <1>1, <1>2, <1>3, Starting
<1>7. QED
  BY <1>1, <1>5, <1>6

LEMMA ProxyPlans ==
  \A s \in {<<>>, <<"free", "local">>, <<"free", "wide">>, <<"free", "local", "wide">>} :
    s \in Seq(Parts) /\ AfterWarp(s)
<1>1. {"free", "local", "wide"} \subseteq Parts /\ <<>> \in Seq(Parts) /\ AfterWarp(<<>>)
  BY FirstSteps DEF AfterWarp
<1>2. ASSUME NEW a \in {"local", "wide"}
      PROVE  <<"free", a>> \in Seq(Parts) /\ AfterWarp(<<"free", a>>)
  <2>1. /\ <<"free", a>> \in Seq(Parts) /\ First(<<"free", a>>, "free") /\ Tail(<<"free", a>>) = <<a>>
        /\ <<a>> # <<>> /\ Head(<<a>>) = a /\ Tail(<<a>>) = <<>>
    BY <1>1, Literal DEF First
  <2>2. QED
    BY <2>1 DEF AfterWarp
<1>3. <<"free", "local", "wide">> \in Seq(Parts) /\ AfterWarp(<<"free", "local", "wide">>)
  <2> DEFINE s == <<"free", "local", "wide">>
  <2>1. /\ s \in Seq(Parts) /\ First(s, "free") /\ Tail(s) = <<"local", "wide">>
        /\ Tail(s) # <<>> /\ Head(Tail(s)) = "local" /\ Tail(Tail(s)) = <<"wide">>
        /\ <<"wide">> # <<>> /\ Head(<<"wide">>) = "wide" /\ Tail(<<"wide">>) = <<>>
    BY <1>1, Literal DEF First
  <2> HIDE DEF s
  <2>2. s \in Seq(Parts) /\ AfterWarp(s)
    BY <2>1 DEF AfterWarp, ProxyLast
  <2>3. QED
    BY <2>2 DEF s
<1>4. QED
  BY <1>1, <1>2, <1>3

LEMMA TunnelsFirst == Tunnels \in {<<"save">>, <<"default", "save">>} /\ (file = Absent <=> Head(Tunnels) = "default")
<1>1. Head(<<"save">>) = "save" /\ Head(<<"default", "save">>) = "default"
  BY FirstSteps, Literal
<1>2. QED
  BY <1>1 DEF Tunnels

\* What install does where there is a configuration c, with its users kept.
InstallsOver(c) ==
  /\ ~Creating(pc', plan')
  /\ First(plan', "setup") => c.warp
  /\ UsersOf(c) = {} \/ OnlyWarp("save", plan')

\* An installation over a configuration saves the tunnels first.
LEMMA PlanOver ==
  ASSUME NEW w \in {<<>>, <<"setup">>}, NEW f \in Seq(Parts)
  PROVE  Tail(Planned(<<"save">>, <<>>, w, f)) = w \o f
<1>1. "save" \in Parts /\ "setup" \in Parts
  BY FirstSteps
<1>2. <<"save">> \in Seq(Parts) /\ w \in Seq(Parts)
  <2>1. <<"setup">> \in Seq(Parts) /\ <<>> \in Seq(Parts)
    BY <1>1, Literal
  <2>2. QED
    BY <1>1, <2>1, Literal
<1>3. <<"save">> \o <<>> = <<"save">>
  BY <1>2, ConcatEmptySeq
<1>4. (<<"save">> \o w) \o f = <<"save">> \o (w \o f)
  BY <1>2, Regrouping, Zenon
<1>5. w \o f \in Seq(Parts)
  BY <1>2
<1>6. Tail(<<"save">> \o (w \o f)) = w \o f
  BY <1>1, <1>5, Prefixing
<1>7. QED
  BY <1>3, <1>4, <1>6 DEF Planned

\* Where install and wizard may begin, unless Reruns: install on a host without a
\* configuration, or so that it leaves the users of a configuration alone.
LEMMA BeginningInstall ==
  ASSUME IInv, BeginInstall
  PROVE  /\ IInv' /\ (Reruns \/ file = Absent \/ InstallsOver(Loaded))
         /\ \E direct \in BOOLEAN :
              Started("install", [Loaded EXCEPT !.direct = @ \/ direct], IF file = Absent THEN "default" ELSE "save")
         /\ ~Creating(pc', plan') => job'.user = NoPass
<1>1. PICK direct \in BOOLEAN, socks \in BOOLEAN, warp \in BOOLEAN, create \in BOOLEAN, u \in Users, p \in Passwords :
        /\ Reruns \/ file = Absent \/ LeavesUsers(create, warp, socks)
        /\ direct => socks
        /\ Loaded.warp => warp
        /\ ~create => u = CHOOSE x \in Users : TRUE
        /\ ~create => p = CHOOSE x \in Passwords : TRUE
        /\ Begin("install", [Loaded EXCEPT !.direct = @ \/ direct],
                 Tunnels \o (IF create THEN <<"account", "save">> ELSE <<>>)
                   \o (IF warp THEN <<"setup">> ELSE <<>>)
                   \o (IF ~socks THEN <<>> ELSE IF direct THEN <<"free", "wide">> ELSE <<"free", "local">>),
                 IF create THEN <<u>> ELSE <<>>, IF create THEN u ELSE NoPass, p)
  BY DEF BeginInstall
<1> DEFINE c    == [Loaded EXCEPT !.direct = @ \/ direct]
           a    == IF create THEN <<"account", "save">> ELSE <<>>
           w    == IF warp THEN <<"setup">> ELSE <<>>
           f    == IF ~socks THEN <<>> ELSE IF direct THEN <<"free", "wide">> ELSE <<"free", "local">>
           s    == Planned(Tunnels, a, w, f)
           todo == IF create THEN <<u>> ELSE <<>>
           user == IF create THEN u ELSE NoPass
<1>2. c \in Config
  BY LoadedTyped DEF Config
<1>3. f \in Seq(Parts) /\ AfterWarp(f)
  BY ProxyPlans
<1>4. /\ a \in {<<>>, <<"account", "save">>} /\ w \in {<<>>, <<"setup">>}
      /\ a # <<>> <=> create
  BY FirstSteps, Literal
<1>5. /\ todo \in Seq(Users) /\ user \in Users \cup {NoPass} /\ (todo # <<>> => todo = <<user>>)
      /\ create => todo # <<>>
      /\ ~create => user = NoPass
  BY Literal
<1>6. Begin("install", c, s, todo, user, p)
  BY <1>1 DEF Planned
<1> HIDE DEF c, a, w, f, todo, user
<1>7. /\ s \in Seq(Parts) /\ s # <<>> /\ At("install", c, FirstStep[Head(s)], Tail(s))
      /\ Head(s) = Head(Tunnels) /\ Head(s) \in {"save", "default"}
      /\ Creating(FirstStep[Head(s)], Tail(s)) <=> a # <<>>
  <2>1. "install" \in {"install", "wizard"}
    OBVIOUS
  <2>2. Tunnels \in {<<"save">>, <<"default", "save">>}
    BY TunnelsFirst
  <2>3. Installs("install", c, Tunnels, a, s)
    BY <1>3, <1>4, <2>1, <2>2, InstallPlans
  <2>4. QED
    BY <2>3 DEF Installs
<1> HIDE DEF s
<1>8. "install" \in CommandNames /\ "install" \notin UserCommands
  BY DEF CommandNames, UserCommands
<1>9. IInv'
  <2>1. Creating(FirstStep[Head(s)], Tail(s)) => todo # <<>> /\ p \in Passwords
    BY <1>4, <1>5, <1>7
  <2>2. QED
    BY <1>2, <1>5, <1>6, <1>7, <1>8, <2>1, Beginning
<1>10. Started("install", c, FirstStep[Head(s)]) /\ job'.user = user /\ plan' = Tail(s)
  BY <1>5, <1>6, <1>7, <1>8, Starting
<1>11. FirstStep[Head(s)] = IF file = Absent THEN "default" ELSE "save"
  BY <1>7, TunnelsFirst, FirstSteps
<1>12. \E d \in BOOLEAN :
         Started("install", [Loaded EXCEPT !.direct = @ \/ d], IF file = Absent THEN "default" ELSE "save")
  BY <1>10, <1>11 DEF c
<1>13. pc' = FirstStep[Head(s)]
  BY <1>10 DEF Started
<1>14. ASSUME file # Absent, LeavesUsers(create, warp, socks)
       PROVE  InstallsOver(Loaded)
  <2>1. /\ a = <<>> /\ ~create
        /\ w = <<>> \/ (w = <<"setup">> /\ Loaded.warp)
        /\ f = <<>> \/ UsersOf(Loaded) = {}
    BY <1>14 DEF LeavesUsers, a, w, f
  <2>2. plan' = w \o f
    <3>1. Tunnels = <<"save">>
      BY <1>14 DEF Tunnels
    <3>2. plan' = Tail(Planned(<<"save">>, <<>>, w, f))
      BY <1>10, <2>1, <3>1 DEF s
    <3>3. QED
      BY <1>3, <1>4, <3>2, PlanOver
  <2>3. ~Creating(pc', plan')
    BY <1>4, <1>7, <1>10, <1>13, <2>1
  <2>4. CASE w = <<>>
    <3>1. plan' = f /\ ~First(f, "setup")
      BY <1>3, <2>2, <2>4 DEF AfterWarp, First
    <3>2. QED
      BY <2>1, <2>3, <3>1 DEF InstallsOver, OnlyWarp
  <2>5. CASE w = <<"setup">> /\ Loaded.warp
    <3>1. f = <<>> => First(plan', "setup") /\ Tail(plan') = <<>>
      <4>1. "setup" \in Parts /\ <<>> \in Seq(Parts)
        BY FirstSteps
      <4>2. QED
        BY <2>2, <2>5, <4>1, Prefixing DEF First
    <3>2. QED
      BY <2>1, <2>3, <2>5, <3>1 DEF InstallsOver, OnlyWarp
  <2>6. QED
    BY <2>1, <2>4, <2>5
<1>15. QED
  BY <1>1, <1>4, <1>5, <1>7, <1>9, <1>10, <1>12, <1>13, <1>14

LEMMA BeginningWizard ==
  ASSUME IInv, BeginWizard
  PROVE  /\ IInv'
         /\ Reruns \/ file = Absent \/ (~Loaded.warp /\ ~Creating(pc', plan'))
         /\ \E direct \in BOOLEAN :
              Started("wizard", [Loaded EXCEPT !.direct = @ \/ direct], IF file = Absent THEN "default" ELSE "save")
<1>1. PICK socks \in BOOLEAN, direct \in BOOLEAN :
        /\ direct => socks
        /\ \/ /\ UsersOf(Loaded) # {} /\ (Reruns \/ ~Loaded.warp)
              /\ Begin("wizard", [Loaded EXCEPT !.direct = @ \/ direct],
                       Tunnels \o ((IF socks THEN <<"free", "local">> ELSE <<>>)
                                     \o (IF direct THEN <<"wide">> ELSE <<>>)), <<>>, NoPass, NoPass)
           \/ /\ Reruns \/ file = Absent
              /\ \E u \in Users, p \in Passwords :
                   Begin("wizard", [Loaded EXCEPT !.direct = @ \/ direct],
                         Tunnels \o <<"account", "save">>
                           \o ((IF socks THEN <<"free", "local">> ELSE <<>>)
                                 \o (IF direct THEN <<"wide">> ELSE <<>>)), <<u>>, u, p)
  BY DEF BeginWizard
<1> DEFINE c == [Loaded EXCEPT !.direct = @ \/ direct]
           f == (IF socks THEN <<"free", "local">> ELSE <<>>) \o (IF direct THEN <<"wide">> ELSE <<>>)
<1>2. c \in Config
  BY LoadedTyped DEF Config
<1>3. f \in Seq(Parts) /\ AfterWarp(f)
  <2>1. {"free", "local", "wide"} \subseteq Parts /\ <<>> \in Seq(Parts)
    BY FirstSteps
  <2>2. /\ <<"free", "local">> \o <<>> = <<"free", "local">>
        /\ <<"free", "local">> \o <<"wide">> = <<"free", "local", "wide">>
        /\ <<>> \o <<>> = <<>>
    BY <2>1, Joining, ConcatEmptySeq
  <2>3. f \in {<<>>, <<"free", "local">>, <<"free", "local", "wide">>}
    <3>1. CASE ~socks
      BY <1>1, <2>2, <3>1
    <3>2. CASE socks /\ ~direct
      BY <2>2, <3>2
    <3>3. CASE socks /\ direct
      BY <2>2, <3>3
    <3>4. QED
      BY <3>1, <3>2, <3>3
  <2> HIDE DEF f
  <2>4. QED
    BY <2>3, ProxyPlans
<1> HIDE DEF c, f
<1>4. "wizard" \in CommandNames /\ "wizard" \notin UserCommands \cup {"install"} /\ <<>> \in Seq(Users)
  BY DEF CommandNames, UserCommands
<1>5. ASSUME NEW a \in {<<>>, <<"account", "save">>}, NEW todo \in Seq(Users),
             NEW u \in Users \cup {NoPass}, NEW p \in Passwords \cup {NoPass},
             a # <<>> => todo # <<>> /\ p \in Passwords,
             Begin("wizard", c, Tunnels \o a \o f, todo, u, p)
      PROVE  /\ IInv' /\ (a = <<>> => ~Creating(pc', plan'))
             /\ Started("wizard", c, IF file = Absent THEN "default" ELSE "save")
  <2> DEFINE s == Planned(Tunnels, a, <<>>, f)
  <2>1. s = Tunnels \o a \o f
    <3>1. Tunnels \in Seq(Parts) /\ a \in Seq(Parts)
      <4>1. {"save", "default", "account"} \subseteq Parts
        BY FirstSteps
      <4>2. /\ <<"save">> \in Seq(Parts) /\ <<"default", "save">> \in Seq(Parts) /\ <<>> \in Seq(Parts)
            /\ <<"account", "save">> \in Seq(Parts)
        BY <4>1, Literal
      <4>3. QED
        BY <4>2, TunnelsFirst
    <3>2. Tunnels \o a \in Seq(Parts)
      BY <3>1
    <3>3. (Tunnels \o a) \o <<>> = Tunnels \o a
      BY <3>2
    <3>4. QED
      BY <3>3 DEF Planned
  <2>2. Begin("wizard", c, s, todo, u, p)
    BY <1>5, <2>1
  <2> HIDE DEF s
  <2>3. /\ s \in Seq(Parts) /\ s # <<>> /\ At("wizard", c, FirstStep[Head(s)], Tail(s))
        /\ Head(s) = Head(Tunnels) /\ Head(s) \in {"save", "default"}
        /\ Creating(FirstStep[Head(s)], Tail(s)) <=> a # <<>>
    <3>1. "wizard" \in {"install", "wizard"} /\ <<>> \in {<<>>, <<"setup">>}
      OBVIOUS
    <3>2. Tunnels \in {<<"save">>, <<"default", "save">>}
      BY TunnelsFirst
    <3>3. Installs("wizard", c, Tunnels, a, s)
      BY <1>3, <3>1, <3>2, InstallPlans DEF s
    <3>4. QED
      BY <3>3 DEF Installs
  <2>4. IInv'
    BY <1>2, <1>4, <1>5, <2>2, <2>3, Beginning
  <2>5. Started("wizard", c, FirstStep[Head(s)]) /\ plan' = Tail(s)
    BY <1>4, <2>2, <2>3, Starting
  <2>6. FirstStep[Head(s)] = IF file = Absent THEN "default" ELSE "save"
    BY <2>3, TunnelsFirst, FirstSteps
  <2>7. pc' = FirstStep[Head(s)]
    BY <2>5 DEF Started
  <2>8. QED
    BY <2>3, <2>4, <2>5, <2>6, <2>7
<1>6. CASE /\ UsersOf(Loaded) # {} /\ (Reruns \/ ~Loaded.warp)
           /\ Begin("wizard", c, Tunnels \o f, <<>>, NoPass, NoPass)
  <2>1. Tunnels \o <<>> = Tunnels
    BY TunnelsFirst, FirstSteps
  <2>2. Begin("wizard", c, Tunnels \o <<>> \o f, <<>>, NoPass, NoPass)
    BY <1>6, <2>1
  <2>3. /\ IInv' /\ ~Creating(pc', plan')
        /\ Started("wizard", c, IF file = Absent THEN "default" ELSE "save")
    BY <1>4, <1>5, <2>2
  <2>4. QED
    BY <1>6, <2>3 DEF c
<1>7. CASE /\ Reruns \/ file = Absent
           /\ \E u \in Users, p \in Passwords :
                Begin("wizard", c, Tunnels \o <<"account", "save">> \o f, <<u>>, u, p)
  <2>1. PICK u \in Users, p \in Passwords :
          Begin("wizard", c, Tunnels \o <<"account", "save">> \o f, <<u>>, u, p)
    BY <1>7
  <2>2. <<u>> \in Seq(Users) /\ <<u>> # <<>>
    BY Literal
  <2>3. IInv' /\ Started("wizard", c, IF file = Absent THEN "default" ELSE "save")
    BY <1>5, <2>1, <2>2
  <2>4. QED
    BY <1>7, <2>3 DEF c
<1>8. QED
  BY <1>1, <1>6, <1>7 DEF c, f

-------------------------------------------------------------------------------
(***************************************************************************)
(* Types and control are kept by every step                                *)
(***************************************************************************)
\* What an action leaves alone.
LEMMA ProxyStays ==
  ASSUME IInv, UNCHANGED proxyVars, pc' \notin {"bounce", "restart"} \/ pc' = pc
  PROVE  ProxyTyped' /\ ProxyFine'
BY Split DEF ProxyTyped, ProxyFine, proxyVars, ServerActive

LEMMA WarpStays ==
  ASSUME IInv, UNCHANGED warpVars, pc' \notin {"wgUnit", "uninstallWarp"} \/ pc' = pc
  PROVE  WarpTyped' /\ WarpFine'
BY Split DEF WarpTyped, WarpFine, warpVars, IsSetUp

LEMMA StoreStays ==
  ASSUME IInv, UNCHANGED <<storeVars, mem, runAs>>
  PROVE  StoreTyped'
BY Split DEF StoreTyped, storeVars

LEMMA Counting ==
  ASSUME IInv, Fault \/ NoFault
  PROVE  BoundsTyped'
BY Split, UserStoreAssumption DEF BoundsTyped, Fault, NoFault, bounds

\* A part has been finished, or the handler returns.
LEMMA Moving ==
  ASSUME IInv, pc # "idle", Proceed \/ ProceedWarn \/ Return,
         mem'.warp = mem.warp \/ job.cmd \notin UserCommands
  PROVE  FlowFine' /\ pc' \notin {"bounce", "restart", "wgUnit", "uninstallWarp"}
<1>1. FlowFine /\ job \in Job
  BY Split DEF FlowFine, FlowTyped
<1>2. SameLocals(job) /\ SameLocals([job EXCEPT !.clean = FALSE])
  BY <1>1, Unclean
<1>3. CASE Return
  BY <1>1, <1>3, Returning
<1>4. CASE Proceed \/ ProceedWarn
  <2>1. FlowFine' /\ pc' \in {"idle"} \cup ({FirstStep[part] : part \in Parts} \ {"bounce"})
    BY <1>1, <1>2, <1>4, Continuing DEF Proceed, ProceedWarn
  <2>2. {FirstStep[part] : part \in Parts} \cap {"restart", "wgUnit", "uninstallWarp"} = {}
    BY FirstSteps
  <2>3. QED
    BY <2>1, <2>2
<1>5. QED
  BY <1>3, <1>4

\* Rules are for configured users with an account, and never the value for `no file'.
LEMMA UIDsTyped == IInv => UserUIDs(WithAccount(mem)) \in SUBSET Uids /\ UserUIDs(WithAccount(mem)) # NoConf
<1>1. IInv => UserUIDs(WithAccount(mem)) \in SUBSET Uids
  BY Split, UserStoreAssumption DEF UserUIDs, WithAccount, UsersOf, Uids
<1>2. QED
  BY <1>1, WarpAssumption

\* The user an account step works on, and its password.
LEMMA CurrentTyped ==
  ASSUME IInv, pc = "account"
  PROVE  /\ job.todo # <<>> /\ Current \in Users /\ job.pass \in Passwords /\ Tail(job.todo) \in Seq(Users)
         /\ job.cmd \in {"add", "edit_password", "install"} => LastOne /\ Current = job.user /\ job.user \in Users
<1>1. /\ job.todo # <<>> /\ job.todo \in Seq(Users) /\ job.pass \in Passwords
      /\ job.cmd \in {"add", "edit_password", "install"} => job.todo = <<job.user>>
  BY Split DEF FlowFine, FlowTyped, HandlerFine, UsersAt, Creating, Job
<1>2. Current \in Users /\ Tail(job.todo) \in Seq(Users)
  BY <1>1, Taking DEF Current
<1>3. Head(<<job.user>>) = job.user /\ Tail(<<job.user>>) = <<>>
  BY Literal
<1>4. QED
  BY <1>1, <1>2, <1>3 DEF Current, LastOne

LEMMA AddingUser ==
  ASSUME IInv, NEW u \in Users, NEW p \in Passwords
  PROVE  AddUser(mem, u, p) \in Config /\ AddUser(mem, u, p).warp = mem.warp
BY Split DEF AddUser, Config, Creds, StoreTyped

LEMMA AddSSHUserTyped ==
  ASSUME IInv, AddSSHUser
  PROVE  IInv'
<1>1. pc = "account" /\ NoFault /\ UNCHANGED <<proxyVars, warpVars, file, runAs>>
  BY DEF AddSSHUser
<1>2. mem' \in Config /\ mem'.warp = mem.warp
  BY CurrentTyped, AddingUser DEF AddSSHUser
<1>3. StoreTyped'
  BY <1>1, <1>2, CurrentTyped, Split DEF AddSSHUser, StoreTyped
<1>4. FlowFine' /\ pc' \notin {"bounce", "restart", "wgUnit", "uninstallWarp"}
  <2>1. CASE LastOne
    BY <1>1, <1>2, <2>1, Moving DEF AddSSHUser
  <2>2. CASE ~LastOne
    <3>1. job' = [job EXCEPT !.todo = Tail(@), !.made = TRUE] /\ pc' = pc /\ plan' = plan
      BY <2>2 DEF AddSSHUser, flow
    <3>2. FlowFine /\ job \in Job
      BY Split DEF FlowFine, FlowTyped
    <3>3. /\ job' \in Job /\ job'.cmd = job.cmd /\ job'.pass = job.pass /\ job'.user = job.user
          /\ job'.todo = Tail(job.todo) /\ job'.addr = job.addr
      BY <1>1, <3>1, <3>2, CurrentTyped DEF Job
    <3>4. At(job.cmd, mem', pc, plan)
      BY <1>1, <1>2, <3>2, SameAt DEF FlowFine, HandlerFine
    <3>5. job'.todo # <<>> /\ job.cmd \notin {"add", "edit_password", "install"}
      BY <1>1, <2>2, <3>3, CurrentTyped DEF LastOne
    <3>6. UsersAt(pc', plan', job')
      BY <1>1, <3>1, <3>2, <3>3, <3>5 DEF FlowFine, HandlerFine, UsersAt, Creating, InProxy
    <3>7. QED
      BY <1>1, <3>1, <3>2, <3>3, <3>4, <3>6 DEF FlowFine, FlowTyped, HandlerFine
  <2>3. QED
    BY <2>1, <2>2
<1>5. QED
  BY <1>1, <1>3, <1>4, ProxyStays, WarpStays, Counting, SplitNext

LEMMA AddSSHUserFailsTyped ==
  ASSUME IInv, AddSSHUserFails
  PROVE  IInv'
<1>1. pc = "account" /\ Fault /\ UNCHANGED <<proxyVars, warpVars, file, runAs>>
  BY DEF AddSSHUserFails
<1>2. mem' \in Config /\ mem'.warp = mem.warp
  BY <1>1, CurrentTyped, AddingUser, Split DEF AddSSHUserFails, StoreTyped
<1>3. StoreTyped'
  <2>1. FailedAccounts \subseteq Passwords \cup {NoPass, Locked}
    BY <1>1, CurrentTyped, Split DEF FailedAccounts, StoreTyped
  <2>2. QED
    BY <1>1, <1>2, <2>1, CurrentTyped, Split DEF AddSSHUserFails, StoreTyped
<1>4. FlowFine' /\ pc' \notin {"bounce", "restart", "wgUnit", "uninstallWarp"}
  <2>1. \/ ProceedWarn \/ Return
        \/ /\ ~LastOne /\ job.cmd = "bulk_add"
           /\ job' = [job EXCEPT !.todo = Tail(@), !.clean = FALSE] /\ pc' = pc /\ plan' = plan
    BY DEF AddSSHUserFails, flow
  <2>2. CASE ProceedWarn \/ Return
    BY <1>1, <1>2, <2>2, Moving
  <2>3. CASE /\ ~LastOne /\ job.cmd = "bulk_add"
             /\ job' = [job EXCEPT !.todo = Tail(@), !.clean = FALSE] /\ pc' = pc /\ plan' = plan
    <3>1. FlowFine /\ job \in Job
      BY Split DEF FlowFine, FlowTyped
    <3>2. /\ job' \in Job /\ job'.cmd = job.cmd /\ job'.pass = job.pass /\ job'.user = job.user
          /\ job'.todo = Tail(job.todo) /\ job'.addr = job.addr /\ job'.todo # <<>>
      BY <1>1, <2>3, <3>1, CurrentTyped DEF Job, LastOne
    <3>3. At(job.cmd, mem', pc, plan)
      BY <1>1, <1>2, <3>1, SameAt DEF FlowFine, HandlerFine
    <3>4. UsersAt(pc', plan', job')
      BY <1>1, <2>3, <3>1, <3>2 DEF FlowFine, HandlerFine, UsersAt, Creating, InProxy
    <3>5. QED
      BY <1>1, <2>3, <3>1, <3>2, <3>3, <3>4 DEF FlowFine, FlowTyped, HandlerFine
  <2>4. QED
    BY <2>1, <2>2, <2>3
<1>5. QED
  BY <1>1, <1>3, <1>4, ProxyStays, WarpStays, Counting, SplitNext

LEMMA RemoveSSHUserTyped ==
  ASSUME IInv, RemoveSSHUser \/ RemoveSSHUserFails
  PROVE  IInv'
<1>1. pc = "unaccount" /\ (Fault \/ NoFault) /\ UNCHANGED <<proxyVars, warpVars, file, runAs>>
  BY DEF RemoveSSHUser, RemoveSSHUserFails, storeVars
<1>2. job.cmd = "remove" /\ job.user \in Users
  BY <1>1, Split
  DEF FlowFine, FlowTyped, HandlerFine, Job, At, AddAt, WarpAt, InstallAt, InProxy, InSetup, UsersAt, CommandNames, UserCommands
<1>3. StoreTyped' /\ mem'.warp = mem.warp
  <2>1. CASE RemoveSSHUser
    BY <1>1, <1>2, <2>1, Split DEF RemoveSSHUser, StoreTyped, Config, Creds
  <2>2. CASE RemoveSSHUserFails
    BY <2>2, StoreStays DEF RemoveSSHUserFails
  <2>3. QED
    BY <2>1, <2>2
<1>4. FlowFine' /\ pc' \notin {"bounce", "restart", "wgUnit", "uninstallWarp"}
  BY <1>1, <1>3, Moving DEF RemoveSSHUser, RemoveSSHUserFails
<1>5. QED
  BY <1>1, <1>3, <1>4, ProxyStays, WarpStays, Counting, SplitNext

LEMMA SaveTyped ==
  ASSUME IInv, Save \/ SaveFails
  PROVE  IInv'
<1>1. pc # "idle" /\ (Fault \/ NoFault) /\ UNCHANGED <<proxyVars, warpVars, account, mem, runAs>>
  BY DEF Save, SaveFails, storeVars
<1>2. EmptyConfig \in Config
  BY DEF EmptyConfig, Config, NoCreds, Creds
<1>3. StoreTyped'
  BY <1>1, <1>2, Split DEF Save, SaveFails, StoreTyped, storeVars
<1>4. FlowFine' /\ pc' \notin {"bounce", "restart", "wgUnit", "uninstallWarp"}
  BY <1>1, Moving DEF Save, SaveFails
<1>5. QED
  BY <1>1, <1>3, <1>4, ProxyStays, WarpStays, Counting, SplitNext

\* The processes systemd and the handlers make are processes.
LEMMA Processes ==
  ASSUME NEW u \in Unit \cup {Absent}
  PROVE  /\ Stopped \in Process /\ Waiting \in Process /\ StartedAs(u) \in Process
         /\ Stopped.state = "stopped" /\ Waiting.state = "waiting"
         /\ StartedAs(u).state = "starting" /\ StartedAs(u).as = u
<1>1. NoCreds \in Creds
  BY DEF NoCreds, Creds
<1>2. Stopped \in Process /\ Stopped.state = "stopped"
  BY <1>1 DEF Stopped, Process
<1>3. Waiting \in Process /\ Waiting.state = "waiting"
  BY <1>2 DEF Waiting, Process
<1>4. StartedAs(u) \in Process /\ StartedAs(u).state = "starting" /\ StartedAs(u).as = u
  BY <1>2 DEF StartedAs, Process
<1>5. QED
  BY <1>2, <1>3, <1>4

\* The configured unit and credentials.
LEMMA DesiredTyped ==
  ASSUME IInv
  PROVE  /\ Desired \in Unit /\ Desired # Absent
         /\ UserForProxy \in {"slipgate", "slipgate-socks"}
         /\ CredsToWrite \in Creds
<1>1. FlowTyped /\ StoreTyped
  BY Split DEF FlowFine
<1>2. Desired \in Unit
  BY <1>1 DEF Desired, Unit, FlowTyped, Job, StoreTyped
<1>3. UserForProxy \in {"slipgate", "slipgate-socks"}
  BY <1>1 DEF UserForProxy, StoreTyped
<1>4. CredsToWrite \in Creds
  BY <1>1 DEF CredsToWrite, Creds, FlowTyped, Job, StoreTyped, Config
<1>5. QED
  BY <1>2, <1>3, <1>4, SocksProxyAssumption

\* A step to the next one of its part, in which the locals stay.
LEMMA Stepping ==
  ASSUME IInv, NEW l, <<pc, l>> \in WithinPart, pc' = l, plan' = plan, job' = job,
         mem'.warp = mem.warp \/ job.cmd \notin UserCommands
  PROVE  FlowFine'
<1>1. FlowFine /\ SameLocals(job')
  BY Split, Unclean DEF FlowFine, FlowTyped
<1>2. pc # "idle"
  BY DEF WithinPart
<1>3. QED
  BY <1>1, <1>2, Staying

LEMMA CredsTyped ==
  ASSUME IInv, WriteCreds \/ WriteCredsFails
  PROVE  IInv'
<1>1. /\ pc = "creds" /\ (Fault \/ NoFault) /\ runAs' = UserForProxy
      /\ UNCHANGED <<unit, server, session, warpVars, storeVars, mem>>
  BY DEF WriteCreds, WriteCredsFails, proxyVars
<1>2. StoreTyped'
  BY <1>1, DesiredTyped, Split DEF StoreTyped, storeVars
<1>3. ProxyTyped'
  BY <1>1, DesiredTyped, Split DEF WriteCreds, WriteCredsFails, ProxyTyped, proxyVars
<1>4. FlowFine' /\ pc' \notin {"bounce", "restart", "wgUnit", "uninstallWarp"}
  <2>1. CASE WriteCreds
    BY <1>1, <2>1, Stepping DEF WriteCreds, WithinPart
  <2>2. CASE WriteCredsFails
    BY <1>1, <2>2, Moving DEF WriteCredsFails
  <2>3. QED
    BY <2>1, <2>2
<1>5. ProxyFine'
  BY <1>1, <1>4, Split DEF ProxyFine, ServerActive
<1>6. QED
  BY <1>1, <1>2, <1>3, <1>4, <1>5, WarpStays, Counting, SplitNext

\* The server's process changes, and no unit.
LEMMA ServerChanges ==
  ASSUME IInv, server' \in Process, UNCHANGED <<credsFile, unit>>,
         server'.state \in {"starting", "running"} => unit # Absent,
         session' = "none" \/ (session' \in Sessions /\ server'.state = "running"),
         pc' \notin {"bounce", "restart"} \/ pc' = pc
  PROVE  ProxyTyped' /\ ProxyFine'
BY Split DEF ProxyTyped, ProxyFine, ServerActive, Sessions

LEMMA FreePortTyped ==
  ASSUME IInv, FreePort
  PROVE  IInv'
<1>1. /\ pc = "free" /\ NoFault /\ UNCHANGED <<credsFile, unit, warpVars, storeVars, mem, runAs>>
  BY DEF FreePort
<1>2. FlowFine' /\ pc' \notin {"bounce", "restart", "wgUnit", "uninstallWarp"}
  BY <1>1, Moving DEF FreePort
<1>3. ProxyTyped' /\ ProxyFine'
  <2>1. CASE server.state = "running"
    BY <1>1, <1>2, <2>1, Processes, ServerChanges DEF FreePort, EndServer
  <2>2. CASE server.state # "running"
    <3>1. UNCHANGED proxyVars
      BY <1>1, <2>2 DEF FreePort, proxyVars
    <3>2. QED
      BY <1>2, <3>1, ProxyStays
  <2>3. QED
    BY <2>1, <2>2
<1>4. QED
  BY <1>1, <1>2, <1>3, StoreStays, WarpStays, Counting, SplitNext

LEMMA ReloadTyped ==
  ASSUME IInv, Reload \/ NoReload
  PROVE  IInv'
<1>1. /\ pc = "reload" /\ (Fault \/ NoFault) /\ UNCHANGED <<credsFile, unit, warpVars, storeVars, mem, runAs>>
  BY DEF Reload, NoReload, proxyVars
<1>2. FlowFine' /\ pc' \notin {"bounce", "restart", "wgUnit", "uninstallWarp"}
  <2>1. CASE Reload
    BY <1>1, <2>1, Moving DEF Reload
  <2>2. CASE NoReload
    BY <1>1, <2>2, Stepping DEF NoReload, WithinPart
  <2>3. QED
    BY <2>1, <2>2
<1>3. ProxyTyped' /\ ProxyFine'
  <2>1. CASE Reload
    <3>1. server \in Process /\ session \in Sessions /\ (session # "none" => server.state = "running")
          /\ (server.state \in {"starting", "running"} => unit # Absent) /\ unit \in Unit \cup {Absent}
      BY Split DEF ProxyTyped, ProxyFine, ServerActive
    <3>2. CASE server.watch # "off"
      <4>1. server' = [server EXCEPT !.hup = TRUE] /\ session' = session
        BY <2>1, <3>2 DEF Reload, HangUp
      <4>2. server' \in Process /\ server'.state = server.state
        BY <3>1, <4>1 DEF Process
      <4>3. QED
        BY <1>1, <1>2, <3>1, <4>1, <4>2, ServerChanges
    <3>3. CASE server.watch = "off"
      <4>1. server' = Waiting /\ session' = "none"
        BY <2>1, <3>3 DEF Reload, HangUp
      <4>2. QED
        BY <1>1, <1>2, <3>1, <4>1, Processes, ServerChanges
    <3>4. QED
      BY <3>2, <3>3
  <2>2. CASE NoReload
    BY <1>2, <2>2, ProxyStays DEF NoReload
  <2>3. QED
    BY <2>1, <2>2
<1>4. QED
  BY <1>1, <1>2, <1>3, StoreStays, WarpStays, Counting, SplitNext

LEMMA CreateUnitTyped ==
  ASSUME IInv, CreateUnit \/ CreateUnitFails
  PROVE  IInv'
<1>1. /\ pc = "create" /\ (Fault \/ NoFault) /\ unit' \in {unit, Desired}
      /\ UNCHANGED <<credsFile, server, session, warpVars, storeVars, mem, runAs>>
  BY DEF CreateUnit, CreateUnitFails
<1>2. ProxyTyped'
  BY <1>1, DesiredTyped, Split DEF ProxyTyped
<1>3. /\ FlowFine' /\ pc' \notin {"bounce", "wgUnit", "uninstallWarp"}
      /\ pc' = "restart" => unit' = Desired
  <2>1. CASE CreateUnit
    BY <1>1, <2>1, Stepping DEF CreateUnit, WithinPart
  <2>2. CASE CreateUnitFails
    BY <1>1, <2>2, Moving DEF CreateUnitFails
  <2>3. QED
    BY <2>1, <2>2
<1>4. ProxyFine'
  BY <1>1, <1>3, DesiredTyped, Split DEF ProxyFine, ServerActive
<1>5. QED
  BY <1>1, <1>2, <1>3, <1>4, StoreStays, WarpStays, Counting, SplitNext

LEMMA RestartProxyTyped ==
  ASSUME IInv, RestartProxy \/ RestartProxyFails
  PROVE  IInv'
<1>1. /\ pc \in {"restart", "bounce"} /\ (Fault \/ NoFault)
      /\ UNCHANGED <<credsFile, unit, warpVars, storeVars, mem, runAs>>
      /\ RestartServer \/ UNCHANGED <<server, session>>
  BY DEF RestartProxy, RestartProxyFails
<1>2. FlowFine' /\ pc' \notin {"bounce", "restart", "wgUnit", "uninstallWarp"}
  BY <1>1, Moving DEF RestartProxy, RestartProxyFails
<1>3. ProxyTyped' /\ ProxyFine'
  <2>1. CASE RestartServer
    <3>1. unit # Absent /\ unit \in Unit \cup {Absent}
      BY <1>1, Split DEF ProxyFine, ProxyTyped
    <3>2. QED
      BY <1>1, <1>2, <2>1, <3>1, Processes, ServerChanges DEF RestartServer
  <2>2. CASE UNCHANGED <<server, session>>
    <3>1. UNCHANGED proxyVars
      BY <1>1, <2>2 DEF proxyVars
    <3>2. QED
      BY <1>2, <3>1, ProxyStays
  <2>3. QED
    BY <1>1, <2>1, <2>2
<1>4. QED
  BY <1>1, <1>2, <1>3, StoreStays, WarpStays, Counting, SplitNext

\* A file that was written names accounts of the host.
LEMMA ConfWritten ==
  ASSUME IInv, WriteConf(WithAccount(mem)), pc' # "uninstallWarp"
  PROVE  WarpTyped' /\ WarpFine' /\ IsSetUp'
<1>1. wgConf' \in SUBSET Uids /\ wgConf' # NoConf /\ UNCHANGED <<wgUnit, wgUp, liveRules, publicRule, socksAccount>>
  BY UIDsTyped DEF WriteConf
<1>2. QED
  BY <1>1, Split DEF WarpTyped, WarpFine, IsSetUp

LEMMA GenerateConfTyped ==
  ASSUME IInv, GenerateConf \/ GenerateConfFails
  PROVE  IInv'
<1>1. /\ pc = "conf" /\ (Fault \/ NoFault) /\ UNCHANGED <<proxyVars, storeVars, mem, runAs>>
  BY DEF GenerateConf, GenerateConfFails
<1>2. /\ FlowFine' /\ pc' \notin {"bounce", "restart", "wgUnit", "uninstallWarp"}
      /\ WarpTyped' /\ WarpFine'
  <2>1. CASE GenerateConf /\ IsSetUp
    <3>1. WriteConf(WithAccount(mem)) /\ pc' = "live" /\ plan' = plan /\ job' = job
      BY <2>1 DEF GenerateConf
    <3>2. FlowFine'
      BY <1>1, <3>1, Stepping DEF WithinPart
    <3>3. QED
      BY <3>1, <3>2, ConfWritten
  <2>2. CASE ~(GenerateConf /\ IsSetUp)
    <3>1. UNCHANGED warpVars /\ (Proceed \/ ProceedWarn)
      BY <2>2 DEF GenerateConf, GenerateConfFails, SameWarp
    <3>2. QED
      BY <1>1, <3>1, Moving, WarpStays
  <2>3. QED
    BY <2>1, <2>2
<1>3. QED
  BY <1>1, <1>2, ProxyStays, StoreStays, Counting, SplitNext

\* Rules are added and deleted for known accounts only.
LEMMA RulesChange ==
  ASSUME IInv, liveRules' \in SUBSET Uids, publicRule' \in BOOLEAN, UNCHANGED <<wgConf, wgUnit, wgUp, socksAccount>>,
         pc' \notin {"wgUnit", "uninstallWarp"}
  PROVE  WarpTyped' /\ WarpFine'
BY Split DEF WarpTyped, WarpFine, IsSetUp

LEMMA SyncLiveRulesTyped ==
  ASSUME IInv, SyncLiveRules \/ SyncLiveRulesFails
  PROVE  IInv'
<1>1. /\ pc = "live" /\ (Fault \/ NoFault) /\ UNCHANGED <<proxyVars, storeVars, mem, runAs>>
  BY DEF SyncLiveRules, SyncLiveRulesFails
<1>2. FlowFine' /\ pc' \notin {"bounce", "restart", "wgUnit", "uninstallWarp"}
  BY <1>1, Moving DEF SyncLiveRules, SyncLiveRulesFails
<1>3. /\ liveRules' \in SUBSET Uids /\ publicRule' \in BOOLEAN
      /\ UNCHANGED <<wgConf, wgUnit, wgUp, socksAccount>>
  <2>1. liveRules \in SUBSET Uids /\ wgUp \in BOOLEAN /\ publicRule \in BOOLEAN
    BY Split DEF WarpTyped
  <2>2. CASE SyncLiveRules
    BY <2>1, <2>2, UIDsTyped DEF SyncLiveRules, SyncRules
  <2>3. CASE SyncLiveRulesFails
    BY <2>1, <2>3 DEF SyncLiveRulesFails, SyncPartly
  <2>4. QED
    BY <2>2, <2>3
<1>4. QED
  BY <1>1, <1>2, <1>3, RulesChange, ProxyStays, StoreStays, Counting, SplitNext

LEMMA SetupStepTyped ==
  ASSUME IInv, SetupStep
  PROVE  IInv'
<1>1. /\ pc \in {"register", "socksUser", "wgConf"} /\ NoFault
      /\ UNCHANGED <<proxyVars, storeVars, runAs, job, plan, mem>>
  BY DEF SetupStep, Goto, SameWarp, WriteConf
<1>2. CASE pc \in {"register", "socksUser"}
  <2>1. /\ <<pc, pc'>> \in WithinPart /\ pc' \in {"socksUser", "wgConf"}
        /\ UNCHANGED <<wgConf, wgUnit, wgUp, liveRules, publicRule>> /\ socksAccount' \in {socksAccount, TRUE}
    BY <1>2 DEF SetupStep, Goto, SameWarp, WithinPart, warpVars
  <2>2. WarpTyped' /\ WarpFine'
    BY <2>1, Split DEF WarpTyped, WarpFine, IsSetUp
  <2>3. FlowFine'
    BY <1>1, <2>1, Stepping
  <2>4. QED
    BY <1>1, <2>1, <2>2, <2>3, ProxyStays, StoreStays, Counting, SplitNext
<1>3. CASE pc = "wgConf"
  <2>1. WriteConf(WithAccount(mem)) /\ pc' = "wgUnit"
    BY <1>3 DEF SetupStep, Goto
  <2>2. WarpTyped' /\ WarpFine'
    BY <2>1, ConfWritten
  <2>3. FlowFine'
    BY <1>1, <1>3, <2>1, Stepping DEF WithinPart
  <2>4. QED
    BY <1>1, <2>1, <2>2, <2>3, ProxyStays, StoreStays, Counting, SplitNext
<1>4. QED
  BY <1>1, <1>2, <1>3

LEMMA SetupEndsTyped ==
  ASSUME IInv, SetupEnds
  PROVE  IInv'
<1>1. /\ pc = "wgUnit" /\ NoFault
      /\ wgUnit' = TRUE /\ publicRule' = (publicRule \/ wgUp)
      /\ UNCHANGED <<proxyVars, wgConf, wgUp, liveRules, socksAccount, storeVars, mem, runAs>>
  BY DEF SetupEnds
<1>2. FlowFine' /\ pc' \notin {"bounce", "restart", "wgUnit", "uninstallWarp"}
  <2>1. CASE Proceed
    BY <1>1, <2>1, Moving
  <2>2. CASE pc' = "up" /\ plan' = plan /\ job' = job
    BY <1>1, <2>2, Stepping DEF WithinPart
  <2>3. QED
    BY <2>1, <2>2 DEF SetupEnds
<1>3. WarpTyped' /\ WarpFine'
  BY <1>1, <1>2, Split DEF WarpTyped, WarpFine, IsSetUp
<1>4. QED
  BY <1>1, <1>2, <1>3, ProxyStays, StoreStays, Counting, SplitNext

LEMMA SetupFailsTyped ==
  ASSUME IInv, SetupFails
  PROVE  IInv'
<1>1. /\ pc # "idle" /\ Fault /\ wgUnit' \in (IF pc = "wgUnit" THEN {wgUnit, TRUE} ELSE {wgUnit})
      /\ UNCHANGED <<proxyVars, wgConf, wgUp, liveRules, publicRule, socksAccount, storeVars, mem, runAs>>
  BY DEF SetupFails
<1>2. FlowFine' /\ pc' \notin {"bounce", "restart", "wgUnit", "uninstallWarp"}
  BY <1>1, Moving DEF SetupFails, WarpFails
<1>3. WarpTyped' /\ WarpFine'
  BY <1>1, <1>2, Split DEF WarpTyped, WarpFine, IsSetUp
<1>4. QED
  BY <1>1, <1>2, <1>3, ProxyStays, StoreStays, Counting, SplitNext

LEMMA EnableTyped ==
  ASSUME IInv, Enable \/ EnableFails
  PROVE  IInv'
<1>1. /\ pc = "up" /\ (Fault \/ NoFault)
      /\ UNCHANGED <<proxyVars, wgConf, wgUnit, socksAccount, storeVars, runAs>>
  BY DEF Enable, EnableFails
<1>2. /\ liveRules \in SUBSET Uids /\ wgUnit \in BOOLEAN /\ wgUp \in BOOLEAN /\ publicRule \in BOOLEAN
      /\ (wgUnit \/ wgUp => IsSetUp /\ wgConf \in SUBSET Uids)
  BY Split DEF WarpTyped, WarpFine, IsSetUp
<1>3. /\ wgUp' \in BOOLEAN /\ liveRules' \in SUBSET Uids /\ publicRule' \in BOOLEAN
      /\ wgUp' => wgUp \/ wgUnit
  <2>1. CASE Enable
    BY <1>2, <2>1 DEF Enable, WgQuickUp, CanStart
  <2>2. CASE EnableFails
    BY <1>2, <2>2 DEF EnableFails, WgQuickUpFails
  <2>3. QED
    BY <2>1, <2>2
<1>4. job.cmd \notin UserCommands
  BY <1>1, Split DEF FlowFine, HandlerFine, At, AddAt, RemoveAt, InProxy, UserCommands
<1>5. StoreTyped'
  BY <1>1, Split DEF Enable, EnableFails, StoreTyped, Config, storeVars
<1>6. FlowFine' /\ pc' \notin {"bounce", "restart", "wgUnit", "uninstallWarp"}
  <2>1. CASE Enable
    <3>1. pc' = "saveFlag" /\ plan' = plan /\ job' = job /\ <<pc, "saveFlag">> \in WithinPart
      BY <1>1, <2>1 DEF Enable, WithinPart
    <3>2. FlowFine'
      BY <1>4, <3>1, Stepping
    <3>3. QED
      BY <3>1, <3>2
  <2>2. CASE EnableFails
    BY <1>1, <2>2, Moving DEF EnableFails, WarpFails
  <2>3. QED
    BY <2>1, <2>2
<1>7. WarpTyped' /\ WarpFine'
  BY <1>1, <1>2, <1>3, <1>6, Split DEF WarpTyped, WarpFine, IsSetUp
<1>8. QED
  BY <1>1, <1>5, <1>6, <1>7, ProxyStays, Counting, SplitNext

LEMMA WgQuickDownTyped ==
  ASSUME IInv, WgQuickDown
  PROVE  wgUp' = FALSE /\ liveRules' \in SUBSET Uids /\ publicRule' \in BOOLEAN
<1>1. liveRules \in SUBSET Uids /\ publicRule \in BOOLEAN
  BY Split DEF WarpTyped
<1>2. QED
  BY <1>1 DEF WgQuickDown

LEMMA StopWarpTyped ==
  ASSUME IInv, StopWarp
  PROVE  IInv'
<1>1. /\ pc = "down" /\ pc' = "flush" /\ plan' = plan /\ (Fault \/ NoFault)
      /\ UNCHANGED <<proxyVars, wgConf, wgUnit, socksAccount, storeVars, mem, runAs>>
      /\ job' \in {job, [job EXCEPT !.clean = FALSE]}
      /\ WgQuickDown \/ UNCHANGED <<wgUp, liveRules, publicRule>>
  BY DEF StopWarp
<1>2. WarpTyped' /\ WarpFine'
  <2>1. WarpTyped /\ WarpFine
    BY Split
  <2>2. CASE WgQuickDown
    BY <1>1, <2>1, <2>2, WgQuickDownTyped DEF WarpTyped, WarpFine, IsSetUp
  <2>3. CASE UNCHANGED <<wgUp, liveRules, publicRule>>
    BY <1>1, <2>1, <2>3 DEF WarpTyped, WarpFine, IsSetUp
  <2>4. QED
    BY <1>1, <2>2, <2>3
<1>3. FlowFine'
  <2>1. FlowFine /\ SameLocals(job')
    BY <1>1, Split, Unclean DEF FlowFine, FlowTyped
  <2>2. QED
    BY <1>1, <2>1, Staying DEF WithinPart
<1>4. QED
  BY <1>1, <1>2, <1>3, ProxyStays, StoreStays, Counting, SplitNext

LEMMA FlushRoutingRulesTyped ==
  ASSUME IInv, FlushRoutingRules
  PROVE  IInv'
<1>1. /\ pc = "flush" /\ (Fault \/ NoFault) /\ mem' = [mem EXCEPT !.warp = FALSE]
      /\ UNCHANGED <<proxyVars, wgConf, wgUnit, wgUp, socksAccount, storeVars, runAs>>
      /\ Proceed \/ ProceedWarn
  BY DEF FlushRoutingRules
<1>2. job.cmd \notin UserCommands
  BY <1>1, Split DEF FlowFine, HandlerFine, At, AddAt, RemoveAt, InProxy, UserCommands
<1>3. FlowFine' /\ pc' \notin {"bounce", "restart", "wgUnit", "uninstallWarp"}
  BY <1>1, <1>2, Moving
<1>4. liveRules' \in SUBSET Uids /\ publicRule' \in BOOLEAN
  BY Split DEF FlushRoutingRules, FlushRules, FlushPartly, WarpTyped
<1>5. StoreTyped'
  BY <1>1, Split DEF StoreTyped, storeVars, Config
<1>6. QED
  BY <1>1, <1>3, <1>4, <1>5, RulesChange, ProxyStays, Counting, SplitNext

LEMMA UninstallTyped ==
  ASSUME IInv, Uninstall
  PROVE  IInv'
<1>1. CASE StopServices
  <2>1. /\ pc = "services" /\ pc' = "uninstallWarp" /\ plan' = plan /\ job' = job /\ mem' = mem /\ NoFault
        /\ server' = Stopped /\ session' = "none" /\ unit' = Absent
        /\ wgUnit' = FALSE /\ WgQuickDown /\ UNCHANGED <<wgConf, socksAccount, credsFile, storeVars, runAs>>
    BY <1>1 DEF StopServices, EndServer, Goto
  <2>2. FlowFine'
    BY <2>1, Stepping DEF WithinPart
  <2>3. ProxyTyped' /\ ProxyFine'
    BY <2>1, Processes, Split DEF ProxyTyped, ProxyFine, ServerActive, Sessions
  <2>4. WarpTyped' /\ WarpFine'
    BY <2>1, WgQuickDownTyped, Split DEF WarpTyped, WarpFine, IsSetUp
  <2>5. QED
    BY <2>1, <2>2, <2>3, <2>4, StoreStays, Counting, SplitNext
<1>2. CASE UninstallWarp
  <2>1. /\ pc = "uninstallWarp" /\ pc' = "wipe" /\ plan' = plan /\ job' = job /\ mem' = mem /\ NoFault
        /\ liveRules' = {} /\ publicRule' = FALSE /\ wgConf' = NoConf /\ socksAccount' = FALSE
        /\ UNCHANGED <<proxyVars, wgUnit, wgUp, storeVars, runAs>>
    BY <1>2 DEF UninstallWarp, FlushRules, Goto
  <2>2. FlowFine'
    BY <2>1, Stepping DEF WithinPart
  <2>3. WarpTyped' /\ WarpFine'
    BY <2>1, Split DEF WarpTyped, WarpFine, IsSetUp
  <2>4. QED
    BY <2>1, <2>2, <2>3, ProxyStays, StoreStays, Counting, SplitNext
<1>3. CASE RemoveConfigDir
  <2>1. /\ pc = "wipe" /\ NoFault /\ file' = Absent /\ credsFile' = Absent /\ Proceed
        /\ UNCHANGED <<unit, server, session, warpVars, account, mem, runAs>>
    BY <1>3 DEF RemoveConfigDir
  <2>2. FlowFine' /\ pc' \notin {"bounce", "restart", "wgUnit", "uninstallWarp"}
    BY <2>1, Moving
  <2>3. ProxyTyped' /\ ProxyFine' /\ StoreTyped'
    BY <2>1, <2>2, Split DEF ProxyTyped, ProxyFine, ServerActive, StoreTyped
  <2>4. QED
    BY <2>1, <2>2, <2>3, WarpStays, Counting, SplitNext
<1>4. QED
  BY <1>1, <1>2, <1>3 DEF Uninstall

LEMMA CrashTyped ==
  ASSUME IInv, Crash
  PROVE  IInv'
<1>1. pc # "idle" /\ Fault /\ Return /\ runAs' = "slipgate" /\ UNCHANGED <<proxyVars, warpVars, storeVars, mem>>
  BY DEF Crash
<1>2. FlowFine' /\ pc' \notin {"bounce", "restart", "wgUnit", "uninstallWarp"}
  BY <1>1, Moving
<1>3. StoreTyped'
  BY <1>1, Split DEF StoreTyped, storeVars
<1>4. QED
  BY <1>1, <1>2, <1>3, ProxyStays, WarpStays, Counting, SplitNext

\* Steps of the proxy, of its client and of systemd.
LEMMA HandlerStays ==
  ASSUME IInv, UNCHANGED <<warpVars, storeVars, mem, runAs, flow, job>>, Fault \/ NoFault, ProxyTyped', ProxyFine'
  PROVE  IInv'
<1>1. FlowFine'
  BY Split DEF FlowFine, FlowTyped, HandlerFine, flow
<1>2. WarpTyped' /\ WarpFine'
  BY WarpStays DEF flow
<1>3. QED
  BY <1>1, <1>2, StoreStays, Counting, SplitNext

LEMMA ServerDiesTyped ==
  ASSUME IInv, ServerDies
  PROVE  IInv'
<1>1. /\ server' = Waiting /\ session' = "none" /\ UNCHANGED <<credsFile, unit, pc>>
  BY DEF ServerDies, EndServer, flow
<1>2. ProxyTyped' /\ ProxyFine'
  BY <1>1, Processes, ServerChanges
<1>3. QED
  BY <1>2, HandlerStays DEF ServerDies

LEMMA ServerStepTyped ==
  ASSUME IInv, ServerStep, Elsewhere
  PROVE  IInv'
<1>1. /\ UNCHANGED <<credsFile, unit, session, pc>>
  BY DEF ServerStep, ReadCredsAtStart, WatchCredsFile, TakeSignal, SetCredentials, StartAgain, Elsewhere, flow
<1>2. /\ server \in Process /\ session \in Sessions /\ credsFile \in Creds \cup {Absent}
      /\ unit \in Unit \cup {Absent} /\ (session # "none" => server.state = "running")
      /\ server.state \in {"starting", "running"} => unit # Absent
  BY Split DEF ProxyTyped, ProxyFine, ServerActive
<1>3. NoCreds \in Creds
  BY DEF NoCreds, Creds
<1>4. /\ server' \in Process
      /\ server'.state \in {"starting", "running"} => unit # Absent
      /\ session # "none" => server'.state = "running"
  <2>1. CASE ReadCredsAtStart
    BY <1>2, <2>1, Processes DEF ReadCredsAtStart, Process
  <2>2. CASE WatchCredsFile
    BY <1>2, <2>2 DEF WatchCredsFile, Process
  <2>3. CASE TakeSignal
    BY <1>2, <2>3 DEF TakeSignal, Process
  <2>4. CASE SetCredentials
    BY <1>2, <1>3, <2>4 DEF SetCredentials, Process
  <2>5. CASE StartAgain
    BY <1>2, <2>5, Processes DEF StartAgain
  <2>6. QED
    BY <2>1, <2>2, <2>3, <2>4, <2>5 DEF ServerStep
<1>5. ProxyTyped' /\ ProxyFine'
  BY <1>1, <1>2, <1>4, ServerChanges
<1>6. QED
  BY <1>5, HandlerStays DEF Elsewhere, NoFault

LEMMA ClientStepTyped ==
  ASSUME IInv, ClientStep, Elsewhere
  PROVE  IInv'
<1>1. UNCHANGED <<credsFile, unit, server, pc>>
  BY DEF ClientStep, Greet, Authenticate, Request, Leave, Elsewhere, flow
<1>2. server \in Process /\ (session # "none" => server.state = "running") /\ (ServerActive => unit # Absent)
  BY Split DEF ProxyTyped, ProxyFine
<1>3. session' \in Sessions /\ (session' # "none" => server.state = "running")
  BY <1>2 DEF ClientStep, Greet, Authenticate, Request, Leave, Sessions
<1>4. ProxyTyped' /\ ProxyFine'
  BY <1>1, <1>2, <1>3, ServerChanges DEF ServerActive
<1>5. QED
  BY <1>4, HandlerStays DEF Elsewhere, NoFault

LEMMA IInvInit == Init => IInv
<1> SUFFICES ASSUME Init PROVE IInv
  OBVIOUS
<1> USE DEF Init, ProxyInit, WarpInit
<1>1. NoCreds \in Creds /\ EmptyConfig \in Config
  BY DEF NoCreds, Creds, EmptyConfig, Config
<1>2. ProxyTyped
  BY Processes DEF ProxyTyped, Sessions
<1>3. WarpTyped
  BY DEF WarpTyped
<1>4. StoreTyped
  BY <1>1 DEF StoreTyped, Creds
<1>5. BoundsTyped
  BY UserStoreAssumption DEF BoundsTyped
<1>6. FlowFine
  <2>1. NoJob \in Job
    BY DEF NoJob, Job, CommandNames
  <2>2. <<>> \in Seq(Parts)
    OBVIOUS
  <2>3. QED
    BY <2>1, <2>2, AllSteps DEF FlowFine, FlowTyped, HandlerFine
<1>7. WarpFine /\ ProxyFine
  BY Processes DEF WarpFine, ProxyFine, ServerActive
<1>8. QED
  BY <1>2, <1>3, <1>4, <1>5, <1>6, <1>7, Split

LEMMA IInvNext == IInv /\ [Next]_vars => IInv'
<1> SUFFICES ASSUME IInv, [Next]_vars PROVE IInv'
  OBVIOUS
<1>1. CASE UserCommand
  BY <1>1, BeginningAdd, BeginningBulkAdd, BeginningEditPassword, BeginningRemove DEF UserCommand
<1>2. CASE HostCommand
  BY <1>2, BeginningWarp, BeginningRestart, BeginningUpdate, BeginningInstall, BeginningWizard, BeginningUninstall
  DEF HostCommand
<1>3. CASE AccountStep
  BY <1>3, AddSSHUserTyped, AddSSHUserFailsTyped, RemoveSSHUserTyped, SaveTyped DEF AccountStep
<1>4. CASE SetupSOCKS
  BY <1>4, FreePortTyped, CredsTyped, ReloadTyped, CreateUnitTyped, RestartProxyTyped DEF SetupSOCKS
<1>5. CASE Routing
  BY <1>5, GenerateConfTyped, SyncLiveRulesTyped, SetupStepTyped, SetupEndsTyped, SetupFailsTyped,
     EnableTyped, StopWarpTyped, FlushRoutingRulesTyped
  DEF Routing
<1>6. CASE Uninstall \/ Crash \/ ServerDies
  BY <1>6, UninstallTyped, CrashTyped, ServerDiesTyped
<1>7. CASE (ServerStep \/ ClientStep) /\ Elsewhere
  BY <1>7, ServerStepTyped, ClientStepTyped
<1>8. CASE UNCHANGED vars
  <2>1. /\ UNCHANGED <<credsFile, unit, server, session>> /\ UNCHANGED <<wgConf, wgUnit, wgUp, liveRules, publicRule, socksAccount>>
        /\ UNCHANGED <<file, account, mem, runAs, pc, plan, job, commands, faults>>
    BY <1>8 DEF vars
  <2>2. NoFault /\ UNCHANGED <<proxyVars, warpVars, storeVars, mem, runAs, flow, job, pc>>
    BY <2>1 DEF NoFault, bounds, proxyVars, warpVars, storeVars, flow
  <2>3. ProxyTyped' /\ ProxyFine'
    BY <2>2, ProxyStays
  <2>4. QED
    BY <2>2, <2>3, HandlerStays
<1>9. QED
  BY <1>1, <1>2, <1>3, <1>4, <1>5, <1>6, <1>7, <1>8 DEF Next, Operator

\* Every reachable state is well typed: among others a handler that is about to
\* create a user has one to create, and plans consist of known parts.
THEOREM TypeCorrect == Spec => []TypeOK
<1>1. IInv => TypeOK
  BY DEF IInv
<1>2. QED
  BY <1>1, IInvInit, IInvNext, PTL DEF Spec

-------------------------------------------------------------------------------
(***************************************************************************)
(* A user command repairs what it owns                                     *)
(***************************************************************************)
\* Which step of a user command follows which.
UserStep(l) ==
  CASE l = "account" -> "save"
    [] l = "unaccount" -> "creds"
    [] l = "save" /\ job.cmd # "remove" -> "creds"
    [] l \in InProxy /\ job.cmd = "remove" -> "save"
    [] (l = "save" /\ job.cmd = "remove") \/ (l \in InProxy /\ job.cmd \in {"add", "bulk_add"}) ->
         IF mem.warp THEN "conf" ELSE "idle"
    [] OTHER -> "idle"

LEMMA UserStepFollows ==
  ASSUME IInv, pc # "idle", job.cmd \in UserCommands, Proceed
  PROVE  /\ pc' = UserStep(pc)
         /\ job'.cmd = job.cmd /\ job'.user = job.user /\ job'.clean = job.clean
<1>1. /\ plan \in Seq(Parts) /\ job \in Job /\ GoOn(plan, job)
      /\ At(job.cmd, mem, pc, plan)
  BY Split DEF FlowFine, FlowTyped, HandlerFine, Proceed
<1>2. /\ job'.cmd = job.cmd /\ job'.user = job.user /\ job'.clean = job.clean
      /\ plan = <<>> => pc' = "idle"
      /\ plan # <<>> => pc' = FirstStep[Head(plan)]
  BY <1>1, GoingOn
<1>3. Refreshing(job.cmd, mem) # <<>> =>
        Head(Refreshing(job.cmd, mem)) = "refresh" /\ Tail(Refreshing(job.cmd, mem)) = <<>>
  BY DEF Refreshing
<1>4. Refreshing(job.cmd, mem) # <<>> <=> job.cmd # "edit_password" /\ mem.warp
  BY FirstSteps, Literal DEF Refreshing
<1>5. CASE job.cmd = "remove"
  <2>1. RemoveAt(job.cmd, mem, pc, plan)
    BY <1>1, <1>5 DEF At
  <2>2. QED
    BY <1>2, <1>3, <1>4, <1>5, <2>1, FirstSteps DEF RemoveAt, First, UserStep, InProxy
<1>6. CASE job.cmd \in {"add", "bulk_add", "edit_password"}
  <2>1. AddAt(job.cmd, mem, pc, plan)
    BY <1>1, <1>6 DEF At
  <2>2. QED
    BY <1>2, <1>3, <1>4, <1>6, <2>1, FirstSteps DEF AddAt, First, UserStep, InProxy
<1>7. QED
  BY <1>5, <1>6 DEF UserCommands

\* The steps of the user commands.
LEMMA UserSteps ==
  ASSUME IInv, pc # "idle", job.cmd \in UserCommands
  PROVE  /\ pc \in {"account", "unaccount", "save", "conf", "live"} \cup InProxy
         /\ pc = "account" => job.cmd # "remove"
         /\ pc = "unaccount" => job.cmd = "remove"
<1>1. At(job.cmd, mem, pc, plan)
  BY Split DEF FlowFine, HandlerFine
<1>2. QED
  BY <1>1 DEF At, AddAt, RemoveAt, UserCommands, InProxy

\* A command that is started, goes on or returns after a failure is not clean,
\* and its name and user stay.
LEMMA Warned ==
  ASSUME IInv, ProceedWarn \/ Return
  PROVE  /\ job'.cmd = job.cmd
         /\ job.cmd \in UserCommands => ~job'.clean /\ job'.user = job.user
<1>1. plan \in Seq(Parts) /\ <<>> \in Seq(Parts) /\ job \in Job
  BY Split DEF FlowFine, FlowTyped
<1> DEFINE j == [job EXCEPT !.clean = FALSE]
<1>2. j \in Job /\ j.cmd = job.cmd /\ j.user = job.user /\ j.clean = FALSE
  BY <1>1, Unclean DEF SameLocals
<1>3. GoOn(plan, j) \/ GoOn(<<>>, j)
  BY DEF ProceedWarn, Return
<1> HIDE DEF j
<1>4. QED
  BY <1>1, <1>2, <1>3, GoingOn

LEMMA Proceeding ==
  ASSUME IInv, Proceed
  PROVE  job'.cmd = job.cmd
BY GoingOn, Split DEF Proceed, FlowFine, FlowTyped

\* Steps after which there is nothing to show: a failure, or a command that does
\* not concern one user.
LEMMA Fails ==
  ASSUME IInv, Repairing, ProceedWarn \/ Return
  PROVE  Repairing'
<1>1. job'.cmd = "bulk_add" => job'.user = NoPass
  BY Warned DEF Repairing, UserCommands
<1>2. ~(job'.clean /\ job'.cmd \in UserCommands)
  BY Warned
<1>3. QED
  BY <1>1, <1>2 DEF Repairing

LEMMA NotAUserCommand ==
  ASSUME job'.cmd \notin UserCommands
  PROVE  Repairing'
BY DEF Repairing, UserCommands

\* A step of a handler's part after which its copies agree as before.
LEMMA RepairGoesOn ==
  ASSUME IInv, Repairing, pc \in InProxy \ {"creds"}, UNCHANGED <<credsFile, file, account, mem>>,
         Proceed \/ (pc' \in InProxy \ {"creds"} /\ UNCHANGED job)
  PROVE  Repairing'
<1>1. job'.cmd = job.cmd
  BY Proceeding
<1>2. pc # "idle"
  BY DEF InProxy
<1>3. ASSUME job.cmd \in UserCommands  PROVE Repairing'
  <2>1. CASE Proceed
    <3>1. pc' = UserStep(pc) /\ job'.cmd = job.cmd /\ job'.user = job.user /\ job'.clean = job.clean
      BY <1>2, <1>3, <2>1, UserStepFollows
    <3>2. pc' \in {"save", "conf", "idle"} /\ (pc' = "save" <=> job.cmd = "remove")
          /\ (pc' = "idle" => job.cmd = "edit_password" \/ ~mem.warp)
      BY <1>3, <3>1 DEF UserStep, InProxy, UserCommands
    <3>3. QED
      BY <1>3, <3>1, <3>2 DEF Repairing, InProxy
  <2>2. CASE pc' \in InProxy \ {"creds"} /\ UNCHANGED job
    BY <2>2 DEF Repairing, InProxy
  <2>3. QED
    BY <2>1, <2>2
<1>4. QED
  BY <1>1, <1>3, NotAUserCommand

LEMMA AccountRepairs ==
  ASSUME IInv, Repairing, AccountStep
  PROVE  Repairing'
<1>1. CASE AddSSHUserFails
  <2>1. CASE ProceedWarn \/ Return
    BY <2>1, Fails
  <2>2. CASE job' = [job EXCEPT !.todo = Tail(@), !.clean = FALSE]
    <3>1. job \in Job
      BY Split DEF FlowFine, FlowTyped
    <3>2. job'.cmd = job.cmd /\ job'.user = job.user /\ ~job'.clean
      BY <2>2, <3>1 DEF Job
    <3>3. QED
      BY <3>2 DEF Repairing
  <2>3. QED
    BY <1>1, <2>1, <2>2 DEF AddSSHUserFails
<1>2. CASE RemoveSSHUserFails \/ SaveFails
  BY <1>2, Fails DEF RemoveSSHUserFails, SaveFails
<1>3. CASE AddSSHUser
  <2>1. /\ pc = "account" /\ account' = [account EXCEPT ![Current] = job.pass] /\ mem' = AddUser(mem, Current, job.pass)
        /\ UNCHANGED credsFile
    BY <1>3 DEF AddSSHUser, proxyVars
  <2>2. CASE LastOne
    <3>1. Proceed
      BY <1>3, <2>2 DEF AddSSHUser
    <3>2. ASSUME job.cmd \in UserCommands  PROVE Repairing'
      <4>1. pc' = UserStep(pc) /\ job'.cmd = job.cmd /\ job'.user = job.user /\ job'.clean = job.clean
        BY <2>1, <3>1, <3>2, UserStepFollows
      <4>2. pc' = "save" /\ job.cmd \in {"add", "bulk_add", "edit_password"}
        BY <2>1, <3>2, <4>1, UserSteps DEF UserStep, UserCommands, InProxy
      <4>3. job.user # NoPass => account'[job.user] = mem'.users[job.user]
        <5>1. CASE job.cmd = "bulk_add"
          BY <5>1 DEF Repairing
        <5>2. CASE job.cmd # "bulk_add"
          <6>1. Current = job.user /\ job.user \in Users
            BY <2>1, <4>2, <5>2, CurrentTyped
          <6>2. account \in [Users -> Passwords \cup {NoPass, Locked}] /\ mem \in Config
            BY Split DEF StoreTyped
          <6>3. QED
            BY <2>1, <6>1, <6>2 DEF AddUser, Config, Creds
        <5>3. QED
          BY <5>1, <5>2
      <4>4. QED
        BY <4>1, <4>2, <4>3 DEF Repairing
    <3>3. QED
      BY <3>1, <3>2, Proceeding, NotAUserCommand
  <2>3. CASE ~LastOne
    <3>1. job' = [job EXCEPT !.todo = Tail(@), !.made = TRUE] /\ pc' = pc
      BY <1>3, <2>3 DEF AddSSHUser, flow
    <3>2. job'.cmd = job.cmd /\ job'.user = job.user
      BY <3>1, Split DEF FlowFine, FlowTyped, Job
    <3>3. QED
      BY <2>1, <3>1, <3>2 DEF Repairing
  <2>4. QED
    BY <2>2, <2>3
<1>4. CASE RemoveSSHUser
  <2>1. /\ pc = "unaccount" /\ Proceed /\ mem' = [mem EXCEPT !.users[job.user] = NoPass]
        /\ account' = [account EXCEPT ![job.user] = NoPass]
    BY <1>4 DEF RemoveSSHUser
  <2>2. ASSUME job.cmd \in UserCommands  PROVE Repairing'
    <3>1. pc' = UserStep(pc) /\ job'.cmd = job.cmd /\ job'.user = job.user /\ job'.clean = job.clean
      BY <2>1, <2>2, UserStepFollows
    <3>2. pc' = "creds" /\ job.cmd = "remove"
      BY <2>1, <2>2, <3>1, UserSteps DEF UserStep, InProxy
    <3>3. job.user \in Users
      BY <2>1, <3>2, Split DEF FlowFine, HandlerFine, UsersAt
    <3>4. account'[job.user] = mem'.users[job.user]
      BY <2>1, <3>3, Split DEF StoreTyped, Config, Creds
    <3>5. QED
      BY <3>1, <3>2, <3>4 DEF Repairing, InProxy
  <2>3. QED
    BY <2>1, <2>2, Proceeding, NotAUserCommand
<1>5. CASE Save
  <2>1. /\ pc \in {"default", "save", "saveFlag"} /\ Proceed /\ UNCHANGED <<proxyVars, account, mem>>
        /\ pc = "save" => file' = mem
    BY <1>5 DEF Save
  <2>2. ASSUME job.cmd \in UserCommands  PROVE Repairing'
    <3>1. pc' = UserStep(pc) /\ job'.cmd = job.cmd /\ job'.user = job.user /\ job'.clean = job.clean
      BY <2>1, <2>2, UserStepFollows
    <3>2. pc = "save"
      BY <2>1, <2>2, UserSteps DEF InProxy
    <3>3. /\ job.cmd = "remove" => pc' \in {"conf", "idle"} /\ (pc' = "idle" => ~mem.warp)
          /\ job.cmd # "remove" => pc' = "creds"
      BY <3>1, <3>2 DEF UserStep, InProxy
    <3>4. QED
      BY <2>1, <3>1, <3>2, <3>3 DEF Repairing, InProxy, proxyVars
  <2>3. QED
    BY <2>1, <2>2, Proceeding, NotAUserCommand
<1>6. QED
  BY <1>1, <1>2, <1>3, <1>4, <1>5 DEF AccountStep

LEMMA SetupSOCKSRepairs ==
  ASSUME IInv, Repairing, SetupSOCKS
  PROVE  Repairing'
<1>1. CASE WriteCredsFails \/ CreateUnitFails \/ RestartProxyFails
  BY <1>1, Fails DEF WriteCredsFails, CreateUnitFails, RestartProxyFails
<1>2. CASE FreePort
  <2>1. job.cmd \notin UserCommands
    BY <1>2, UserSteps DEF FreePort, InProxy
  <2>2. QED
    BY <1>2, <2>1, Proceeding, NotAUserCommand DEF FreePort
<1>3. CASE WriteCreds
  <2>1. /\ pc = "creds" /\ pc' = "reload" /\ job' = job /\ UNCHANGED <<file, account, mem>>
        /\ job.cmd # "install" => credsFile' = mem.users
    BY <1>3 DEF WriteCreds, CredsToWrite, storeVars
  <2>2. QED
    BY <2>1 DEF Repairing, InProxy, UserCommands
<1>4. CASE Reload \/ NoReload \/ CreateUnit
  <2>1. /\ pc \in {"reload", "create"} /\ UNCHANGED <<credsFile, file, account, mem>>
        /\ Proceed \/ (pc' \in {"create", "restart"} /\ UNCHANGED job)
    BY <1>4 DEF Reload, NoReload, CreateUnit, proxyVars, storeVars
  <2>2. QED
    BY <2>1, RepairGoesOn DEF InProxy
<1>5. CASE RestartProxy
  <2>1. pc \in {"restart", "bounce"} /\ UNCHANGED <<credsFile, file, account, mem>> /\ Proceed
    BY <1>5 DEF RestartProxy, storeVars
  <2>2. CASE pc = "bounce"
    <3>1. job.cmd \notin UserCommands
      BY <2>2, UserSteps DEF InProxy
    <3>2. QED
      BY <2>1, <3>1, Proceeding, NotAUserCommand
  <2>3. CASE pc = "restart"
    BY <2>1, <2>3, RepairGoesOn DEF InProxy
  <2>4. QED
    BY <2>1, <2>2, <2>3
<1>6. QED
  BY <1>1, <1>2, <1>3, <1>4, <1>5 DEF SetupSOCKS

LEMMA RoutingRepairs ==
  ASSUME IInv, Repairing, Routing
  PROVE  Repairing'
<1>1. CASE GenerateConfFails \/ SyncLiveRulesFails \/ SetupFails \/ EnableFails
  BY <1>1, Fails DEF GenerateConfFails, SyncLiveRulesFails, SetupFails, EnableFails, WarpFails
<1>2. CASE SetupStep \/ SetupEnds \/ Enable \/ StopWarp \/ FlushRoutingRules
  <2>1. job.cmd \notin UserCommands
    BY <1>2, UserSteps DEF SetupStep, SetupEnds, Enable, StopWarp, FlushRoutingRules, InProxy
  <2>2. job'.cmd = job.cmd
    <3>1. CASE UNCHANGED job \/ job' = [job EXCEPT !.clean = FALSE]
      BY <3>1, Split, Unclean DEF FlowFine, FlowTyped, SameLocals
    <3>2. CASE Proceed
      BY <3>2, Proceeding
    <3>3. CASE ProceedWarn
      BY <3>3, Warned
    <3>4. QED
      BY <1>2, <3>1, <3>2, <3>3 DEF SetupStep, SetupEnds, Enable, StopWarp, FlushRoutingRules
  <2>3. QED
    BY <2>1, <2>2, NotAUserCommand
<1>3. CASE GenerateConf
  <2>1. pc = "conf" /\ UNCHANGED <<credsFile, file, account, mem>>
    BY <1>3 DEF GenerateConf, proxyVars, storeVars
  <2>2. CASE IsSetUp
    <3>1. pc' = "live" /\ job' = job
      BY <1>3, <2>2 DEF GenerateConf
    <3>2. QED
      BY <2>1, <3>1 DEF Repairing, InProxy
  <2>3. CASE ~IsSetUp
    <3>1. Proceed /\ wgUp' = wgUp /\ ~wgUp
      BY <1>3, <2>3, Split DEF GenerateConf, SameWarp, warpVars, WarpFine
    <3>2. ASSUME job.cmd \in UserCommands  PROVE Repairing'
      <4>1. pc' = UserStep(pc) /\ job'.cmd = job.cmd /\ job'.user = job.user /\ job'.clean = job.clean
        BY <2>1, <3>1, <3>2, UserStepFollows
      <4>2. pc' = "idle"
        BY <2>1, <4>1 DEF UserStep, InProxy
      <4>3. QED
        BY <2>1, <3>1, <4>1, <4>2 DEF Repairing, InProxy
    <3>3. QED
      BY <3>1, <3>2, Proceeding, NotAUserCommand
  <2>4. QED
    BY <2>2, <2>3
<1>4. CASE SyncLiveRules
  <2>1. /\ pc = "live" /\ Proceed /\ UNCHANGED <<credsFile, file, account, mem, wgUp, socksAccount>>
        /\ wgUp => liveRules' = UserUIDs(WithAccount(mem))
    BY <1>4 DEF SyncLiveRules, SyncRules, proxyVars, storeVars
  <2>2. ASSUME job.cmd \in UserCommands  PROVE Repairing'
    <3>1. pc' = UserStep(pc) /\ job'.cmd = job.cmd /\ job'.user = job.user /\ job'.clean = job.clean
      BY <2>1, <2>2, UserStepFollows
    <3>2. pc' = "idle"
      BY <2>1, <3>1 DEF UserStep, InProxy
    <3>3. UserUIDs(WithAccount(mem))' = UserUIDs(WithAccount(mem))
      BY <2>1 DEF UserUIDs, WithAccount, UsersOf
    <3>4. QED
      BY <2>1, <3>1, <3>2, <3>3 DEF Repairing, InProxy
  <2>3. QED
    BY <2>1, <2>2, Proceeding, NotAUserCommand
<1>5. QED
  BY <1>1, <1>2, <1>3, <1>4 DEF Routing

LEMMA RepairingStays ==
  ASSUME Repairing, UNCHANGED <<credsFile, file, account, mem, pc, job, wgUp, liveRules, socksAccount>>
  PROVE  Repairing'
<1>1. UserUIDs(WithAccount(mem))' = UserUIDs(WithAccount(mem))
  BY DEF UserUIDs, WithAccount, UsersOf
<1>2. QED
  BY <1>1 DEF Repairing

LEMMA RepairingNext == IInv /\ Repairing /\ [Next]_vars => Repairing'
<1> SUFFICES ASSUME IInv, Repairing, [Next]_vars PROVE Repairing'
  OBVIOUS
<1>1. CASE UserCommand
  <2>1. /\ pc' \in {"account", "unaccount"} /\ (job'.cmd = "bulk_add" => job'.user = NoPass)
    BY <1>1, BeginningAdd, BeginningBulkAdd, BeginningEditPassword, BeginningRemove DEF UserCommand, Started
  <2>2. QED
    BY <2>1 DEF Repairing
<1>2. CASE HostCommand
  <2>1. job'.cmd \in {"warp", "restart", "update", "install", "wizard", "uninstall"}
    BY <1>2, BeginningWarp, BeginningRestart, BeginningUpdate, BeginningInstall, BeginningWizard, BeginningUninstall
    DEF HostCommand, Started
  <2>2. QED
    BY <2>1, NotAUserCommand DEF UserCommands
<1>3. CASE Operator
  <2>1. CASE Uninstall
    <3>1. pc \in {"services", "uninstallWarp", "wipe"} /\ (UNCHANGED job \/ Proceed)
      BY <2>1 DEF Uninstall, StopServices, UninstallWarp, RemoveConfigDir
    <3>2. job.cmd \notin UserCommands
      BY <3>1, UserSteps DEF InProxy
    <3>3. QED
      BY <3>1, <3>2, Proceeding, NotAUserCommand
  <2>2. QED
    BY <1>3, <2>1, AccountRepairs, SetupSOCKSRepairs, RoutingRepairs DEF Operator
<1>4. CASE Crash
  BY <1>4, Fails DEF Crash
<1>5. CASE ServerDies \/ ((ServerStep \/ ClientStep) /\ Elsewhere) \/ UNCHANGED vars
  <2>1. UNCHANGED <<credsFile, file, account, mem, pc, job, wgUp, liveRules, socksAccount>>
    BY <1>5 DEF ServerDies, ServerStep, ReadCredsAtStart, WatchCredsFile, TakeSignal, SetCredentials, StartAgain,
       ClientStep, Greet, Authenticate, Request, Leave, Elsewhere, vars, warpVars, storeVars, flow
  <2>2. QED
    BY <2>1, RepairingStays
<1>6. QED
  BY <1>1, <1>2, <1>3, <1>4, <1>5 DEF Next

\* Whatever has failed before, and however often, a user command none of whose own
\* steps failed leaves the creds file, the user's account and WARP's rules as the
\* configuration it has saved says.
THEOREM UserCommandsRepair == Spec => []SuccessRepairs
<1>1. Init => Repairing
  BY DEF Init, Repairing, NoJob, UserCommands
<1>2. IInv /\ Repairing => SuccessRepairs
  BY DEF SuccessRepairs, AtRest, Repairing, InProxy
<1>3. QED
  BY <1>1, <1>2, IInvInit, IInvNext, RepairingNext, PTL DEF Spec

-------------------------------------------------------------------------------
(***************************************************************************)
(* The steps of all handlers, while nothing fails                          *)
(***************************************************************************)
\* Whose steps they are.
Whose ==
  /\ job.cmd \in CommandNames \ {"none"}
  /\ pc = "account" => job.cmd \in {"add", "bulk_add", "edit_password", "install", "wizard"}
  /\ pc = "unaccount" => job.cmd = "remove"
  /\ pc = "default" => job.cmd \in {"install", "wizard"}
  /\ pc = "save" => job.cmd \in {"install", "wizard"} \cup UserCommands
  /\ pc = "saveFlag" => job.cmd \in {"install", "warp"}
  /\ pc = "free" => job.cmd \in {"install", "wizard"}
  /\ pc \in InProxy => job.cmd # "uninstall"
  /\ pc = "bounce" => job.cmd \in {"restart", "update"}
  /\ pc \in {"conf", "live"} => job.cmd \in {"warp"} \cup UserCommands
  /\ pc \in {"up"} \cup InSetup => job.cmd \in {"install", "warp"}
  /\ pc \in {"down", "flush"} => job.cmd = "warp"
  /\ pc \in {"services", "uninstallWarp", "wipe"} => job.cmd = "uninstall"

LEMMA StepOf ==
  ASSUME IInv, pc # "idle"
  PROVE  Whose
<1>1. At(job.cmd, mem, pc, plan) /\ job.cmd \in CommandNames
  BY Split DEF FlowFine, FlowTyped, HandlerFine, Job
<1>2. CASE job.cmd \in UserCommands
  BY <1>1, <1>2 DEF At, AddAt, RemoveAt, Whose, UserCommands, InProxy, InSetup
<1>3. CASE job.cmd = "warp"
  BY <1>1, <1>3 DEF At, WarpAt, Whose, UserCommands, InProxy, InSetup
<1>4. CASE job.cmd \in {"restart", "update", "uninstall"}
  BY <1>1, <1>4 DEF At, Whose, UserCommands, InProxy, InSetup
<1>5. CASE job.cmd \in {"install", "wizard"}
  <2>1. InstallAt(job.cmd, pc, plan)
    BY <1>1, <1>5 DEF At
  <2>2. job.cmd = "wizard" => pc \notin {"up", "saveFlag"} \cup InSetup
    BY <2>1 DEF InstallAt
  <2>3. pc \in {"default", "save", "account", "up", "saveFlag", "free"} \cup InSetup \cup InProxy
    BY <2>1 DEF InstallAt
  <2>4. QED
    BY <1>1, <1>5, <2>2, <2>3 DEF Whose, UserCommands, InProxy, InSetup
<1>6. QED
  BY <1>1, <1>2, <1>3, <1>4, <1>5 DEF At, CommandNames

\* Where a handler of install or of the wizard is creating a user, and where it
\* sets WARP up.
CreatingFollows ==
  /\ Creating(pc', plan') => Creating(pc, plan)
  /\ pc = "save" /\ pc' = "register" => First(plan, "setup")
  /\ job.cmd = "install" /\ pc' # "idle" /\ OnlyWarp(pc, plan) => OnlyWarp(pc', plan')
  /\ job.cmd = "install" /\ pc' # "idle" => (Creating(pc', plan') <=> Creating(pc, plan) /\ pc # "account")

\* The next step, when a part is over.
Over ==
  /\ job'.cmd = job.cmd
  /\ pc' # "idle" => job'.user = job.user /\ job'.pass = job.pass
  /\ job.cmd \in UserCommands => pc' = UserStep(pc)
  /\ job.cmd = "warp" =>
       /\ pc \in {"conf", "live"} => pc' = "up"
       /\ pc = "flush" => pc' = "saveFlag"
       /\ pc = "saveFlag" => pc' = "creds"
       /\ pc \in InProxy => pc' = "idle"
  /\ job.cmd \in {"restart", "update", "uninstall"} => pc' = "idle"
  /\ job.cmd \in {"install", "wizard"} =>
       /\ pc \in {"default", "account"} => pc' = "save"
       /\ pc = "save" => pc' \in {"account", "free", "idle"} \/ (pc' = "register" /\ job.cmd = "install")
       /\ pc \in {"saveFlag"} \cup InSetup => pc' \in {"free", "idle"}
       /\ pc = "free" => pc' = "creds"
       /\ pc \in InProxy => pc' \in {"creds", "idle"}
  /\ CreatingFollows

LEMMA PartOver ==
  ASSUME IInv, pc # "idle", Proceed
  PROVE  Over
<1>1. /\ plan \in Seq(Parts) /\ job \in Job /\ GoOn(plan, job) /\ job.cmd \in CommandNames
      /\ At(job.cmd, mem, pc, plan)
  BY Split DEF FlowFine, FlowTyped, HandlerFine, Proceed, Job
<1>2. /\ job'.cmd = job.cmd
      /\ pc' # "idle" => job'.user = job.user /\ job'.pass = job.pass
      /\ plan = <<>> => pc' = "idle" /\ plan' = <<>>
      /\ plan # <<>> => pc' = FirstStep[Head(plan)] /\ plan' = Tail(plan) /\ Head(plan) \in Parts
      /\ pc' = "idle" <=> plan = <<>>
  BY <1>1, GoingOn
<1>3. /\ Tail(plan) # <<>> /\ plan # <<>> => Head(Tail(plan)) \in Parts
  BY <1>1, Taking
<1>4. Creating(pc', plan') => Creating(pc, plan)
  <2>1. CASE plan = <<>>
    BY <1>2, <2>1 DEF Creating
  <2>2. CASE plan # <<>>
    BY <1>1, <1>2, <2>2, NextPart
  <2>3. QED
    BY <2>1, <2>2
<1>4a. pc' = "register" => First(plan, "setup")
  BY <1>2, FirstSteps DEF First
<1>5. CASE job.cmd \in UserCommands
  BY <1>2, <1>4, <1>5, <1>4a, UserStepFollows DEF Over, CreatingFollows, UserCommands
<1>6. CASE job.cmd = "warp"
  <2>1. WarpAt(pc, plan)
    BY <1>1, <1>6 DEF At
  <2>2. /\ pc \in {"conf", "live"} => pc' = "up"
        /\ pc = "flush" => pc' = "saveFlag"
        /\ pc = "saveFlag" => pc' = "creds"
        /\ pc \in InProxy => pc' = "idle"
    BY <1>2, <2>1, FirstSteps DEF WarpAt, First, ProxyLast
  <2>3. QED
    BY <1>2, <1>4, <1>6, <1>4a, <2>2 DEF Over, CreatingFollows, UserCommands
<1>7. CASE job.cmd \in {"restart", "update", "uninstall"}
  <2>1. plan = <<>>
    BY <1>1, <1>7 DEF At
  <2>2. QED
    BY <1>2, <1>4, <1>7, <1>4a, <2>1 DEF Over, CreatingFollows, UserCommands
<1>8. CASE job.cmd \in {"install", "wizard"}
  <2>1. InstallAt(job.cmd, pc, plan)
    BY <1>1, <1>8 DEF At
  <2>2. /\ pc \in {"default", "account"} => pc' = "save"
        /\ pc = "free" => pc' = "creds"
        /\ pc \in InProxy => pc' \in {"creds", "idle"}
    BY <1>2, <2>1, FirstSteps DEF InstallAt, First, ProxyLast
  <2>3. AfterWarp(plan) => pc' \in {"free", "idle"}
    BY <1>2, FirstSteps DEF AfterWarp, First
  <2>4. pc \in {"saveFlag"} \cup InSetup => pc' \in {"free", "idle"}
    BY <2>1, <2>3 DEF InstallAt
  <2>5. AfterUser(job.cmd, plan) => pc' \in {"free", "idle"} \/ (pc' = "register" /\ job.cmd = "install")
    BY <1>2, <2>3, FirstSteps DEF AfterUser, First
  <2>6. pc = "save" => pc' \in {"account", "free", "idle"} \/ (pc' = "register" /\ job.cmd = "install")
    BY <1>2, <2>1, <2>5, FirstSteps DEF InstallAt, AfterTunnels, First
  <2>7. ASSUME job.cmd = "install", pc' # "idle"
        PROVE  Creating(pc', plan') <=> Creating(pc, plan) /\ pc # "account"
    <3>1. plan # <<>> /\ pc' = FirstStep[Head(plan)] /\ plan' = Tail(plan)
      BY <1>2, <2>7
    <3>2. CASE pc = "account"
      <4>1. pc' = "save" /\ AfterUser(job.cmd, plan')
        BY <2>1, <2>2, <3>1, <3>2 DEF InstallAt
      <4>2. ~First(plan', "account")
        BY <4>1 DEF AfterUser, AfterWarp, First
      <4>3. QED
        BY <3>2, <4>1, <4>2 DEF Creating
    <3>3. CASE pc = "default"
      BY <1>4, <2>2, <3>1, <3>3 DEF Creating
    <3>4. CASE pc = "save"
      BY <1>4, <3>1, <3>4, FirstSteps DEF Creating, First
    <3>5. CASE pc \notin {"account", "default", "save"}
      BY <1>4, <3>5 DEF Creating
    <3>6. QED
      BY <3>2, <3>3, <3>4, <3>5
  <2>8. pc' # "idle" /\ OnlyWarp(pc, plan) => OnlyWarp(pc', plan')
    BY <1>2, FirstSteps DEF OnlyWarp, First, InSetup
  <2>9. QED
    BY <1>2, <1>4, <1>8, <1>4a, <2>2, <2>4, <2>6, <2>7, <2>8 DEF Over, CreatingFollows, UserCommands
<1>9. QED
  BY <1>1, <1>5, <1>6, <1>7, <1>8 DEF At, CommandNames

Leads ==
  /\ job'.cmd = job.cmd
  /\ pc' # "idle" => job'.user = job.user /\ job'.pass = job.pass
  /\ CreatingFollows
  /\ pc = "account" => pc' = "save" \/ (pc' = "account" /\ job.cmd \notin {"edit_password", "install"})
  /\ pc = "unaccount" => pc' \in {"creds", "idle"}
  /\ pc = "default" => pc' = "save"
  /\ pc = "save" =>
       /\ job.cmd = "remove" => pc' = "conf" \/ (pc' = "idle" /\ ~mem.warp)
       /\ job.cmd \in {"add", "bulk_add", "edit_password"} => pc' = "creds"
       /\ job.cmd \in {"install", "wizard"} =>
            pc' \in {"account", "free", "idle"} \/ (pc' = "register" /\ job.cmd = "install")
  /\ pc = "saveFlag" => IF job.cmd = "warp" THEN pc' = "creds" ELSE pc' \in {"free", "idle"}
  /\ pc = "free" => pc' = "creds"
  /\ pc = "creds" => pc' = "reload"
  /\ pc = "create" => pc' = "restart"
  /\ pc \in {"reload", "restart", "bounce"} /\ ~(pc = "reload" /\ pc' = "create") =>
       /\ job.cmd = "remove" => pc' = "save"
       /\ job.cmd \in {"add", "bulk_add"} => pc' = "conf" \/ (pc' = "idle" /\ ~mem.warp)
       /\ job.cmd \in {"install", "wizard"} => pc' \in {"creds", "idle"}
       /\ job.cmd \in {"edit_password", "warp", "restart", "update"} => pc' = "idle"
  /\ pc = "conf" => (IsSetUp /\ pc' = "live") \/ (~IsSetUp /\ pc' = IF job.cmd = "warp" THEN "up" ELSE "idle")
  /\ pc = "live" => pc' = IF job.cmd = "warp" THEN "up" ELSE "idle"
  /\ pc = "register" => pc' = "socksUser"
  /\ pc = "socksUser" => pc' = "wgConf"
  /\ pc = "wgConf" => pc' = "wgUnit"
  /\ pc = "wgUnit" => IF job.cmd = "install" /\ mem.warp THEN pc' \in {"free", "idle"} ELSE pc' = "up"
  /\ pc \in {"up", "flush"} => pc' = "saveFlag"
  /\ pc = "down" => pc' = "flush"
  /\ pc = "services" => pc' = "uninstallWarp"
  /\ pc = "uninstallWarp" => pc' = "wipe"
  /\ pc = "wipe" => pc' = "idle"

\* What the steps do to the configuration and the accounts, ...
StoreDoes ==
  /\ pc \notin {"default", "save", "saveFlag", "wipe"} => file' = file
  /\ pc = "default" => file' = EmptyConfig
  /\ pc \in {"save", "saveFlag"} => file' = mem
  /\ pc = "wipe" => file' = Absent
  /\ pc \notin {"account", "unaccount", "up", "flush"} => mem' = mem
  /\ pc \notin {"account", "unaccount"} => account' = account
  /\ pc = "account" =>
       mem' = AddUser(mem, Current, job.pass) /\ account' = [account EXCEPT ![Current] = job.pass]
  /\ pc = "unaccount" =>
       \/ pc' = "idle" /\ UNCHANGED <<mem, account>>
       \/ /\ pc' = "creds" /\ mem' = [mem EXCEPT !.users[job.user] = NoPass]
          /\ account' = [account EXCEPT ![job.user] = NoPass]
  /\ pc = "up" => mem' = [mem EXCEPT !.warp = TRUE]
  /\ pc = "flush" => mem' = [mem EXCEPT !.warp = FALSE]

\* ... to the proxy, ...
ProxyDoes ==
  /\ pc \notin {"creds", "wipe"} => credsFile' = credsFile
  /\ pc # "creds" => runAs' = runAs
  /\ pc \notin {"create", "services"} => unit' = unit
  /\ pc \notin {"free", "reload", "restart", "bounce", "services"} => UNCHANGED <<server, session>>
  /\ pc = "creds" => credsFile' = CredsToWrite /\ runAs' = UserForProxy
  /\ pc = "wipe" => credsFile' = Absent
  /\ pc = "create" => unit' = Desired
  /\ pc = "services" => unit' = Absent /\ server' = Stopped
  /\ pc = "free" => server' \in {server, Waiting}
  /\ pc = "reload" => IF pc' = "create" THEN ~(UpToDate /\ ServerActive) /\ UNCHANGED <<server, session>>
                                        ELSE UpToDate /\ ServerActive /\ HangUp
  /\ pc \in {"restart", "bounce"} => server' = StartedAs(unit)

\* ... and to WARP.
WarpDoes ==
  /\ pc \notin {"conf", "wgConf", "uninstallWarp"} => wgConf' = wgConf
  /\ pc \notin {"wgUnit", "services"} => wgUnit' = wgUnit
  /\ pc \notin {"up", "down", "services"} => wgUp' = wgUp
  /\ pc \notin {"live", "up", "down", "flush", "services", "uninstallWarp"} => liveRules' = liveRules
  /\ pc \notin {"live", "wgUnit", "up", "down", "flush", "services", "uninstallWarp"} => publicRule' = publicRule
  /\ pc \notin {"socksUser", "uninstallWarp"} => socksAccount' = socksAccount
  /\ pc = "socksUser" => socksAccount' = TRUE
  /\ pc = "wgConf" \/ (pc = "conf" /\ pc' = "live") => wgConf' = UserUIDs(WithAccount(mem))
  /\ pc = "conf" /\ pc' # "live" => wgConf' = wgConf
  /\ pc = "wgUnit" => wgUnit' = TRUE
  /\ pc = "services" => wgUnit' = FALSE
  /\ pc = "up" => /\ wgUp' = TRUE /\ publicRule' = TRUE
                  /\ liveRules' = IF wgUp THEN liveRules ELSE liveRules \cup wgConf
  /\ pc \in {"down", "services"} => wgUp' = FALSE
  /\ pc = "live" => liveRules' = (IF wgUp THEN UserUIDs(WithAccount(mem)) ELSE liveRules)
  /\ pc \in {"live", "wgUnit"} => publicRule' = (publicRule \/ wgUp)
  /\ pc \in {"flush", "uninstallWarp"} => liveRules' = {} /\ publicRule' = FALSE
  /\ pc = "uninstallWarp" => wgConf' = NoConf

Does == Leads /\ StoreDoes /\ ProxyDoes /\ WarpDoes

\* A step within a part.
LEMMA InPart ==
  ASSUME <<pc, pc'>> \in WithinPart, plan' = plan, job' = job
  PROVE  CreatingFollows
BY DEF CreatingFollows, Creating, OnlyWarp, InSetup, WithinPart

LEMMA AccountDoes ==
  ASSUME IInv, AddSSHUser \/ RemoveSSHUser \/ (RemoveSSHUserFails /\ ~Fault)
  PROVE  Does
<1>1. CASE AddSSHUser
  <2>1. /\ pc = "account" /\ mem' = AddUser(mem, Current, job.pass) /\ account' = [account EXCEPT ![Current] = job.pass]
        /\ UNCHANGED <<proxyVars, warpVars, file, runAs>>
    BY <1>1 DEF AddSSHUser
  <2>2. StoreDoes /\ ProxyDoes /\ WarpDoes
    BY <2>1 DEF StoreDoes, ProxyDoes, WarpDoes, proxyVars, warpVars
  <2>3. Leads
    <3>1. CASE LastOne
      <4>1. Over /\ Whose
        BY <1>1, <2>1, <3>1, PartOver, StepOf DEF AddSSHUser
      <4>2. QED
        BY <2>1, <4>1 DEF Over, Whose, Leads, UserStep, InProxy, UserCommands
    <3>2. CASE ~LastOne
      <4>1. job' = [job EXCEPT !.todo = Tail(@), !.made = TRUE] /\ pc' = pc /\ plan' = plan
        BY <1>1, <3>2 DEF AddSSHUser, flow
      <4>2. /\ job'.cmd = job.cmd /\ job'.user = job.user /\ job'.pass = job.pass
        BY <4>1, Split DEF FlowFine, FlowTyped, Job
      <4>3. job.cmd \notin {"edit_password", "install"}
        BY <2>1, <3>2, CurrentTyped
      <4>4. CreatingFollows
        BY <2>1, <4>1, <4>3 DEF CreatingFollows, Creating
      <4>5. QED
        BY <2>1, <4>1, <4>2, <4>3, <4>4 DEF Leads
    <3>3. QED
      BY <3>1, <3>2
  <2>4. QED
    BY <2>2, <2>3 DEF Does
<1>2. CASE RemoveSSHUser
  <2>1. /\ pc = "unaccount" /\ account' = [account EXCEPT ![job.user] = NoPass]
        /\ mem' = [mem EXCEPT !.users[job.user] = NoPass] /\ Proceed
        /\ UNCHANGED <<proxyVars, warpVars, file, runAs>>
    BY <1>2 DEF RemoveSSHUser
  <2>2. Over /\ Whose
    BY <2>1, PartOver, StepOf
  <2>3. pc' = "creds" /\ job.cmd = "remove"
    BY <2>1, <2>2 DEF Over, Whose, CommandNames, UserStep, UserCommands, InProxy
  <2>4. Leads
    BY <2>1, <2>2, <2>3 DEF Leads, Over
  <2>5. StoreDoes /\ ProxyDoes /\ WarpDoes
    BY <2>1, <2>3 DEF StoreDoes, ProxyDoes, WarpDoes, proxyVars, warpVars
  <2>6. QED
    BY <2>4, <2>5 DEF Does
<1>3. CASE RemoveSSHUserFails /\ ~Fault
  <2>1. pc = "unaccount" /\ Return /\ UNCHANGED <<proxyVars, warpVars, storeVars, mem, runAs>>
    BY <1>3 DEF RemoveSSHUserFails
  <2>2. pc' = "idle" /\ plan' = <<>>
    BY <2>1, Split, Returning DEF FlowFine, FlowTyped
  <2>3. job'.cmd = job.cmd
    BY <2>1, Warned
  <2>4. Leads
    BY <2>1, <2>2, <2>3 DEF Leads, CreatingFollows, Creating
  <2>5. StoreDoes /\ ProxyDoes /\ WarpDoes
    BY <2>1, <2>2 DEF StoreDoes, ProxyDoes, WarpDoes, proxyVars, warpVars, storeVars
  <2>6. QED
    BY <2>4, <2>5 DEF Does
<1>4. QED
  BY <1>1, <1>2, <1>3

LEMMA SaveDoes ==
  ASSUME IInv, Save
  PROVE  Does
<1>1. /\ pc \in {"default", "save", "saveFlag"} /\ Proceed /\ file' = (IF pc = "default" THEN EmptyConfig ELSE mem)
      /\ UNCHANGED <<proxyVars, warpVars, account, mem, runAs>>
  BY DEF Save
<1>2. Over /\ Whose
  BY <1>1, PartOver, StepOf
<1>3. Leads
  BY <1>1, <1>2 DEF Leads, Over, Whose, UserStep, UserCommands, InProxy
<1>4. StoreDoes /\ ProxyDoes /\ WarpDoes
  BY <1>1 DEF StoreDoes, ProxyDoes, WarpDoes, proxyVars, warpVars
<1>5. QED
  BY <1>3, <1>4 DEF Does

LEMMA SetupSOCKSDoes ==
  ASSUME IInv, FreePort \/ WriteCreds \/ Reload \/ (NoReload /\ ~Fault) \/ CreateUnit \/ RestartProxy
  PROVE  Does
<1>1. CASE FreePort
  <2>1. /\ pc = "free" /\ Proceed /\ UNCHANGED <<credsFile, unit, warpVars, storeVars, mem, runAs>>
        /\ server' \in {server, Waiting}
    BY <1>1 DEF FreePort, EndServer
  <2>2. Over /\ Whose
    BY <2>1, PartOver, StepOf
  <2>3. Leads
    BY <2>1, <2>2 DEF Leads, Over, Whose
  <2>4. StoreDoes /\ ProxyDoes /\ WarpDoes
    BY <2>1 DEF StoreDoes, ProxyDoes, WarpDoes, warpVars, storeVars
  <2>5. QED
    BY <2>3, <2>4 DEF Does
<1>2. CASE WriteCreds
  <2>1. /\ pc = "creds" /\ pc' = "reload" /\ runAs' = UserForProxy /\ credsFile' = CredsToWrite
        /\ UNCHANGED <<unit, server, session, warpVars, storeVars, mem, plan, job>>
    BY <1>2 DEF WriteCreds
  <2>2. CreatingFollows
    BY <2>1, InPart DEF WithinPart
  <2>3. Leads
    BY <2>1, <2>2 DEF Leads
  <2>4. StoreDoes /\ ProxyDoes /\ WarpDoes
    BY <2>1 DEF StoreDoes, ProxyDoes, WarpDoes, warpVars, storeVars
  <2>5. QED
    BY <2>3, <2>4 DEF Does
<1>3. CASE Reload \/ RestartProxy
  <2>1. /\ pc \in {"reload", "restart", "bounce"} /\ Proceed
        /\ UNCHANGED <<credsFile, unit, warpVars, storeVars, mem, runAs>>
        /\ pc = "reload" => UpToDate /\ ServerActive /\ HangUp
        /\ pc \in {"restart", "bounce"} => server' = StartedAs(unit)
    BY <1>3 DEF Reload, RestartProxy, RestartServer
  <2>2. Over /\ Whose
    BY <2>1, PartOver, StepOf
  <2>3. pc' # "create"
    BY <2>1, <2>2 DEF Over, Whose, CommandNames, UserStep, UserCommands, InProxy
  <2>4. Leads
    BY <2>1, <2>2, <2>3 DEF Leads, Over, Whose, UserStep, UserCommands, InProxy
  <2>5. StoreDoes /\ ProxyDoes /\ WarpDoes
    BY <2>1, <2>3 DEF StoreDoes, ProxyDoes, WarpDoes, warpVars, storeVars
  <2>6. QED
    BY <2>4, <2>5 DEF Does
<1>4. CASE NoReload /\ ~Fault
  <2>1. /\ pc = "reload" /\ pc' = "create" /\ ~(UpToDate /\ ServerActive)
        /\ UNCHANGED <<proxyVars, warpVars, storeVars, mem, runAs, plan, job>>
    BY <1>4 DEF NoReload
  <2>2. CreatingFollows
    BY <2>1, InPart DEF WithinPart
  <2>3. Leads
    BY <2>1, <2>2 DEF Leads
  <2>4. StoreDoes /\ ProxyDoes /\ WarpDoes
    BY <2>1 DEF StoreDoes, ProxyDoes, WarpDoes, warpVars, storeVars, proxyVars
  <2>5. QED
    BY <2>3, <2>4 DEF Does
<1>5. CASE CreateUnit
  <2>1. /\ pc = "create" /\ pc' = "restart" /\ unit' = Desired
        /\ UNCHANGED <<credsFile, server, session, warpVars, storeVars, mem, runAs, plan, job>>
    BY <1>5 DEF CreateUnit
  <2>2. CreatingFollows
    BY <2>1, InPart DEF WithinPart
  <2>3. Leads
    BY <2>1, <2>2 DEF Leads
  <2>4. StoreDoes /\ ProxyDoes /\ WarpDoes
    BY <2>1 DEF StoreDoes, ProxyDoes, WarpDoes, warpVars, storeVars
  <2>5. QED
    BY <2>3, <2>4 DEF Does
<1>6. QED
  BY <1>1, <1>2, <1>3, <1>4, <1>5

LEMMA RefreshDoes ==
  ASSUME IInv, GenerateConf \/ SyncLiveRules
  PROVE  Does
<1>1. CASE GenerateConf /\ IsSetUp
  <2>1. /\ pc = "conf" /\ pc' = "live" /\ wgConf' = UserUIDs(WithAccount(mem))
        /\ UNCHANGED <<wgUnit, wgUp, liveRules, publicRule, socksAccount, proxyVars, storeVars, mem, runAs, plan, job>>
    BY <1>1 DEF GenerateConf, WriteConf
  <2>2. CreatingFollows
    BY <2>1, InPart DEF WithinPart
  <2>3. Leads
    BY <1>1, <2>1, <2>2 DEF Leads
  <2>4. StoreDoes /\ ProxyDoes /\ WarpDoes
    BY <2>1 DEF StoreDoes, ProxyDoes, WarpDoes, proxyVars, storeVars
  <2>5. QED
    BY <2>3, <2>4 DEF Does
<1>2. CASE GenerateConf /\ ~IsSetUp
  <2>1. /\ pc = "conf" /\ Proceed /\ UNCHANGED <<warpVars, proxyVars, storeVars, mem, runAs>>
    BY <1>2 DEF GenerateConf, SameWarp
  <2>2. Over /\ Whose
    BY <2>1, PartOver, StepOf
  <2>3. pc' = IF job.cmd = "warp" THEN "up" ELSE "idle"
    BY <2>1, <2>2 DEF Over, Whose, UserStep, InProxy
  <2>4. Leads
    BY <1>2, <2>1, <2>2, <2>3 DEF Leads, Over
  <2>5. StoreDoes /\ ProxyDoes /\ WarpDoes
    BY <2>1, <2>3 DEF StoreDoes, ProxyDoes, WarpDoes, proxyVars, storeVars, warpVars
  <2>6. QED
    BY <2>4, <2>5 DEF Does
<1>3. CASE SyncLiveRules
  <2>1. /\ pc = "live" /\ Proceed /\ UNCHANGED <<wgConf, wgUnit, wgUp, socksAccount, proxyVars, storeVars, mem, runAs>>
        /\ liveRules' = (IF wgUp THEN UserUIDs(WithAccount(mem)) ELSE liveRules) /\ publicRule' = (publicRule \/ wgUp)
    BY <1>3 DEF SyncLiveRules, SyncRules
  <2>2. Over /\ Whose
    BY <2>1, PartOver, StepOf
  <2>3. pc' = IF job.cmd = "warp" THEN "up" ELSE "idle"
    BY <2>1, <2>2 DEF Over, Whose, UserStep, InProxy
  <2>4. Leads
    BY <2>1, <2>2, <2>3 DEF Leads, Over
  <2>5. StoreDoes /\ ProxyDoes /\ WarpDoes
    BY <2>1, <2>3 DEF StoreDoes, ProxyDoes, WarpDoes, proxyVars, storeVars
  <2>6. QED
    BY <2>4, <2>5 DEF Does
<1>4. QED
  BY <1>1, <1>2, <1>3

LEMMA SetupDoes ==
  ASSUME IInv, SetupStep \/ SetupEnds
  PROVE  Does
<1>1. CASE SetupStep
  <2>1. /\ pc \in {"register", "socksUser", "wgConf"}
        /\ pc = "register" => pc' = "socksUser"
        /\ pc = "socksUser" => pc' = "wgConf"
        /\ pc = "wgConf" => pc' = "wgUnit" /\ wgConf' = UserUIDs(WithAccount(mem))
        /\ pc # "wgConf" => wgConf' = wgConf
        /\ IF pc = "socksUser" THEN socksAccount' = TRUE ELSE socksAccount' = socksAccount
        /\ UNCHANGED <<wgUnit, wgUp, liveRules, publicRule, proxyVars, storeVars, mem, runAs, plan, job>>
    BY <1>1 DEF SetupStep, Goto, SameWarp, WriteConf, warpVars
  <2>2. CreatingFollows
    BY <2>1, InPart DEF WithinPart
  <2>3. Leads
    BY <2>1, <2>2 DEF Leads
  <2>4. StoreDoes /\ ProxyDoes /\ WarpDoes
    BY <2>1 DEF StoreDoes, ProxyDoes, WarpDoes, proxyVars, storeVars
  <2>5. QED
    BY <2>3, <2>4 DEF Does
<1>2. CASE SetupEnds
  <2>1. /\ pc = "wgUnit" /\ wgUnit' = TRUE /\ publicRule' = (publicRule \/ wgUp)
        /\ UNCHANGED <<wgConf, wgUp, liveRules, socksAccount, proxyVars, storeVars, mem, runAs>>
        /\ IF job.cmd = "install" /\ mem.warp THEN Proceed ELSE pc' = "up" /\ UNCHANGED <<plan, job>>
    BY <1>2 DEF SetupEnds
  <2>2. Leads
    <3>1. CASE job.cmd = "install" /\ mem.warp /\ Proceed
      <4>1. Over
        BY <2>1, <3>1, PartOver
      <4>2. QED
        BY <2>1, <3>1, <4>1 DEF Leads, Over, InSetup
    <3>2. CASE ~(job.cmd = "install" /\ mem.warp) /\ pc' = "up" /\ UNCHANGED <<plan, job>>
      <4>1. CreatingFollows
        BY <2>1, <3>2, InPart DEF WithinPart
      <4>2. QED
        BY <2>1, <3>2, <4>1 DEF Leads
    <3>3. QED
      BY <2>1, <3>1, <3>2
  <2>3. StoreDoes /\ ProxyDoes /\ WarpDoes
    BY <2>1 DEF StoreDoes, ProxyDoes, WarpDoes, proxyVars, storeVars
  <2>4. QED
    BY <2>2, <2>3 DEF Does
<1>3. QED
  BY <1>1, <1>2

LEMMA SwitchDoes ==
  ASSUME IInv, Enable \/ ((StopWarp \/ FlushRoutingRules) /\ ~Fault)
  PROVE  Does
<1>1. CASE Enable
  <2>1. /\ pc = "up" /\ pc' = "saveFlag" /\ mem' = [mem EXCEPT !.warp = TRUE]
        /\ wgUp' = TRUE /\ publicRule' = TRUE /\ liveRules' = (IF wgUp THEN liveRules ELSE liveRules \cup wgConf)
        /\ UNCHANGED <<proxyVars, wgConf, wgUnit, socksAccount, storeVars, runAs, plan, job>>
    <3>1. wgUp => wgUp' = TRUE
      BY <1>1, Split DEF Enable, WarpTyped
    <3>2. QED
      BY <1>1, <3>1 DEF Enable, WgQuickUp
  <2>2. CreatingFollows
    BY <2>1, InPart DEF WithinPart
  <2>3. Leads
    BY <2>1, <2>2 DEF Leads
  <2>4. StoreDoes /\ ProxyDoes /\ WarpDoes
    BY <2>1 DEF StoreDoes, ProxyDoes, WarpDoes, proxyVars, storeVars
  <2>5. QED
    BY <2>3, <2>4 DEF Does
<1>2. CASE StopWarp /\ ~Fault
  <2>1. /\ pc = "down" /\ pc' = "flush" /\ wgUp' = FALSE
        /\ UNCHANGED <<proxyVars, wgConf, wgUnit, socksAccount, storeVars, mem, runAs, plan, job>>
    BY <1>2 DEF StopWarp, WgQuickDown
  <2>2. CreatingFollows
    BY <2>1, InPart DEF WithinPart
  <2>3. Leads
    BY <2>1, <2>2 DEF Leads
  <2>4. StoreDoes /\ ProxyDoes /\ WarpDoes
    BY <2>1 DEF StoreDoes, ProxyDoes, WarpDoes, proxyVars, storeVars
  <2>5. QED
    BY <2>3, <2>4 DEF Does
<1>3. CASE FlushRoutingRules /\ ~Fault
  <2>1. /\ pc = "flush" /\ Proceed /\ mem' = [mem EXCEPT !.warp = FALSE] /\ liveRules' = {} /\ publicRule' = FALSE
        /\ UNCHANGED <<proxyVars, wgConf, wgUnit, wgUp, socksAccount, storeVars, runAs>>
    BY <1>3 DEF FlushRoutingRules, FlushRules
  <2>2. Over /\ Whose
    BY <2>1, PartOver, StepOf
  <2>3. Leads
    BY <2>1, <2>2 DEF Leads, Over, Whose
  <2>4. StoreDoes /\ ProxyDoes /\ WarpDoes
    BY <2>1 DEF StoreDoes, ProxyDoes, WarpDoes, proxyVars, storeVars
  <2>5. QED
    BY <2>3, <2>4 DEF Does
<1>4. QED
  BY <1>1, <1>2, <1>3

LEMMA UninstallDoes ==
  ASSUME IInv, Uninstall
  PROVE  Does
<1>1. CASE StopServices
  <2>1. /\ pc = "services" /\ pc' = "uninstallWarp" /\ server' = Stopped /\ unit' = Absent
        /\ wgUnit' = FALSE /\ wgUp' = FALSE
        /\ UNCHANGED <<wgConf, socksAccount, credsFile, storeVars, mem, runAs, plan, job>>
    BY <1>1 DEF StopServices, EndServer, Goto, WgQuickDown
  <2>2. CreatingFollows
    BY <2>1, InPart DEF WithinPart
  <2>3. Leads
    BY <2>1, <2>2 DEF Leads
  <2>4. StoreDoes /\ ProxyDoes /\ WarpDoes
    BY <2>1 DEF StoreDoes, ProxyDoes, WarpDoes, storeVars
  <2>5. QED
    BY <2>3, <2>4 DEF Does
<1>2. CASE UninstallWarp
  <2>1. /\ pc = "uninstallWarp" /\ pc' = "wipe" /\ liveRules' = {} /\ publicRule' = FALSE /\ wgConf' = NoConf
        /\ UNCHANGED <<proxyVars, wgUnit, wgUp, storeVars, mem, runAs, plan, job>>
    BY <1>2 DEF UninstallWarp, FlushRules, Goto
  <2>2. CreatingFollows
    BY <2>1, InPart DEF WithinPart
  <2>3. Leads
    BY <2>1, <2>2 DEF Leads
  <2>4. StoreDoes /\ ProxyDoes /\ WarpDoes
    BY <2>1 DEF StoreDoes, ProxyDoes, WarpDoes, proxyVars, storeVars
  <2>5. QED
    BY <2>3, <2>4 DEF Does
<1>3. CASE RemoveConfigDir
  <2>1. /\ pc = "wipe" /\ file' = Absent /\ credsFile' = Absent /\ Proceed
        /\ UNCHANGED <<unit, server, session, warpVars, account, mem, runAs>>
    BY <1>3 DEF RemoveConfigDir
  <2>2. Over /\ Whose
    BY <2>1, PartOver, StepOf
  <2>3. Leads
    BY <2>1, <2>2 DEF Leads, Over, Whose
  <2>4. StoreDoes /\ ProxyDoes /\ WarpDoes
    BY <2>1 DEF StoreDoes, ProxyDoes, WarpDoes, warpVars
  <2>5. QED
    BY <2>3, <2>4 DEF Does
<1>4. QED
  BY <1>1, <1>2, <1>3 DEF Uninstall

LEMMA NoFaults ==
  ASSUME IInv, faults = 0, faults' = 0
  PROVE  ~Fault
BY DEF Fault

\* Without a fault wg-quick does not fail: the kernel has no rule while WARP is off.
LEMMA EnableSucceeds ==
  ASSUME IInv, WarpFollows, ~Fault
  PROVE  ~EnableFails
<1>1. pc = "up" /\ ~wgUp => CanStart
  BY DEF WarpFollows, CanStart
<1>2. QED
  BY <1>1 DEF EnableFails, WgQuickUpFails

LEMMA OperatorDoes ==
  ASSUME IInv, WarpFollows, faults = 0, faults' = 0, Operator
  PROVE  Does /\ pc # "idle"
<1>1. ~Fault
  BY NoFaults
<1>2. Does
  <2>1. CASE AccountStep
    BY <1>1, <2>1, AccountDoes, SaveDoes DEF AccountStep, AddSSHUserFails, SaveFails
  <2>2. CASE SetupSOCKS
    BY <1>1, <2>2, SetupSOCKSDoes DEF SetupSOCKS, WriteCredsFails, CreateUnitFails, RestartProxyFails
  <2>3. CASE Routing
    BY <1>1, <2>3, RefreshDoes, SetupDoes, SwitchDoes, EnableSucceeds
    DEF Routing, GenerateConfFails, SyncLiveRulesFails, SetupFails
  <2>4. CASE Uninstall
    BY <2>4, UninstallDoes
  <2>5. QED
    BY <2>1, <2>2, <2>3, <2>4 DEF Operator
<1>3. pc # "idle"
  <2>1. CASE AccountStep
    BY <2>1 DEF AccountStep, AddSSHUser, AddSSHUserFails, RemoveSSHUser, RemoveSSHUserFails, Save, SaveFails
  <2>2. CASE SetupSOCKS
    BY <2>2 DEF SetupSOCKS, FreePort, WriteCreds, WriteCredsFails, Reload, NoReload, CreateUnit, CreateUnitFails,
       RestartProxy, RestartProxyFails
  <2>3. CASE Routing
    BY <2>3 DEF Routing, GenerateConf, GenerateConfFails, SyncLiveRules, SyncLiveRulesFails, SetupStep, SetupEnds,
       SetupFails, Enable, EnableFails, StopWarp, FlushRoutingRules
  <2>4. CASE Uninstall
    BY <2>4 DEF Uninstall, StopServices, UninstallWarp, RemoveConfigDir
  <2>5. QED
    BY <1>1, <2>1, <2>2, <2>3, <2>4 DEF Operator
<1>4. QED
  BY <1>2, <1>3

-------------------------------------------------------------------------------
(***************************************************************************)
(* The copies follow each other at every step of a handler                 *)
(***************************************************************************)
LEMMA Here ==
  ASSUME IInv, pc # "idle"
  PROVE  /\ Whose /\ mem \in Config /\ mem # Absent /\ EmptyConfig \in Config /\ EmptyConfig # Absent
         /\ pc \in Steps
<1>1. EmptyConfig \in Config
  BY DEF EmptyConfig, Config, NoCreds, Creds
<1>2. QED
  BY <1>1, StepOf, Split, AbsentIsNoConfig DEF StoreTyped, FlowFine, FlowTyped

LEMMA FileMoves ==
  ASSUME IInv, FileFollows, pc # "idle", Does
  PROVE  FileFollows'
<1>1. Leads /\ StoreDoes /\ Whose /\ mem # Absent /\ EmptyConfig # Absent
  BY Here DEF Does
<1>2. file # Absent \/ pc = "default"
  BY DEF FileFollows
<1>3. CASE pc \in {"default", "save", "saveFlag"}
  <2>1. mem' = mem /\ file' # Absent /\ pc' # "default" /\ job'.cmd = job.cmd /\ job.cmd # "uninstall"
    BY <1>1, <1>3 DEF Leads, StoreDoes, Whose, UserCommands
  <2>2. pc # "default" => file' = mem'
    BY <1>1, <1>3 DEF StoreDoes
  <2>3. pc = "default" => pc' \in Unsaved(job.cmd)
    BY <1>1 DEF Leads, Whose, Unsaved
  <2>4. QED
    BY <1>3, <2>1, <2>2, <2>3 DEF FileFollows
<1>4. CASE pc = "wipe"
  BY <1>1, <1>4 DEF FileFollows, Leads, StoreDoes, Whose
<1>5. CASE pc \in {"account", "unaccount", "up", "flush"}
  <2>1. /\ file' = file /\ file # Absent /\ job'.cmd = job.cmd
        /\ pc' \in Unsaved(job.cmd) \/ (pc' = "idle" /\ mem' = mem /\ job.cmd = "remove")
        /\ pc' # "default" /\ job.cmd # "uninstall"
    BY <1>1, <1>2, <1>5 DEF Leads, StoreDoes, Whose, Unsaved, UserCommands, InProxy
  <2>2. pc = "unaccount" => file = mem
    BY <1>1, <1>2 DEF FileFollows, Whose, Unsaved, InProxy
  <2>3. pc' \notin Unsaved(job.cmd) => pc = "unaccount" /\ mem' = mem
    BY <1>1, <1>5, <2>1 DEF Leads, Whose, UserCommands
  <2>4. QED
    BY <2>1, <2>2, <2>3 DEF FileFollows
<1>6. CASE pc \notin {"default", "save", "saveFlag", "wipe", "account", "unaccount", "up", "flush"}
  <2>1. file' = file /\ file # Absent /\ mem' = mem /\ job'.cmd = job.cmd
    BY <1>1, <1>2, <1>6 DEF StoreDoes, Leads
  <2>2. pc' # "default"
    BY <1>1, <1>6, Here, AllSteps DEF Leads, Whose, UserCommands, InProxy, CommandNames
  <2>3. pc \in Unsaved(job.cmd) => pc' \in Unsaved(job.cmd)
    BY <1>1, <1>6 DEF Unsaved, Leads, Whose, InProxy
  <2>4. job'.cmd = "uninstall" /\ pc' # "idle" => mem' = EmptyConfig
    BY <2>1 DEF FileFollows
  <2>5. QED
    BY <2>1, <2>2, <2>3, <2>4 DEF FileFollows
<1>7. QED
  BY <1>3, <1>4, <1>5, <1>6

LEMMA FreshHostMoves ==
  ASSUME IInv, FileFollows, FreshHost, UserFollows, pc # "idle", Does
  PROVE  FreshHost'
<1>1. Leads /\ StoreDoes /\ ProxyDoes /\ Whose /\ CreatingFollows /\ mem # Absent /\ EmptyConfig # Absent
  BY Here DEF Does, Leads
<1>2. CASE pc \in {"creds", "create", "services"}
  <2>1. file' # Absent
    BY <1>1, <1>2 DEF StoreDoes, FileFollows
  <2>2. ~Creating(pc', plan') /\ pc' \notin {"save", "up"} \cup InSetup
    BY <1>1, <1>2 DEF Leads, Creating, InSetup
  <2>3. QED
    BY <2>1, <2>2 DEF FreshHost, EnablesWarp
<1>3. CASE pc = "wipe"
  BY <1>1, <1>3 DEF Leads, StoreDoes, ProxyDoes, FreshHost, EnablesWarp, InSetup, UserFollows
<1>4. CASE pc \notin {"creds", "create", "services", "wipe"}
  <2>1. credsFile' = credsFile /\ unit' = unit /\ job'.cmd = job.cmd
    BY <1>1, <1>4 DEF ProxyDoes, Leads
  <2>2. file' = Absent => file = Absent
    BY <1>1, <1>4 DEF StoreDoes
  <2>3. Creating(pc', plan') => Creating(pc, plan)
    BY <1>1 DEF CreatingFollows
  <2>4. job.cmd = "install" /\ EnablesWarp(pc, plan)' => pc \in {"default", "account"} \/ EnablesWarp(pc, plan)
    <3>1. job.cmd = "install" => /\ pc' = "save" => pc \in {"default", "account"}
                                 /\ pc' = "up" => pc = "wgUnit" /\ ~mem.warp
                                 /\ pc' \in InSetup => pc \in InSetup \/ (pc = "save" /\ First(plan, "setup"))
      BY <1>1, <1>4, Here, AllSteps DEF Leads, CreatingFollows, Whose, InSetup, InProxy, UserCommands
    <3>2. pc' \in InSetup => mem'.warp = mem.warp
      BY <1>1, <1>4, Here DEF Leads, StoreDoes, AddUser, Config, InSetup
    <3>3. QED
      BY <3>1, <3>2 DEF EnablesWarp, InSetup
  <2>5. pc = "account" => Creating(pc, plan)
    BY DEF Creating
  <2>6. pc = "default" => file = Absent
    BY DEF FileFollows
  <2>7. QED
    BY <2>1, <2>2, <2>3, <2>4, <2>5, <2>6 DEF FreshHost
<1>5. QED
  BY <1>2, <1>3, <1>4

LEMMA FreshRulesMoves ==
  ASSUME IInv, FileFollows, FreshRules, WarpFollows, pc # "idle", Does
  PROVE  FreshRules'
<1>1. Leads /\ StoreDoes /\ WarpDoes /\ Whose /\ mem # Absent /\ EmptyConfig # Absent
  BY Here DEF Does
<1>2. CASE pc \in {"up", "down", "flush"}
  <2>1. pc' \in {"saveFlag", "flush"} /\ job'.cmd \in {"install", "warp"}
    BY <1>1, <1>2 DEF Leads, Whose
  <2>2. QED
    BY <2>1 DEF FreshRules, Creating
<1>3. CASE pc = "services"
  BY <1>1, <1>3 DEF Leads, Whose, FreshRules
<1>4. CASE pc = "wipe"
  <2>1. mem' = EmptyConfig /\ wgUp' = wgUp /\ mem = EmptyConfig
    BY <1>1, <1>4 DEF StoreDoes, WarpDoes, FileFollows, Whose
  <2>2. ~EmptyConfig.warp
    BY DEF EmptyConfig
  <2>3. ~wgUp
    BY <1>4, <2>1, <2>2, Split DEF WarpFollows, WarpTyped
  <2>4. QED
    BY <2>1, <2>2, <2>3 DEF FreshRules
<1>5. CASE pc \notin {"up", "down", "flush", "services", "wipe"}
  <2>1. wgUp' = wgUp /\ mem'.warp = mem.warp /\ job'.cmd = job.cmd
    <3>1. mem'.warp = mem.warp
      BY <1>1, <1>5, Here DEF StoreDoes, AddUser, Config
    <3>2. QED
      BY <1>1, <1>5, <3>1 DEF WarpDoes, Leads
  <2>2. file' = Absent /\ pc' \in {"idle", "default"} => file = Absent
    BY <1>1, <1>5 DEF StoreDoes
  <2>3. Creating(pc', plan') => Creating(pc, plan)
    BY <1>1 DEF Leads, CreatingFollows
  <2>4. pc \in {"idle", "default"} \/ file # Absent
    BY DEF FileFollows
  <2>5. QED
    BY <2>1, <2>2, <2>3, <2>4 DEF FreshRules
<1>6. QED
  BY <1>2, <1>3, <1>4, <1>5

LEMMA FirstUserMoves ==
  ASSUME IInv, FirstUser, pc # "idle", Does
  PROVE  FirstUser'
<1>1. Leads /\ StoreDoes /\ Whose /\ CreatingFollows /\ mem \in Config
  BY Here DEF Does, Leads
<1> SUFFICES ASSUME job'.cmd = "install", pc' # "idle"
             PROVE  IF Creating(pc', plan') THEN mem'.users = NoCreds
                    ELSE mem'.users = CredsToWrite' \/ OnlyWarp(pc', plan')
  BY DEF FirstUser
<1>2. job.cmd = "install" /\ job'.user = job.user /\ job'.pass = job.pass
  BY <1>1 DEF Leads
<1>3. CredsToWrite' = CredsToWrite /\ CredsToWrite = [u \in Users |-> IF u = job.user THEN job.pass ELSE NoPass]
  BY <1>2 DEF CredsToWrite
<1>4. CASE pc = "account"
  <2>1. ~Creating(pc', plan') /\ mem.users = NoCreds
    BY <1>1, <1>2, <1>4 DEF CreatingFollows, FirstUser, Creating
  <2>2. mem' = [mem EXCEPT !.users[job.user] = job.pass]
    BY <1>1, <1>2, <1>4, CurrentTyped DEF StoreDoes, AddUser
  <2>3. mem'.users = [NoCreds EXCEPT ![job.user] = job.pass]
    BY <1>1, <2>1, <2>2 DEF Config
  <2>4. mem'.users = CredsToWrite
    BY <1>3, <2>3 DEF NoCreds
  <2>5. QED
    BY <1>3, <2>1, <2>4
<1>5. CASE pc # "account"
  <2>1. mem'.users = mem.users
    BY <1>1, <1>2, <1>5 DEF StoreDoes, Whose, Config
  <2>2. Creating(pc', plan') <=> Creating(pc, plan)
    BY <1>1, <1>2, <1>5 DEF CreatingFollows
  <2>3. OnlyWarp(pc, plan) => OnlyWarp(pc', plan')
    BY <1>1, <1>2 DEF CreatingFollows
  <2>4. QED
    BY <1>2, <1>3, <2>1, <2>2, <2>3 DEF FirstUser
<1>6. QED
  BY <1>4, <1>5

LEMMA CredsMove ==
  ASSUME IInv, FreshHost, FirstUser, CredsFollow, pc # "idle", Does
  PROVE  CredsFollow'
<1>1. Leads /\ StoreDoes /\ ProxyDoes /\ Whose /\ mem \in Config
  BY Here DEF Does
<1>2. CASE pc \in {"account", "unaccount"}
  <2>1. credsFile' = credsFile /\ job'.cmd = job.cmd
    BY <1>1, <1>2 DEF ProxyDoes, Leads
  <2>2. CASE job.cmd \in {"install", "wizard"}
    <3>1. credsFile = Absent
      BY <1>1, <1>2, <2>2 DEF FreshHost, Creating, Whose
    <3>2. QED
      BY <2>1, <3>1 DEF CredsFollow
  <2>3. CASE job.cmd \notin {"install", "wizard"}
    <3>1. \/ job.cmd \in {"add", "bulk_add", "edit_password"} /\ pc' \in {"account", "save"}
          \/ job.cmd = "remove" /\ (pc' = "creds" \/ mem' = mem)
      BY <1>1, <1>2, <2>3 DEF Leads, StoreDoes, Whose
    <3>2. CASE mem' = mem /\ pc = "unaccount" /\ job.cmd = "remove"
      BY <2>1, <3>2 DEF CredsFollow
    <3>3. QED
      BY <1>1, <1>2, <2>1, <3>1, <3>2 DEF CredsFollow, Whose
  <2>4. QED
    BY <2>2, <2>3
<1>3. CASE pc \in {"creds", "wipe"}
  <2>1. pc = "creds" => CredsToWrite = mem.users /\ mem' = mem
    <3>1. pc = "creds" => ~Creating(pc, plan) /\ ~OnlyWarp(pc, plan)
      BY DEF Creating, OnlyWarp, InSetup
    <3>2. QED
      BY <1>1, <3>1 DEF FirstUser, CredsToWrite, StoreDoes
  <2>2. credsFile' \in {Absent, mem'.users}
    BY <1>1, <1>3, <2>1 DEF ProxyDoes
  <2>3. QED
    BY <2>2 DEF CredsFollow
<1>4. CASE pc \notin {"account", "unaccount", "creds", "wipe"}
  <2>1. credsFile' = credsFile /\ mem'.users = mem.users /\ job'.cmd = job.cmd
    BY <1>1, <1>4 DEF ProxyDoes, Leads, StoreDoes, Config
  <2>2. job.cmd \in {"add", "bulk_add", "edit_password"} /\ pc = "save" => pc' = "creds"
    BY <1>1 DEF Leads
  <2>3. job.cmd = "uninstall" /\ pc \notin {"wipe"} => pc' # "idle"
    BY <1>1, Here, AllSteps DEF Leads, Whose, InProxy, InSetup, UserCommands
  <2>4. QED
    BY <1>4, <2>1, <2>2, <2>3 DEF CredsFollow
<1>5. QED
  BY <1>2, <1>3, <1>4

\* The account that setupSOCKSMulti chooses is the one WARP's flag asks for.
LEMMA ProxyUser ==
  ASSUME IInv, FreshRules, FirstUser, UserFollows, pc = "creds"
  PROVE  UserForProxy = ExpectedUser(mem) /\ CredsToWrite = mem.users
<1>1. Whose /\ runAs \in {"slipgate", "slipgate-socks"}
  BY Here, Split DEF StoreTyped
<1>2. job.cmd = "wizard" => ~mem.warp
  BY DEF FreshRules
<1>3. ~mem.warp /\ job.cmd # "warp" => runAs = "slipgate"
  BY <1>1 DEF UserFollows, Whose, InProxy
<1>4. UserForProxy = ExpectedUser(mem)
  BY <1>1, <1>2, <1>3 DEF UserForProxy, ExpectedUser
<1>5. CredsToWrite = mem.users
  BY DEF FirstUser, CredsToWrite, Creating, OnlyWarp, InSetup
<1>6. QED
  BY <1>4, <1>5

LEMMA UserMoves ==
  ASSUME IInv, FreshHost, FreshRules, FirstUser, UserFollows, pc # "idle", Does
  PROVE  UserFollows'
<1>1. Leads /\ StoreDoes /\ ProxyDoes /\ Whose /\ mem \in Config
  BY Here DEF Does
<1>2. mem.users # Absent
  BY <1>1, SocksProxyAssumption DEF Config
<1>3. CASE pc = "creds"
  <2>1. /\ pc' = "reload" /\ mem' = mem /\ unit' = unit /\ job'.cmd = job.cmd
        /\ runAs' = ExpectedUser(mem) /\ credsFile' = mem.users
    BY <1>1, <1>3, ProxyUser DEF Leads, StoreDoes, ProxyDoes
  <2>2. QED
    BY <1>2, <1>3, <2>1 DEF UserFollows, ExpectedUser
<1>4. CASE pc = "create"
  <2>1. /\ pc' = "restart" /\ mem' = mem /\ unit'.user = runAs /\ job'.cmd = job.cmd
        /\ runAs' = runAs /\ credsFile' = credsFile
    BY <1>1, <1>4 DEF Leads, StoreDoes, ProxyDoes, Desired
  <2>2. QED
    BY <1>2, <1>4, <2>1 DEF UserFollows
<1>5. CASE pc = "services"
  BY <1>1, <1>5 DEF Leads, StoreDoes, ProxyDoes, Whose, UserFollows
<1>6. CASE pc = "wipe"
  BY <1>1, <1>6 DEF Leads, StoreDoes, ProxyDoes, Whose, UserFollows
<1>7. CASE pc \in {"up", "flush"}
  <2>1. /\ pc' = "saveFlag" /\ unit' = unit /\ job'.cmd = job.cmd /\ job.cmd \in {"install", "warp"}
        /\ runAs' = runAs /\ credsFile' = credsFile
        /\ pc = "flush" => job.cmd = "warp"
        /\ pc = "up" => mem'.warp = TRUE
    BY <1>1, <1>7 DEF Leads, StoreDoes, ProxyDoes, Whose, Config
  <2>2. job.cmd = "install" => unit = Absent
    BY <1>7, <2>1 DEF FreshHost, EnablesWarp
  <2>3. QED
    BY <1>7, <2>1, <2>2 DEF UserFollows
<1>8. CASE pc \notin {"creds", "create", "services", "wipe", "up", "flush"}
  <2>1. /\ mem'.warp = mem.warp /\ unit' = unit /\ job'.cmd = job.cmd /\ runAs' = runAs /\ credsFile' = credsFile
        /\ ExpectedUser(mem') = ExpectedUser(mem)
    BY <1>1, <1>8 DEF Leads, StoreDoes, ProxyDoes, AddUser, Config, ExpectedUser
  <2>2. job.cmd = "warp" /\ pc = "saveFlag" => pc' = "creds"
    BY <1>1 DEF Leads
  <2>3. pc = "reload" => mem' = mem /\ (pc' = "create" \/ unit.user = runAs)
    BY <1>1 DEF StoreDoes, ProxyDoes, UpToDate, Desired
  <2>4. pc' \in {"reload", "create", "restart"} => pc = "reload" /\ pc' = "create"
    BY <1>1, <1>8, Here, AllSteps DEF Leads, Whose, InSetup, InProxy, UserCommands, CommandNames
  <2>5. pc' \in {"uninstallWarp", "wipe"} => pc = "uninstallWarp"
    BY <1>1, <1>8, Here, AllSteps DEF Leads, Whose, InSetup, InProxy, UserCommands, CommandNames
  <2>6. QED
    BY <1>8, <2>1, <2>2, <2>3, <2>4, <2>5 DEF UserFollows
<1>9. QED
  BY <1>3, <1>4, <1>5, <1>6, <1>7, <1>8

LEMMA ServerMoves ==
  ASSUME IInv, ServerFollows, pc # "idle", Does
  PROVE  ServerFollows'
<1>1. Leads /\ ProxyDoes
  BY DEF Does
<1>2. /\ unit \in Unit \cup {Absent} /\ server \in Process /\ (ServerActive => unit # Absent)
      /\ pc \in {"bounce", "restart"} => unit # Absent
  BY Split DEF ProxyTyped, ProxyFine
<1>3. CASE pc = "create"
  BY <1>1, <1>3 DEF Leads, ServerFollows
<1>4. CASE pc \in {"restart", "bounce"}
  <2>1. unit' = unit /\ server'.state = "starting" /\ server'.as = unit
    BY <1>1, <1>2, <1>4, Processes DEF ProxyDoes
  <2>2. QED
    BY <2>1 DEF ServerFollows
<1>5. CASE pc = "services"
  <2>1. unit' = Absent /\ server'.state = "stopped"
    BY <1>1, <1>2, <1>5, Processes DEF ProxyDoes
  <2>2. QED
    BY <2>1 DEF ServerFollows, ServerActive
<1>6. CASE pc \notin {"create", "restart", "bounce", "services"}
  <2>1. unit' = unit /\ server' \in {server, Waiting, [server EXCEPT !.hup = TRUE]}
    BY <1>1, <1>6 DEF ProxyDoes, HangUp
  <2>2. CASE server' = Waiting
    <3>1. server'.state = "waiting"
      BY <1>2, <2>2, Processes
    <3>2. QED
      BY <3>1 DEF ServerFollows, ServerActive
  <2>3. CASE server' \in {server, [server EXCEPT !.hup = TRUE]}
    <3>1. server'.state = server.state /\ server'.as = server.as
      BY <1>2, <2>3 DEF Process
    <3>2. QED
      BY <1>6, <2>1, <3>1 DEF ServerFollows, ServerActive
  <2>4. QED
    BY <2>1, <2>2, <2>3
<1>7. QED
  BY <1>3, <1>4, <1>5, <1>6

\* The rules that are wanted depend on users, their accounts, and the proxy's account.
LEMMA SameUIDs ==
  ASSUME mem'.users = mem.users, UNCHANGED <<account, socksAccount>>
  PROVE  UserUIDs(WithAccount(mem))' = UserUIDs(WithAccount(mem))
BY DEF UserUIDs, WithAccount, UsersOf

LEMMA WarpMoves ==
  ASSUME IInv, FileFollows, FreshRules, WarpFollows, pc # "idle", Does
  PROVE  WarpFollows'
<1>1. Leads /\ StoreDoes /\ WarpDoes /\ Whose /\ mem \in Config
  BY Here DEF Does
<1>2. /\ wgUp \in BOOLEAN /\ wgUnit \in BOOLEAN /\ publicRule \in BOOLEAN
      /\ wgUnit \/ wgUp => IsSetUp
      /\ pc = "wgUnit" => IsSetUp
      /\ pc = "uninstallWarp" => ~wgUnit /\ ~wgUp
  BY Split DEF WarpTyped, WarpFine
<1>3. UserUIDs(WithAccount(mem)) # NoConf
  BY UIDsTyped
<1>4. CASE pc \in {"up", "down", "flush"}
  <2>1. CASE pc = "up"
    <3>1. /\ pc' = "saveFlag" /\ wgUp' = TRUE /\ mem'.warp = TRUE /\ publicRule' = TRUE /\ wgConf' = wgConf
          /\ wgUnit' = wgUnit /\ socksAccount' = socksAccount
      BY <1>1, <2>1 DEF Leads, StoreDoes, WarpDoes, Config
    <3>2. QED
      BY <2>1, <3>1 DEF WarpFollows, IsSetUp
  <2>2. CASE pc = "down"
    <3>1. /\ pc' = "flush" /\ wgUp' = FALSE /\ mem' = mem /\ wgConf' = wgConf /\ wgUnit' = wgUnit
          /\ socksAccount' = socksAccount
      BY <1>1, <2>2 DEF Leads, StoreDoes, WarpDoes
    <3>2. QED
      BY <2>2, <3>1 DEF WarpFollows, IsSetUp
  <2>3. CASE pc = "flush"
    <3>1. /\ pc' = "saveFlag" /\ wgUp' = wgUp /\ ~wgUp /\ mem'.warp = FALSE /\ liveRules' = {} /\ publicRule' = FALSE
          /\ wgConf' = wgConf /\ wgUnit' = wgUnit /\ socksAccount' = socksAccount
      BY <1>1, <2>3 DEF Leads, StoreDoes, WarpDoes, Config, WarpFollows
    <3>2. mem'.warp = wgUp'
      BY <1>2, <3>1
    <3>3. QED
      BY <2>3, <3>1, <3>2 DEF WarpFollows, IsSetUp
  <2>4. QED
    BY <1>4, <2>1, <2>2, <2>3
<1>5. CASE pc \in {"services", "uninstallWarp"}
  <2>1. mem' = mem /\ mem.warp = FALSE /\ wgUp' = FALSE
    <3>1. mem = EmptyConfig
      BY <1>1, <1>5 DEF FileFollows, Whose
    <3>2. QED
      BY <1>1, <1>2, <1>5, <3>1 DEF StoreDoes, WarpDoes, EmptyConfig
  <2>2. CASE pc = "services"
    <3>1. pc' = "uninstallWarp" /\ wgConf' = wgConf /\ socksAccount' = socksAccount
      BY <1>1, <2>2 DEF Leads, WarpDoes
    <3>2. QED
      BY <2>1, <2>2, <3>1 DEF WarpFollows, IsSetUp
  <2>3. CASE pc = "uninstallWarp"
    <3>1. pc' = "wipe" /\ liveRules' = {} /\ publicRule' = FALSE /\ wgConf' = NoConf
      BY <1>1, <2>3 DEF Leads, WarpDoes
    <3>2. QED
      BY <2>1, <3>1 DEF WarpFollows, IsSetUp
  <2>4. QED
    BY <1>5, <2>2, <2>3
<1>6. CASE pc \notin {"up", "down", "flush", "services", "uninstallWarp"}
  <2>1. wgUp' = wgUp /\ mem'.warp = mem.warp /\ job'.cmd = job.cmd
    BY <1>1, <1>6 DEF Leads, StoreDoes, WarpDoes, AddUser, Config
  <2>2. pc' \notin {"flush", "services", "uninstallWarp", "down"}
    BY <1>1, <1>6, Here, AllSteps DEF Leads, Whose, InSetup, InProxy, UserCommands, CommandNames
  <2>3. /\ wgUp' = mem'.warp
        /\ wgUp' => publicRule'
        /\ ~wgUp' => liveRules' = {} /\ ~publicRule'
    <3>1. wgUp = mem.warp /\ (wgUp => publicRule) /\ (~wgUp => liveRules = {} /\ ~publicRule)
      BY <1>2, <1>6, <1>1, Here DEF WarpFollows, Config
    <3>2. /\ publicRule' \in {publicRule, publicRule \/ wgUp}
          /\ ~wgUp => liveRules' = liveRules
      BY <1>1, <1>6 DEF WarpDoes
    <3>3. QED
      BY <1>2, <2>1, <3>1, <3>2
  <2>4. IsSetUp' => wgUnit' \/ pc' = "wgUnit"
    <3>1. CASE pc = "wgUnit"
      BY <1>1, <3>1 DEF WarpDoes
    <3>2. CASE pc = "wgConf"
      BY <1>1, <3>2 DEF Leads
    <3>3. CASE pc \notin {"wgUnit", "wgConf"}
      <4>1. wgUnit' = wgUnit /\ (IsSetUp => wgUnit)
        BY <1>1, <1>6, <3>3 DEF WarpDoes, WarpFollows
      <4>2. pc # "conf" => wgConf' = wgConf
        BY <1>1, <1>6, <3>3 DEF WarpDoes
      <4>3. CASE pc = "conf"
        BY <1>1, <4>1, <4>3 DEF WarpDoes, Leads, IsSetUp
      <4>4. QED
        BY <4>1, <4>2, <4>3 DEF IsSetUp
    <3>4. QED
      BY <3>1, <3>2, <3>3
  <2>5. pc' \in {"live", "up", "wgUnit"} => wgConf' = UserUIDs(WithAccount(mem))'
    <3>1. pc' \in {"live", "up", "wgUnit"} => pc \in {"conf", "live", "wgConf", "wgUnit"}
      BY <1>1, <1>6, Here, AllSteps DEF Leads, Whose, InSetup, InProxy, UserCommands, CommandNames
    <3>2. pc \in {"conf", "live", "wgConf", "wgUnit"} => UserUIDs(WithAccount(mem))' = UserUIDs(WithAccount(mem))
      BY <1>1, SameUIDs DEF StoreDoes, WarpDoes
    <3>3. ASSUME pc \in {"conf", "live", "wgConf", "wgUnit"}, pc' \in {"live", "up", "wgUnit"}
          PROVE  wgConf' = UserUIDs(WithAccount(mem))
      <4>1. CASE pc = "conf"
        <5>1. pc' = "live"
          BY <1>1, <3>3, <4>1 DEF Leads, WarpFollows, Whose, IsSetUp
        <5>2. QED
          BY <1>1, <4>1, <5>1 DEF WarpDoes
      <4>2. CASE pc = "wgConf"
        BY <1>1, <4>2 DEF WarpDoes
      <4>3. CASE pc \in {"live", "wgUnit"}
        BY <1>1, <4>3 DEF WarpDoes, WarpFollows
      <4>4. QED
        BY <3>3, <4>1, <4>2, <4>3
    <3>4. QED
      BY <3>1, <3>2, <3>3
  <2>6. pc' = "up" => wgUnit'
    <3>1. pc' = "up" => pc \in {"conf", "live", "wgUnit"}
      BY <1>1, <1>6, Here, AllSteps DEF Leads, Whose, InSetup, InProxy, UserCommands, CommandNames
    <3>2. CASE pc = "wgUnit"
      BY <1>1, <3>2 DEF WarpDoes
    <3>3. CASE pc = "live"
      BY <1>1, <1>3, <3>3 DEF WarpDoes, WarpFollows, IsSetUp
    <3>4. CASE pc = "conf"
      BY <1>1, <3>4 DEF Leads, WarpFollows
    <3>5. QED
      BY <3>1, <3>2, <3>3, <3>4
  <2>7. ~(pc' = "conf" /\ job'.cmd = "warp")
    BY <1>1, <1>6, Here, AllSteps DEF Leads, Whose, InSetup, InProxy, UserCommands, CommandNames
  <2>8. IsSetUp' \/ pc' = "wgConf" => socksAccount'
    <3>1. pc' = "wgConf" => pc = "socksUser"
      BY <1>1, <1>6, Here, AllSteps DEF Leads, Whose, InSetup, InProxy, UserCommands, CommandNames
    <3>2. CASE pc = "socksUser"
      BY <1>1, <3>2 DEF WarpDoes
    <3>3. CASE pc # "socksUser"
      <4>1. socksAccount' = socksAccount /\ (IsSetUp' => IsSetUp \/ pc = "wgConf")
        BY <1>1, <1>6, <3>3 DEF WarpDoes, Leads, IsSetUp
      <4>2. QED
        BY <3>1, <3>3, <4>1 DEF WarpFollows
    <3>4. QED
      BY <3>2, <3>3
  <2>9. QED
    BY <2>2, <2>3, <2>4, <2>5, <2>6, <2>7, <2>8 DEF WarpFollows
<1>7. QED
  BY <1>4, <1>5, <1>6

\* A user who gets an account gets the configured password.
LEMMA AccountsMove ==
  ASSUME IInv, AccountsFollow, pc # "idle", Does
  PROVE  AccountsFollow'
<1>1. StoreDoes /\ Whose /\ mem \in Config /\ account \in [Users -> Passwords \cup {NoPass, Locked}]
  BY Here, Split DEF Does, StoreTyped
<1>2. CASE pc = "account"
  BY <1>1, <1>2, CurrentTyped DEF StoreDoes, AccountsFollow, AddUser, UsersOf, Config, Creds
<1>3. CASE pc = "unaccount"
  <2>1. job.user \in Users
    BY <1>1, <1>3, Split DEF Whose, FlowFine, HandlerFine, UsersAt
  <2>2. QED
    BY <1>1, <1>3, <2>1 DEF StoreDoes, AccountsFollow, UsersOf, Config, Creds
<1>4. CASE pc \notin {"account", "unaccount"}
  <2>1. account' = account /\ mem'.users = mem.users
    BY <1>1, <1>4 DEF StoreDoes, Config
  <2>2. QED
    BY <2>1 DEF AccountsFollow, UsersOf
<1>5. QED
  BY <1>2, <1>3, <1>4

LEMMA EditsMove ==
  ASSUME IInv, EditsOne, pc # "idle", Does
  PROVE  EditsOne'
<1>1. Leads /\ StoreDoes /\ Whose /\ mem \in Config
  BY Here DEF Does
<1> SUFFICES ASSUME job'.cmd = "edit_password", pc' # "idle"
             PROVE  job'.user \in UsersOf(mem')
  BY DEF EditsOne, UsersOf
<1>2. job.cmd = "edit_password" /\ job'.user = job.user /\ job.user \in UsersOf(mem)
  BY <1>1 DEF Leads, EditsOne
<1>3. CASE pc = "account"
  <2>1. mem' = AddUser(mem, job.user, job.pass) /\ job.pass \in Passwords /\ NoPass \notin Passwords
    BY <1>1, <1>2, <1>3, CurrentTyped, SocksProxyAssumption DEF StoreDoes, Leads
  <2>2. QED
    BY <1>1, <1>2, <2>1 DEF AddUser, UsersOf, Config, Creds
<1>4. CASE pc # "account"
  <2>1. mem'.users = mem.users
    BY <1>1, <1>2, <1>4 DEF StoreDoes, Whose, Config
  <2>2. QED
    BY <1>2, <2>1 DEF UsersOf
<1>5. QED
  BY <1>3, <1>4

LEMMA RulesMove ==
  ASSUME IInv, FreshRules, WarpFollows, RulesFollow, AccountsFollow, EditsOne, pc # "idle", Does
  PROVE  RulesFollow'
<1>1. Leads /\ StoreDoes /\ WarpDoes /\ Whose /\ mem \in Config
  BY Here DEF Does
<1>2. /\ wgUp \in BOOLEAN /\ (pc = "uninstallWarp" => ~wgUp)
  BY Split DEF WarpTyped, WarpFine
<1>3. CASE pc = "account"
  <2>1. wgUp' = wgUp /\ liveRules' = liveRules /\ job'.cmd = job.cmd
    BY <1>1, <1>3 DEF WarpDoes, Leads
  <2>2. CASE job.cmd \in {"add", "bulk_add"}
    BY <1>1, <1>3, <2>1, <2>2 DEF Leads, RulesFollow
  <2>3. CASE job.cmd \in {"install", "wizard"}
    BY <1>1, <1>3, <2>1, <2>3 DEF RulesFollow, FreshRules, Creating
  <2>4. CASE job.cmd = "edit_password"
    <3>1. /\ job.user \in Users /\ mem.users[job.user] # NoPass /\ account[job.user] = mem.users[job.user]
          /\ job.pass \in Passwords /\ NoPass \notin Passwords
          /\ mem' = AddUser(mem, job.user, job.pass) /\ account' = [account EXCEPT ![job.user] = job.pass]
          /\ account \in [Users -> Passwords \cup {NoPass, Locked}]
      BY <1>1, <1>3, <2>4, CurrentTyped, SocksProxyAssumption, Split
      DEF EditsOne, AccountsFollow, UsersOf, StoreDoes, StoreTyped
    <3>2. /\ \A u \in Users : (mem'.users[u] # NoPass /\ account'[u] # NoPass)
                                <=> (mem.users[u] # NoPass /\ account[u] # NoPass)
      BY <1>1, <3>1 DEF AddUser, Config, Creds
    <3>3. {u \in Users : mem'.users[u] # NoPass /\ account'[u] # NoPass}
            = {u \in Users : mem.users[u] # NoPass /\ account[u] # NoPass}
      BY <3>2
    <3>4. /\ WithAccount(mem) = {u \in Users : mem.users[u] # NoPass /\ account[u] # NoPass}
          /\ WithAccount(mem)' = {u \in Users : mem'.users[u] # NoPass /\ account'[u] # NoPass}
      BY DEF WithAccount, UsersOf
    <3>5. socksAccount' = socksAccount
      BY <1>1, <1>3 DEF WarpDoes
    <3>6. UserUIDs(WithAccount(mem))' = UserUIDs(WithAccount(mem))
      BY <3>3, <3>4, <3>5 DEF UserUIDs
    <3>7. ~(wgUp /\ liveRules # UserUIDs(WithAccount(mem)))
      BY <1>3, <2>4 DEF RulesFollow
    <3>8. QED
      BY <2>1, <3>6, <3>7 DEF RulesFollow
  <2>5. QED
    BY <1>1, <1>3, <2>2, <2>3, <2>4 DEF Whose
<1>4. CASE pc = "unaccount"
  <2>1. wgUp' = wgUp /\ liveRules' = liveRules /\ job'.cmd = job.cmd /\ job.cmd = "remove" /\ socksAccount' = socksAccount
    BY <1>1, <1>4 DEF WarpDoes, Leads, Whose
  <2>2. CASE pc' = "creds"
    BY <2>1, <2>2 DEF RulesFollow, InProxy
  <2>3. CASE mem' = mem /\ account' = account
    <3>1. UserUIDs(WithAccount(mem))' = UserUIDs(WithAccount(mem))
      BY <2>1, <2>3, SameUIDs
    <3>2. ~(wgUp /\ liveRules # UserUIDs(WithAccount(mem)))
      BY <1>4, <2>1 DEF RulesFollow, InProxy
    <3>3. QED
      BY <2>1, <3>1, <3>2 DEF RulesFollow
  <2>4. QED
    BY <1>1, <1>4, <2>2, <2>3 DEF StoreDoes
<1>5. CASE pc = "live"
  <2>1. UserUIDs(WithAccount(mem))' = UserUIDs(WithAccount(mem)) /\ wgUp' = wgUp
    BY <1>1, <1>5, SameUIDs DEF StoreDoes, WarpDoes
  <2>2. wgUp => liveRules' = UserUIDs(WithAccount(mem))
    BY <1>1, <1>5 DEF WarpDoes
  <2>3. QED
    BY <2>1, <2>2 DEF RulesFollow
<1>6. CASE pc = "up"
  <2>1. UserUIDs(WithAccount(mem))' = UserUIDs(WithAccount(mem))
    BY <1>1, <1>6, SameUIDs DEF StoreDoes, WarpDoes, Config
  <2>2. wgUp => liveRules = UserUIDs(WithAccount(mem))
    BY <1>1, <1>6 DEF RulesFollow, InProxy
  <2>3. ~wgUp => liveRules = {} /\ wgConf = UserUIDs(WithAccount(mem))
    BY <1>6 DEF WarpFollows
  <2>4. liveRules' = UserUIDs(WithAccount(mem))
    BY <1>1, <1>6, <2>2, <2>3 DEF WarpDoes
  <2>5. QED
    BY <2>1, <2>4 DEF RulesFollow
<1>7. CASE pc \in {"down", "flush", "services", "uninstallWarp"}
  <2>1. ~wgUp'
    BY <1>1, <1>2, <1>7 DEF WarpDoes, WarpFollows
  <2>2. QED
    BY <2>1 DEF RulesFollow
<1>8. CASE pc = "socksUser"
  <2>1. wgUp' = wgUp /\ liveRules' = liveRules /\ socksAccount' = TRUE /\ mem' = mem /\ account' = account
    BY <1>1, <1>8 DEF StoreDoes, WarpDoes
  <2>2. wgUp => socksAccount = TRUE
    BY Split DEF WarpFollows, WarpFine, WarpTyped
  <2>3. wgUp => UserUIDs(WithAccount(mem))' = UserUIDs(WithAccount(mem))
    BY <2>1, <2>2, SameUIDs
  <2>4. wgUp => liveRules = UserUIDs(WithAccount(mem))
    BY <1>8 DEF RulesFollow, InProxy
  <2>5. QED
    BY <2>1, <2>3, <2>4 DEF RulesFollow
<1>9. CASE pc \notin {"account", "unaccount", "live", "up", "down", "flush", "services", "uninstallWarp", "socksUser"}
  <2>1. /\ wgUp' = wgUp /\ liveRules' = liveRules /\ job'.cmd = job.cmd
        /\ UserUIDs(WithAccount(mem))' = UserUIDs(WithAccount(mem)) /\ mem' = mem
    <3>1. mem' = mem /\ UNCHANGED <<account, socksAccount, wgUp, liveRules>> /\ job'.cmd = job.cmd
      BY <1>1, <1>9 DEF StoreDoes, WarpDoes, Leads
    <3>2. QED
      BY <3>1, SameUIDs
  <2>2. wgUp = mem.warp
    BY <1>9 DEF WarpFollows
  <2>3. /\ job.cmd \in {"add", "bulk_add"} /\ pc \in {"save", "conf"} \cup InProxy =>
             pc' \in {"conf", "live"} \cup InProxy \/ ~wgUp
        /\ job.cmd = "remove" /\ pc \in {"save", "conf"} \cup InProxy =>
             pc' \in {"save", "conf", "live"} \cup InProxy \/ ~wgUp
    <3>1. ~IsSetUp => ~wgUp
      BY Split DEF WarpFine
    <3>2. QED
      BY <1>1, <2>2, <3>1 DEF Leads, InProxy
  <2>4. QED
    BY <1>9, <2>1, <2>3 DEF RulesFollow
<1>10. QED
  BY <1>3, <1>4, <1>5, <1>6, <1>7, <1>8, <1>9

-------------------------------------------------------------------------------
(***************************************************************************)
(* A command begins with copies that agree                                 *)
(***************************************************************************)
\* Where each command begins, on a host on which nothing has failed.
BeginsAt ==
  /\ job'.cmd \in {"add", "bulk_add", "edit_password"} => pc' = "account" /\ file # Absent
  /\ job'.cmd = "edit_password" => job'.user \in UsersOf(mem)
  /\ job'.cmd = "remove" => pc' = "unaccount" /\ file # Absent
  /\ job'.cmd = "warp" => pc' \in {"register", "conf", "down"} /\ file # Absent /\ (pc' = "register" <=> ~IsSetUp)
  /\ job'.cmd = "restart" => pc' \in {"bounce", "creds"} /\ file # Absent
  /\ job'.cmd = "update" => pc' = "creds" /\ file # Absent
  /\ job'.cmd = "install" =>
       /\ ~Creating(pc', plan') => job'.user = NoPass
       /\ \/ pc' = "default" /\ file = Absent
          \/ pc' = "save" /\ file # Absent /\ InstallsOver(mem)
  /\ job'.cmd = "wizard" =>
       \/ pc' = "default" /\ file = Absent
       \/ pc' = "save" /\ file # Absent /\ ~mem.warp /\ ~Creating(pc', plan')
  /\ job'.cmd = "uninstall" => pc' = "services" /\ file # Absent

Begins ==
  /\ pc = "idle" /\ UNCHANGED <<proxyVars, warpVars, storeVars>>
  /\ runAs' \in {"slipgate"} \cup (IF job.cmd \in {"update", "uninstall"} THEN {} ELSE {runAs})
  /\ job'.cmd \in CommandNames \ {"none"}
  /\ IF job'.cmd = "uninstall" THEN mem' = EmptyConfig ELSE mem'.users = mem.users /\ mem'.warp = mem.warp
  /\ job'.cmd \notin {"install", "wizard", "uninstall"} => mem' = mem
  /\ BeginsAt

\* What Load returns is what the last command left in memory.
LEMMA LoadedAtRest ==
  ASSUME IInv, FileFollows, pc = "idle"
  PROVE  Loaded = mem
<1>1. file = Absent \/ file = mem
  BY DEF FileFollows, Unsaved, InProxy
<1>2. file = Absent => mem = EmptyConfig
  BY Split, AbsentIsNoConfig DEF FileFollows, Unsaved, InProxy, StoreTyped
<1>3. QED
  BY <1>1, <1>2 DEF Loaded

LEMMA UserCommandBegins ==
  ASSUME IInv, FileFollows, UserCommand
  PROVE  Begins
<1>1. ASSUME NEW cmd \in UserCommands, NEW l, Started(cmd, Loaded, l),
             l = IF cmd = "remove" THEN "unaccount" ELSE "account",
             file # Absent, cmd = "edit_password" => job'.user \in UsersOf(Loaded)
      PROVE  Begins
  <2>1. /\ pc = "idle" /\ job'.cmd = cmd /\ pc' = l /\ mem' = Loaded /\ UNCHANGED <<proxyVars, warpVars, storeVars>>
        /\ runAs' \in {"slipgate"} \cup (IF job.cmd \in {"update", "uninstall"} THEN {} ELSE {runAs})
    BY <1>1 DEF Started
  <2>2. Loaded = mem
    BY <2>1, LoadedAtRest
  <2>3. BeginsAt
    BY <1>1, <2>1, <2>2 DEF BeginsAt, UserCommands
  <2>4. QED
    BY <1>1, <2>1, <2>2, <2>3 DEF Begins, UserCommands, CommandNames
<1>2. CASE BeginAdd
  BY <1>1, <1>2, BeginningAdd DEF UserCommands
<1>3. CASE BeginBulkAdd
  BY <1>1, <1>3, BeginningBulkAdd DEF UserCommands
<1>4. CASE BeginEditPassword
  <2>1. file # Absent
    <3>1. UsersOf(EmptyConfig) = {}
      BY DEF UsersOf, EmptyConfig, NoCreds
    <3>2. QED
      BY <1>4, <3>1 DEF BeginEditPassword, Loaded
  <2>2. QED
    BY <1>1, <1>4, <2>1, BeginningEditPassword DEF UserCommands
<1>5. CASE BeginRemove
  BY <1>1, <1>5, BeginningRemove DEF UserCommands
<1>6. QED
  BY <1>2, <1>3, <1>4, <1>5 DEF UserCommand

LEMMA HostCommandBegins ==
  ASSUME ~Reruns, IInv, FileFollows, FreshHost, FreshRules, HostCommand
  PROVE  Begins
<1>1. ASSUME NEW cmd \in CommandNames \ {"none", "uninstall"}, NEW c, NEW l, Started(cmd, c, l),
             c.users = mem.users /\ c.warp = mem.warp,
             cmd \notin {"install", "wizard"} => c = mem, BeginsAt
      PROVE  Begins
  BY <1>1 DEF Begins, Started
<1>2. pc = "idle"
  BY BeginningWarp, BeginningRestart, BeginningUpdate, BeginningInstall, BeginningWizard, BeginningUninstall
  DEF HostCommand, Started
<1>3. Loaded = mem /\ mem \in Config
  BY <1>2, LoadedAtRest, LoadedTyped
<1>4. unit # Absent => file # Absent
  BY DEF FreshHost
<1>5. CASE BeginWarp
  <2>1. PICK l \in {"register", "conf", "down"} : Started("warp", Loaded, l) /\ (l = "register" <=> ~IsSetUp)
    BY <1>5, BeginningWarp
  <2>2. file # Absent
    BY <1>5, BeginningWarp
  <2>3. BeginsAt
    BY <2>1, <2>2 DEF BeginsAt, Started
  <2>4. QED
    BY <1>1, <1>3, <2>1, <2>3 DEF CommandNames
<1>6. CASE BeginRestart
  <2>1. PICK l \in {"bounce", "creds"} : Started("restart", Loaded, l)
    BY <1>6, BeginningRestart
  <2>2. file # Absent
    BY <1>4, <1>6, BeginningRestart
  <2>3. BeginsAt
    BY <2>1, <2>2 DEF BeginsAt, Started
  <2>4. QED
    BY <1>1, <1>3, <2>1, <2>3 DEF CommandNames
<1>7. CASE BeginUpdate
  <2>1. Started("update", Loaded, "creds") /\ file # Absent
    BY <1>4, <1>7, BeginningUpdate
  <2>2. BeginsAt
    BY <2>1 DEF BeginsAt, Started
  <2>3. QED
    BY <1>1, <1>3, <2>1, <2>2 DEF CommandNames
<1>8. CASE BeginInstall
  <2>1. (~Creating(pc', plan') => job'.user = NoPass) /\ (file = Absent \/ InstallsOver(mem))
    BY <1>3, <1>8, BeginningInstall
  <2>2. PICK direct \in BOOLEAN :
          Started("install", [Loaded EXCEPT !.direct = @ \/ direct], IF file = Absent THEN "default" ELSE "save")
    BY <1>8, BeginningInstall
  <2>3. BeginsAt
    BY <2>1, <2>2 DEF BeginsAt, Started
  <2> DEFINE c == [Loaded EXCEPT !.direct = @ \/ direct]
             l == IF file = Absent THEN "default" ELSE "save"
  <2>4. c.users = mem.users /\ c.warp = mem.warp
    BY <1>3 DEF Config
  <2>5. Started("install", c, l)
    BY <2>2
  <2> HIDE DEF c, l
  <2>6. QED
    BY <1>1, <2>3, <2>4, <2>5 DEF CommandNames
<1>9. CASE BeginWizard
  <2>1. file = Absent \/ (~mem.warp /\ ~Creating(pc', plan'))
    BY <1>3, <1>9, BeginningWizard
  <2>2. PICK direct \in BOOLEAN :
          Started("wizard", [Loaded EXCEPT !.direct = @ \/ direct], IF file = Absent THEN "default" ELSE "save")
    BY <1>9, BeginningWizard
  <2>3. BeginsAt
    BY <2>1, <2>2 DEF BeginsAt, Started
  <2> DEFINE c == [Loaded EXCEPT !.direct = @ \/ direct]
             l == IF file = Absent THEN "default" ELSE "save"
  <2>4. c.users = mem.users /\ c.warp = mem.warp
    BY <1>3 DEF Config
  <2>5. Started("wizard", c, l)
    BY <2>2
  <2> HIDE DEF c, l
  <2>6. QED
    BY <1>1, <2>3, <2>4, <2>5 DEF CommandNames
<1>10. CASE BeginUninstall
  <2>1. Started("uninstall", EmptyConfig, "services") /\ file # Absent
    BY <1>10, BeginningUninstall DEF BeginUninstall
  <2>2. BeginsAt
    BY <2>1 DEF BeginsAt, Started
  <2>3. QED
    BY <2>1, <2>2 DEF Begins, Started, CommandNames
<1>11. QED
  BY <1>5, <1>6, <1>7, <1>8, <1>9, <1>10 DEF HostCommand

\* Every copy is as before, and memory holds what the file says.
LEMMA CopiesAtBegin ==
  ASSUME IInv, Begins
  PROVE  /\ UNCHANGED <<credsFile, unit, server, session, wgConf, wgUnit, wgUp, liveRules, publicRule,
                        socksAccount, file, account>>
         /\ pc = "idle" /\ mem \in Config /\ UsersOf(EmptyConfig) = {} /\ EmptyConfig.users = NoCreds
         /\ ~EmptyConfig.warp /\ BeginsAt
<1>1. UsersOf(EmptyConfig) = {} /\ EmptyConfig.users = NoCreds /\ ~EmptyConfig.warp
  BY DEF UsersOf, EmptyConfig, NoCreds
<1>2. QED
  BY <1>1, Split DEF Begins, StoreTyped, proxyVars, warpVars, storeVars

LEMMA FilesBegin ==
  ASSUME IInv, FileFollows, FreshHost, FreshRules, WarpFollows, Begins
  PROVE  FileFollows' /\ FreshHost' /\ FreshRules'
<1>1. /\ file' = file /\ credsFile' = credsFile /\ unit' = unit /\ wgUp' = wgUp
      /\ pc = "idle" /\ BeginsAt /\ ~EmptyConfig.warp
  BY CopiesAtBegin
<1>2. job'.cmd \in CommandNames \ {"none"}
  BY DEF Begins
<1>3. FileFollows'
  <2>1. file = Absent => pc' = "default"
    BY <1>1, <1>2 DEF BeginsAt, FileFollows, CommandNames, UserCommands
  <2>2. pc' = "default" => file = Absent
    BY <1>1, <1>2 DEF BeginsAt, CommandNames, UserCommands
  <2>3. job'.cmd = "uninstall" => mem' = EmptyConfig /\ pc' = "services"
    BY <1>1 DEF Begins, BeginsAt
  <2>4. file # mem' => pc' \in Unsaved(job'.cmd)
    <3>1. CASE job'.cmd \in {"install", "wizard", "uninstall"}
      BY <1>1, <3>1 DEF BeginsAt, Unsaved
    <3>2. CASE job'.cmd \notin {"install", "wizard", "uninstall"}
      <4>1. mem' = mem /\ file # Absent
        BY <1>1, <1>2, <3>2 DEF Begins, BeginsAt, CommandNames, UserCommands
      <4>2. file = mem
        BY <1>1, <4>1 DEF FileFollows, Unsaved, InProxy
      <4>3. QED
        BY <4>1, <4>2
    <3>3. QED
      BY <3>1, <3>2
  <2>5. QED
    BY <1>1, <2>1, <2>2, <2>3, <2>4 DEF FileFollows
<1>4. FreshHost'
  <2>1. job'.cmd \in {"install", "wizard"} /\ Creating(pc', plan') => file = Absent
    BY <1>1 DEF BeginsAt, InstallsOver
  <2>2. job'.cmd = "install" => file = Absent \/ (pc' = "save" /\ (First(plan', "setup") => mem'.warp))
    BY <1>1 DEF Begins, BeginsAt, InstallsOver
  <2>3. QED
    BY <1>1, <2>1, <2>2 DEF FreshHost, EnablesWarp, InSetup
<1>5. FreshRules'
  <2>1. job'.cmd = "uninstall" => file # Absent
    BY <1>1 DEF BeginsAt
  <2>2. job'.cmd # "uninstall" => mem'.warp = mem.warp
    BY DEF Begins
  <2>3. /\ job'.cmd = "install" /\ Creating(pc', plan') => file = Absent
        /\ job'.cmd = "wizard" => file = Absent \/ ~mem.warp
    BY <1>1 DEF BeginsAt, InstallsOver
  <2>4. wgUp = mem.warp
    BY <1>1 DEF WarpFollows
  <2>5. QED
    BY <1>1, <2>1, <2>2, <2>3, <2>4 DEF FreshRules
<1>6. QED
  BY <1>3, <1>4, <1>5

LEMMA CopiesBegin ==
  ASSUME IInv, FileFollows, CredsFollow, UserFollows, ServerFollows, AccountsFollow, Begins
  PROVE  FirstUser' /\ CredsFollow' /\ UserFollows' /\ ServerFollows' /\ AccountsFollow' /\ EditsOne'
<1>1. /\ UNCHANGED <<credsFile, unit, server, account>> /\ pc = "idle" /\ BeginsAt /\ mem \in Config
      /\ UsersOf(EmptyConfig) = {} /\ EmptyConfig.users = NoCreds
  BY CopiesAtBegin
<1>2. /\ job'.cmd \in CommandNames \ {"none"}
      /\ job'.cmd = "uninstall" => mem' = EmptyConfig /\ pc' = "services"
      /\ job'.cmd # "uninstall" => mem'.users = mem.users /\ mem'.warp = mem.warp
  BY <1>1 DEF Begins, BeginsAt
<1>3. pc' \notin {"idle", "reload", "create", "restart", "uninstallWarp", "wipe"}
  BY <1>1, <1>2 DEF BeginsAt, CommandNames, UserCommands
<1>4. UsersOf(mem') = IF job'.cmd = "uninstall" THEN {} ELSE UsersOf(mem)
  BY <1>1, <1>2 DEF UsersOf
<1>5. FirstUser'
  <2> SUFFICES ASSUME job'.cmd = "install"
               PROVE  IF Creating(pc', plan') THEN mem'.users = NoCreds
                      ELSE mem'.users = CredsToWrite' \/ OnlyWarp(pc', plan')
    BY DEF FirstUser
  <2>1. /\ ~Creating(pc', plan') => job'.user = NoPass
        /\ file = Absent \/ (pc' = "save" /\ InstallsOver(mem))
    BY <1>1 DEF BeginsAt
  <2>2. UsersOf(mem) = {} => mem.users = NoCreds
    BY <1>1 DEF UsersOf, NoCreds, Config, Creds
  <2>3. file = Absent => mem.users = NoCreds
    BY <1>1, LoadedAtRest DEF Loaded
  <2>4. job'.user = NoPass => CredsToWrite' = NoCreds
    BY SocksProxyAssumption DEF CredsToWrite, NoCreds
  <2>5. QED
    BY <1>2, <2>1, <2>2, <2>3, <2>4 DEF InstallsOver
<1>6. CredsFollow'
  <2>1. credsFile \in {Absent, mem.users}
    BY <1>1 DEF CredsFollow
  <2>2. QED
    BY <1>1, <1>2, <1>3, <2>1 DEF CredsFollow
<1>7. UserFollows'
  <2>1. runAs' = "slipgate-socks" => mem'.warp \/ job'.cmd = "uninstall"
    <3>1. ASSUME runAs' = "slipgate-socks"  PROVE mem.warp
      <4>1. runAs' = runAs /\ job.cmd # "uninstall"
        BY <3>1 DEF Begins
      <4>2. QED
        BY <1>1, <3>1, <4>1 DEF UserFollows
    <3>2. QED
      BY <1>2, <3>1
  <2>2. unit # Absent => unit.user = ExpectedUser(mem) /\ credsFile # Absent
    BY <1>1 DEF UserFollows
  <2>3. job'.cmd # "uninstall" => ExpectedUser(mem') = ExpectedUser(mem)
    BY <1>2 DEF ExpectedUser
  <2>4. QED
    BY <1>1, <1>2, <1>3, <2>1, <2>2, <2>3 DEF UserFollows
<1>8. ServerFollows'
  BY <1>1 DEF ServerFollows, ServerActive
<1>9. AccountsFollow' /\ EditsOne'
  <2>1. AccountsFollow'
    BY <1>1, <1>2, <1>4 DEF AccountsFollow
  <2>2. EditsOne'
    BY <1>1, <1>4 DEF EditsOne, BeginsAt
  <2>3. QED
    BY <2>1, <2>2
<1>10. QED
  BY <1>5, <1>6, <1>7, <1>8, <1>9

LEMMA RoutingBegins ==
  ASSUME IInv, WarpFollows, RulesFollow, Begins
  PROVE  WarpFollows' /\ RulesFollow'
<1>1. /\ UNCHANGED <<wgConf, wgUnit, wgUp, liveRules, publicRule, socksAccount, account>>
      /\ pc = "idle" /\ BeginsAt
  BY CopiesAtBegin
<1>2. /\ job'.cmd \in CommandNames \ {"none"}
      /\ job'.cmd = "uninstall" => pc' = "services"
      /\ job'.cmd # "uninstall" => mem'.users = mem.users /\ mem'.warp = mem.warp
  BY <1>1 DEF Begins, BeginsAt
<1>3. /\ pc' \notin {"flush", "uninstallWarp", "up", "live", "wgUnit", "socksUser", "wgConf"}
      /\ pc' \in {"conf", "register"} => job'.cmd = "warp"
      /\ job'.cmd = "warp" => (pc' = "register" <=> ~IsSetUp)
      /\ pc' = "services" => job'.cmd = "uninstall"
  BY <1>1, <1>2 DEF BeginsAt, CommandNames, UserCommands
<1>4. ~IsSetUp => ~wgUp
  BY Split DEF WarpFine
<1>5. WarpFollows'
  <2>1. wgUp = mem.warp /\ (wgUp => publicRule) /\ (~wgUp => liveRules = {} /\ ~publicRule) /\ (IsSetUp => wgUnit)
    BY <1>1 DEF WarpFollows
  <2>2. IsSetUp' = IsSetUp
    BY <1>1 DEF IsSetUp
  <2>3. /\ wgUp' # mem'.warp => pc' \in {"flush", "services"}
        /\ wgUp' => publicRule'
        /\ ~wgUp' => liveRules' = {} /\ ~publicRule'
        /\ IsSetUp' => wgUnit'
    BY <1>1, <1>2, <2>1, <2>2
  <2>4. /\ pc' = "conf" /\ job'.cmd = "warp" => IsSetUp'
        /\ IsSetUp' => socksAccount'
    BY <1>1, <1>3, <2>2 DEF WarpFollows
  <2>5. QED
    BY <1>3, <2>3, <2>4 DEF WarpFollows
<1>6. RulesFollow'
  <2>1. wgUp => liveRules = UserUIDs(WithAccount(mem))
    BY <1>1 DEF RulesFollow, InProxy
  <2>2. job'.cmd # "uninstall" => UserUIDs(WithAccount(mem))' = UserUIDs(WithAccount(mem))
    BY <1>1, <1>2, SameUIDs
  <2>3. QED
    BY <1>1, <1>2, <2>1, <2>2 DEF RulesFollow
<1>7. QED
  BY <1>5, <1>6

-------------------------------------------------------------------------------
(***************************************************************************)
(* The copies agree, if install and the wizard run over a configuration    *)
(* only in the ways that leave its users alone (~Reruns)                   *)
(***************************************************************************)
\* A process of the proxy that systemd starts gets the unit's account.
LEMMA ServerStepFollows ==
  ASSUME IInv, ServerFollows, ServerStep, Elsewhere
  PROVE  ServerFollows'
<1>1. unit \in Unit \cup {Absent} /\ server \in Process /\ (ServerActive => unit # Absent)
  BY Split DEF ProxyTyped, ProxyFine
<1>2. unit' = unit /\ pc' = pc
  BY DEF ServerStep, ReadCredsAtStart, WatchCredsFile, TakeSignal, SetCredentials, StartAgain, Elsewhere, flow
<1>3. \/ server'.state = "waiting"
      \/ server'.state = "starting" /\ server'.as = unit
      \/ ServerActive /\ server'.state # "stopped" /\ server'.as = server.as
      \/ server'.state = server.state /\ server'.as = server.as
  <2>1. CASE ReadCredsAtStart
    BY <1>1, <2>1, Processes DEF ReadCredsAtStart, ServerActive, Process
  <2>2. CASE WatchCredsFile \/ TakeSignal \/ SetCredentials
    BY <1>1, <2>2 DEF WatchCredsFile, TakeSignal, SetCredentials, Process
  <2>3. CASE StartAgain
    BY <1>1, <2>3, Processes DEF StartAgain
  <2>4. QED
    BY <2>1, <2>2, <2>3 DEF ServerStep
<1>4. QED
  BY <1>2, <1>3 DEF ServerFollows, ServerActive

\* What the proxy and its clients do concerns no other copy.
LEMMA FollowingStays ==
  ASSUME Following, ServerFollows => ServerFollows',
         UNCHANGED <<credsFile, unit, wgConf, wgUnit, wgUp, liveRules, publicRule, socksAccount, file, account,
                     mem, runAs, pc, plan, job, faults>>
  PROVE  Following'
<1>1. /\ FileFollows' = FileFollows /\ FreshHost' = FreshHost /\ FreshRules' = FreshRules
      /\ CredsFollow' = CredsFollow
  BY DEF FileFollows, FreshHost, EnablesWarp, FreshRules, CredsFollow, Unsaved
<1>2. FirstUser' = FirstUser /\ UserFollows' = UserFollows
  BY DEF FirstUser, UserFollows, CredsToWrite, ExpectedUser
<1>3. UserUIDs(WithAccount(mem))' = UserUIDs(WithAccount(mem)) /\ IsSetUp' = IsSetUp
  BY SameUIDs DEF IsSetUp
<1>4. WarpFollows' = WarpFollows /\ RulesFollow' = RulesFollow
  BY <1>3 DEF WarpFollows, RulesFollow
<1>5. AccountsFollow' = AccountsFollow /\ EditsOne' = EditsOne
  BY DEF AccountsFollow, EditsOne, UsersOf
<1>6. QED
  BY <1>1, <1>2, <1>4, <1>5 DEF Following

LEMMA FollowingInit == Init => Following
<1> SUFFICES ASSUME Init PROVE Following
  OBVIOUS
<1>1. /\ pc = "idle" /\ file = Absent /\ mem = EmptyConfig /\ job.cmd = "none" /\ credsFile = Absent
      /\ unit = Absent /\ runAs = "slipgate" /\ server.state = "stopped" /\ account = NoCreds
      /\ wgConf = NoConf /\ wgUnit = FALSE /\ wgUp = FALSE /\ liveRules = {} /\ publicRule = FALSE
      /\ EmptyConfig.warp = FALSE
  BY Processes DEF Init, ProxyInit, WarpInit, NoJob, EmptyConfig, Stopped
<1>2. FileFollows /\ FreshHost /\ FreshRules /\ FirstUser /\ CredsFollow /\ EditsOne
  BY <1>1 DEF FileFollows, FreshHost, FreshRules, FirstUser, CredsFollow, EditsOne
<1>3. UserFollows /\ ServerFollows
  BY <1>1 DEF UserFollows, ServerFollows, ServerActive
<1>4. WarpFollows /\ RulesFollow
  BY <1>1 DEF WarpFollows, RulesFollow, IsSetUp
<1>5. AccountsFollow
  BY <1>1 DEF AccountsFollow, UsersOf, EmptyConfig, NoCreds
<1>6. QED
  BY <1>2, <1>3, <1>4, <1>5 DEF Following

\* A fault is remembered.
LEMMA FaultsStay ==
  ASSUME IInv, [Next]_vars, faults' = 0
  PROVE  faults = 0
<1>1. faults' = faults \/ faults' = faults + 1
  <2>1. CASE UserCommand
    BY <2>1, BeginningAdd, BeginningBulkAdd, BeginningEditPassword, BeginningRemove DEF UserCommand, Started
  <2>2. CASE HostCommand
    BY <2>2, BeginningWarp, BeginningRestart, BeginningUpdate, BeginningInstall, BeginningWizard,
       BeginningUninstall
    DEF HostCommand, Started
  <2>3. CASE Operator
    <3>1. CASE AccountStep
      BY <3>1 DEF AccountStep, AddSSHUser, AddSSHUserFails, RemoveSSHUser, RemoveSSHUserFails, Save, SaveFails,
         Fault, NoFault, bounds
    <3>2. CASE SetupSOCKS
      BY <3>2 DEF SetupSOCKS, FreePort, WriteCreds, WriteCredsFails, Reload, NoReload, CreateUnit, CreateUnitFails,
         RestartProxy, RestartProxyFails, Fault, NoFault, bounds
    <3>3. CASE Routing
      BY <3>3 DEF Routing, GenerateConf, GenerateConfFails, SyncLiveRules, SyncLiveRulesFails, SetupStep, SetupEnds,
         SetupFails, Enable, EnableFails, StopWarp, FlushRoutingRules, Fault, NoFault, bounds
    <3>4. CASE Uninstall
      BY <3>4 DEF Uninstall, StopServices, UninstallWarp, RemoveConfigDir, NoFault, bounds
    <3>5. QED
      BY <2>3, <3>1, <3>2, <3>3, <3>4 DEF Operator
  <2>4. CASE Crash \/ ServerDies
    BY <2>4 DEF Crash, ServerDies, Fault
  <2>5. CASE ((ServerStep \/ ClientStep) /\ Elsewhere) \/ UNCHANGED vars
    BY <2>5 DEF Elsewhere, bounds, vars
  <2>6. QED
    BY <2>1, <2>2, <2>3, <2>4, <2>5 DEF Next
<1>2. faults \in Nat
  BY Split DEF BoundsTyped
<1>3. QED
  BY <1>1, <1>2

LEMMA FollowingNext ==
  ASSUME ~Reruns
  PROVE  IInv /\ Following /\ [Next]_vars => Following'
<1> SUFFICES ASSUME IInv, Following, [Next]_vars, faults' = 0  PROVE Following'
  BY DEF Following
<1>1. faults = 0
  BY FaultsStay
<1>2. /\ FileFollows /\ FreshHost /\ FreshRules /\ FirstUser /\ CredsFollow /\ UserFollows
      /\ ServerFollows /\ WarpFollows /\ RulesFollow /\ AccountsFollow /\ EditsOne
  BY <1>1 DEF Following
<1>3. CASE UserCommand \/ HostCommand
  <2>1. Begins
    BY <1>2, <1>3, UserCommandBegins, HostCommandBegins
  <2>2. QED
    BY <1>2, <2>1, FilesBegin, CopiesBegin, RoutingBegins DEF Following
<1>4. CASE Operator
  <2>1. Does /\ pc # "idle"
    BY <1>1, <1>2, <1>4, OperatorDoes
  <2>2. FileFollows' /\ FreshHost' /\ FreshRules' /\ FirstUser' /\ CredsFollow'
    BY <1>2, <2>1, FileMoves, FreshHostMoves, FreshRulesMoves, FirstUserMoves, CredsMove
  <2>3. UserFollows' /\ ServerFollows' /\ WarpFollows' /\ RulesFollow' /\ AccountsFollow' /\ EditsOne'
    BY <1>2, <2>1, UserMoves, ServerMoves, WarpMoves, RulesMove, AccountsMove, EditsMove
  <2>4. QED
    BY <2>2, <2>3 DEF Following
<1>5. CASE Crash \/ ServerDies
  BY <1>1, <1>5, NoFaults DEF Crash, ServerDies
<1>6. CASE (ServerStep \/ ClientStep) /\ Elsewhere
  <2>1. UNCHANGED <<credsFile, unit, wgConf, wgUnit, wgUp, liveRules, publicRule, socksAccount, file, account,
                    mem, runAs, pc, plan, job, faults>>
    BY <1>6 DEF ServerStep, ReadCredsAtStart, WatchCredsFile, TakeSignal, SetCredentials, StartAgain,
       ClientStep, Greet, Authenticate, Request, Leave, Elsewhere, warpVars, storeVars, flow, bounds
  <2>2. CASE ClientStep
    <3>1. server' = server
      BY <2>2 DEF ClientStep, Greet, Authenticate, Request, Leave
    <3>2. ServerFollows'
      BY <1>2, <2>1, <3>1 DEF ServerFollows, ServerActive
    <3>3. QED
      BY <2>1, <3>2, FollowingStays
  <2>3. CASE ServerStep
    BY <1>2, <1>6, <2>1, <2>3, ServerStepFollows, FollowingStays
  <2>4. QED
    BY <1>6, <2>2, <2>3
<1>7. CASE UNCHANGED vars
  <2>1. ServerFollows'
    BY <1>2, <1>7 DEF ServerFollows, ServerActive, vars
  <2>2. QED
    BY <1>7, <2>1, FollowingStays DEF vars
<1>8. QED
  BY <1>3, <1>4, <1>5, <1>6, <1>7 DEF Next

\* After any commands none of whose steps failed the accounts, the creds file and
\* the proxy's unit and process say what config.json says.  The hypothesis keeps
\* out, on a host that has a configuration: an installation that creates a user,
\* enables WARP, or sets up the proxy where there are users (with no user of its
\* own it writes an empty creds file: no authentication); and a wizard that
\* creates a user or runs where WARP is enabled.
THEOREM CopiesOfUsersAgree == ASSUME ~Reruns PROVE Spec => []UsersAgree
<1>1. IInv /\ Following => UsersAgree
  <2> SUFFICES ASSUME IInv, Following, pc = "idle", faults = 0, file # Absent
               PROVE  /\ \A u \in UsersOf(file) : account[u] = file.users[u]
                      /\ credsFile \in {Absent, file.users}
                      /\ unit # Absent =>
                           /\ credsFile # Absent /\ unit.user = ExpectedUser(file)
                           /\ server.state # "stopped" /\ (ServerActive => server.as = unit)
    BY DEF UsersAgree, Undisturbed, AtRest
  <2>1. FileFollows /\ CredsFollow /\ UserFollows /\ ServerFollows /\ AccountsFollow
    BY DEF Following
  <2>2. file = mem
    BY <2>1, LoadedAtRest DEF Loaded
  <2>3. credsFile \in {Absent, mem.users}
    BY <2>1 DEF CredsFollow
  <2>4. unit # Absent => credsFile # Absent /\ unit.user = ExpectedUser(mem)
    BY <2>1 DEF UserFollows
  <2>5. QED
    BY <2>1, <2>2, <2>3, <2>4 DEF ServerFollows, AccountsFollow
<1>2. QED
  BY <1>1, IInvInit, IInvNext, FollowingInit, FollowingNext, PTL DEF Spec

\* After such commands the kernel has the rules of the configured users exactly
\* while config.json says that WARP is enabled.
THEOREM RulesOfUsersAgree == ASSUME ~Reruns PROVE Spec => []RulesAgree
<1>1. IInv /\ Following => RulesAgree
  <2> SUFFICES ASSUME IInv, Following, pc = "idle", faults = 0
               PROVE  /\ wgUp = (Loaded.warp) /\ publicRule = wgUp
                      /\ liveRules = IF wgUp THEN UserUIDs(WithAccount(file)) ELSE {}
    BY DEF RulesAgree, Undisturbed, AtRest
  <2>1. FileFollows /\ WarpFollows /\ RulesFollow
    BY DEF Following
  <2>2. Loaded = mem /\ wgUp \in BOOLEAN /\ publicRule \in BOOLEAN
    BY <2>1, LoadedAtRest, Split DEF WarpTyped
  <2>3. wgUp = mem.warp
    BY <2>1 DEF WarpFollows
  <2>4. wgUp => file = mem
    <3>1. ~EmptyConfig.warp
      BY DEF EmptyConfig
    <3>2. QED
      BY <2>2, <2>3, <3>1 DEF Loaded
  <2>5. publicRule = wgUp /\ (~wgUp => liveRules = {})
    BY <2>1, <2>2 DEF WarpFollows
  <2>6. wgUp => liveRules = UserUIDs(WithAccount(mem))
    BY <2>1 DEF RulesFollow, InProxy
  <2>7. QED
    BY <2>2, <2>3, <2>4, <2>5, <2>6
<1>2. QED
  BY <1>1, IInvInit, IInvNext, FollowingInit, FollowingNext, PTL DEF Spec

\* A user command that finds the proxy on localhost, with its signal handler
\* installed, finds its unit as it should be, and reloads it.
LEMMA SparesSessions ==
  ASSUME IInv, Following, faults = 0, faults' = 0, [Next]_vars, pc = "reload", pc' # "reload",
         job.cmd \in UserCommands, session # "none", unit.addr = "127.0.0.1", server.watch # "off"
  PROVE  session' = session /\ pc' # "create"
<1>1. UserFollows /\ ServerFollows /\ WarpFollows
  BY DEF Following
<1>2. ServerActive /\ unit # Absent /\ unit \in Unit
  BY Split DEF ProxyFine, ServerActive, ProxyTyped
<1>3. UpToDate
  <2>1. unit.user = ExpectedUser(mem) /\ runAs = ExpectedUser(mem)
    BY <1>1, <1>2 DEF UserFollows, UserCommands
  <2>2. job.addr = "127.0.0.1"
    BY Split DEF FlowFine, HandlerFine, UsersAt, InProxy
  <2>3. unit = [addr |-> unit.addr, user |-> unit.user]
    BY <1>2 DEF Unit
  <2>4. QED
    BY <2>1, <2>2, <2>3 DEF UpToDate, Desired
<1>4. CASE Operator
  <2>1. ProxyDoes
    BY <1>1, <1>4, OperatorDoes DEF Does
  <2>2. pc' # "create" /\ HangUp
    BY <1>2, <1>3, <2>1 DEF ProxyDoes
  <2>3. QED
    BY <2>2 DEF HangUp
<1>5. CASE Crash \/ ServerDies
  BY <1>5, NoFaults DEF Crash, ServerDies
<1>6. CASE UserCommand \/ HostCommand
  <2>1. pc = "idle"
    BY <1>6, BeginningAdd, BeginningBulkAdd, BeginningEditPassword, BeginningRemove, BeginningWarp, BeginningRestart,
       BeginningUpdate, BeginningInstall, BeginningWizard, BeginningUninstall
    DEF UserCommand, HostCommand, Started
  <2>2. QED
    BY <2>1
<1>7. CASE ((ServerStep \/ ClientStep) /\ Elsewhere) \/ UNCHANGED vars
  BY <1>7 DEF Elsewhere, flow, vars
<1>8. QED
  BY <1>4, <1>5, <1>6, <1>7 DEF Next

\* While nothing fails a user command (after the same commands) spares the sessions of clients: it reloads a
\* proxy that listens on localhost and has its signal handler, and never restarts it.
THEOREM SessionsOfClientsSurvive == ASSUME ~Reruns PROVE Spec => SessionsSurvive
<1> DEFINE Spares == pc = "reload" /\ pc' # "reload" /\ job.cmd \in UserCommands /\ faults' = 0
                       /\ session # "none" /\ unit.addr = "127.0.0.1" /\ server.watch # "off"
                     => session' = session /\ pc' # "create"
<1>1. IInv /\ Following /\ [Next]_vars => Spares
  BY FaultsStay, SparesSessions
<1>2. Spec => [][Spares]_vars
  <2> HIDE DEF Spares
  <2>1. QED
    BY <1>1, IInvInit, IInvNext, FollowingInit, FollowingNext, PTL DEF Spec
<1>3. QED
  BY <1>2 DEF SessionsSurvive
===============================================================================
