------------------------------ MODULE UserStore ------------------------------
(***************************************************************************)
(* The operator's commands on users, the SOCKS5 proxy and WARP as they run *)
(* on the host (internal/handlers/system_sshusers.go, warp.go, and the     *)
(* parts of install, wizard, update, restart and uninstall that concern    *)
(* them; internal/system/user.go; internal/proxy/microsocks.go).           *)
(*                                                                         *)
(* A user exists in four places: the configuration, the host's accounts,   *)
(* the creds file of the proxy, and the rules of WARP.  Each command is a  *)
(* plan, the parts of its handler in their order; each part is a few       *)
(* steps, and pc names the next one.  One command runs at a time, in a new *)
(* process or in the menu of the last one.  A step that touches the host   *)
(* can fail, and the process can die between two steps; `faults' counts.   *)
(*                                                                         *)
(* Not modelled: tunnels, except whether a direct-socks5 tunnel makes the  *)
(* proxy listen on all interfaces (see TunnelManager); NaiveProxy, whose   *)
(* service follows WARP too; two commands at once; a Save that is torn;    *)
(* commands on users before the installation; the microsocks of old hosts; *)
(* a step of uninstall that fails.                                         *)
(***************************************************************************)
EXTENDS SocksProxy, WarpRouting, Sequences

CONSTANTS
  Locked,        \* an account without a password
  Commands,      \* the commands in use
  Reruns,        \* whether install and wizard may also run on a host that has a configuration in
                 \* ways that can leave copies of its users apart: an installation that is not
                 \* LeavesUsers, a wizard that creates a user or finds WARP enabled
  MaxCommands,   \* bound: commands begun
  MaxFaults      \* bound: steps that fail, and crashes

ASSUME UserStoreAssumption ==
  /\ Accounts = Users /\ IsFiniteSet(Users) /\ Locked \notin Passwords /\ Reruns \in BOOLEAN
  /\ MaxCommands \in Nat /\ MaxFaults \in Nat

VARIABLES
  file,      \* config.json: users, whether WARP is enabled, whether a direct-socks5 tunnel exists
  account,   \* the accounts of the host, with their passwords
  mem,       \* the command's *config.Config
  runAs,     \* proxy.RunAsUser, a variable of the process
  pc, plan,  \* the next step, and the parts of the handler after this one
  job,       \* the handler's locals
  commands, faults

storeVars == <<file, account>>
flow      == <<pc, plan>>
bounds    == <<commands, faults>>
vars      == <<credsFile, unit, server, session, wgConf, wgUnit, wgUp, liveRules, publicRule,
               socksAccount, file, account, mem, runAs, pc, plan, job, commands, faults>>

Config      == [users : Creds, warp : BOOLEAN, direct : BOOLEAN]
EmptyConfig == [users |-> NoCreds, warp |-> FALSE, direct |-> FALSE]

ASSUME AbsentIsNoConfig == Absent \notin Config

\* todo: users to create; made: one was created; clean: no step has failed.
NoJob == [cmd |-> "none", todo |-> <<>>, user |-> NoPass, pass |-> NoPass, addr |-> "127.0.0.1",
          made |-> FALSE, clean |-> TRUE]

UserCommands == {"add", "bulk_add", "edit_password", "remove"}
UsersOf(c)   == {u \in Users : c.users[u] # NoPass}
WithAccount(c) == {u \in UsersOf(c) : account[u] # NoPass}

Init ==
  /\ ProxyInit /\ WarpInit
  /\ file = Absent /\ account = NoCreds
  /\ mem = EmptyConfig /\ runAs = "slipgate"
  /\ pc = "idle" /\ plan = <<>> /\ job = NoJob
  /\ commands = 0 /\ faults = 0

-------------------------------------------------------------------------------
\* Control.  Each part of a plan begins with one of its steps.
FirstStep == [account |-> "account", unaccount |-> "unaccount", default |-> "default", save |-> "save",
              free |-> "free", local |-> "creds", wide |-> "creds", bounce |-> "bounce", refresh |-> "conf",
              setup |-> "register", enable |-> "up", disable |-> "down",
              saveFlag |-> "saveFlag", uninstall |-> "services"]

Address(part) == IF part = "wide" THEN "0.0.0.0" ELSE "127.0.0.1"

Goto(l) == pc' = l /\ UNCHANGED <<plan, mem>>

\* The handler goes on with the next part, or has come to its end.  What a
\* finished command leaves in memory is not used again, but for RunAsUser; its
\* outcome is kept for the properties.
Outcome(j) ==
  IF j.cmd \in UserCommands THEN [NoJob EXCEPT !.cmd = j.cmd, !.user = j.user, !.clean = j.clean]
  ELSE [NoJob EXCEPT !.cmd = j.cmd]

GoOn(parts, j) ==
  IF parts = <<>>
  THEN /\ pc' = "idle" /\ plan' = <<>>
       /\ job' = Outcome(j)
  ELSE /\ pc' = FirstStep[Head(parts)] /\ plan' = Tail(parts)
       /\ job' = [j EXCEPT !.addr = IF Head(parts) \in {"local", "wide"} THEN Address(Head(parts)) ELSE @]

Proceed     == GoOn(plan, job)
ProceedWarn == GoOn(plan, [job EXCEPT !.clean = FALSE])
Return      == GoOn(<<>>, [job EXCEPT !.clean = FALSE])

Fault     == faults < MaxFaults /\ faults' = faults + 1 /\ UNCHANGED commands
NoFault   == UNCHANGED bounds
SameProxy == UNCHANGED proxyVars
SameWarp  == UNCHANGED warpVars
SameHost  == UNCHANGED <<proxyVars, warpVars, storeVars>>

-------------------------------------------------------------------------------
\* A command begins with what Load returns.  The menu keeps RunAsUser; an update
\* and an uninstallation end the menu.
Loaded == IF file = Absent THEN EmptyConfig ELSE file

Begin(cmd, c, parts, todo, u, p) ==
  /\ pc = "idle" /\ cmd \in Commands /\ commands < MaxCommands
  /\ commands' = commands + 1 /\ UNCHANGED faults
  /\ mem' = c
  /\ runAs' \in {"slipgate"} \cup (IF job.cmd \in {"update", "uninstall"} THEN {} ELSE {runAs})
  /\ GoOn(parts, [NoJob EXCEPT !.cmd = cmd, !.todo = todo, !.user = u, !.pass = p])
  /\ SameHost

\* The listening address that recreateProxies and others choose: all interfaces
\* for a direct-socks5 tunnel, if there is a user to authenticate.
ProxyPart(c) == IF c.direct /\ UsersOf(c) # {} THEN "wide" ELSE "local"

Refresh == IF Loaded.warp THEN <<"refresh">> ELSE <<>>

\* users add, also offered after tunnel add: the user must be new.
BeginAdd ==
  \E u \in Users \ UsersOf(Loaded), p \in Passwords :
    /\ file # Absent
    /\ Begin("add", Loaded, <<"account", "save", "local">> \o Refresh, <<u>>, u, p)

\* users bulk_add: names that are free, generated passwords.
FaultyBulkCounts == 0..Cardinality(Users)

BulkCounts == 1..Cardinality(Users)

BeginBulkAdd ==
  \E n \in BulkCounts, p \in Passwords :
    \E todo \in [1..n -> Users \ UsersOf(Loaded)] :
      /\ file # Absent
      /\ \A i, j \in 1..n : todo[i] = todo[j] => i = j
      /\ Begin("bulk_add", Loaded, <<"account", "save", "local">> \o Refresh, todo, NoPass, p)

\* users edit_password: the user must be there.  No rule depends on a password.
BeginEditPassword ==
  \E u \in UsersOf(Loaded), p \in Passwords :
    Begin("edit_password", Loaded, <<"account", "save", "local">>, <<u>>, u, p)

\* users remove: any name; the account goes first, and the file comes after the
\* proxy.
FaultyBeginRemove ==
  \E u \in Users :
    /\ file # Absent
    /\ Begin("remove", Loaded, <<"unaccount", "local", "save">>, <<u>>, u, NoPass)

BeginRemove ==
  \E u \in Users :
    /\ file # Absent
    /\ Begin("remove", Loaded, <<"unaccount", "local", "save">> \o Refresh, <<u>>, u, NoPass)

\* warp: set up at first, then a choice.
BeginWarp ==
  /\ file # Absent
  /\ \/ ~IsSetUp /\ Begin("warp", Loaded, <<"setup", ProxyPart(Loaded)>>, <<>>, NoPass, NoPass)
     \/ IsSetUp /\ \E parts \in {<<"refresh", "enable">>, <<"disable", "saveFlag">>} :
          Begin("warp", Loaded, parts \o <<ProxyPart(Loaded)>>, <<>>, NoPass, NoPass)

\* restart: the proxy's part.  A unit with the wrong user is written anew.
ExpectedUser(c) == IF c.warp THEN "slipgate-socks" ELSE "slipgate"

BeginRestart ==
  /\ unit # Absent
  /\ Begin("restart", Loaded,
           IF unit.user = ExpectedUser(Loaded) THEN <<"bounce">> ELSE <<ProxyPart(Loaded)>>,
           <<>>, NoPass, NoPass)

\* update: the proxy's part.
BeginUpdate ==
  /\ unit # Absent
  /\ Begin("update", Loaded, IF Loaded.direct THEN <<"wide">> ELSE <<"local">>, <<>>, NoPass, NoPass)

-------------------------------------------------------------------------------
\* Both write a default configuration if there is none, and save the tunnels.
Tunnels == IF file = Absent THEN <<"default", "save">> ELSE <<"save">>

\* An installation over a configuration leaves its users alone if it creates no
\* user, leaves WARP as it is, and sets up the proxy only if there is no user.
\* Any other one can leave the copies apart: the creds file names the user of this
\* run alone, or nobody, and then the proxy lets everybody in; a unit that is not
\* written anew keeps its account; rules that are live are not added to.
LeavesUsers(create, warp, socks) ==
  ~create /\ (warp => Loaded.warp) /\ (socks => UsersOf(Loaded) = {})

\* install: a user may be created; WARP may be enabled, and is set up again if it
\* is; the proxy is set up if a tunnel needs it, for the user of this run.  A
\* user's name may be one that exists.
BeginInstall ==
  \E direct, socks, warp, create \in BOOLEAN, u \in Users, p \in Passwords :
    LET c == [Loaded EXCEPT !.direct = @ \/ direct] IN
    /\ Reruns \/ file = Absent \/ LeavesUsers(create, warp, socks)
    /\ direct => socks
    /\ Loaded.warp => warp
    /\ ~create => u = CHOOSE x \in Users : TRUE
    /\ ~create => p = CHOOSE x \in Passwords : TRUE
    /\ Begin("install", c,
             Tunnels \o (IF create THEN <<"account", "save">> ELSE <<>>)
               \o (IF warp THEN <<"setup">> ELSE <<>>)
               \o (IF ~socks THEN <<>> ELSE IF direct THEN <<"free", "wide">> ELSE <<"free", "local">>),
             IF create THEN <<u>> ELSE <<>>, IF create THEN u ELSE NoPass, p)

\* wizard: a user of the host is used again, or one is created; the proxy, if a
\* tunnel needs it, serves all users, first on localhost also for a direct
\* tunnel.  WARP is left alone, and so is RunAsUser: where WARP is enabled the
\* proxy gets the wrong account, and a new user gets no rule.
BeginWizard ==
  \E socks, direct \in BOOLEAN :
    LET c     == [Loaded EXCEPT !.direct = @ \/ direct]
        proxy == (IF socks THEN <<"free", "local">> ELSE <<>>) \o (IF direct THEN <<"wide">> ELSE <<>>)
    IN /\ direct => socks
       /\ \/ /\ UsersOf(Loaded) # {} /\ (Reruns \/ ~Loaded.warp)
             /\ Begin("wizard", c, Tunnels \o proxy, <<>>, NoPass, NoPass)
          \/ /\ Reruns \/ file = Absent
             /\ \E u \in Users, p \in Passwords :
                  Begin("wizard", c, Tunnels \o <<"account", "save">> \o proxy, <<u>>, u, p)

BeginUninstall ==
  file # Absent /\ Begin("uninstall", EmptyConfig, <<"uninstall">>, <<>>, NoPass, NoPass)

-------------------------------------------------------------------------------
\* AddSSHUser: groupadd, useradd, chpasswd, the Match block of sshd.  It updates
\* a user who exists.  Success goes into the configuration (cfg.AddUser).
Current == Head(job.todo)
LastOne == Tail(job.todo) = <<>>

AddUser(c, u, p) == [c EXCEPT !.users[u] = p]

AddSSHUser ==
  /\ pc = "account" /\ NoFault
  /\ account' = [account EXCEPT ![Current] = job.pass]
  /\ mem' = AddUser(mem, Current, job.pass)
  /\ IF LastOne THEN Proceed
     ELSE job' = [job EXCEPT !.todo = Tail(@), !.made = TRUE] /\ UNCHANGED flow
  /\ UNCHANGED <<proxyVars, warpVars, file, runAs>>

\* What is there when it fails: nothing new, an account without a password, or
\* all of it when sshd does not accept its configuration.
FailedAccounts == {account[Current], job.pass} \cup (IF account[Current] = NoPass THEN {Locked} ELSE {})

\* add, edit and install return; the wizard warns and adds the user all the same;
\* bulk_add skips the user, and returns if it has created none.
AddSSHUserFails ==
  /\ pc = "account" /\ Fault
  /\ \E a \in FailedAccounts : account' = [account EXCEPT ![Current] = a]
  /\ CASE job.cmd = "wizard" -> mem' = AddUser(mem, Current, job.pass) /\ ProceedWarn
       [] job.cmd = "bulk_add" ->
            /\ UNCHANGED mem
            /\ IF ~LastOne
               THEN job' = [job EXCEPT !.todo = Tail(@), !.clean = FALSE] /\ UNCHANGED flow
               ELSE IF job.made THEN ProceedWarn ELSE Return
       [] OTHER -> UNCHANGED mem /\ Return
  /\ UNCHANGED <<proxyVars, warpVars, file, runAs>>

\* RemoveSSHUser, and cfg.RemoveUser.
RemoveSSHUser ==
  /\ pc = "unaccount" /\ account[job.user] # NoPass /\ NoFault
  /\ account' = [account EXCEPT ![job.user] = NoPass]
  /\ mem' = [mem EXCEPT !.users[job.user] = NoPass]
  /\ Proceed
  /\ UNCHANGED <<proxyVars, warpVars, file, runAs>>

\* userdel fails, at any rate when there is no account: the handler returns.
RemoveSSHUserFails ==
  /\ pc = "unaccount"
  /\ IF account[job.user] = NoPass THEN NoFault ELSE Fault
  /\ Return
  /\ UNCHANGED <<proxyVars, warpVars, storeVars, mem, runAs>>

\* cfg.Save: the handlers return an error, except that of WARP, which warns.
Save ==
  /\ pc \in {"default", "save", "saveFlag"} /\ NoFault
  /\ file' = IF pc = "default" THEN EmptyConfig ELSE mem
  /\ Proceed
  /\ UNCHANGED <<proxyVars, warpVars, account, mem, runAs>>

SaveFails ==
  /\ pc \in {"default", "save", "saveFlag"} /\ Fault
  /\ IF pc = "saveFlag" THEN ProceedWarn ELSE Return
  /\ UNCHANGED <<proxyVars, warpVars, storeVars, mem, runAs>>

-------------------------------------------------------------------------------
\* setupSOCKSMulti.  Before the call the handlers set RunAsUser, the wizard not.
UserForProxy ==
  IF mem.warp /\ job.cmd # "wizard" THEN "slipgate-socks"
  ELSE IF job.cmd \in {"warp", "restart"} THEN "slipgate"
  ELSE runAs

\* install passes the user of this run, the others pass all users.
FaultyCredsToWrite == [u \in Users |-> IF u = job.user THEN job.pass ELSE NoPass]

CredsToWrite ==
  IF job.cmd = "install"
  THEN [u \in Users |-> IF u = job.user THEN job.pass ELSE NoPass]
  ELSE mem.users

Desired == [addr |-> job.addr, user |-> runAs]

\* writeSocksCredsFile: a temporary file and a rename.
WriteCreds ==
  /\ pc = "creds" /\ NoFault
  /\ runAs' = UserForProxy
  /\ credsFile' = CredsToWrite
  /\ pc' = "reload"
  /\ UNCHANGED <<unit, server, session, warpVars, storeVars, mem, plan, job>>

WriteCredsFails ==
  /\ pc = "creds" /\ Fault
  /\ runAs' = UserForProxy
  /\ ProceedWarn
  /\ UNCHANGED <<proxyVars, warpVars, storeVars, mem>>

\* FreePort kills what listens on the proxy's port: the proxy.
FreePort ==
  /\ pc = "free" /\ NoFault
  /\ IF server.state = "running" THEN EndServer(Waiting) ELSE UNCHANGED <<server, session>>
  /\ Proceed
  /\ UNCHANGED <<credsFile, unit, warpVars, storeVars, mem, runAs>>

\* If the unit is as it should be a reload is enough; it fails when the service
\* is not active.
FaultyUpToDate == unit # Absent /\ unit.user = "slipgate" /\ unit = Desired

UpToDate == unit = Desired

Reload ==
  /\ pc = "reload" /\ UpToDate /\ ServerActive /\ NoFault
  /\ HangUp
  /\ Proceed
  /\ UNCHANGED <<credsFile, unit, warpVars, storeVars, mem, runAs>>

NoReload ==
  /\ pc = "reload"
  /\ IF UpToDate /\ ServerActive THEN Fault ELSE NoFault
  /\ pc' = "create"
  /\ UNCHANGED <<proxyVars, warpVars, storeVars, mem, runAs, plan, job>>

CreateUnit ==
  /\ pc = "create" /\ NoFault
  /\ unit' = Desired
  /\ pc' = "restart"
  /\ UNCHANGED <<credsFile, server, session, warpVars, storeVars, mem, runAs, plan, job>>

\* The unit file is not written, or systemd does not read it again.
CreateUnitFails ==
  /\ pc = "create" /\ Fault
  /\ unit' \in {unit, Desired}
  /\ ProceedWarn
  /\ UNCHANGED <<credsFile, server, session, warpVars, storeVars, mem, runAs>>

\* Restart, whose error is ignored, and Start, which leaves a service that is
\* active alone.  "bounce" is the Restart of the command restart.
RestartProxy ==
  /\ pc \in {"restart", "bounce"} /\ NoFault
  /\ RestartServer
  /\ Proceed
  /\ UNCHANGED <<credsFile, unit, warpVars, storeVars, mem, runAs>>

RestartProxyFails ==
  /\ pc \in {"restart", "bounce"} /\ Fault
  /\ IF pc = "restart" /\ ~ServerActive THEN RestartServer ELSE UNCHANGED <<server, session>>
  /\ ProceedWarn
  /\ UNCHANGED <<credsFile, unit, warpVars, storeVars, mem, runAs>>

-------------------------------------------------------------------------------
\* RefreshRouting does nothing before Setup; its error is a warning.
GenerateConf ==
  /\ pc = "conf" /\ NoFault
  /\ IF IsSetUp THEN WriteConf(WithAccount(mem)) /\ pc' = "live" /\ UNCHANGED <<plan, job>>
     ELSE SameWarp /\ Proceed
  /\ UNCHANGED <<proxyVars, storeVars, mem, runAs>>

GenerateConfFails ==
  /\ pc = "conf" /\ IsSetUp /\ Fault
  /\ ProceedWarn
  /\ UNCHANGED <<proxyVars, warpVars, storeVars, mem, runAs>>

SyncLiveRules ==
  /\ pc = "live" /\ NoFault
  /\ SyncRules(WithAccount(mem))
  /\ Proceed
  /\ UNCHANGED <<proxyVars, storeVars, mem, runAs>>

SyncLiveRulesFails ==
  /\ pc = "live" /\ Fault
  /\ SyncPartly(WithAccount(mem))
  /\ ProceedWarn
  /\ UNCHANGED <<proxyVars, storeVars, mem, runAs>>

\* warp.Setup: tools and registration, the account, the configuration, the unit.
\* It ends with Enable, except where install finds WARP enabled.
SetupStep ==
  /\ pc \in {"register", "socksUser", "wgConf"} /\ NoFault
  /\ CASE pc = "register"  -> SameWarp /\ Goto("socksUser")
       [] pc = "socksUser" -> /\ socksAccount' = TRUE /\ Goto("wgConf")
                              /\ UNCHANGED <<wgConf, wgUnit, wgUp, liveRules, publicRule>>
       [] pc = "wgConf"    -> WriteConf(WithAccount(mem)) /\ Goto("wgUnit")
  /\ UNCHANGED <<proxyVars, storeVars, runAs, job>>

SetupEnds ==
  /\ pc = "wgUnit" /\ NoFault
  /\ wgUnit' = TRUE
  /\ publicRule' = (publicRule \/ wgUp)
  /\ IF job.cmd = "install" /\ mem.warp THEN Proceed ELSE pc' = "up" /\ UNCHANGED <<plan, job>>
  /\ UNCHANGED <<proxyVars, wgConf, wgUp, liveRules, socksAccount, storeVars, mem, runAs>>

\* install warns and goes on with the proxy, the handler of WARP returns.
WarpFails == IF job.cmd = "install" THEN ProceedWarn ELSE Return

SetupFails ==
  /\ pc \in {"register", "socksUser", "wgConf", "wgUnit"} /\ Fault
  /\ WarpFails
  /\ wgUnit' \in IF pc = "wgUnit" THEN {wgUnit, TRUE} ELSE {wgUnit}
  /\ UNCHANGED <<proxyVars, wgConf, wgUp, liveRules, publicRule, socksAccount, storeVars, mem, runAs>>

\* Enable starts the service, which may be active, and then the flag is saved.
Enable ==
  /\ pc = "up" /\ NoFault
  /\ IF wgUp THEN publicRule' = TRUE /\ UNCHANGED <<wgUp, liveRules>> ELSE WgQuickUp
  /\ mem' = [mem EXCEPT !.warp = TRUE]
  /\ pc' = "saveFlag"
  /\ UNCHANGED <<proxyVars, wgConf, wgUnit, socksAccount, storeVars, runAs, plan, job>>

\* Rules that an earlier failure has left make it fail without a fault, and so
\* does a unit that Setup never came to write.
EnableFails ==
  /\ pc = "up"
  /\ IF CanStart THEN Fault ELSE NoFault
  /\ WgQuickUpFails
  /\ WarpFails
  /\ UNCHANGED <<proxyVars, wgConf, wgUnit, socksAccount, storeVars, mem, runAs>>

\* Disable: stop the service, then delete the rules that are left.  Errors of
\* both are ignored.
StopWarp ==
  /\ pc = "down"
  /\ pc' = "flush"
  /\ \/ NoFault /\ WgQuickDown /\ UNCHANGED job
     \/ Fault /\ UNCHANGED <<wgUp, liveRules, publicRule>> /\ job' = [job EXCEPT !.clean = FALSE]
  /\ UNCHANGED <<proxyVars, wgConf, wgUnit, socksAccount, storeVars, mem, runAs, plan>>

FlushRoutingRules ==
  /\ pc = "flush"
  /\ \/ NoFault /\ FlushRules /\ Proceed
     \/ Fault /\ FlushPartly /\ ProceedWarn
  /\ mem' = [mem EXCEPT !.warp = FALSE]
  /\ UNCHANGED <<proxyVars, wgConf, wgUnit, wgUp, socksAccount, storeVars, runAs>>

-------------------------------------------------------------------------------
\* uninstall: all services first, then what is left of WARP, then the directory
\* of the configuration.  Errors are ignored.  Accounts of users stay.
StopServices ==
  /\ pc = "services" /\ NoFault
  /\ EndServer(Stopped) /\ unit' = Absent
  /\ wgUnit' = FALSE /\ WgQuickDown /\ UNCHANGED <<wgConf, socksAccount>>
  /\ Goto("uninstallWarp")
  /\ UNCHANGED <<credsFile, storeVars, runAs, job>>

UninstallWarp ==
  /\ pc = "uninstallWarp" /\ NoFault
  /\ FlushRules /\ wgConf' = NoConf /\ socksAccount' = FALSE
  /\ Goto("wipe")
  /\ UNCHANGED <<proxyVars, wgUnit, wgUp, storeVars, runAs, job>>

RemoveConfigDir ==
  /\ pc = "wipe" /\ NoFault
  /\ file' = Absent /\ credsFile' = Absent
  /\ Proceed
  /\ UNCHANGED <<unit, server, session, warpVars, account, mem, runAs>>

-------------------------------------------------------------------------------
\* The command's process dies, or the proxy's.
Crash ==
  /\ pc # "idle" /\ Fault
  /\ Return
  /\ runAs' = "slipgate"
  /\ UNCHANGED <<proxyVars, warpVars, storeVars, mem>>

ServerDies ==
  /\ ServerActive /\ Fault
  /\ EndServer(Waiting)
  /\ UNCHANGED <<credsFile, unit, warpVars, storeVars, mem, runAs, flow, job>>

UserCommand == BeginAdd \/ BeginBulkAdd \/ BeginEditPassword \/ BeginRemove
HostCommand == BeginWarp \/ BeginRestart \/ BeginUpdate \/ BeginInstall \/ BeginWizard \/ BeginUninstall
AccountStep == AddSSHUser \/ AddSSHUserFails \/ RemoveSSHUser \/ RemoveSSHUserFails \/ Save \/ SaveFails
SetupSOCKS ==
  \/ FreePort \/ WriteCreds \/ WriteCredsFails \/ Reload \/ NoReload
  \/ CreateUnit \/ CreateUnitFails \/ RestartProxy \/ RestartProxyFails
Routing ==
  \/ GenerateConf \/ GenerateConfFails \/ SyncLiveRules \/ SyncLiveRulesFails
  \/ SetupStep \/ SetupEnds \/ SetupFails \/ Enable \/ EnableFails \/ StopWarp \/ FlushRoutingRules
Uninstall == StopServices \/ UninstallWarp \/ RemoveConfigDir

Operator == AccountStep \/ SetupSOCKS \/ Routing \/ Uninstall
Elsewhere == UNCHANGED <<warpVars, storeVars, mem, runAs, flow, job, bounds>>

Next ==
  \/ UserCommand \/ HostCommand \/ Operator \/ Crash \/ ServerDies
  \/ ServerStep /\ Elsewhere
  \/ ClientStep /\ Elsewhere

\* The proxy's goroutines and systemd go on; so does a command that has begun.
Spec == Init /\ [][Next]_vars /\ WF_vars(ServerStep /\ Elsewhere) /\ WF_vars(Operator)

-------------------------------------------------------------------------------
(* Properties *)

Parts == DOMAIN FirstStep
Steps == {FirstStep[part] : part \in Parts}
           \cup {"idle", "reload", "create", "restart", "live", "socksUser", "wgConf", "wgUnit",
                 "flush", "uninstallWarp", "wipe"}

\* Types: every copy of a user, the host's rules and units, and the plan of the
\* command that runs.
TypeOK ==
  /\ credsFile \in Creds \cup {Absent} /\ unit \in Unit \cup {Absent}
  /\ server \in Process /\ session \in Sessions
  /\ wgConf \in (SUBSET Uids) \cup {NoConf} /\ liveRules \in SUBSET Uids
  /\ {wgUnit, wgUp, publicRule, socksAccount} \subseteq BOOLEAN
  /\ file \in Config \cup {Absent} /\ mem \in Config
  /\ account \in [Users -> Passwords \cup {NoPass, Locked}]
  /\ runAs \in {"slipgate", "slipgate-socks"}
  /\ pc \in Steps /\ plan \in Seq(Parts) /\ (pc = "idle" => plan = <<>>)
  /\ pc = "account" => job.todo # <<>> /\ job.pass \in Passwords
  /\ commands \in 0..MaxCommands /\ faults \in 0..MaxFaults

AtRest     == pc = "idle"
Undisturbed == AtRest /\ faults = 0

\* After any commands none of whose steps failed (but those of Reruns, with which
\* it does not hold) the copies of a user agree:
\* every configured user has an account with the configured password, the proxy's
\* creds file says exactly what the configuration says, and the proxy's unit and
\* process run as the account that the WARP switch asks for.
UsersAgree ==
  Undisturbed /\ file # Absent =>
    /\ \A u \in UsersOf(file) : account[u] = file.users[u]
    /\ credsFile \in {Absent, file.users}
    /\ unit # Absent =>
         /\ credsFile # Absent /\ unit.user = ExpectedUser(file)
         /\ server.state # "stopped" /\ (ServerActive => server.as = unit)

\* After the same commands the kernel's rules are those of the configured users, and
\* of the proxy, exactly while WARP is enabled; the rule that exempts the public
\* address is there exactly then.  Nothing is left by a user who is gone.
RulesAgree ==
  Undisturbed =>
    /\ wgUp = (Loaded.warp) /\ publicRule = wgUp
    /\ liveRules = IF wgUp THEN UserUIDs(WithAccount(file)) ELSE {}

\* Whatever failed before, a user command whose own steps succeed repairs the
\* copies it owns: the creds file follows the configuration, its user's account
\* has the configured password (or is gone), and the kernel's rules are those of
\* the configured users if WARP runs.
SuccessRepairs ==
  AtRest /\ job.clean /\ job.cmd \in UserCommands =>
    /\ credsFile = file.users
    /\ job.user # NoPass => account[job.user] = file.users[job.user]
    /\ file.warp /\ wgUp /\ job.cmd # "edit_password" => liveRules = UserUIDs(WithAccount(file))

\* After a user command that succeeded the proxy runs with the creds file's
\* credentials in the end, however signals, restarts and the reading of the file
\* interleave (unless the next command begins).
CommandDone == AtRest /\ job.clean /\ job.cmd \in UserCommands
CredentialsFollow ==
  CommandDone ~> (~CommandDone \/ (server.state = "running" /\ server.creds = credsFile))

\* When nothing has failed, a user command that finds a client's session spares
\* it: the proxy is reloaded, not restarted, unless it listens on all interfaces
\* or has not installed its signal handler yet (microsocks.go: users are changed
\* without interrupting active connections).
SessionsSurvive ==
  [][pc = "reload" /\ pc' # "reload" /\ job.cmd \in UserCommands /\ faults' = 0
       /\ session # "none" /\ unit.addr = "127.0.0.1" /\ server.watch # "off"
     => session' = session /\ pc' # "create"]_vars

\* README.md: "Multi-user SSH + SOCKS credentials (all users authenticate
\* simultaneously)".  Writing the creds file takes no configured user's access
\* away while others keep theirs.
KeepsAccess ==
  \A u \in UsersOf(mem) : credsFile[u] # NoPass => credsFile'[u] # NoPass

AllUsersAuthenticate ==
  [][Absent \notin {credsFile, credsFile'} /\ NoCreds \notin {credsFile, credsFile'} => KeepsAccess]_vars
===============================================================================
