------------------------------ MODULE SocksProxy ------------------------------
(***************************************************************************)
(* The SOCKS5 proxy as a service: its process, the reload of credentials,  *)
(* the sessions of its clients (cmd/socks.go, internal/proxy/socks5.go),   *)
(* and the effects systemctl has on it.                                    *)
(*                                                                         *)
(* A credential set is a function from users to passwords; the empty one   *)
(* turns authentication off.  One client stands for all: sessions share    *)
(* nothing but the credential set.  Not modelled: what a relay carries,    *)
(* requests other than CONNECT, and a creds file the process may not read. *)
(***************************************************************************)
EXTENDS Naturals

CONSTANTS
  Users, Passwords,
  NoPass,           \* the user is not in the set
  Absent            \* no such file

Creds   == [Users -> Passwords \cup {NoPass}]
NoCreds == [u \in Users |-> NoPass]

\* A unit is what its ExecStart and User lines say.
Unit == [addr : {"127.0.0.1", "0.0.0.0"}, user : {"slipgate", "slipgate-socks"}]

ASSUME SocksProxyAssumption == NoPass \notin Passwords \cup Users /\ Absent \notin Creds \cup Unit

VARIABLES
  credsFile,  \* /etc/slipgate/socks-users.conf
  unit,       \* the unit file of slipgate-socks5
  server,     \* its process
  session     \* a client's connection

proxyVars == <<credsFile, unit, server, session>>

\* waiting: the process has ended and systemd will start it again (Restart=always)
\* starting: it runs and has not read the creds file yet
\* watch: the goroutine that waits for SIGHUP, from before signal.Notify on;
\* hup: a signal is in its channel; fresh: what it has read and not yet set.
Process == [state : {"stopped", "waiting", "starting", "running"}, as : Unit \cup {Absent},
            creds : Creds, watch : {"off", "idle", "read"}, hup : BOOLEAN, fresh : Creds]

Stopped == [state |-> "stopped", as |-> Absent, creds |-> NoCreds, watch |-> "off",
            hup |-> FALSE, fresh |-> NoCreds]
Waiting     == [Stopped EXCEPT !.state = "waiting"]
StartedAs(u) == [Stopped EXCEPT !.state = "starting", !.as = u]

\* asked: method 0x02 was answered, a user name and password are awaited;
\* granted: a request may be sent; relaying: CONNECT succeeded.
Sessions == {"none", "asked", "granted", "relaying"}

ServerActive == server.state \in {"starting", "running"}

-------------------------------------------------------------------------------
\* The process.  A creds file that cannot be read ends it.
ReadCredsAtStart ==
  /\ server.state = "starting"
  /\ server' = IF credsFile = Absent THEN Waiting
               ELSE [server EXCEPT !.state = "running", !.creds = credsFile]
  /\ UNCHANGED <<credsFile, unit, session>>

\* The goroutine runs; ListenAndServe does not wait for it.
WatchCredsFile ==
  /\ server.state = "running" /\ server.watch = "off"
  /\ server' = [server EXCEPT !.watch = "idle"]
  /\ UNCHANGED <<credsFile, unit, session>>

\* A signal that comes while one is handled stays in the channel.
TakeSignal ==
  /\ server.watch = "idle" /\ server.hup
  /\ server' = IF credsFile = Absent THEN [server EXCEPT !.hup = FALSE]
               ELSE [server EXCEPT !.hup = FALSE, !.watch = "read", !.fresh = credsFile]
  /\ UNCHANGED <<credsFile, unit, session>>

FaultySetCredentials ==
  /\ server.watch = "read"
  /\ server' = [server EXCEPT !.fresh = NoCreds, !.watch = "idle"]
  /\ UNCHANGED <<credsFile, unit, session>>

SetCredentials ==
  /\ server.watch = "read"
  /\ server' = [server EXCEPT !.creds = server.fresh, !.fresh = NoCreds, !.watch = "idle"]
  /\ UNCHANGED <<credsFile, unit, session>>

\* systemd starts the process again, five seconds after it has ended.
StartAgain ==
  /\ server.state = "waiting" /\ unit # Absent
  /\ server' = StartedAs(unit)
  /\ UNCHANGED <<credsFile, unit, session>>

-------------------------------------------------------------------------------
\* The client.  hasAuth and checkCredential look at the set at different times.
Greet ==
  /\ session = "none" /\ server.state = "running"
  /\ session' = IF server.creds # NoCreds THEN "asked" ELSE "granted"
  /\ UNCHANGED <<credsFile, unit, server>>

Authenticate ==
  /\ session = "asked"
  /\ \E u \in Users, p \in Passwords :
       session' = IF server.creds[u] = p THEN "granted" ELSE "none"
  /\ UNCHANGED <<credsFile, unit, server>>

\* A request is refused, or the target is reached.
Request ==
  /\ session = "granted" /\ session' \in {"none", "relaying"}
  /\ UNCHANGED <<credsFile, unit, server>>

\* Both directions have ended, or a peer has gone.
Leave ==
  /\ session \in {"asked", "relaying"} /\ session' = "none"
  /\ UNCHANGED <<credsFile, unit, server>>

-------------------------------------------------------------------------------
\* Effects of systemctl.  ExecReload sends SIGHUP, which ends a process that has
\* not called signal.Notify; the channel has room for one signal.
HangUp ==
  /\ server' = IF server.watch # "off" THEN [server EXCEPT !.hup = TRUE] ELSE Waiting
  /\ session' = IF server.watch # "off" THEN session ELSE "none"

RestartServer == server' = StartedAs(unit) /\ session' = "none"
EndServer(s)  == server' = s /\ session' = "none"

ProxyInit == credsFile = Absent /\ unit = Absent /\ server = Stopped /\ session = "none"

ServerStep == ReadCredsAtStart \/ WatchCredsFile \/ TakeSignal \/ SetCredentials \/ StartAgain
ClientStep == Greet \/ Authenticate \/ Request \/ Leave
===============================================================================
