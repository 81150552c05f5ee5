# slipgate: specification

TLA+ models of slipgate (the Go program under `src/`), model-checked with TLC, with
theorems proved by TLAPS. A definition names the code it stands for in `PROJECT.json`
(`map`); the behaviours that are hard to test, with the properties that watch them, are its
`hazards`.

## The system

slipgate turns a server into the far end of several kinds of tunnel. One executable is both
the operator's tool (command line and menu, run as root, short-lived or interactive) and
three of the long-running services it installs in systemd: the DNS router, the SOCKS5 proxy
and the StunTLS proxy. The tunnel servers themselves (dnstt-server, slipstream-server,
vaydns-server, caddy) and sshd are external programs.

| component | state | operations | interacts with |
|---|---|---|---|
| DNS router (`dnsrouter/`, `cmd/dnsrouter.go`) | routes, verify routes, default (fixed at start); per backend: UDP socket, pending table, TXID counter | one goroutine per packet, one reader and one cleaner per backend; verification probes | clients (UDP 53), tunnel servers (UDP on 127.0.0.1), systemd |
| configuration (`config/`) | the file `/etc/slipgate/config.json`, a copy in every process | Load, Save, Validate, ValidateNewTunnel, NextAvailablePort | everything below |
| tunnel operations (`handlers/tunnel_*.go`, `system_mtu.go`) | tunnel directories, keys, units, the configuration | add, edit and rename, remove, start, stop, MTU | configuration, systemd, router control |
| router control (`router/`, `handlers/router_*.go`, `dnsrouter/service.go`) | route mode, active and default tunnel | SwitchMode, SwitchActive, AddTunnel, RemoveTunnel, restart of the router | DNS router by restarting it |
| systemd services (`service/`, `transport/`) | unit files; enabled, active | Create, Start, Stop, Restart, Reload, Remove | all services |
| SOCKS5 proxy (`proxy/socks5.go`, `microsocks.go`, `cmd/socks.go`) | credentials in memory, creds file, unit | CONNECT with authentication, reload on SIGHUP, setup by rewriting file and unit | users, WARP |
| users (`handlers/system_sshusers.go`, `system/user.go`) | users in configuration, OS accounts, SOCKS credentials | add, bulk add, edit password, remove | SOCKS5 proxy, WARP, configuration |
| StunTLS proxy (`proxy/stuntls.go`) | one connection pair per client | protocol detection, banner scan, WebSocket framing, relay | sshd |
| WARP (`warp/`) | account, WireGuard configuration, kernel `ip rule`s | Setup, Enable, Disable, RefreshRouting | users, SOCKS5 proxy |
| installation, wizard, update, uninstall (`handlers/`) | none of their own | long scripts over all of the above | all |
| keys, certificates, share links (`keys/`, `certs/`, `clientcfg/`) | files | pure functions | tunnel operations |
| host integration (`network/`, `binary/`, diagnostics) | external programs | firewall rules, downloads, reports | none |
| command line, menu, prompts (`cmd/`, `menu/`, `prompt/`, `actions/`) | the menu's copy of the configuration | dispatch | handlers |

What is hard here, component by component, and what has to hold:

- **DNS router.** Goroutines share a table through single atomic operations with gaps between
  them; answers are matched by a 16-bit number that is used again and again; answers come
  late, twice or never; sockets carry errors of the past; the process may restart under its
  clients. Right means: no answer to the wrong client, no second answer, no lost TXID, a
  connection that goes on delivering, and one tunnel per name.
- **Configuration, tunnels, router control, systemd.** Handlers are sequences of effects on
  four stores (memory, file, units, running processes) with prompts, failures and crashes in
  between, by several processes without a lock. Right means: the running router routes what
  the saved configuration says; an aborted operation leaves something a retry completes; no
  two tunnels share an address, a unit or a directory.
- **SOCKS5 and users.** A user exists in four places. Right means: they agree when no
  operation is under way, credentials follow the file, live connections survive a reload.
- **StunTLS.** A byte stream is scanned, framed and relayed in two directions. Right means:
  every banner within the limit is found, nothing is inserted into the SSH stream, framing
  round-trips at its boundaries, a closed side ends the connection.
- **WARP.** Rules in the kernel and in a file. Right means: the running rules are those of the
  current users.

## Modules

| module | what it is |
|---|---|
| `RouteTable` | the data `Serve` derives from the configuration, and the lookups in it |
| `DnsForwarding` | abstract specification: what the router promises its clients |
| `DnsRouter` | the router process: every goroutine, the tables, sockets, backends, restarts |
| `MCDnsRouter` | instances of `DnsRouter` for TLC |
| `DnsRouterProofs` | theorems about `DnsRouter` |
| `Configuration` | the configuration as a value: tunnels, routing settings, validation, and what each handler makes of it in memory |
| `Extrema` | least and greatest elements of sets of naturals, and finite sets of them listed in order, for the proofs |
| `ConfigurationProofs` | lemmas about the operations of `Configuration`, and a theorem about `NextAvailablePort` |
| `TunnelManager` | the operator's commands as sequences of effects on memory, file, directories, systemd and the router; uses `Configuration` and `RouteTable` |
| `MCTunnelManager` | instances of `TunnelManager` for TLC |
| `TunnelManagerProofs` | theorems about `TunnelManager` |
| `TunnelManagerHostProofs` | the theorem that the host follows the file, for `TunnelManager` |
| `SocksProxy` | the SOCKS5 proxy: its process, credential reloads, client sessions |
| `WarpRouting` | WARP: its service, its configuration and the kernel's rules |
| `UserStore` | the operator's commands on users, proxy and WARP, over the state of the two modules above |
| `MCUserStore` | instances of `UserStore` for TLC |
| `UserStoreProofs` | theorems about `UserStore` |
| `StunTls` | one connection of the StunTLS proxy, from the first byte to the last |
| `MCStunTls` | instance of `StunTls` for TLC |
| `StunTlsProofs` | theorems about `StunTls` |
| `VerifyReply` | how the router builds the answer to a verification probe: its size, and the pool of buffers |
| `MCVerifyReply` | the instance of `VerifyReply` for TLC |
| `VerifyReplyProofs` | theorems about `VerifyReply` |

`TunnelManager` and `DnsRouter` meet at a restart of the router: the first decides when one
happens and which configuration the new process reads, the second what it does to queries under
way. Both derive the routes from a configuration through `RouteTable`. `UserStore` composes
`SocksProxy` and `WarpRouting`: their variables are its host, their operators the effects of its
steps, and the proxy's own actions interleave with it. `TunnelManager` and `UserStore` share the
configuration file in the program and not in the models: the first keeps the tunnels, the second
the users, the WARP switch, and of the tunnels only whether one is of type direct-socks5, the one
fact about tunnels that user handling looks at.

### RouteTable

`RoutesOf`, `VerifyRoutesOf` and `DefaultOf` are what `Serve` computes from `cfg.Tunnels`,
including what it does not check: a second tunnel with the same domain overwrites the route,
and the default tunnel need not be enabled. `FindBackend` is a set of results because the
suffix loop ranges over a Go map. `ValidProbe` follows `findVerifyRoute`, which takes the
first registered match, and the key comparison of `handleVerify`. Domain names are members of
a set with the relation "ends with `.` and that domain"; case and the trailing dot are
normalised on both sides in the code and disappear.

### DnsRouter

One action per atomic step of a goroutine; the steps are the operations on shared state
(`atomic.Add`, `LoadOrStore`, `LoadAndDelete`, `Delete`, the map under its mutex, socket calls).

| code | actions |
|---|---|
| listen loop | `Receive` |
| `handleQuery` | `AnswerProbe`, `DropUnroutable`, `RouteQuery`, `GetBackend`, `DialFails`, `TakeTxID`, `StoreEntry`, `EntryTaken`, `Exhausted`, `WriteQuery`, `WriteFails`, `UndoEntry` |
| `readBackendResponses` | `RouteResponse`, `IgnoreResponse`, `ReaderFails` |
| `cleanPending` | `FindStale`, `DeleteStale` |
| backends, network, time | `BackendAnswers`, `NoReply`, `BackendStops`, `BackendStarts`, `Expire` |
| systemd | `RestartRouter` |

`pc[q]` is the position of the handler of packet `q`, named for the statement that comes next;
`dst`, `candidate` and `tries` are its locals; `pending`, `nextTxID`, `backends` are the fields
of `Router` and `backendConn`; `reader` says whether the reader goroutine runs; `sweep` is the
key the cleaner has decided to delete. `replies` and `answer` are history.

Two facts about UDP are modelled because the code depends on them. A datagram sent to a closed
local port leaves `ECONNREFUSED` on the connected socket, and the next call on the socket,
`Write` or `Read`, takes it (`sockErr`). And a restarted router has new sockets, so answers to
the old ones reach nobody (`SocketsClose`).

Abstractions: a packet stands for its client address and original TXID; the age of an entry is
the set `stale`; the reader takes answers in any order; the backend is free to answer, not to
answer, and (with `Duplicates`) to answer twice.

`Late` and `Duplicates` choose the network. With both FALSE (`Prompt`) nothing of a query is
under way any more when its entry turns ten seconds old. That is the assumption in the comment
of `handleQuery` ("pending entries expire after 10s and the allocation space is 65536"), and
the properties that need it state it as a hypothesis. With `Late`, an answer that arrives after
its TXID was drawn again does go to the wrong client; nothing in the code excludes it.

### VerifyReply

`AnswerProbe` is one step of `DnsRouter`, because nothing it does is seen by other packets, with
one exception: the buffers of `paddingPool`. `VerifyReply` has that part of `handleVerify` by
itself, for any number of handlers: `Accept` (the proof was valid), `Aim` (the target and
`rand.IntN`), `GetBuffer`, `CopyMac`, `FillPadding`, `Build`, `PutBuffer`, and `Collect`, by which
the garbage collector takes a buffer out of the pool. A probe is reduced to the four numbers the
sizes depend on, a buffer to the handler whose HMAC and the one whose padding is in it. `DataSize`
is the code's estimate of the payload, with its division by 256, and `ReplySize` the size of what
`buildBinaryTXTResponseWithEDNS` then makes of it, with a length byte for every 255 bytes.
Packet parsing is left out: the size in the OPT record is given.

The sizes are what the code lets through: two bytes of the nonce, which are checked (200 to 4096),
16 bits of the OPT record, which are not, and as MTU any integer, because `tunnel add` and the wizards
take what parses and `system mtu` what is positive. Some of them panic, in `rand.IntN` (`Aim`) or in
the slice of the buffer (`GetBuffer`). A panic ends the process, so after one the module does not go
on (`Running`). `DnsRouter` leaves this out: there a probe that is accepted is answered.

### Configuration

A configuration is a record of the tunnels, in the order of the file, the route mode, the active
and the default tag. A tunnel's settings are reduced to what a property can tell apart: the
directory its key or certificate path names (`keyDir`), the public key the configuration
publishes (`pub`) and `mtu`, which stands for every setting that goes into a command line or a
Caddyfile. `NextAvailablePort`, `ValidNewTunnel` and `ValidConfig` follow the code's own tests,
including their difference: a new tunnel may share a domain under another backend, an imported
file may not, and an edit compares the domain with nothing. `Register`, `Deregister`, `Rename`,
`Replace` and `WithMTU` are what the handlers do to the copy in memory.

### TunnelManager

`pc[p]` is the statement that comes next in the handler process `p` runs, `job[p]` its locals.
A step is one effect on something others can see: the file, a directory, systemd, the router. That a
handler asks for the router's state (`RouteTunnel`, `Unroute`, `EnsureRouter`) and that it restarts
the router or writes and starts its unit (`Reroute`, `CreateRouter`) are two steps: in between the
router's process may end, be started by systemd, or be restarted or removed by another command.
Writing the router's unit and starting it is one. `install` makes no directory for a direct tunnel
that needs no certificate, the other commands do (`MakesDir`).

| code | actions |
|---|---|
| `handleTunnelAdd`, `addSingleTunnel`, `batchTunnelAdd` | `BeginAdd`, `AddForSSH`, `AddInBatch`, `SetUpDir`, `RegisterTunnel`, `RouteTunnel`, `Reroute`, `CreateRouter`; `SetUpDirFails`, `AddFails` |
| `Config.Save` | `Truncate`, `WriteFile`; `SaveFails` |
| `CreateService`, `service.*` | `Stop`, `RemoveUnit`, `Create`, `Start`, `Restart`; `CreateFails`, `StartFails`, `RestartFails` |
| `handleTunnelEdit` | `BeginEdit`, `RenameDir`, `Settings`, `ImportKey`, `FinishEdit`; `RenameDirFails`, `ImportKeyFails`, `EditFails` |
| `handleTunnelRemove`, `removeSingleTunnel` | `BeginRemove`, `Stop`, `RemoveUnit`, `Unroute`, `Reroute`, `ForgetTunnel` |
| `handleSystemMTU`, `runPostUpdate`, `handleSystemRestart` | `BeginMTU`, `BeginAll`, then the loop over services, `RestartRouter` |
| `handleTunnelStart`, `handleTunnelStop` | `StartTunnel`, `StopTunnel` |
| `SwitchMode`, `SwitchActive` and their handlers | `BeginMode`, `Restart`, `EnsureRouter`, `CreateRouter`; `BeginSwitch`, `StopActive`, `StartActive`, `RestartRouter`; `StartActiveFails` |
| `handleConfigImport` | `BeginImport` |
| `handleSystemInstall`, `handleQuickWizard` | `BeginInstall`, `Collect`, `SetUpDir`, `Gather`, `SaveInstalled`, `MultiMode`, `Create` and `Start` in a loop, `StartRouter`; `CollectFails` |
| `handleSystemUninstall` | `BeginUninstall`, `Stop` and `RemoveUnit` in a loop, `StopRouter`, `RemoveRouter`, `RemoveConfigDir` |
| `slipgate dnsrouter serve` under systemd | `RouterLoads`, `RouterFails`, `RouterRetries` |
| end of a command or of a process | `End`, `Crash` |

The file is a configuration or `Torn`, which is a truncated file or none: `os.WriteFile` truncates
before it writes, another process can read in between, with `TornWrites` a Save can stop there for
good, and uninstall removes it. A command line takes a
torn file for the default configuration and goes on; the router's process ends and is started
again by systemd after `RestartSec`. A unit file is represented by the tunnel its command line
was built from, and so is a running server, so that a server with outdated settings can be told
from one that is up to date. The key material in a tunnel's directory is a member of `Keys`.

Failures are counted in `faults`, so that a bound can be set and "nothing has failed so far" can be
said: a write, a systemctl call or a key import that fails, a prompt that ends with an error, a
process that dies between two statements. Some failures need no fault because the state forces
them: a rename onto an existing directory, a unit or a directory that another process removed.

### SocksProxy and WarpRouting

`SocksProxy` is the proxy as systemd and its clients see it. `server.state` goes from starting
through `ReadCredsAtStart` to running; a creds file that cannot be read ends the process, and
`Restart=always` brings it back (`StartAgain`). The goroutine that waits for SIGHUP starts after
the file was read: until `WatchCredsFile`, which stands for `signal.Notify`, a SIGHUP ends the
process; afterwards it is kept in a channel of one (`hup`). `TakeSignal` reads the file,
`SetCredentials` swaps the set under the lock, and another signal can come between the two. A
session is asked for a password or not (`hasAuth` in `Greet`) and is checked later
(`checkCredential` in `Authenticate`), against whatever set is there by then. `HangUp`,
`RestartServer` and `EndServer` are what systemctl does.

`WarpRouting` keeps which accounts `wg0.conf` names (`wgConf`) apart from those with a rule in the
kernel (`liveRules`), because the code changes them at different times: `WriteConf` is
`generateWgConf`, `SyncRules` is `syncLiveRules`. wg-quick runs the PostUp and PostDown lines that
`generateWgConf` wrote: the lines for accounts have no `|| true`, so it gives up at a rule that
exists (or is missing) and leaves what it has done so far.

### UserStore

A command is a plan: the parts of its handler, in the handler's order (`FirstStep` names the first
step of each). `pc` is the next step, `plan` the parts after the current one, `job` the locals.

| code | actions |
|---|---|
| `handleSystemUsers` | `BeginAdd`, `BeginBulkAdd`, `BeginEditPassword`, `BeginRemove` |
| `AddSSHUser`, `RemoveSSHUser`, `Config.Save` | `AddSSHUser`, `RemoveSSHUser`, `Save`, and each with `Fails` |
| `setupSOCKSMulti`, `writeSocksCredsFile` | `WriteCreds`, `Reload`, `NoReload`, `CreateUnit`, `RestartProxy`; `WriteCredsFails`, `CreateUnitFails`, `RestartProxyFails` |
| `warp.RefreshRouting` | `GenerateConf`, `SyncLiveRules`; both with `Fails` |
| `warp.Setup`, `Enable`, `Disable` | `SetupStep`, `SetupEnds`, `Enable`, `StopWarp`, `FlushRoutingRules`; `SetupFails`, `EnableFails` |
| `handleWarp`, `handleSystemRestart`, `runPostUpdate` | `BeginWarp`, `BeginRestart`, `BeginUpdate` |
| `handleSystemInstall`, `handleQuickWizard` | `BeginInstall`, `BeginWizard`, `FreePort` and the parts above |
| `handleSystemUninstall` | `BeginUninstall`, `StopServices`, `UninstallWarp`, `RemoveConfigDir` |
| a process that dies | `Crash`, `ServerDies` |

Which failures end a handler (`Return`) and which are warnings (`ProceedWarn`) is the handler's own
choice: a failed Save ends `add` but not the handler of WARP, a failed account ends `add`, is
skipped by `bulk_add`, and is ignored by the wizard, which configures the user all the same. Some
failures need no fault: `userdel` of an account that is gone, `Enable` when rules are left over or
the unit was never written, a reload of a service that is not active. `RunAsUser` is a global
variable of the process and survives from one command of a menu to the next (`runAs`); the wizard
is the one caller that does not set it. `install` passes only the user of its own run to the proxy
(`CredsToWrite`), and nobody when it creates none: the creds file is empty then, and the proxy asks
nobody for a password.

`Reruns` says whether install and wizard may run in every way on a host that has a configuration.
With FALSE they run only where they leave its users alone: an installation that creates no user, does
not enable WARP anew, and sets up the proxy only if there are no users (`LeavesUsers`); a wizard that
uses a user of the host and finds WARP disabled (`BeginWizard`). Everything else is excluded, because
the copies of the users do come apart there.

### StunTls

The client's stream is a sequence of items: single bytes, WebSocket frames, and the two parts of an
HTTP request. `filled` of them have been read from the socket (by whatever reads first, a
`bufio.Reader` included) and `used` were consumed; the difference is what a wrapper must hand to
the relay. The client decides what to send and when, the network how much a read brings, each peer
when it ends or resets.

| code | actions |
|---|---|
| `handleConn` | `PeekMore`, `Dispatch`, `PeekFails` |
| `readHTTPRequest`, the handlers of CONNECT and WebSocket | `ReadMoreOfRequest`, `RequestFails`, `RefuseRequest`, `AcceptRequest` |
| `handlePayload` | `ScanMore`, `ScanByte`, `ScanFails` |
| dialling sshd | `Dial`, `DialFails`, `Reply` |
| client to sshd: `io.Copy`, `wsToTCP` | `UpRead`, `UpWrite`, `UpStops`, `UpEnds` |
| sshd to client: `io.Copy`, `tcpToWS` | `DownCopy`, `DownEnds` |
| `wg.Wait` and the deferred `Close` | `Finish` |
| the peers | `ClientSends`, `ClientEnds`, `ClientResets`, `SSHSends`, `SSHEnds`, `SSHResets` |

`Header` is the length field `writeWSFrame` writes, byte by byte, and `PayloadLength` what
`readWSFrame` makes of it. `MeantForSSH` is the set of streams the client can mean for sshd, written
without a scanner or a parser: the data frames in order (`InOrder`), what follows the CONNECT request,
or what starts at a banner. Three oddities of the code are in the model and shape the properties: a
pong is written to sshd (`PayloadOf`), the scanner misses a banner that follows another `S`
(`NextMatch`), and only `*net.TCPConn` is half-closed, so a client without WebSocket is not told
that sshd has ended (`DownEnds`). A read from sshd may bring less than has arrived (`ReadCounts`).

The model is of one connection and of frames that were sent. `readWSFrame` allocates a payload at
whatever 64-bit length a header announces, before any of it has come (stuntls.go:341); a length that
`make` refuses or the host cannot serve ends the process with all its connections. Such headers are
outside the model: lengths are at most 2^31 - 1 (`LengthAssumption`), and the high four bytes of a
long length, which are 0 then, are not looked at (`PayloadLength`).

Operators called `Faulty...`, and `EarlyPutBuffer`, are in no specification. Each is the definition that follows it
with one plausible bug, kept to show that a property notices that bug (`mutants`).

## Runs

| run | specification and bounds | checks | result |
|---|---|---|---|
| `dns_hostile` | 3 competing queries and an unroutable one, 2 TXIDs, 1 backend, late and duplicate answers, 1 outage, 1 restart; 2.1 million states | `TypeOK`, `AtMostOneReply`, `EntriesMatchHandlers` | hold |
| `dns_prompt` | 3 competing queries and a valid probe, 2 TXIDs, 1 backend, prompt answers, 1 restart; 135 000 states, with fairness | `NoMisdelivery`, `TxIDsAreExclusive`, `ReleasedForItself`, `ImplementsForwarding`, `EveryQuerySettles`, `AnswersAreRead` | hold |
| `dns_outage` | 2 queries, prompt answers, 1 outage, 1 restart, with fairness | `AnswersAreRead` | violated |
| `dns_nested` | 2 queries for one name, 2 tunnels with nested domains | `SameNameSameBackend` | violated |
| `verify` | 2 handlers, 2 buffers; sizes on both sides of every bound, those that panic included, in nonce, OPT record and MTU; 3 lengths of question, 5 draws; 1.0 million states | `TypeOK`, `PanicsOnlyOutOfRange`, `SizeNearTarget`, `OwnReply` | hold |
| `verify_panic` | the same probes | `NoPanic` | violated |
| `manager_faults` | one menu, 3 commands of any kind but import, 1 fault; 2 tags, 2 domains, 2 keys, VayDNS, NaiveProxy and direct SSH; 3.7 million states | `TypeOK`, `UnitsListed`, `NoPortClash`, `HostMatchesFile`, `ConfigurationConsistent` | hold |
| `manager_race` | a menu and a command line, 3 commands of add, edit, remove and import of external tunnels, 1 fault, torn writes; 340 000 states, with fairness | `ConfigurationConsistent`, `AddedIsRouted` | hold |
| `manager_removed` | one process adds and removes | `RemovedRouteDropped` | violated |
| `stuntls` | one connection; up to 7 bytes with a scan limit of 6, or 3 frames or bytes after a request; frames of 126 and 65536 bytes, a write of sshd of 126 bytes more than the buffer, read in full or in one byte less; 1.6 million states, with fairness | `TypeOK`, `NothingInserted`, `NothingLost`, `DownFaithful`, `BannerFound`, `ClientGoneEnds`, `SSHGoneEnds` | hold |
| `users` | 2 users, 2 passwords, any 3 commands within `Reruns = FALSE`, 1 fault; 1.9 million states, with fairness | `TypeOK`, `UsersAgree`, `RulesAgree`, `SuccessRepairs`, `CredentialsFollow`, `SessionsSurvive` | hold |
| `users_install` | install and add, 3 commands, no fault | `AllUsersAuthenticate` | violated |

`PanicsOnlyOutOfRange` and `SizeNearTarget` compare the code's arithmetic with what it is for: an
answer, with all that is put around the payload, has the size that was aimed at, and what ends the
process instead is an OPT size or an MTU that is below 4 or for which the payload exceeds the buffer,
never the size in a nonce. For a route with MTU 0 the size aimed at is 1232, as the code has it. `OwnReply` is about the pool: a buffer goes back only after its content was copied out of it.

`UnitsListed` says that nothing a failure leaves behind is out of reach of the commands: Save comes
before a unit is created and after it is removed, so a retry finds the tunnel in the file.
`NoPortClash` depends on it, because ports are taken from the file only. `HostMatchesFile` says that
the handlers' order of effects, undisturbed, ends with file, units, servers and keys in agreement
after any sequence of commands, and that uninstall leaves neither unit, server, directory nor router.
All three are about one process; their theorems say under which conditions.
`ConfigurationConsistent`, where only the wizard may leave Active empty, holds even when two
processes overwrite each other's file, because each copy is changed by whole handlers only. `AddedIsRouted` is the one
promise about the router that survives every interleaving: `AddTunnel` restarts or starts it after the file
was saved, whatever state another command left it in, and although that state may have changed since
`AddTunnel` looked.

`UsersAgree` and `RulesAgree` are the agreement of all copies after commands none of whose steps
failed, in whatever order they came, but without the installations and wizards that `Reruns = FALSE`
excludes: with those it does not hold. `SuccessRepairs` is about the rest: the code has no rollback,
but each user command writes the creds file and the rules anew from the whole configuration, so
that one success undoes what earlier failures left. `CredentialsFollow` is its live counterpart for
the proxy's memory, through lost signals, early signals that end the process, and restarts.
`SessionsSurvive` is the promise of the comment in `setupSOCKSMulti` ("so existing client
connections survive"); its hypotheses name the two cases in which the code does restart the proxy.

`NothingInserted` and `NothingLost` together say that sshd receives the client's SSH stream,
whatever part of it lay in a buffer when the relay began. `BannerFound` compares the scanner with
what a search of the whole stream would find. `DownFaithful` reads the frames as the headers say
and counts. `ClientGoneEnds` and `SSHGoneEnds` are about the two goroutines that wait for each
other.

**Why these bounds.** Everything the router can get wrong with TXIDs needs a TXID in use by one
query and wanted by another; three queries on two TXIDs force the counter to wrap past an
occupied TXID, `EntryTaken` to retry and `Exhausted` to give up, with a third query left to
reuse what was freed. Backends share nothing but the map, so one is enough for the table; two
are used where routing is the question. One outage is what it takes to leave an error on the
socket, one restart what it takes to have answers of an old process under way. `MaxOutages` and
`MaxRestarts` bound how often these happen, `TxSpace` stands for 65536. The safety run treats
the competing queries as interchangeable (symmetry); the run with fairness does not.

For `VerifyReply`: the sizes are on both sides of the bounds in `handleVerify`, of those at which it
panics and of those where the number of length bytes changes, among them 1, 3 and 65535 in the OPT
record and MTUs of -4, 2 and 4156; `Draws` bounds the results of `rand.IntN` that are tried. Two
handlers and two buffers, both interchangeable, let a buffer change hands while the other is in use.

For `TunnelManager`: two tags give a second tunnel to collide with and a free tag to rename to or
to use again after a removal; two domains are needed for an edit that changes one; two keys tell an
old pair from a new one. Three commands cover install or wizard, which bring two
tunnels at once, an operation and its retry (or a removal followed by an addition that reuses port,
tag and directory), and one fault may hit any statement of any of them. VayDNS has keys, settings, prompts before and after the key, a port and a route;
NaiveProxy is the transport that restarts and writes into the directory; direct SSH has no unit. The
race runs over external tunnels, whose handlers have no services and so expose the interleavings of
file and router; three commands let a third one begin while the two that raced are ending.
`MaxCommands` and `MaxFaults` name the bounds. Tags, domains and keys are interchangeable in
`manager_faults` (no import fixes one); the run with fairness uses no symmetry.

For `UserStore`: two users tell "all" from "the one of this run", and leave a rule or a line of a
user who is gone beside one who stays; two passwords tell an old one from a new one. Three commands
are a set-up (install or wizard), a change, and its retry or its inverse, and one fault may hit any
step of any of them. In what `Reruns = FALSE` excludes the code does what `users_install` shows, or
turns the proxy's authentication off (an installation that creates no user), or what the hazard at
`quick_wizard.go:511` says of the wizard. `Reruns = TRUE` is the violation run. One client stands for all, because sessions share only the set.

For `StunTls`: a banner has four bytes, so that seven bytes with a limit of six are a banner after
one, two or three bytes (a false start `S`, `SS` or `SSH` included, and an `H` or `-` that belongs
to none), one that just fits the limit, and one that just does not. The alphabet is that of the
banner, because every other byte acts like an `H` out of place. After a request three items let a
close or a ping come between two frames. 126 and 65536 are where the length field changes its form
(125 and 65535 differ from them by one, and the theorem `FrameRoundTrip` covers every length). sshd
writes 32768 + 126 bytes at once, of which `tcpToWS` reads what fills its buffer and then 126, or a
byte less each time, so that the length field changes its form here too.

**Deadlock** is not checked: a router with no packet under way has nothing to do, and an operator
may stop using slipgate, in the middle of a prompt too.

**Fairness.** Weak fairness on each handler, reader and cleaner goroutine is what the Go
scheduler and the ticker give; on `Expire`, that time passes; on a backend's step, that a
request does not stay in a backend for ever (`NoReply` is such a step, so no answer is
promised). Nothing is assumed about clients, restarts or outages. In `TunnelManager`, weak
fairness on the statements of each process, and on those failures the state forces, is that a
running program goes on; on the router's steps, that systemd starts what is to be started
(`Restart=always`). The operator owes neither an answer (`Answers`) nor a command (`Begins`), and
no fault has to happen.

In `UserStore` weak fairness on the proxy's steps is the Go scheduler and systemd's
`Restart=always`; on the steps of a command, that a command that has begun goes on. Clients owe
nothing. In `StunTls` the server's goroutines go on; sshd ends a connection whose other side was
half-closed (`PoliteSSH`), and a WebSocket client ends its side after a close frame (`PoliteClient`,
RFC 6455, 5.5.1). Without the last two nothing would end a connection, in the program either: after
the first four bytes there is no deadline.

**The violations.**

- `dns_outage`: `readBackendResponses` returns on any read error and the `backendConn` stays in
  the map. A query written while its backend is down draws `ECONNREFUSED`; if the reader takes
  it, every later answer from that backend stays in the socket until the router restarts.
- `dns_nested`: with one domain below another, `findBackend` returns whichever suffix match the
  map iteration meets first, so two packets of one session can go to different tunnels.
- `verify_panic`: a valid probe for a tunnel with MTU 2 makes `rand.IntN(0)` panic, which ends the
  router; an MTU below 4 or an OPT size of 1 to 3 does it, and so does a size for which the payload
  exceeds the buffer. None of them is checked.
- `manager_removed`: `removeSingleTunnel` restarts the router before its caller saves the file; the
  new process reads the old file and keeps the route of the removed tunnel.
- `users_install`: a second installation that creates a user writes a creds file with that user
  alone (`SetupSOCKSWithAuth`), while the configuration keeps all (one that creates none writes an
  empty file); the wizard was corrected for the
  same fault and says so in a comment.

## Proofs

`DnsRouter`, `StunTls`, `VerifyReply`, `Configuration`, `TunnelManager` and `UserStore` are proved
about. Each theorem is for every value of the constants, from the named assumptions, which TLC
evaluates in the runs, and from the hypotheses it states itself, which say what the code does not
guarantee.

`DnsRouterProofs`, for every set of queries, every configuration, every TXID space and any number
of outages and restarts (`NamesAssumption`, `SentinelAssumption`, `RouterAssumption`):

| theorem | statement |
|---|---|
| `TypeCorrect` | `SafeSpec => []TypeOK` |
| `EntriesAreTheirs` | `Spec => []EntriesMatchHandlers` |
| `AtMostOnce` | `Spec => []AtMostOneReply` |
| `ExclusiveTxIDs` | `Spec => []TxIDsAreExclusive` |
| `NeverMisdelivered` | `Spec => []NoMisdelivery` |
| `EntriesReleasedForThemselves` | `Spec => ReleasedForItself` |
| `Refinement` | `Prompt` implies `Spec => ImplementsForwarding` |

The argument has two layers. `EntriesMatchHandlers` is inductive in every environment: an entry
can only hold a query that has not been answered, under the TXID its handler drew. An answer
takes the entry out, so there is no second one: `AtMostOnce`. `NoMisdelivery` is not inductive
by itself, because where an answer goes depends on the entry it finds. `TxIDsAreExclusive`
strengthens it: from `LoadOrStore` until nothing of the query is left, its handler, its request
or answer, and the cleaner's decision to reap it all find the entry still its own. Its five
parts hold each other up: the cleaner's blind `Delete` is harmless only because an entry old
enough to be swept has no handler and no message left, and a message finds its own entry only
because no such `Delete` hits it. The same invariant gives `ReleasedForItself` and the step
lemmas of the refinement, where a query's abstract status is read off `replies`, `pc` and
whether an entry holds it. The routing lemmas (`RoutesType`, `DefaultType`) rest on the
existence of a last tunnel with a given domain, which is well-foundedness of the naturals.

`StunTlsProofs`, for streams, scan limits, frames and reads of any size (`StunTlsAssumption`,
`NamesAssumption`, and `LengthAssumption`: no frame and no read is longer than 2^31 - 1 bytes, where
the code's own limit on reads is 32768):

| theorem | statement |
|---|---|
| `FrameRoundTrip` | the header of `n` bytes is read back as `n`, for every `n` below 2^32 |
| `TypeCorrect` | `Spec => []TypeOK` |
| `BannersFound` | `Spec => []BannerFound` |
| `StreamUntouched` | `Spec => []NothingInserted` |
| `StreamComplete` | `Spec => []NothingLost` |
| `FramesFaithful` | `Spec => []DownFaithful` |

`TypeInv` adds to `TypeOK` what the types rest on: only items are sent, and the scan goes on only
while less than a banner has matched. `BannerFound` speaks of the moment the scan gives up and
compares it with the whole stream, so the induction needs what the scanner knows on its way.
`ScanInv` says it: the scan starts at the first byte (`Begun`), the bytes before it are the part of
the banner that has matched (`MatchIsReal`), no banner that follows another byte than `S` has begun
further back than that (`NoneMissed`), and none has been passed altogether (`NonePassed`). The
second is what makes the third inductive: when a byte does not match, a longer prefix of the banner
cannot have begun inside the part that did, except at an `S`, which is the case the code handles.

The relay's invariant joins what the client has said to where the program stands. `Shape` says which
item can stand where in a stream, `Linked` which streams a detected protocol can belong to. `CarryInv`
is the heart: once a handler has begun to carry, what sshd has got and what a wrapper still holds
(`head`) are, item for item, the stream from the place where the SSH part starts up to what has been
consumed (`Straight`), or, with frames, the data frames consumed, in their order (`Picked`). When sshd
has gone and a write has failed the two may differ by what was dropped (`Behind`), and only then. The
bytes that `handlePayload` pushes back are the case it was written for: they were consumed by the
scanner, have not reached sshd, and have to be in `head`. `CompleteInv` adds that the goroutine ends,
with sshd open, only when nothing is left, or at a close frame, after which nothing follows.
`StreamPrefix` and `StreamWhole` read the two properties off; `OrderExtends` of `Extrema` continues
the frames relayed so far to a list of all of them, which is the member of `MeantForSSH` that
`NothingInserted` asks for.

For `FramesFaithful` the frames' total, a recursive function over the answers, is replaced in the
invariant (`DownInv`) by the existence of running totals (`Counted`), which a write extends by one;
`CountedReceived` shows by a least counterexample that they are what the function computes. The
header of every frame gives its length back by `FrameRoundTrip`.

`VerifyReplyProofs`, for any integer as MTU, any 16 bits in nonce and OPT record, questions of any
length and any number of handlers and buffers (`VerifyAssumption` gives no more than these types):

| theorem | statement |
|---|---|
| `TypeCorrect` | `Spec => []TypeOK` |
| `PanicsExplained` | `Spec => []PanicsOnlyOutOfRange` |
| `SizesNearTarget` | `Spec => []SizeNearTarget` |
| `RepliesAreOwn` | `Spec => []OwnReply` |

Half of it is arithmetic: `StringsFit` shows that the estimated payload and its length bytes give
the size wanted or one byte less, `SizeFacts` that the payload for a size up to 4096 fits the buffer,
`DataSizeMonotone` that the payload of what was drawn is no larger than that of the target, `Draw` that the
random part stays within a quarter (`Near`). The other half is the invariant `IInv`: no two handlers
hold one buffer and none that is held is in the pool (`BuffersExclusive`), so what a handler has
written into its buffer is still there when it copies it out (`ContentIsOwn`), and `ReplyIsBuilt`
keeps what `Build` found.

`ConfigurationProofs`, `TunnelManagerProofs` and `TunnelManagerHostProofs`, for configurations of any
length and any number of tags, domains, keys, commands and failures (`ConfigurationAssumption`,
`ManagerAssumption`, and `AbsenceAssumption`: `NoUnit` is no tunnel and `NoDir` no content of a
directory):

| theorem | statement |
|---|---|
| `NextPortFree` | `NextAvailablePort` returns the least free port, at most `Len(c.tunnels)` above the first |
| `TypeCorrect` | `Spec => []TypeOK`, for any number of processes |
| `ConfigurationStaysConsistent` | `ImportsConsistent` implies `Spec => []ConfigurationConsistent`, for any number of processes |
| `UnitsAreListed` | `Alone(q)` implies `Spec => []UnitsListed` |
| `PortsDiffer` | `Alone(q)` implies `Spec => []NoPortClash` |
| `HostFollowsFile` | `Alone(q)` implies `Spec => []HostMatchesFile` |

`NextPortFree` is a pigeonhole: one of `Len + 1` ports is not among those of `Len` tunnels, and
`Extrema` gives the least such port. The other lemmas of the module say which tags, tunnels and
ports a configuration has after one was added, removed, replaced or renamed.

`TypeOK` of the manager is not inductive: it says that the tunnel a handler works on is in its copy
of the configuration, and that depends on where the handler is. `IInv` says so for every command
(`At`): a rename still finds the old tag and not the new one until the old unit is removed, a loop over tags still
finds each tag it has not reached, a tunnel under way is valid for the copy it is about to be
appended to. `At` speaks of a process's copy, statement and locals and of nothing that another
process can write; the file is only ever written from a copy for which it holds (`Sound`). That is
why no number of processes that overwrite each other breaks it. `ActiveFine` is a layer on top: what
`Route.Active` may be at each statement, between the assignment to the tunnels and the one to the
route. `ImportsConsistent` is a hypothesis because `Validate` does not look at `Route.Active`: a
backup made by hand can name a tunnel that is not there.

`OwnFine` is the layer for units and ports. It reduces a tunnel to its place (tag, transport, port)
and says that the units lie within the places of the file, except while the file is being written,
and within those of the handler's copy; that the places of each have different ports and tags
(`Apart`); that a tunnel which is still to be created is free of the copy (`FreshIn`); and where the
copy is known to be in the file (`SavedAt`). What a failure leaves is inside it because Save comes
before a unit is created and after it is removed. `Alone(q)` is one process, no import and no Save
that dies between truncation and write, and all three are needed: a second process can save a copy
that lacks the tunnel, an import replaces the list without looking at the units, and after a
truncated file the program goes on with the default configuration.

`HostFollowsFile` needs a further layer, `MatchFine`, which speaks only while `faults` is 0. Between
commands the host has at every tag what the file says (`Placed`): unit, process, key pair and directory
are the tunnel's (`Matches`), or nothing is there (`Clean`). Within a command some tags are in its
hands, and for the others `InPlace` says the same of the copy in memory. The lemmas on steps use that a
statement leaves alone the tags it is not about (`InPlaceKept`). A tag in hand is followed through its
stages: its files are right and an old server may run (`Pending`), the old server is gone or is the
right one (`Startable`), the unit is written (`Started`), and the server runs (`Matches`). Each command
has its own account of which tags are in hand at which statement (`AddMatch` to `UninstallMatch`). Three
things are not local to a tag. A rename moves the files first and the unit later, so one tunnel is in
two places (`Moved`). An edit that turns out to change nothing ends without a Save, while its copy was
assigned to already; so the invariant keeps what the file still says (`Unsaved`). And where a command
ends or goes on to services, the copy has to be what was saved (`LoadedFrom`); the file can be absent only
together with the router (`MatchAt`). From `OwnFine` comes that no unit is left of a tunnel taken off the
list, by a removal or by uninstall. The failures that the state forces are shown not to happen while
nothing has failed, with the exception of `StartActiveFails` (a tunnel without a unit), which changes no
service.

`UserStoreProofs`, for any number of users, passwords, commands and failures
(`UserStoreAssumption`, `AbsentIsNoConfig`, `SocksProxyAssumption`, `WarpAssumption`):

| theorem | statement |
|---|---|
| `TypeCorrect` | `Spec => []TypeOK` |
| `UserCommandsRepair` | `Spec => []SuccessRepairs` |
| `CopiesOfUsersAgree` | `~Reruns` implies `Spec => []UsersAgree` |
| `RulesOfUsersAgree` | `~Reruns` implies `Spec => []RulesAgree` |
| `SessionsOfClientsSurvive` | `~Reruns` implies `Spec => SessionsSurvive` |

A command's remaining plan is what makes these inductive: `At` says which parts can still be to come
at each step, so that "two copies agree" can be weakened to "they agree, or the part that brings them
together is still ahead". `Repairing` is that statement for a user command whose own steps succeeded,
with no word about earlier ones, which may have left anything. `Following` is the same for all
commands while nothing has failed: file and copy (`FileFollows`), creds file (`CredsFollow`), unit and
process of the proxy (`ServerFollows`, with `UserFollows` for the account it runs as), WARP and its
rules (`WarpFollows`, `RulesFollow`), accounts (`AccountsFollow`), and what has to be absent before
the first installation (`FreshHost`, `FreshRules`, `FirstUser`). Its induction step is cut in two:
`Does` is a table of what each step writes and where it can lead, proved per action, and the parts of
`Following` are then proved from the table. `~Reruns` is a real restriction. It excludes, where a configuration exists, every installation
that creates a user, enables WARP anew or sets up the proxy where there are users, and every wizard
that creates a user or runs where WARP is enabled. `users_install` shows one of these to go wrong. An
installation that creates no user and sets up the proxy falsifies `UsersAgree` as well: it writes an
empty creds file (system_install.go:690 and :698) while the configuration keeps its users. That it
suffices to exclude these is what the theorems say.

`SessionsOfClientsSurvive` is an action property, from the same invariant: a user command that
reaches `reload` while a client has a session on a proxy on localhost finds the unit as it would
write it (`SparesSessions`), so that a SIGHUP is all it sends.

Only model-checked are the liveness properties (`EveryQuerySettles`, `AnswersAreRead`,
`AddedIsRouted`, `CredentialsFollow`, `ClientGoneEnds`, `SSHGoneEnds`), which depend on fairness and are
out of the prover's reach. Every invariant, every action property and the refinement that a passing run
checks is a theorem.

## Plan

Done: the router with its refinement; tunnels, router control and services under faults and races,
from installation to uninstallation; users, proxy and WARP; the StunTLS connection; the answers to
probes; and the proofs above, of every safety property of the passing runs. What is left: two commands
of `UserStore` at once, and a reboot.

## Not modelled

Of the tunnel operations: the enabling of units, which only a reboot looks at; the firewall,
`FreePort` and downloads in `TunnelManager`; the offer to create a user after an addition, which runs the handler
of `UserStore`'s `add`; a `RemoveAll`, a `systemctl stop` or a call on the router's own unit that
fails; tunnels tagged `dnsrouter` or `socks5`, whose unit is another service's; configurations
without the two standard backends; a menu that cannot read the file and goes on with the copy of
its start; the second Save of the wizard, which adds the user, and the unit of NaiveProxy that
install writes again for that user (the user is in `UserStore`); a RemoveAll that stops midway.

Some statements of documents and comments that the code does not follow are in the models as the code
has them, and no run checks them:

- "single mode" runs and routes all tunnels (`SwitchMode` says so in its comment, README.md:324 and
  USER_GUIDE.md:356 say otherwise);
- a verify route with MTU 0, which Slipstream's have, pads to 1232, where verify.go:19 says that 0 is
  no padding (`Target`, and `SizeNearTarget` asserts what the code does);
- `wsToTCP` writes the answer to a ping to sshd, where stuntls.go:354 says "server → client"
  (`PayloadOf`; `NothingInserted` and `NothingLost` exclude clients that ping);
- a rename under the comment "Update key file paths" (tunnel_edit.go:74) leaves the certificate paths of
  Slipstream and StunTLS at the old directory (`Rename`; `HostMatchesFile` is about key pairs only).

Of the DNS router: the parse of packets (byte layout) and the cryptography; in `DnsRouter` the panics
of `handleVerify`, which are in `VerifyReply`.

Of the proxy: the bytes relayed, requests other than CONNECT, the single `-user` start of old units.
Of users: the list command, which only reads; two commands at once; a Save that is torn (it is in
`TunnelManager`); a step of uninstall that fails. Of WARP: the registration API beyond that it may
fail, resolvers, NaiveProxy's service, a change of the public address. Of StunTLS: TLS and the
accept loop, masking, `Sec-WebSocket-Accept`, frames cut off in the middle, headers that announce more
than 2^31 - 1 bytes (stuntls.go:341 allocates what they say, and can end the process).

The transports' own servers; downloads, diagnostics and statistics; keys, certificates and share
links, which are functions of their input in cryptographic libraries and text formats; prompts and
menus.
