------------------------------- MODULE DnsRouter -------------------------------
(***************************************************************************)
(* The DNS router process (internal/dnsrouter/router.go): one goroutine    *)
(* per received packet, and per backend a persistent connected UDP socket, *)
(* a table of pending queries, a reader goroutine and a cleaner goroutine. *)
(* Each action is one atomic step of one goroutine; atomics, sync.Map      *)
(* operations and system calls are the points where goroutines interleave. *)
(*                                                                         *)
(* Abstractions.                                                           *)
(*  - A packet is a member of Queries: its client address and original     *)
(*    TXID are what the entry of the pending table remembers, so a reply   *)
(*    "to q" is one written to q's address under q's own TXID.             *)
(*  - TXIDs have TxSpace values instead of 65536 and arithmetic on them is *)
(*    modulo TxSpace, as uint16(nextTxID.Add(1)) is modulo 2^16.           *)
(*  - The 10 s age test is the set `stale`: a query enters it at any       *)
(*    moment the environment allows (see Late).                            *)
(*  - The backends (dnstt-server, slipstream, vaydns) are external: they   *)
(*    may answer a request, not answer it, and be stopped and started.  A  *)
(*    response shorter than two bytes has the effect of no answer.         *)
(*  - The reader takes answers from the socket in any order, since nothing *)
(*    orders the answers of a backend to different queries.                *)
(***************************************************************************)
EXTENDS RouteTable

CONSTANTS
  Queries,     \* the packets that arrive on the router's port 53
  QueryName,   \* [Queries -> Names \cup {NoName}]: what extractDomain returns
  ProofKey,    \* [Queries -> Keys \cup {NoKey}]: key of the HMAC proof carried
  NoName,      \* extractDomain's "": the packet holds no name
  Tunnels,     \* cfg.Tunnels when the process starts
  DefaultTag,  \* cfg.Route.Default
  TxSpace,     \* number of TXIDs
  Free,        \* a TXID without an entry in the pending table
  NoTxID,      \* the cleaner holds no key
  NoAnswer,
  Late,        \* TRUE: an entry may turn 10 s old whatever is under way
  Duplicates,  \* TRUE: a backend's answer may reach the socket twice
  MaxOutages,  \* bound on how often backends stop
  MaxRestarts  \* bound on how often the router process restarts

TxIDs == 0..(TxSpace - 1)

Messages == [backend : Backends, txid : TxIDs, query : Queries]

ASSUME RouterAssumption ==
  /\ QueryName \in [Queries -> Names \cup {NoName}] /\ NoName \notin Names
  /\ ProofKey \in [Queries -> Keys \cup {NoKey}]
  /\ Tunnels \in Seq(TunnelEntry)
  /\ TxSpace \in Nat \ {0}
  /\ Free \notin Queries /\ NoAnswer \notin Queries /\ NoTxID \notin TxIDs
  /\ Late \in BOOLEAN /\ Duplicates \in BOOLEAN
  /\ MaxOutages \in Nat /\ MaxRestarts \in Nat

\* What Serve sets up before it calls ListenAndServe; nothing writes it later.
routes == RoutesOf(Tunnels)
verifyRoutes == VerifyRoutesOf(Tunnels)
defaultDst == DefaultOf(Tunnels, DefaultTag)

VARIABLES
  pc,        \* handleQuery's position, for each query
  dst,       \* its local `backend`
  candidate, \* its local `candidate`, then serverTxID
  tries,     \* its loop counter i
  backends,  \* r.backends: the addresses with a backendConn
  pending,   \* bc.pending, for each backend: the query in each TXID's entry
  nextTxID,  \* bc.nextTxID
  reader,    \* TRUE while readBackendResponses of the backend runs
  sweep,     \* the key cleanPending's Range callback is about to delete
  stale,     \* queries whose entry is older than 10 s
  wire,      \* requests a backend has received and not disposed of
  inbox,     \* answers in the receive queues of the backend sockets
  sockErr,   \* a pending ECONNREFUSED on the backend's socket
  up,        \* the backend's service listens on its port
  outages, restarts,
  replies,   \* history: number of replies written to q's client
  answer     \* history: the query whose answer the last of them carried

handlerVars == <<pc, dst, candidate, tries>>
tableVars   == <<backends, pending, nextTxID>>
workerVars  == <<reader, sweep>>
netVars     == <<wire, inbox, sockErr, up>>
envVars     == <<stale, outages, restarts>>
replyVars   == <<replies, answer>>
vars == <<handlerVars, tableVars, workerVars, netVars, envVars, replyVars>>

\* The positions in handleQuery, each named for the statement that comes next.
Positions == {"new", "verify", "connect", "alloc", "store", "write", "undo", "done"}

TypeOK ==
  /\ pc \in [Queries -> Positions]
  /\ dst \in [Queries -> Backends \cup {NoBackend}]
  /\ \A q \in Queries :
       pc[q] \in {"connect", "alloc", "store", "write", "undo"} => dst[q] \in Backends
  /\ candidate \in [Queries -> TxIDs]
  /\ tries \in [Queries -> 0..TxSpace]
  /\ backends \subseteq Backends
  /\ pending \in [Backends -> [TxIDs -> Queries \cup {Free}]]
  /\ nextTxID \in [Backends -> TxIDs]
  /\ reader \in [Backends -> BOOLEAN]
  /\ sweep \in [Backends -> TxIDs \cup {NoTxID}]
  /\ stale \subseteq Queries
  /\ wire \subseteq Messages
  /\ inbox \subseteq Messages
  /\ sockErr \in [Backends -> BOOLEAN]
  /\ up \in [Backends -> BOOLEAN]
  /\ outages \in 0..MaxOutages
  /\ restarts \in 0..MaxRestarts
  /\ replies \in [Queries -> Nat]
  /\ answer \in [Queries -> Queries \cup {NoAnswer}]

NoEntries == [b \in Backends |-> [t \in TxIDs |-> Free]]

Init ==
  /\ pc = [q \in Queries |-> "new"]
  /\ dst = [q \in Queries |-> NoBackend]
  /\ candidate = [q \in Queries |-> 0]
  /\ tries = [q \in Queries |-> 0]
  /\ backends = {}
  /\ pending = NoEntries
  /\ nextTxID = [b \in Backends |-> 0]
  /\ reader = [b \in Backends |-> FALSE]
  /\ sweep = [b \in Backends |-> NoTxID]
  /\ stale = {}
  /\ wire = {}
  /\ inbox = {}
  /\ sockErr = [b \in Backends |-> FALSE]
  /\ up = [b \in Backends |-> TRUE]
  /\ outages = 0
  /\ restarts = 0
  /\ replies = [q \in Queries |-> 0]
  /\ answer = [q \in Queries |-> NoAnswer]

-------------------------------------------------------------------------------
(***************************************************************************)
(* bc.nextTxID and the operations of sync.Map that the goroutines apply to *)
(* bc.pending, each atomic.  The operators named Faulty..., here and below,*)
(* belong to no specification: each is the definition after it with a bug  *)
(* that one of the properties has to notice.                               *)
(***************************************************************************)
FaultyNextTxID(n) == n + 1                 \* without the conversion to uint16
NextTxID(n) == (n + 1) % TxSpace

FaultyLoadOrStore(b, t, q) ==              \* Store: overwrites what is there
  pending' = [pending EXCEPT ![b][t] = q]
FaultyKeyLoadOrStore(b, t, q) ==           \* under the counter, read once more
  /\ pending[b][nextTxID[b]] = Free
  /\ pending' = [pending EXCEPT ![b][nextTxID[b]] = q]
\* The outcome "not loaded": q's entry is stored.
LoadOrStore(b, t, q) ==
  /\ pending[b][t] = Free
  /\ pending' = [pending EXCEPT ![b][t] = q]

FaultyLoadAndDelete(b, t) ==               \* Load: the entry stays
  pending[b][t] # Free /\ UNCHANGED pending
\* The outcome "ok": there is an entry, and it is taken out.
LoadAndDelete(b, t) ==
  /\ pending[b][t] # Free
  /\ pending' = [pending EXCEPT ![b][t] = Free]

FaultyDelete(b, t) == UNCHANGED pending    \* a key of another type
Delete(b, t) == pending' = [pending EXCEPT ![b][t] = Free]

-------------------------------------------------------------------------------
(***************************************************************************)
(* handleQuery, one goroutine per packet                                   *)
(***************************************************************************)
Goto(q, from, to) == pc[q] = from /\ pc' = [pc EXCEPT ![q] = to]

\* The listen loop reads the packet, copies it and starts the goroutine.
Receive(q) ==
  /\ Goto(q, "new", "verify")
  /\ UNCHANGED <<dst, candidate, tries, tableVars, workerVars, netVars, envVars, replyVars>>

IsProbe(q) ==
  /\ QueryName[q] # NoName
  /\ ValidProbe(verifyRoutes, QueryName[q], ProofKey[q])

\* The result of findBackend, empty-string return of extractDomain included.
Destinations(q) ==
  IF QueryName[q] = NoName THEN {NoBackend}
  ELSE FindBackend(routes, defaultDst, QueryName[q])

\* handleVerify answers a valid probe itself; nothing is forwarded.
AnswerProbe(q) ==
  /\ IsProbe(q)
  /\ Goto(q, "verify", "done")
  /\ replies' = [replies EXCEPT ![q] = @ + 1]
  /\ answer' = [answer EXCEPT ![q] = q]
  /\ UNCHANGED <<dst, candidate, tries, tableVars, workerVars, netVars, envVars>>

\* No name in the packet, or no route and no default: the query is dropped.
DropUnroutable(q) ==
  /\ ~IsProbe(q)
  /\ NoBackend \in Destinations(q)
  /\ Goto(q, "verify", "done")
  /\ UNCHANGED <<dst, candidate, tries, tableVars, workerVars, netVars, envVars, replyVars>>

RouteQuery(q) ==
  /\ ~IsProbe(q)
  /\ \E b \in Destinations(q) \ {NoBackend} : dst' = [dst EXCEPT ![q] = b]
  /\ Goto(q, "verify", "connect")
  /\ UNCHANGED <<candidate, tries, tableVars, workerVars, netVars, envVars, replyVars>>

\* getBackend under backendsMu: the existing connection, or a new socket with
\* an empty table, its reader and its cleaner.
GetBackend(q) ==
  LET b == dst[q] IN
  /\ Goto(q, "connect", "alloc")
  /\ backends' = backends \cup {b}
  /\ reader' = IF b \in backends THEN reader ELSE [reader EXCEPT ![b] = TRUE]
  /\ UNCHANGED <<dst, candidate, tries, pending, nextTxID, sweep, netVars, envVars, replyVars>>

\* DialUDP fails (no descriptor left): the query is dropped, nothing is stored.
DialFails(q) ==
  /\ Goto(q, "connect", "done")
  /\ dst[q] \notin backends
  /\ UNCHANGED <<dst, candidate, tries, tableVars, workerVars, netVars, envVars, replyVars>>

\* candidate := uint16(bc.nextTxID.Add(1)), one atomic step of its own.
TakeTxID(q) ==
  LET next == NextTxID(nextTxID[dst[q]]) IN
  /\ Goto(q, "alloc", "store")
  /\ tries[q] < TxSpace
  /\ nextTxID' = [nextTxID EXCEPT ![dst[q]] = next]
  /\ candidate' = [candidate EXCEPT ![q] = next]
  /\ tries' = [tries EXCEPT ![q] = @ + 1]
  /\ UNCHANGED <<dst, backends, pending, workerVars, netVars, envVars, replyVars>>

\* pending.LoadOrStore finds no entry and stores this query's.
StoreEntry(q) ==
  /\ Goto(q, "store", "write")
  /\ LoadOrStore(dst[q], candidate[q], q)
  /\ UNCHANGED <<dst, candidate, tries, backends, nextTxID, workerVars, netVars, envVars, replyVars>>

\* LoadOrStore finds the entry of another query: the loop advances.
EntryTaken(q) ==
  /\ Goto(q, "store", "alloc")
  /\ pending[dst[q]][candidate[q]] # Free
  /\ UNCHANGED <<dst, candidate, tries, tableVars, workerVars, netVars, envVars, replyVars>>

\* TxSpace candidates were taken: the query is dropped.
Exhausted(q) ==
  /\ tries[q] = TxSpace
  /\ Goto(q, "alloc", "done")
  /\ UNCHANGED <<dst, candidate, tries, tableVars, workerVars, netVars, envVars, replyVars>>

Request(q) == [backend |-> dst[q], txid |-> candidate[q], query |-> q]

\* The datagram leaves.  When nothing listens on the port, the kernel drops it
\* and the ICMP answer leaves ECONNREFUSED on the connected socket.
WriteQuery(q) ==
  LET b == dst[q] IN
  /\ Goto(q, "write", "done")
  /\ ~sockErr[b]
  /\ wire' = IF up[b] THEN wire \cup {Request(q)} ELSE wire
  /\ sockErr' = [sockErr EXCEPT ![b] = ~up[b]]
  /\ UNCHANGED <<dst, candidate, tries, tableVars, workerVars, inbox, up, envVars, replyVars>>

\* Write returns an error: the socket's pending one, which it takes, or one of
\* its own (buffers full, a firewall rule).
WriteFails(q) ==
  /\ Goto(q, "write", "undo")
  /\ sockErr' = [sockErr EXCEPT ![dst[q]] = FALSE]
  /\ UNCHANGED <<dst, candidate, tries, tableVars, workerVars, wire, inbox, up, envVars, replyVars>>

\* bc.pending.Delete(serverTxID) after a failed write.
UndoEntry(q) ==
  /\ Goto(q, "undo", "done")
  /\ Delete(dst[q], candidate[q])
  /\ UNCHANGED <<dst, candidate, tries, backends, nextTxID, workerVars, netVars, envVars, replyVars>>

HandlerStep(q) ==
  \/ AnswerProbe(q) \/ DropUnroutable(q) \/ RouteQuery(q)
  \/ GetBackend(q) \/ DialFails(q)
  \/ TakeTxID(q) \/ StoreEntry(q) \/ EntryTaken(q) \/ Exhausted(q)
  \/ WriteQuery(q) \/ WriteFails(q) \/ UndoEntry(q)

-------------------------------------------------------------------------------
(***************************************************************************)
(* readBackendResponses.  LoadAndDelete is the one access to shared state  *)
(* of an iteration; the Read before it and the write to the client after   *)
(* it are part of the same step.                                           *)
(***************************************************************************)
Readable(b) == {m \in inbox : m.backend = b}

\* The answer goes to the query in the entry its TXID selects.
RouteResponse(b) ==
  /\ reader[b] /\ ~sockErr[b]
  /\ \E m \in Readable(b) :
       LET q == pending[b][m.txid] IN
       /\ LoadAndDelete(b, m.txid)
       /\ replies' = [replies EXCEPT ![q] = @ + 1]
       /\ answer' = [answer EXCEPT ![q] = m.query]
       /\ inbox' = inbox \ {m}
  /\ UNCHANGED <<handlerVars, backends, nextTxID, workerVars, wire, sockErr, up, envVars>>

\* No matching query (stale or duplicate).
IgnoreResponse(b) ==
  /\ reader[b] /\ ~sockErr[b]
  /\ \E m \in Readable(b) :
       /\ pending[b][m.txid] = Free
       /\ inbox' = inbox \ {m}
  /\ UNCHANGED <<handlerVars, tableVars, workerVars, wire, sockErr, up, envVars, replyVars>>

FaultyReaderFails(b) ==                    \* a read timeout ends the goroutine too
  /\ reader[b]
  /\ reader' = [reader EXCEPT ![b] = FALSE]
  /\ UNCHANGED <<handlerVars, tableVars, sweep, netVars, envVars, replyVars>>
\* Read returns the socket's pending error before any datagram, and the
\* goroutine returns; the backendConn stays in r.backends.
ReaderFails(b) ==
  /\ reader[b] /\ sockErr[b]
  /\ reader' = [reader EXCEPT ![b] = FALSE]
  /\ sockErr' = [sockErr EXCEPT ![b] = FALSE]
  /\ UNCHANGED <<handlerVars, tableVars, sweep, wire, inbox, up, envVars, replyVars>>

ReaderStep(b) == RouteResponse(b) \/ IgnoreResponse(b) \/ ReaderFails(b)

-------------------------------------------------------------------------------
(***************************************************************************)
(* cleanPending.  Range hands the callback a key and the value it loaded;  *)
(* the age test uses that value, Delete removes whatever the key holds by  *)
(* then.  An entry that is young has no effect on the sweep.               *)
(***************************************************************************)
FaultyOverdue(b, t) == pending[b][t] # Free \* no age test
Overdue(b, t) == pending[b][t] \in stale

FindStale(b) ==
  /\ b \in backends
  /\ sweep[b] = NoTxID
  /\ \E t \in TxIDs :
       /\ Overdue(b, t)
       /\ sweep' = [sweep EXCEPT ![b] = t]
  /\ UNCHANGED <<handlerVars, tableVars, reader, netVars, envVars, replyVars>>

DeleteStale(b) ==
  /\ sweep[b] # NoTxID
  /\ Delete(b, sweep[b])
  /\ sweep' = [sweep EXCEPT ![b] = NoTxID]
  /\ UNCHANGED <<handlerVars, backends, nextTxID, reader, netVars, envVars, replyVars>>

CleanerStep(b) == FindStale(b) \/ DeleteStale(b)

-------------------------------------------------------------------------------
(***************************************************************************)
(* The environment: time, the backends, systemd                            *)
(***************************************************************************)
InFlight(q) == \E m \in wire \cup inbox : m.query = q

\* The entry of q turns 10 s old.  Unless Late, ten seconds outlast the handler
\* goroutine and everything on its way for q.
Expire(q) ==
  /\ q \notin stale
  /\ dst[q] # NoBackend
  /\ pending[dst[q]][candidate[q]] = q
  /\ Late \/ (pc[q] = "done" /\ ~InFlight(q))
  /\ stale' = stale \cup {q}
  /\ UNCHANGED <<handlerVars, tableVars, workerVars, netVars, outages, restarts, replyVars>>

\* The backend answers a request under the TXID it came with.
BackendAnswers(q) ==
  /\ \E m \in wire :
       /\ m.query = q
       /\ inbox' = inbox \cup {m}
       /\ \/ wire' = wire \ {m}
          \/ Duplicates /\ m \notin inbox /\ wire' = wire
  /\ UNCHANGED <<handlerVars, tableVars, workerVars, sockErr, up, envVars, replyVars>>

\* The backend does not answer (any more), or the receive queue is full.
NoReply(q) ==
  /\ \E m \in wire : m.query = q /\ wire' = wire \ {m}
  /\ UNCHANGED <<handlerVars, tableVars, workerVars, inbox, sockErr, up, envVars, replyVars>>

BackendStep(q) == BackendAnswers(q) \/ NoReply(q)

\* systemctl stop or restart of the tunnel's service: what it was working on
\* is lost, and its port is closed until it runs again.
BackendStops(b) ==
  /\ up[b] /\ outages < MaxOutages
  /\ up' = [up EXCEPT ![b] = FALSE]
  /\ wire' = {m \in wire : m.backend # b}
  /\ outages' = outages + 1
  /\ UNCHANGED <<handlerVars, tableVars, workerVars, inbox, sockErr, stale, restarts, replyVars>>

BackendStarts(b) ==
  /\ ~up[b]
  /\ up' = [up EXCEPT ![b] = TRUE]
  /\ UNCHANGED <<handlerVars, tableVars, workerVars, wire, inbox, sockErr, envVars, replyVars>>

FaultySocketsClose == UNCHANGED <<wire, inbox>> \* the sockets survive
SocketsClose == wire' = {} /\ inbox' = {}

\* RestartRouterService, or Restart=always after a crash: goroutines, tables
\* and sockets are gone, and an answer to an old socket reaches nobody.
RestartRouter ==
  /\ restarts < MaxRestarts
  /\ restarts' = restarts + 1
  /\ pc' = [q \in Queries |-> IF pc[q] = "new" THEN "new" ELSE "done"]
  /\ backends' = {}
  /\ pending' = NoEntries
  /\ nextTxID' = [b \in Backends |-> 0]
  /\ reader' = [b \in Backends |-> FALSE]
  /\ sweep' = [b \in Backends |-> NoTxID]
  /\ sockErr' = [b \in Backends |-> FALSE]
  /\ SocketsClose
  /\ UNCHANGED <<dst, candidate, tries, up, stale, outages, replyVars>>

-------------------------------------------------------------------------------
Next ==
  \/ \E q \in Queries : Receive(q) \/ HandlerStep(q) \/ Expire(q) \/ BackendStep(q)
  \/ \E b \in Backends :
       ReaderStep(b) \/ CleanerStep(b) \/ BackendStops(b) \/ BackendStarts(b)
  \/ RestartRouter

SafeSpec == Init /\ [][Next]_vars

\* The Go scheduler runs every runnable goroutine, the ticker of cleanPending
\* fires, time passes, and a request does not stay with a backend for ever.
\* Clients need not send, backends need not be restarted, and no restart of the
\* router is promised.
Fairness ==
  /\ \A q \in Queries : WF_vars(HandlerStep(q)) /\ WF_vars(Expire(q))
  /\ \A b \in Backends : WF_vars(ReaderStep(b)) /\ WF_vars(CleanerStep(b))
  /\ \A q \in Queries : WF_vars(BackendStep(q))

Spec == SafeSpec /\ Fairness

-------------------------------------------------------------------------------
(***************************************************************************)
(* Properties                                                              *)
(***************************************************************************)
Holds(q) == \E b \in Backends, t \in TxIDs : pending[b][t] = q

\* Nothing of a query is left when its entry turns 10 s old, and the network
\* duplicates no answer: the assumption behind "pending entries expire after
\* 10s".
Prompt == ~Late /\ ~Duplicates

\* A client is never sent two replies to one query, however late or often a
\* backend answers and whatever the cleaner, the reader, a failing write and a
\* restart do to the entry in between.
AtMostOneReply == \A q \in Queries : replies[q] <= 1

\* A query's answer is never written to the client of another query: while
\* something of q is under way, nobody else gets q's TXID at that backend.
NoMisdelivery == Prompt => \A q \in Queries : answer[q] \in {NoAnswer, q}

\* An entry leaves the table only because its own query was answered, its own
\* query is over 10 s old, its own write failed, or the process restarted:
\* never because of a Delete meant for an earlier holder of the TXID.
Released(q) == Holds(q) /\ ~Holds(q)'
ReleasedForItself ==
  [][Prompt => \A q \in Queries :
       Released(q) => \/ replies'[q] > replies[q]
                      \/ q \in stale
                      \/ pc[q] = "undo"
                      \/ restarts' > restarts]_vars

\* Two packets that ask for one name go to one backend, as "dispatches queries
\* by domain to the correct tunnel" needs.
SameNameSameBackend ==
  \A q, r \in Queries :
    /\ QueryName[q] = QueryName[r]
    /\ dst[q] # NoBackend /\ dst[r] # NoBackend
    => dst[q] = dst[r]

\* Every query that arrives is settled in the end: its handler returns and its
\* entry leaves the table, so TXIDs do not leak.
EveryQuerySettles ==
  \A q \in Queries : pc[q] # "new" ~> (pc[q] = "done" /\ ~Holds(q))

\* The answers that reached a backend's socket are taken from it in the end: a
\* backend connection goes on delivering answers for as long as it exists.
AnswersAreRead == \A b \in Backends : Readable(b) # {} ~> Readable(b) = {}

\* What the entries of the tables say about the handlers, in every environment:
\* a query has at most one entry, under the TXID its handler drew at its own
\* backend, and has not been answered while it has one.
EntriesMatchHandlers ==
  /\ \A b \in Backends, t \in TxIDs, q \in Queries :
       pending[b][t] = q => /\ dst[q] = b /\ candidate[q] = t
                            /\ pc[q] \in {"write", "undo", "done"}
                            /\ replies[q] = 0
  /\ \A q \in Queries :
       pc[q] \in {"new", "verify", "connect", "alloc", "store"} => replies[q] = 0

\* With prompt backends a TXID belongs to one query from LoadOrStore until
\* nothing of that query is left: its handler, its request, its answer and the
\* cleaner's decision to reap it all find the entry still theirs.
HandlersOwnEntries ==
  \A q \in Queries : pc[q] \in {"write", "undo"} => pending[dst[q]][candidate[q]] = q
MessagesOwnEntries ==
  \A m \in wire \cup inbox : pending[m.backend][m.txid] = m.query /\ pc[m.query] = "done"
OneMessagePerQuery == wire \cap inbox = {}
StaleIsSettled == \A q \in stale : pc[q] = "done" /\ ~InFlight(q)
SweepsAreStale ==
  \A b \in Backends : sweep[b] # NoTxID => pending[b][sweep[b]] \in stale

TxIDsAreExclusive ==
  Prompt => /\ HandlersOwnEntries
            /\ MessagesOwnEntries
            /\ OneMessagePerQuery
            /\ StaleIsSettled
            /\ SweepsAreStale

\* The abstract state of a query.
Status(q) ==
  IF replies[q] > 0 THEN "answered"
  ELSE IF pc[q] = "new" THEN "new"
  ELSE IF pc[q] = "done" /\ ~Holds(q) THEN "dropped"
  ELSE "pending"

Forwarding == INSTANCE DnsForwarding WITH
  status <- [q \in Queries |-> Status(q)]

\* The router implements DnsForwarding: an answer goes to its own query, once,
\* and a query whose entry was given up stays unanswered.
ImplementsForwarding == Forwarding!Spec
===============================================================================
