---------------------------- MODULE DnsRouterProofs ----------------------------
(***************************************************************************)
(* Theorems about DnsRouter, for every set of queries, every configuration *)
(* and every size of the TXID space.  The argument is in two layers:       *)
(* EntriesMatchHandlers holds in every environment and gives "at most one  *)
(* reply"; TxIDsAreExclusive needs Prompt and gives "no misdelivery", the  *)
(* action property and the refinement of DnsForwarding.                    *)
(***************************************************************************)
EXTENDS DnsRouter, Extrema, TLAPS

\* The operations of the pending table are always expanded.
USE DEF NextTxID, LoadOrStore, LoadAndDelete, Delete, Overdue, SocketsClose

-------------------------------------------------------------------------------
(***************************************************************************)
(* The route table                                                         *)
(***************************************************************************)

\* Every route that Serve registers leads to the backend of a served tunnel.
LEMMA RoutesType == \A d \in DOMAIN routes : routes[d] \in Backends
<1> DEFINE S == Served(Tunnels)
<1>1. S \subseteq DOMAIN Tunnels /\ DOMAIN Tunnels = 1..Len(Tunnels) /\ Len(Tunnels) \in Nat
  BY RouterAssumption DEF Served
<1>2. ASSUME NEW d \in {Tunnels[i].domain : i \in S}
      PROVE  Tunnels[LastServed(Tunnels, d)].backend \in Backends
  <2> DEFINE T == {i \in S : Tunnels[i].domain = d}
  <2>1. T \in SUBSET Nat /\ T # {} /\ \A i \in T : i <= Len(Tunnels)
    BY <1>1
  <2>2. \E i \in T : \A j \in T : j <= i
    BY <1>1, <2>1, GreatestNat
  <2>3. LastServed(Tunnels, d) \in S
    BY <2>2 DEF LastServed
  <2>4. \A i \in DOMAIN Tunnels : Tunnels[i] \in TunnelEntry
    BY RouterAssumption
  <2>5. QED
    BY <1>1, <2>3, <2>4 DEF TunnelEntry
<1>3. QED
  BY <1>2 DEF routes, RoutesOf

\* So does the default, when there is one.
LEMMA DefaultType == defaultDst \in Backends \cup {NoBackend}
<1> DEFINE tagged == {i \in DOMAIN Tunnels : Tunnels[i].tag = DefaultTag}
<1> DEFINE first == CHOOSE i \in tagged : \A j \in tagged : i <= j
<1>1. DOMAIN Tunnels = 1..Len(Tunnels) /\ Len(Tunnels) \in Nat
  BY RouterAssumption
<1>2. ASSUME tagged # {}  PROVE first \in DOMAIN Tunnels
  <2>1. tagged \in SUBSET Nat
    BY <1>1
  <2>2. \E i \in tagged : \A j \in tagged : i <= j
    BY <1>2, <2>1, LeastNat
  <2>3. QED
    BY <2>2
<1>3. \A i \in DOMAIN Tunnels : Tunnels[i] \in TunnelEntry
  BY RouterAssumption
<1>4. \A i \in DOMAIN Tunnels : Tunnels[i].backend \in Backends
  BY <1>3 DEF TunnelEntry
<1>5. QED
  BY <1>2, <1>4 DEF defaultDst, DefaultOf

\* What findBackend returns is a backend address or the empty string.
LEMMA DestinationsType ==
  \A q \in Queries : Destinations(q) \subseteq Backends \cup {NoBackend}
BY RoutesType, DefaultType DEF Destinations, FindBackend, SuffixMatches

-------------------------------------------------------------------------------
(***************************************************************************)
(* Type correctness                                                        *)
(***************************************************************************)

\* The TXID counter wraps within the TXID space.
LEMMA NextTxIDType == \A n \in TxIDs : (n + 1) % TxSpace \in TxIDs
BY RouterAssumption DEF TxIDs

\* The router's variables keep their types whatever happens.
THEOREM TypeCorrect == SafeSpec => []TypeOK
<1>1. Init => TypeOK
  BY RouterAssumption DEF Init, TypeOK, NoEntries, Positions, TxIDs
<1>2. TypeOK /\ [Next]_vars => TypeOK'
  <2> SUFFICES ASSUME TypeOK, [Next]_vars  PROVE TypeOK'
    OBVIOUS
  <2> USE RouterAssumption DEF TypeOK, Goto, Positions,
        handlerVars, tableVars, workerVars, netVars, envVars, replyVars
  <2>1. CASE UNCHANGED vars
    BY <2>1 DEF vars
  <2>2. ASSUME NEW q \in Queries, Receive(q)  PROVE TypeOK'
    BY <2>2 DEF Receive
  <2>2a. ASSUME NEW q \in Queries, AnswerProbe(q)  PROVE TypeOK'
    BY <2>2a DEF AnswerProbe
  <2>2b. ASSUME NEW q \in Queries, DropUnroutable(q)  PROVE TypeOK'
    BY <2>2b DEF DropUnroutable
  <2>3. ASSUME NEW q \in Queries, RouteQuery(q)  PROVE TypeOK'
    <3>1. PICK b \in Destinations(q) \ {NoBackend} : dst' = [dst EXCEPT ![q] = b]
      BY <2>3 DEF RouteQuery
    <3>2. b \in Backends
      BY DestinationsType
    <3>3. /\ Goto(q, "verify", "connect")
          /\ UNCHANGED <<candidate, tries, tableVars, workerVars, netVars, envVars, replyVars>>
      BY <2>3 DEF RouteQuery
    <3>4. QED
      BY <3>1, <3>2, <3>3
  <2>4. ASSUME NEW q \in Queries, GetBackend(q)  PROVE TypeOK'
    BY <2>4 DEF GetBackend
  <2>5. ASSUME NEW q \in Queries, DialFails(q)  PROVE TypeOK'
    BY <2>5 DEF DialFails
  <2>6. ASSUME NEW q \in Queries, TakeTxID(q)  PROVE TypeOK'
    <3>1. dst[q] \in Backends /\ NextTxID(nextTxID[dst[q]]) \in TxIDs
      BY <2>6, NextTxIDType DEF TakeTxID, NextTxID
    <3>2. /\ nextTxID' \in [Backends -> TxIDs]
          /\ candidate' \in [Queries -> TxIDs]
          /\ tries' \in [Queries -> 0..TxSpace]
          /\ pc' \in [Queries -> Positions]
      BY <2>6, <3>1 DEF TakeTxID
    <3>3. \A r \in Queries : pc'[r] \in {"connect", "alloc", "store", "write", "undo"} => dst[r] \in Backends
      BY <2>6 DEF TakeTxID
    <3>4. UNCHANGED <<dst, backends, pending, workerVars, netVars, envVars, replyVars>>
      BY <2>6 DEF TakeTxID
    <3>5. QED
      BY <3>2, <3>3, <3>4
  <2>7. ASSUME NEW q \in Queries, StoreEntry(q)  PROVE TypeOK'
    BY <2>7 DEF StoreEntry
  <2>8. ASSUME NEW q \in Queries, EntryTaken(q) \/ Exhausted(q)  PROVE TypeOK'
    <3>1. /\ pc[q] \in {"alloc", "store"}
          /\ pc' \in {[pc EXCEPT ![q] = "alloc"], [pc EXCEPT ![q] = "done"]}
          /\ UNCHANGED <<dst, candidate, tries, tableVars, workerVars, netVars, envVars, replyVars>>
      BY <2>8 DEF EntryTaken, Exhausted
    <3>2. /\ pc' \in [Queries -> Positions]
          /\ \A r \in Queries : pc'[r] \in {"connect", "alloc", "store", "write", "undo"} => dst[r] \in Backends
      BY <3>1
    <3>3. QED
      BY <3>1, <3>2
  <2>9. ASSUME NEW q \in Queries, WriteQuery(q)  PROVE TypeOK'
    BY <2>9 DEF WriteQuery, Request, Messages
  <2>10. ASSUME NEW q \in Queries, WriteFails(q)  PROVE TypeOK'
    BY <2>10 DEF WriteFails
  <2>11. ASSUME NEW q \in Queries, UndoEntry(q)  PROVE TypeOK'
    BY <2>11 DEF UndoEntry
  <2>12. ASSUME NEW q \in Queries, Expire(q)  PROVE TypeOK'
    BY <2>12 DEF Expire
  <2>13. ASSUME NEW q \in Queries, BackendStep(q)  PROVE TypeOK'
    BY <2>13 DEF BackendStep, BackendAnswers, NoReply
  <2>14. ASSUME NEW b \in Backends, RouteResponse(b)  PROVE TypeOK'
    BY <2>14 DEF RouteResponse, Readable, Messages
  <2>15. ASSUME NEW b \in Backends, IgnoreResponse(b) \/ ReaderFails(b)  PROVE TypeOK'
    BY <2>15 DEF IgnoreResponse, ReaderFails
  <2>16. ASSUME NEW b \in Backends, FindStale(b)  PROVE TypeOK'
    BY <2>16 DEF FindStale
  <2>17. ASSUME NEW b \in Backends, DeleteStale(b)  PROVE TypeOK'
    BY <2>17 DEF DeleteStale
  <2>18. ASSUME NEW b \in Backends, BackendStops(b)  PROVE TypeOK'
    BY <2>18 DEF BackendStops
  <2>19. ASSUME NEW b \in Backends, BackendStarts(b)  PROVE TypeOK'
    BY <2>19 DEF BackendStarts
  <2>20. CASE RestartRouter
    BY <2>20 DEF RestartRouter, NoEntries, TxIDs
  <2>21. QED
    BY <2>1, <2>2, <2>2a, <2>2b, <2>3, <2>4, <2>5, <2>6, <2>7, <2>8, <2>9, <2>10, <2>11, <2>12,
       <2>13, <2>14, <2>15, <2>16, <2>17, <2>18, <2>19, <2>20
       DEF Next, HandlerStep, ReaderStep, CleanerStep
<1>3. QED
  BY <1>1, <1>2, PTL DEF SafeSpec

-------------------------------------------------------------------------------
(***************************************************************************)
(* Entries of the pending table and replies, in every environment.  An     *)
(* entry is made once per query (its handler runs once) and the reply is   *)
(* written by the step that removes the entry, which is why a duplicate or *)
(* late answer cannot make a second reply to the same query.               *)
(***************************************************************************)
\* A free TXID is no query's.
LEMMA FreeIsNoQuery == Free \notin Queries
BY RouterAssumption

\* No entry and no reply exist when the process starts.
LEMMA EntriesInit == Init => EntriesMatchHandlers /\ AtMostOneReply
BY RouterAssumption DEF Init, EntriesMatchHandlers, AtMostOneReply, NoEntries

\* Each step of a handler, of a worker or of the environment keeps entries and
\* handlers in agreement, and replies single.
LEMMA EntriesNext ==
  ASSUME TypeOK, EntriesMatchHandlers, AtMostOneReply, [Next]_vars
  PROVE  EntriesMatchHandlers' /\ AtMostOneReply'
<1> USE FreeIsNoQuery DEF TypeOK, EntriesMatchHandlers, AtMostOneReply, Goto,
      Positions, handlerVars, tableVars, workerVars, netVars, envVars, replyVars
<1> DEFINE Goal == EntriesMatchHandlers' /\ AtMostOneReply'
<1>1. CASE UNCHANGED vars
  BY <1>1 DEF vars
<1>2. ASSUME NEW q \in Queries, Receive(q)  PROVE Goal
  BY <1>2 DEF Receive
<1>3. ASSUME NEW q \in Queries, AnswerProbe(q)  PROVE Goal
  BY <1>3 DEF AnswerProbe
<1>4. ASSUME NEW q \in Queries, DropUnroutable(q)  PROVE Goal
  BY <1>4 DEF DropUnroutable
<1>5. ASSUME NEW q \in Queries, RouteQuery(q)  PROVE Goal
  BY <1>5 DEF RouteQuery
<1>6. ASSUME NEW q \in Queries, GetBackend(q)  PROVE Goal
  BY <1>6 DEF GetBackend
<1>7. ASSUME NEW q \in Queries, DialFails(q)  PROVE Goal
  BY <1>7 DEF DialFails
<1>8. ASSUME NEW q \in Queries, TakeTxID(q)  PROVE Goal
  BY <1>8 DEF TakeTxID
<1>9. ASSUME NEW q \in Queries, StoreEntry(q)  PROVE Goal
  BY <1>9 DEF StoreEntry
<1>10. ASSUME NEW q \in Queries, EntryTaken(q)  PROVE Goal
  BY <1>10 DEF EntryTaken
<1>11. ASSUME NEW q \in Queries, Exhausted(q)  PROVE Goal
  BY <1>11 DEF Exhausted
<1>12. ASSUME NEW q \in Queries, WriteQuery(q)  PROVE Goal
  BY <1>12 DEF WriteQuery
<1>13. ASSUME NEW q \in Queries, WriteFails(q)  PROVE Goal
  BY <1>13 DEF WriteFails
<1>14. ASSUME NEW q \in Queries, UndoEntry(q)  PROVE Goal
  BY <1>14 DEF UndoEntry
<1>15. ASSUME NEW q \in Queries, Expire(q)  PROVE Goal
  BY <1>15 DEF Expire
<1>16. ASSUME NEW q \in Queries, BackendStep(q)  PROVE Goal
  <2>1. UNCHANGED <<pc, dst, candidate, pending, replies>>
    BY <1>16 DEF BackendStep, BackendAnswers, NoReply
  <2>2. QED
    BY <2>1
<1>17. ASSUME NEW b \in Backends, RouteResponse(b)  PROVE Goal
  <2>1. PICK m \in Readable(b) :
          /\ pending[b][m.txid] # Free
          /\ pending' = [pending EXCEPT ![b][m.txid] = Free]
          /\ replies' = [replies EXCEPT ![pending[b][m.txid]] = @ + 1]
    BY <1>17 DEF RouteResponse
  <2>2. m.txid \in TxIDs
    BY DEF Readable, Messages
  <2>3. PICK t \in TxIDs, q \in Queries : t = m.txid /\ q = pending[b][t]
    BY <1>17, <2>1, <2>2
  <2>4. /\ pending[b][t] = q
        /\ pending' = [pending EXCEPT ![b][t] = Free]
        /\ replies' = [replies EXCEPT ![q] = @ + 1]
    BY <2>1, <2>3
  <2>5. UNCHANGED <<pc, dst, candidate>>
    BY <1>17 DEF RouteResponse
  <2>6. dst[q] = b /\ candidate[q] = t /\ pc[q] \in {"write", "undo", "done"} /\ replies[q] = 0
    BY <1>17, <2>4
  <2>7. \A c \in Backends, u \in TxIDs, r \in Queries :
          pending'[c][u] = r => pending[c][u] = r /\ r # q
    BY <1>17, <2>4, <2>6
  <2>8. \A r \in Queries : replies'[r] = IF r = q THEN 1 ELSE replies[r]
    BY <2>4, <2>6
  <2>9. AtMostOneReply'
    <3> HIDE DEF TypeOK, EntriesMatchHandlers
    <3>1. QED
      BY <2>8
  <2>10. \A c \in Backends, u \in TxIDs, r \in Queries :
          pending'[c][u] = r => /\ dst'[r] = c /\ candidate'[r] = u
                                /\ pc'[r] \in {"write", "undo", "done"}
                                /\ replies'[r] = 0
    BY <2>5, <2>7, <2>8
  <2>11. \A r \in Queries :
           pc'[r] \in {"new", "verify", "connect", "alloc", "store"} => replies'[r] = 0
    BY <2>5, <2>6, <2>8
  <2>12. QED
    BY <2>9, <2>10, <2>11
<1>18. ASSUME NEW b \in Backends, IgnoreResponse(b)  PROVE Goal
  BY <1>18 DEF IgnoreResponse
<1>19. ASSUME NEW b \in Backends, ReaderFails(b)  PROVE Goal
  BY <1>19 DEF ReaderFails
<1>20. ASSUME NEW b \in Backends, FindStale(b)  PROVE Goal
  BY <1>20 DEF FindStale
<1>21. ASSUME NEW b \in Backends, DeleteStale(b)  PROVE Goal
  BY <1>21 DEF DeleteStale
<1>22. ASSUME NEW b \in Backends, BackendStops(b) \/ BackendStarts(b)  PROVE Goal
  <2>1. UNCHANGED <<pc, dst, candidate, pending, replies>>
    BY <1>22 DEF BackendStops, BackendStarts
  <2>2. QED
    BY <2>1
<1>23. CASE RestartRouter
  BY <1>23 DEF RestartRouter, NoEntries
<1>24. QED
  BY <1>1, <1>2, <1>3, <1>4, <1>5, <1>6, <1>7, <1>8, <1>9, <1>10, <1>11, <1>12, <1>13,
     <1>14, <1>15, <1>16, <1>17, <1>18, <1>19, <1>20, <1>21, <1>22, <1>23
     DEF Next, HandlerStep, ReaderStep, CleanerStep

\* The two together, over all behaviours without fairness.
LEMMA EntriesInvariant == SafeSpec => [](EntriesMatchHandlers /\ AtMostOneReply)
<1>1. TypeOK /\ EntriesMatchHandlers /\ AtMostOneReply /\ TypeOK' /\ [Next]_vars
      => EntriesMatchHandlers' /\ AtMostOneReply'
  BY EntriesNext
<1>2. QED
  BY <1>1, EntriesInit, TypeCorrect, PTL DEF SafeSpec

\* A pending entry is always that of the query that reserved it, which is past
\* its reservation and has had no reply (allocTxID, routeResponse, cleanStale).
THEOREM EntriesAreTheirs == Spec => []EntriesMatchHandlers
BY EntriesInvariant, PTL DEF Spec

\* A client is never sent two replies to one query, whatever backends, network,
\* cleaner and systemd do.
THEOREM AtMostOnce == Spec => []AtMostOneReply
BY EntriesInvariant, PTL DEF Spec

-------------------------------------------------------------------------------
(***************************************************************************)
(* Exclusive TXIDs, under Prompt.  NoMisdelivery is not inductive: that    *)
(* an answer goes to its own query depends on the entry it finds, so on    *)
(* every step that may free an entry, the cleaner's two included.          *)
(***************************************************************************)
\* Nothing is under way when the process starts.
LEMMA ExclusiveInit == Init => TxIDsAreExclusive /\ NoMisdelivery
BY RouterAssumption DEF Init, TxIDsAreExclusive, HandlersOwnEntries, MessagesOwnEntries,
   OneMessagePerQuery, StaleIsSettled, SweepsAreStale, NoMisdelivery

\* Under Prompt each step keeps every TXID with the query that reserved it, and
\* therefore every answer with its own client.
LEMMA ExclusiveNext ==
  ASSUME Prompt, TypeOK, EntriesMatchHandlers, TxIDsAreExclusive, NoMisdelivery, [Next]_vars
  PROVE  TxIDsAreExclusive' /\ NoMisdelivery'
<1> USE FreeIsNoQuery DEF TypeOK, EntriesMatchHandlers, TxIDsAreExclusive, NoMisdelivery,
      HandlersOwnEntries, MessagesOwnEntries, OneMessagePerQuery, StaleIsSettled,
      SweepsAreStale, InFlight, Goto, Positions,
      handlerVars, tableVars, workerVars, netVars, envVars, replyVars
<1> DEFINE Goal == TxIDsAreExclusive' /\ NoMisdelivery'
<1>1. CASE UNCHANGED vars
  BY <1>1 DEF vars
<1>2. ASSUME NEW q \in Queries, Receive(q)  PROVE Goal
  BY <1>2 DEF Receive
<1>3. ASSUME NEW q \in Queries, AnswerProbe(q)  PROVE Goal
  BY <1>3 DEF AnswerProbe
<1>4. ASSUME NEW q \in Queries, DropUnroutable(q)  PROVE Goal
  BY <1>4 DEF DropUnroutable
<1>5. ASSUME NEW q \in Queries, RouteQuery(q)  PROVE Goal
  BY <1>5 DEF RouteQuery
<1>6. ASSUME NEW q \in Queries, GetBackend(q)  PROVE Goal
  BY <1>6 DEF GetBackend
<1>7. ASSUME NEW q \in Queries, DialFails(q)  PROVE Goal
  BY <1>7 DEF DialFails
<1>8. ASSUME NEW q \in Queries, TakeTxID(q)  PROVE Goal
  BY <1>8 DEF TakeTxID
<1>9. ASSUME NEW q \in Queries, StoreEntry(q)  PROVE Goal
  <2>1. PICK b \in Backends, t \in TxIDs : b = dst[q] /\ t = candidate[q]
    BY <1>9 DEF StoreEntry
  <2>2. /\ pending[b][t] = Free /\ pending' = [pending EXCEPT ![b][t] = q]
        /\ pc[q] = "store" /\ pc' = [pc EXCEPT ![q] = "write"]
        /\ UNCHANGED <<dst, candidate, wire, inbox, stale, sweep, answer>>
    BY <1>9, <2>1 DEF StoreEntry
  <2>3. \A c \in Backends, u \in TxIDs :
          pending[c][u] # Free => pending'[c][u] = pending[c][u]
    BY <2>2
  <2>4. HandlersOwnEntries'
    BY <1>9, <2>1, <2>2, <2>3
  <2>5. MessagesOwnEntries'
    BY <2>2, <2>3 DEF Messages
  <2>6. StaleIsSettled' /\ OneMessagePerQuery' /\ NoMisdelivery'
    BY <2>2
  <2>7. SweepsAreStale'
    BY <2>2, <2>3
  <2>8. QED
    BY <2>4, <2>5, <2>6, <2>7
<1>10. ASSUME NEW q \in Queries, EntryTaken(q)  PROVE Goal
  BY <1>10 DEF EntryTaken
<1>11. ASSUME NEW q \in Queries, Exhausted(q)  PROVE Goal
  BY <1>11 DEF Exhausted
<1>12. ASSUME NEW q \in Queries, WriteQuery(q)  PROVE Goal
  BY <1>12 DEF WriteQuery, Request, Messages
<1>13. ASSUME NEW q \in Queries, WriteFails(q)  PROVE Goal
  BY <1>13 DEF WriteFails
<1>14. ASSUME NEW q \in Queries, UndoEntry(q)  PROVE Goal
  BY <1>14 DEF UndoEntry
<1>15. ASSUME NEW q \in Queries, Expire(q)  PROVE Goal
  BY <1>15 DEF Expire, Prompt
<1>16. ASSUME NEW q \in Queries, BackendAnswers(q)  PROVE Goal
  <2>1. PICK m \in wire : /\ m.query = q
                          /\ inbox' = inbox \cup {m}
                          /\ wire' = wire \ {m}
    BY <1>16 DEF BackendAnswers, Prompt
  <2>2. UNCHANGED <<pc, dst, candidate, pending, stale, sweep, answer>>
    BY <1>16 DEF BackendAnswers
  <2>3. wire' \cup inbox' = wire \cup inbox
    BY <2>1
  <2>4. QED
    BY <2>1, <2>2, <2>3
<1>17. ASSUME NEW q \in Queries, NoReply(q)  PROVE Goal
  BY <1>17 DEF NoReply
<1>18. ASSUME NEW b \in Backends, RouteResponse(b)  PROVE Goal
  <2>1. PICK m \in inbox :
          /\ m.backend = b
          /\ pending' = [pending EXCEPT ![b][m.txid] = Free]
          /\ answer' = [answer EXCEPT ![pending[b][m.txid]] = m.query]
          /\ inbox' = inbox \ {m}
    BY <1>18 DEF RouteResponse, Readable
  <2>2. UNCHANGED <<pc, dst, candidate, wire, stale, sweep>>
    BY <1>18 DEF RouteResponse
  <2>3. PICK t \in TxIDs, q \in Queries :
          /\ m = [backend |-> b, txid |-> t, query |-> q]
          /\ pending[b][t] = q /\ pc[q] = "done" /\ q \notin stale
    BY <1>18, <2>1 DEF Messages
  <2>4. /\ pending' = [pending EXCEPT ![b][t] = Free]
        /\ answer' = [answer EXCEPT ![q] = q]
    <3>1. m.txid = t /\ m.query = q
      BY <2>3
    <3>2. QED
      BY <2>1, <2>3, <3>1
  \* No other message is under way for the entry that this step frees.
  <2>5. \A n \in wire' \cup inbox' : ~(n.backend = b /\ n.txid = t)
    <3>1. \A n \in wire \cup inbox : n.backend = b /\ n.txid = t => n.query = q
      BY <2>3
    <3>2. \A n \in wire \cup inbox : n.backend = b /\ n.txid = t => n = m
      BY <2>3, <3>1 DEF Messages
    <3>3. m \notin wire' \cup inbox'
      BY <2>1, <2>2
    <3>4. QED
      BY <2>1, <2>2, <3>2, <3>3
  <2>6. HandlersOwnEntries'
    BY <1>18, <2>2, <2>3, <2>4
  <2>7. MessagesOwnEntries'
    BY <1>18, <2>1, <2>2, <2>4, <2>5 DEF Messages
  <2>8. OneMessagePerQuery' /\ StaleIsSettled'
    BY <2>1, <2>2
  <2>9. SweepsAreStale'
    BY <1>18, <2>2, <2>3, <2>4
  <2>10. NoMisdelivery'
    BY <2>3, <2>4
  <2>11. QED
    BY <2>6, <2>7, <2>8, <2>9, <2>10
<1>19. ASSUME NEW b \in Backends, IgnoreResponse(b)  PROVE Goal
  BY <1>19 DEF IgnoreResponse, Readable
<1>20. ASSUME NEW b \in Backends, ReaderFails(b)  PROVE Goal
  BY <1>20 DEF ReaderFails
<1>21. ASSUME NEW b \in Backends, FindStale(b)  PROVE Goal
  BY <1>21 DEF FindStale
<1>22. ASSUME NEW b \in Backends, DeleteStale(b)  PROVE Goal
  BY <1>22 DEF DeleteStale
<1>23. ASSUME NEW b \in Backends, BackendStops(b)  PROVE Goal
  BY <1>23 DEF BackendStops
<1>24. ASSUME NEW b \in Backends, BackendStarts(b)  PROVE Goal
  BY <1>24 DEF BackendStarts
<1>25. CASE RestartRouter
  BY <1>25 DEF RestartRouter, NoEntries
<1>26. QED
  BY <1>1, <1>2, <1>3, <1>4, <1>5, <1>6, <1>7, <1>8, <1>9, <1>10, <1>11, <1>12, <1>13, <1>14, <1>15, <1>16, <1>17, <1>18, <1>19, <1>20, <1>21, <1>22, <1>23, <1>24, <1>25
     DEF Next, HandlerStep, BackendStep, ReaderStep, CleanerStep

\* The invariant of the clean network, for the theorems below.
LEMMA PromptInvariant ==
  SafeSpec => [](TypeOK /\ EntriesMatchHandlers /\ AtMostOneReply
                 /\ TxIDsAreExclusive /\ NoMisdelivery)
<1> DEFINE Inv == TypeOK /\ EntriesMatchHandlers /\ AtMostOneReply
                  /\ TxIDsAreExclusive /\ NoMisdelivery
<1>1. Init /\ TypeOK => Inv
  BY EntriesInit, ExclusiveInit
<1>2. Inv /\ TypeOK' /\ [Next]_vars => Inv'
  <2> SUFFICES ASSUME Inv, TypeOK', [Next]_vars  PROVE Inv'
    OBVIOUS
  <2>1. EntriesMatchHandlers' /\ AtMostOneReply'
    BY EntriesNext
  <2>2. CASE Prompt
    BY <2>1, <2>2, ExclusiveNext
  <2>3. CASE ~Prompt
    BY <2>1, <2>3 DEF TxIDsAreExclusive, NoMisdelivery, Prompt
  <2>4. QED
    BY <2>2, <2>3
<1>3. QED
  BY <1>1, <1>2, TypeCorrect, PTL DEF SafeSpec

\* From LoadOrStore until nothing of a query is left, its TXID at its backend
\* belongs to no other query.
THEOREM ExclusiveTxIDs == Spec => []TxIDsAreExclusive
BY PromptInvariant, PTL DEF Spec

\* No client receives the answer to somebody else's query.
THEOREM NeverMisdelivered == Spec => []NoMisdelivery
BY PromptInvariant, PTL DEF Spec

-------------------------------------------------------------------------------
(***************************************************************************)
(* How an entry leaves the table, under Prompt                             *)
(***************************************************************************)
\* A step that takes the entry of q out of the table answers q, finds q stale,
\* undoes q's own failed write, or restarts the process.
LEMMA ReleaseStep ==
  ASSUME Prompt, TypeOK, EntriesMatchHandlers, TxIDsAreExclusive, [Next]_vars,
         NEW q \in Queries, NEW b \in Backends, NEW t \in TxIDs,
         pending[b][t] = q, pending'[b][t] # q
  PROVE  \/ replies'[q] > replies[q]
         \/ q \in stale
         \/ pc[q] = "undo"
         \/ restarts' > restarts
<1> DEFINE Goal == \/ replies'[q] > replies[q]
                   \/ q \in stale
                   \/ pc[q] = "undo"
                   \/ restarts' > restarts
<1> USE FreeIsNoQuery DEF TypeOK
<1>1. CASE UNCHANGED pending
  BY <1>1
<1>2. ASSUME NEW r \in Queries, StoreEntry(r)  PROVE Goal
  BY <1>2 DEF StoreEntry, Goto
<1>3. ASSUME NEW r \in Queries, UndoEntry(r)  PROVE Goal
  <2>1. dst[r] = b /\ candidate[r] = t /\ pc[r] = "undo"
    BY <1>3 DEF UndoEntry, Goto
  <2>2. pending[dst[r]][candidate[r]] = r
    BY <2>1 DEF TxIDsAreExclusive, HandlersOwnEntries
  <2>3. QED
    BY <2>1, <2>2
<1>4. ASSUME NEW c \in Backends, RouteResponse(c)  PROVE Goal
  <2>1. PICK m \in inbox :
          /\ pending' = [pending EXCEPT ![c][m.txid] = Free]
          /\ replies' = [replies EXCEPT ![pending[c][m.txid]] = @ + 1]
    BY <1>4 DEF RouteResponse, Readable
  <2>2. c = b /\ m.txid = t
    BY <1>4, <2>1 DEF Messages
  <2>3. QED
    BY <2>1, <2>2
<1>5. ASSUME NEW c \in Backends, DeleteStale(c)  PROVE Goal
  <2>1. c = b /\ sweep[c] = t /\ sweep[c] # NoTxID
    BY <1>5 DEF DeleteStale
  <2>2. QED
    BY <2>1 DEF TxIDsAreExclusive, SweepsAreStale
<1>6. CASE RestartRouter
  BY <1>6 DEF RestartRouter
<1>7. QED
  <2>1. CASE UNCHANGED vars
    BY <1>1, <2>1 DEF vars, tableVars
  <2>2. ASSUME NEW r \in Queries,
               Receive(r) \/ HandlerStep(r) \/ Expire(r) \/ BackendStep(r)
        PROVE  Goal
    BY <1>1, <1>2, <1>3, <2>2 DEF Receive, HandlerStep, Expire, BackendStep, AnswerProbe,
       DropUnroutable, RouteQuery, GetBackend, DialFails, TakeTxID, EntryTaken, Exhausted,
       WriteQuery, WriteFails, BackendAnswers, NoReply, tableVars
  <2>3. ASSUME NEW c \in Backends,
               ReaderStep(c) \/ CleanerStep(c) \/ BackendStops(c) \/ BackendStarts(c)
        PROVE  Goal
    BY <1>1, <1>4, <1>5, <2>3 DEF ReaderStep, CleanerStep, IgnoreResponse, ReaderFails,
       FindStale, BackendStops, BackendStarts, tableVars
  <2>4. QED
    BY <1>6, <2>1, <2>2, <2>3 DEF Next

\* An entry leaves the table for a reason of its own query only.
THEOREM EntriesReleasedForThemselves == Spec => ReleasedForItself
<1>1. TypeOK /\ EntriesMatchHandlers /\ TxIDsAreExclusive /\ [Next]_vars
      => [Prompt => \A q \in Queries :
            Released(q) => \/ replies'[q] > replies[q]
                           \/ q \in stale
                           \/ pc[q] = "undo"
                           \/ restarts' > restarts]_vars
  <2> SUFFICES ASSUME TypeOK, EntriesMatchHandlers, TxIDsAreExclusive, [Next]_vars,
                      Prompt, NEW q \in Queries, Released(q)
               PROVE  \/ replies'[q] > replies[q]
                      \/ q \in stale
                      \/ pc[q] = "undo"
                      \/ restarts' > restarts
    OBVIOUS
  <2>1. PICK b \in Backends, t \in TxIDs : pending[b][t] = q
    BY DEF Released, Holds
  <2>2. pending'[b][t] # q
    BY DEF Released, Holds
  <2>3. QED
    BY <2>1, <2>2, ReleaseStep
<1>2. QED
  BY <1>1, PromptInvariant, PTL DEF Spec, SafeSpec, ReleasedForItself

-------------------------------------------------------------------------------
(***************************************************************************)
(* The router implements DnsForwarding, under Prompt.  Status(q) falls to  *)
(* "dropped" exactly when the handler is done and no entry is left.        *)
(***************************************************************************)

\* A step that changes no status and no answer is a stutter of DnsForwarding.
LEMMA AbstractStutter ==
  ASSUME \A r \in Queries : Status(r)' = Status(r), UNCHANGED answer
  PROVE  UNCHANGED Forwarding!vars
BY DEF Forwarding!vars

\* One query, new before the step, is pending after it.
LEMMA AbstractAccept ==
  ASSUME NEW q \in Queries, \A r \in Queries \ {q} : Status(r)' = Status(r),
         Status(q) = "new", Status(q)' = "pending", UNCHANGED answer
  PROVE  Forwarding!Next
<1>1. Forwarding!Accept(q)
  BY DEF Forwarding!Accept
<1>2. QED
  BY <1>1 DEF Forwarding!Next

\* One pending query gets its own answer.
LEMMA AbstractAnswer ==
  ASSUME NEW q \in Queries, \A r \in Queries \ {q} : Status(r)' = Status(r),
         Status(q) = "pending", Status(q)' = "answered",
         answer' = [answer EXCEPT ![q] = q]
  PROVE  Forwarding!Next
<1>1. Forwarding!Answer(q)
  BY DEF Forwarding!Answer
<1>2. QED
  BY <1>1 DEF Forwarding!Next

\* A set of pending queries is dropped.
LEMMA AbstractDrop ==
  ASSUME NEW S \in SUBSET Queries, \A r \in Queries \ S : Status(r)' = Status(r),
         \A r \in S : Status(r) = "pending" /\ Status(r)' = "dropped",
         UNCHANGED answer
  PROVE  Forwarding!Next
<1>1. Forwarding!Drop(S)
  BY DEF Forwarding!Drop
<1>2. QED
  BY <1>1 DEF Forwarding!Next

\* A query that a step does not touch keeps its status.
LEMMA StatusFrame ==
  ASSUME NEW r \in Queries, pc'[r] = pc[r], replies'[r] = replies[r],
         \A b \in Backends, t \in TxIDs : pending'[b][t] = r <=> pending[b][t] = r
  PROVE  Status(r)' = Status(r)
BY DEF Status, Holds

\* A handler that has not stored an entry is pending and has none.
LEMMA EarlyStatus ==
  ASSUME TypeOK, EntriesMatchHandlers, NEW q \in Queries,
         pc[q] \in {"verify", "connect", "alloc", "store"}
  PROVE  /\ Status(q) = "pending" /\ replies[q] = 0
         /\ \A b \in Backends, t \in TxIDs : pending[b][t] # q
BY DEF EntriesMatchHandlers, Status

\* The steps of a handler before it writes.
LEMMA HandlerRefines ==
  ASSUME TypeOK, TypeOK', EntriesMatchHandlers, EntriesMatchHandlers',
         NEW q \in Queries, Receive(q) \/ HandlerStep(q),
         ~WriteQuery(q), ~WriteFails(q), ~UndoEntry(q)
  PROVE  Forwarding!Next \/ UNCHANGED Forwarding!vars
<1> USE DEF TypeOK, Goto, tableVars, replyVars
<1> DEFINE Goal == Forwarding!Next \/ UNCHANGED Forwarding!vars
<1>1. CASE Receive(q)
  <2>1. \A r \in Queries \ {q} : Status(r)' = Status(r)
    BY <1>1, StatusFrame DEF Receive
  <2>2. Status(q) = "new" /\ replies[q] = 0
    BY <1>1 DEF Receive, Status, EntriesMatchHandlers
  <2>3. pc'[q] = "verify" /\ replies'[q] = 0
    BY <1>1, <2>2 DEF Receive
  <2>4. Status(q)' = "pending"
    BY <2>3 DEF Status
  <2>5. QED
    BY <1>1, <2>1, <2>2, <2>4, AbstractAccept DEF Receive
<1>2. CASE AnswerProbe(q)
  <2>1. \A r \in Queries \ {q} : Status(r)' = Status(r)
    BY <1>2, StatusFrame DEF AnswerProbe
  <2>2. Status(q) = "pending" /\ replies[q] = 0
    BY <1>2, EarlyStatus DEF AnswerProbe
  <2>3. Status(q)' = "answered"
    BY <1>2, <2>2 DEF AnswerProbe, Status
  <2>4. QED
    BY <1>2, <2>1, <2>2, <2>3, AbstractAnswer DEF AnswerProbe
<1>3. CASE DropUnroutable(q) \/ DialFails(q) \/ Exhausted(q)
  <2>1. /\ pc[q] \in {"verify", "connect", "alloc"} /\ pc' = [pc EXCEPT ![q] = "done"]
        /\ UNCHANGED <<pending, replies, answer>>
    BY <1>3 DEF DropUnroutable, DialFails, Exhausted
  <2>2. \A r \in Queries \ {q} : Status(r)' = Status(r)
    BY <2>1, StatusFrame
  <2>3. Status(q) = "pending" /\ replies[q] = 0
        /\ \A b \in Backends, t \in TxIDs : pending[b][t] # q
    BY <2>1, EarlyStatus
  <2>4. Status(q)' = "dropped"
    BY <2>1, <2>3 DEF Status, Holds
  <2>5. QED
    BY <2>1, <2>2, <2>3, <2>4, AbstractDrop, {q} \in SUBSET Queries
<1>4. CASE RouteQuery(q) \/ GetBackend(q) \/ TakeTxID(q) \/ EntryTaken(q)
  <2>1. /\ pc[q] \in {"verify", "connect", "alloc", "store"}
        /\ \E p \in {"connect", "alloc", "store"} : pc' = [pc EXCEPT ![q] = p]
        /\ UNCHANGED <<pending, replies, answer>>
    BY <1>4 DEF RouteQuery, GetBackend, TakeTxID, EntryTaken
  <2>2. \A r \in Queries \ {q} : Status(r)' = Status(r)
    BY <2>1, StatusFrame
  <2>3. Status(q) = "pending" /\ replies[q] = 0
    BY <2>1, EarlyStatus
  <2>4. Status(q)' = "pending"
    BY <2>1, <2>3 DEF Status
  <2>5. QED
    BY <2>1, <2>2, <2>3, <2>4, AbstractStutter
<1>5. CASE StoreEntry(q)
  <2>1. \A r \in Queries \ {q} : Status(r)' = Status(r)
    <3>1. \A r \in Queries \ {q}, b \in Backends, t \in TxIDs :
            pending'[b][t] = r <=> pending[b][t] = r
      BY <1>5, FreeIsNoQuery DEF StoreEntry
    <3>2. \A r \in Queries \ {q} : pc'[r] = pc[r] /\ replies'[r] = replies[r]
      BY <1>5 DEF StoreEntry
    <3>3. QED
      BY <3>1, <3>2, StatusFrame
  <2>2. Status(q) = "pending" /\ replies[q] = 0
    BY <1>5, EarlyStatus DEF StoreEntry
  <2>3. Status(q)' = "pending"
    BY <1>5, <2>2 DEF StoreEntry, Status
  <2>4. QED
    BY <1>5, <2>1, <2>2, <2>3, AbstractStutter DEF StoreEntry
<1>6. QED
  BY <1>1, <1>2, <1>3, <1>4, <1>5 DEF HandlerStep

\* What the entry of a query says about its handler.
LEMMA EntryFacts ==
  ASSUME EntriesMatchHandlers, NEW b \in Backends, NEW t \in TxIDs, NEW q \in Queries,
         pending[b][t] = q
  PROVE  dst[q] = b /\ candidate[q] = t /\ pc[q] \in {"write", "undo", "done"}
         /\ replies[q] = 0
BY DEF EntriesMatchHandlers

\* The last steps of a handler: its entry is still there when it writes, so the
\* query stays pending, and gone when it undoes a failed write.
LEMMA WriteRefines ==
  ASSUME Prompt, TypeOK, TypeOK', EntriesMatchHandlers, EntriesMatchHandlers',
         TxIDsAreExclusive, NEW q \in Queries,
         WriteQuery(q) \/ WriteFails(q) \/ UndoEntry(q)
  PROVE  Forwarding!Next \/ UNCHANGED Forwarding!vars
<1> USE DEF TypeOK, Goto, tableVars, replyVars
<1>1. PICK b \in Backends, t \in TxIDs :
        b = dst[q] /\ t = candidate[q] /\ pending[b][t] = q
  BY DEF WriteQuery, WriteFails, UndoEntry, TxIDsAreExclusive, HandlersOwnEntries
<1>2. pc[q] \in {"write", "undo"} /\ replies[q] = 0
  <2>1. pc[q] \in {"write", "undo"}
    BY DEF WriteQuery, WriteFails, UndoEntry
  <2>2. QED
    <3> HIDE DEF TypeOK, Goto, tableVars, replyVars
    <3>1. QED
      BY <1>1, <2>1, EntryFacts
<1>3. Status(q) = "pending"
  BY <1>2 DEF Status
<1>4. CASE WriteQuery(q) \/ WriteFails(q)
  <2>1. /\ \E p \in {"undo", "done"} : pc' = [pc EXCEPT ![q] = p]
        /\ UNCHANGED <<pending, replies, answer>>
    BY <1>4 DEF WriteQuery, WriteFails
  <2>2. \A r \in Queries \ {q} : Status(r)' = Status(r)
    BY <2>1, StatusFrame
  <2>3. Status(q)' = "pending"
    BY <1>1, <1>2, <2>1 DEF Status, Holds
  <2>4. QED
    BY <1>3, <2>1, <2>2, <2>3, AbstractStutter
<1>5. CASE UndoEntry(q)
  <2>1. /\ pc' = [pc EXCEPT ![q] = "done"]
        /\ pending' = [pending EXCEPT ![b][t] = Free]
        /\ UNCHANGED <<replies, answer>>
    BY <1>1, <1>5 DEF UndoEntry
  <2>2. \A r \in Queries \ {q}, c \in Backends, u \in TxIDs :
          pending'[c][u] = r <=> pending[c][u] = r
    BY <1>1, <2>1, FreeIsNoQuery
  <2>3. \A r \in Queries \ {q} : Status(r)' = Status(r)
    BY <2>1, <2>2, StatusFrame
  <2>4. \A c \in Backends, u \in TxIDs : pending'[c][u] # q
    <3>1. \A c \in Backends, u \in TxIDs : pending[c][u] = q => c = b /\ u = t
      BY <1>1, EntryFacts
    <3>2. QED
      BY <1>1, <2>1, <3>1, FreeIsNoQuery
  <2>5. Status(q)' = "dropped"
    BY <1>2, <2>1, <2>4 DEF Status, Holds
  <2>6. QED
    BY <1>3, <2>1, <2>3, <2>5, AbstractDrop, {q} \in SUBSET Queries
<1>6. QED
  BY <1>4, <1>5

\* The reader answers the query that holds the entry, which is the one the answer
\* was made for.
LEMMA RouteResponseRefines ==
  ASSUME Prompt, TypeOK, TypeOK', EntriesMatchHandlers, TxIDsAreExclusive,
         NEW b \in Backends, RouteResponse(b)
  PROVE  Forwarding!Next
<1> USE DEF TypeOK
<1>1. PICK m \in inbox :
        /\ m.backend = b
        /\ pending' = [pending EXCEPT ![b][m.txid] = Free]
        /\ replies' = [replies EXCEPT ![pending[b][m.txid]] = @ + 1]
        /\ answer' = [answer EXCEPT ![pending[b][m.txid]] = m.query]
  BY DEF RouteResponse, Readable
<1>2. PICK t \in TxIDs, q \in Queries :
        m.txid = t /\ m.query = q /\ pending[b][t] = q /\ pc[q] = "done"
  BY <1>1 DEF Messages, TxIDsAreExclusive, MessagesOwnEntries
<1>3. /\ pending' = [pending EXCEPT ![b][t] = Free]
      /\ replies' = [replies EXCEPT ![q] = @ + 1]
      /\ answer' = [answer EXCEPT ![q] = q]
      /\ UNCHANGED pc
  BY <1>1, <1>2 DEF RouteResponse, handlerVars
<1>4. replies[q] = 0
  <2> HIDE DEF TypeOK
  <2>1. QED
    BY <1>2, EntryFacts
<1>5. \A r \in Queries \ {q}, c \in Backends, u \in TxIDs :
        pending'[c][u] = r <=> pending[c][u] = r
  BY <1>2, <1>3, FreeIsNoQuery
<1>6. \A r \in Queries \ {q} : pc'[r] = pc[r] /\ replies'[r] = replies[r]
  BY <1>3
<1>7. \A r \in Queries \ {q} : Status(r)' = Status(r)
  BY <1>5, <1>6, StatusFrame
<1>8. Status(q) = "pending"
  BY <1>2, <1>4 DEF Status, Holds
<1>9. Status(q)' = "answered"
  BY <1>3, <1>4 DEF Status
<1>10. QED
  BY <1>3, <1>7, <1>8, <1>9, AbstractAnswer

\* The cleaner deletes the entry of a query whose handler is done: it is dropped.
LEMMA DeleteStaleRefines ==
  ASSUME Prompt, TypeOK, TypeOK', EntriesMatchHandlers, TxIDsAreExclusive,
         NEW b \in Backends, DeleteStale(b)
  PROVE  Forwarding!Next
<1> USE DEF TypeOK
<1>1. PICK t \in TxIDs, q \in Queries :
        sweep[b] = t /\ pending[b][t] = q /\ pc[q] = "done"
  BY DEF DeleteStale, TxIDsAreExclusive, SweepsAreStale, StaleIsSettled
<1>2. /\ pending' = [pending EXCEPT ![b][t] = Free]
      /\ UNCHANGED <<pc, replies, answer>>
  BY <1>1 DEF DeleteStale, handlerVars, replyVars
<1>3. /\ replies[q] = 0
      /\ \A c \in Backends, u \in TxIDs : pending[c][u] = q => c = b /\ u = t
  <2> HIDE DEF TypeOK
  <2>1. QED
    BY <1>1, EntryFacts
<1>4. \A r \in Queries \ {q}, c \in Backends, u \in TxIDs :
        pending'[c][u] = r <=> pending[c][u] = r
  BY <1>1, <1>2, FreeIsNoQuery
<1>5. \A r \in Queries \ {q} : Status(r)' = Status(r)
  BY <1>2, <1>4, StatusFrame
<1>6. \A c \in Backends, u \in TxIDs : pending'[c][u] # q
  BY <1>1, <1>2, <1>3, FreeIsNoQuery
<1>7. Status(q) = "pending"
  BY <1>1, <1>3 DEF Status, Holds
<1>8. Status(q)' = "dropped"
  BY <1>1, <1>2, <1>3, <1>6 DEF Status, Holds
<1>9. QED
  BY <1>2, <1>5, <1>7, <1>8, AbstractDrop, {q} \in SUBSET Queries

\* A restart drops every pending query at once.
LEMMA RestartRefines ==
  ASSUME TypeOK, TypeOK', EntriesMatchHandlers, EntriesMatchHandlers', RestartRouter
  PROVE  Forwarding!Next
<1> USE DEF TypeOK
<1> DEFINE S == {q \in Queries : Status(q) = "pending"}
<1>1. /\ \A q \in Queries : pc'[q] = IF pc[q] = "new" THEN "new" ELSE "done"
      /\ UNCHANGED <<replies, answer>>
  BY DEF RestartRouter, replyVars
<1>2. \A q \in Queries : ~Holds(q)'
  BY FreeIsNoQuery DEF RestartRouter, NoEntries, Holds
<1>3. ASSUME NEW q \in S  PROVE Status(q)' = "dropped"
  BY <1>1, <1>2, <1>3 DEF Status
<1>4. ASSUME NEW q \in Queries \ S  PROVE Status(q)' = Status(q)
  BY <1>1, <1>2, <1>4 DEF Status
<1>5. QED
  BY <1>1, <1>3, <1>4, AbstractDrop

\* Every other step leaves what the abstract state is made of alone.
LEMMA OtherStepsStutter ==
  ASSUME TypeOK, UNCHANGED <<pc, pending, replies, answer>>
  PROVE  UNCHANGED Forwarding!vars
<1>1. \A r \in Queries : Status(r)' = Status(r)
  BY StatusFrame
<1>2. QED
  BY <1>1, AbstractStutter

\* Every step of the router is a step of DnsForwarding or leaves its state alone.
LEMMA StepRefines ==
  ASSUME Prompt, TypeOK, TypeOK', EntriesMatchHandlers, EntriesMatchHandlers',
         TxIDsAreExclusive, [Next]_vars
  PROVE  [Forwarding!Next]_(Forwarding!vars)
<1>1. CASE \E q \in Queries : Receive(q) \/ HandlerStep(q)
  BY <1>1, HandlerRefines, WriteRefines
<1>2. CASE \E b \in Backends : RouteResponse(b) \/ DeleteStale(b)
  BY <1>2, RouteResponseRefines, DeleteStaleRefines
<1>3. CASE RestartRouter
  BY <1>3, RestartRefines
<1>4. CASE \E q \in Queries : Expire(q) \/ BackendStep(q)
  <2>1. UNCHANGED <<pc, pending, replies, answer>>
    BY <1>4 DEF Expire, BackendStep, BackendAnswers, NoReply, handlerVars, tableVars,
                replyVars
  <2>2. QED
    BY <2>1, OtherStepsStutter
<1>5. CASE \E b \in Backends : \/ IgnoreResponse(b) \/ ReaderFails(b) \/ FindStale(b)
                              \/ BackendStops(b) \/ BackendStarts(b)
  <2>1. UNCHANGED <<pc, pending, replies, answer>>
    BY <1>5 DEF IgnoreResponse, ReaderFails, FindStale, BackendStops, BackendStarts,
                handlerVars, tableVars, replyVars
  <2>2. QED
    BY <2>1, OtherStepsStutter
<1>6. CASE UNCHANGED vars
  BY <1>6, OtherStepsStutter DEF vars, handlerVars, tableVars, replyVars
<1>7. QED
  BY <1>1, <1>2, <1>3, <1>4, <1>5, <1>6 DEF Next, ReaderStep, CleanerStep

\* With prompt backends the router implements DnsForwarding: each arriving query
\* is answered once, by the answer made for it, or dropped, and is not answered
\* after it was dropped (handleQuery, readBackendResponses and cleanPending).
THEOREM Refinement ==
  ASSUME Prompt
  PROVE  Spec => ImplementsForwarding
<1>1. Init => Forwarding!Init
  BY DEF Init, Forwarding!Init, Status
<1>2. TypeOK /\ TypeOK' /\ EntriesMatchHandlers /\ EntriesMatchHandlers' /\ TxIDsAreExclusive
        /\ [Next]_vars => [Forwarding!Next]_(Forwarding!vars)
  BY StepRefines
<1>3. Spec => [](TypeOK /\ EntriesMatchHandlers /\ TxIDsAreExclusive)
  BY PromptInvariant, PTL DEF Spec
<1>4. QED
  BY <1>1, <1>2, <1>3, PTL DEF ImplementsForwarding, Forwarding!Spec, Spec, SafeSpec
===============================================================================
