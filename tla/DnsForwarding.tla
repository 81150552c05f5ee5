---------------------------- MODULE DnsForwarding -----------------------------
(***************************************************************************)
(* What the DNS router promises to the clients whose queries it forwards,  *)
(* without sockets, transaction ids or goroutines: a query that arrives is *)
(* either answered, once, with the answer that was made for it, or         *)
(* dropped; and it is never answered after it was dropped.                 *)
(***************************************************************************)
CONSTANTS Queries, NoAnswer

VARIABLES
  status,   \* "new" | "pending" | "answered" | "dropped", for each query
  answer    \* the query whose answer the client received, or NoAnswer

vars == <<status, answer>>

Init ==
  /\ status = [q \in Queries |-> "new"]
  /\ answer = [q \in Queries |-> NoAnswer]

\* The query's packet reaches the router.
Accept(q) ==
  /\ status[q] = "new"
  /\ status' = [status EXCEPT ![q] = "pending"]
  /\ UNCHANGED answer

\* The client receives the answer to its own query.
Answer(q) ==
  /\ status[q] = "pending"
  /\ status' = [status EXCEPT ![q] = "answered"]
  /\ answer' = [answer EXCEPT ![q] = q]

\* The router gives up on some of the pending queries (on all of them at once
\* when it restarts).
Drop(S) ==
  /\ \A q \in S : status[q] = "pending"
  /\ status' = [q \in Queries |-> IF q \in S THEN "dropped" ELSE status[q]]
  /\ UNCHANGED answer

Next ==
  \/ \E q \in Queries : Accept(q) \/ Answer(q)
  \/ \E S \in SUBSET Queries : Drop(S)

Spec == Init /\ [][Next]_vars
===============================================================================
