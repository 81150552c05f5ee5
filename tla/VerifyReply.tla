----------------------------- MODULE VerifyReply -----------------------------
(***************************************************************************)
(* How the DNS router builds the answer to a verify probe, after it has    *)
(* accepted the probe's proof (internal/dnsrouter/verify.go): the size it  *)
(* aims at, the payload in a pooled buffer, the TXT record around it.      *)
(* DnsRouter has all this as one step of a handler (AnswerProbe); here     *)
(* handlers run side by side and share the pool.                           *)
(*                                                                         *)
(* A probe is the MTU of its verify route, the size in its nonce (of any   *)
(* value: a client that knows nothing of it has random bytes there), the   *)
(* size of its OPT record (0 without one) and the end of its question.     *)
(* The code checks the size in the nonce only: the MTU is any integer that *)
(* an operator has entered (tunnel add and the wizards take what they can  *)
(* read as a number, system mtu what is positive), the size of the OPT     *)
(* record any 16 bits.  A buffer is represented by whose HMAC and whose    *)
(* padding it holds.                                                       *)
(*                                                                         *)
(* Nothing recovers from a panic: one in a handler ends the process, and   *)
(* with it all handlers.  The module is about one such process.            *)
(***************************************************************************)
EXTENDS Integers, Sequences

CONSTANTS
  Handlers,  \* goroutines of handleQuery, one probe each
  Buffers,   \* buffers that paddingPool can hand out
  Probes,    \* the probes that are considered
  Draws,     \* bound: results of rand.IntN that are considered
  NoBuffer, Nobody

\* mtu: of the verify route, 0 for Slipstream's; desired: the last two bytes of
\* the nonce; edns: of the OPT record; end: qEnd, the length of header and question.
Uint16 == 0..65535

ASSUME VerifyAssumption ==
  /\ Probes \subseteq [mtu : Int, desired : Uint16, edns : Uint16, end : Nat]
  /\ Draws \subseteq Nat
  /\ NoBuffer \notin Buffers /\ Nobody \notin Handlers

VARIABLES
  pc,      \* handler -> where it is in handleVerify
  probe,   \* handler -> its probe
  total,   \* handler -> targetTotal
  held,    \* handler -> the buffer of bufPtr
  pool,    \* the buffers in paddingPool
  content, \* buffer -> whose HMAC and padding it holds
  reply    \* handler -> the answer's size, and whose HMAC and padding is in it

vars == <<pc, probe, total, held, pool, content, reply>>

-------------------------------------------------------------------------------
BufferSize == 4096
MacSize    == 32

AtLeast(n, least) == IF n < least THEN least ELSE n

\* The size the client, its resolver or the configuration asks for.
FaultyTarget(p) ==
  IF p.desired >= 200 THEN p.desired
  ELSE IF p.edns > 0 /\ p.edns # 1232 THEN p.edns
  ELSE IF p.mtu = 0 THEN 1232 ELSE p.mtu

Target(p) ==
  IF p.desired >= 200 /\ p.desired <= 4096 THEN p.desired
  ELSE IF p.edns > 0 /\ p.edns # 1232 THEN p.edns
  ELSE IF p.mtu = 0 THEN 1232 ELSE p.mtu

\* targetData: room for one length byte in each 256 bytes of the payload.
FaultyDataSize(n, end) == AtLeast(n - (end + 14 + 11) - 1, MacSize)

DataSize(n, end) ==
  LET payload == n - (end + 14 + 11)
  IN  AtLeast(payload - payload \div 256 - 1, MacSize)

\* buildBinaryTXTResponseWithEDNS: header and question, the fixed part of the
\* answer, character-strings of at most 255 bytes, the OPT record.
Strings(n) == (n + 254) \div 255
ReplySize(end, n) == end + 12 + (n + Strings(n)) + 11

-------------------------------------------------------------------------------
NoProbe == [mtu |-> 0, desired |-> 0, edns |-> 0, end |-> 0]
NoReply == [size |-> 0, mac |-> Nobody, pad |-> Nobody]
Goto(h, l) == pc' = [pc EXCEPT ![h] = l]

Init ==
  /\ pc = [h \in Handlers |-> "idle"]
  /\ probe = [h \in Handlers |-> NoProbe]
  /\ total = [h \in Handlers |-> 0]
  /\ held = [h \in Handlers |-> NoBuffer]
  /\ pool = {}
  /\ content = [b \in Buffers |-> [mac |-> Nobody, pad |-> Nobody]]
  /\ reply = [h \in Handlers |-> NoReply]

\* A probe with a valid proof.
Accept(h) ==
  /\ pc[h] = "idle"
  /\ \E p \in Probes : probe' = [probe EXCEPT ![h] = p]
  /\ Goto(h, "aim")
  /\ UNCHANGED <<total, held, pool, content, reply>>

\* rand.IntN, which panics unless its argument is positive.
Aim(h) ==
  LET target == Target(probe[h]) IN
  /\ pc[h] = "aim"
  /\ IF target < 4
     THEN Goto(h, "panic") /\ UNCHANGED total
     ELSE /\ \E r \in Draws :
               r < target \div 4 /\ total' = [total EXCEPT ![h] = AtLeast(target - r, 200)]
          /\ Goto(h, "get")
  /\ UNCHANGED <<probe, held, pool, content, reply>>

\* paddingPool.Get: a buffer of the pool, or a new one; and the slice of it
\* that the payload takes, which panics beyond the end of the buffer.
GetBuffer(h) ==
  LET size == DataSize(total[h], probe[h].end) IN
  /\ pc[h] = "get"
  /\ \E b \in Buffers :
       /\ b \in pool \/ \A g \in Handlers : held[g] # b
       /\ held' = [held EXCEPT ![h] = b]
       /\ pool' = pool \ {b}
  /\ Goto(h, IF size > BufferSize THEN "panic" ELSE "copy")
  /\ UNCHANGED <<probe, total, content, reply>>

CopyMac(h) ==
  /\ pc[h] = "copy"
  /\ content' = [content EXCEPT ![held[h]].mac = h]
  /\ Goto(h, IF DataSize(total[h], probe[h].end) > MacSize THEN "fill" ELSE "build")
  /\ UNCHANGED <<probe, total, held, pool, reply>>

FillPadding(h) ==
  /\ pc[h] = "fill"
  /\ content' = [content EXCEPT ![held[h]].pad = h]
  /\ Goto(h, "build")
  /\ UNCHANGED <<probe, total, held, pool, reply>>

\* The answer is a copy of the payload.
Build(h) ==
  LET size == DataSize(total[h], probe[h].end) IN
  /\ pc[h] = "build"
  /\ reply' = [reply EXCEPT ![h] =
                 [size |-> ReplySize(probe[h].end, size), mac |-> content[held[h]].mac,
                  pad  |-> IF size > MacSize THEN content[held[h]].pad ELSE Nobody]]
  /\ Goto(h, "put")
  /\ UNCHANGED <<probe, total, held, pool, content>>

\* The buffer is back in the pool, and bufPtr is not used any more.
EarlyPutBuffer(h) ==
  /\ pc[h] = "build"
  /\ pool' = pool \cup {held[h]} /\ held' = [held EXCEPT ![h] = NoBuffer]
  /\ UNCHANGED <<pc, probe, total, content, reply>>

FaultyPutBuffer(h) ==
  /\ pc[h] \in {"build", "put"} /\ held[h] \notin pool
  /\ pool' = pool \cup {held[h]}
  /\ IF pc[h] = "put" THEN Goto(h, "sent") ELSE UNCHANGED pc
  /\ UNCHANGED <<probe, total, held, content, reply>>

PutBuffer(h) ==
  /\ pc[h] = "put"
  /\ pool' = pool \cup {held[h]} /\ held' = [held EXCEPT ![h] = NoBuffer]
  /\ Goto(h, "sent")
  /\ UNCHANGED <<probe, total, content, reply>>

\* The garbage collector empties the pool when it likes.
Collect ==
  /\ \E b \in pool : pool' = pool \ {b}
  /\ UNCHANGED <<pc, probe, total, held, content, reply>>

Step(h) ==
  \/ Accept(h) \/ Aim(h) \/ GetBuffer(h) \/ CopyMac(h) \/ FillPadding(h)
  \/ Build(h) \/ PutBuffer(h)

Running == \A h \in Handlers : pc[h] # "panic"

Next == Running /\ ((\E h \in Handlers : Step(h)) \/ Collect)

Spec == Init /\ [][Next]_vars

-------------------------------------------------------------------------------
\* The types of all variables, and what is held when: a handler that works on a
\* payload has a buffer.
Owner == Handlers \cup {Nobody}

TypeOK ==
  /\ pc \in [Handlers -> {"idle", "aim", "get", "copy", "fill", "build", "put", "sent", "panic"}]
  /\ probe \in [Handlers -> Probes \cup {NoProbe}]
  /\ total \in [Handlers -> Nat]
  /\ held \in [Handlers -> Buffers \cup {NoBuffer}]
  /\ pool \subseteq Buffers
  /\ content \in [Buffers -> [mac : Owner, pad : Owner]]
  /\ reply \in [Handlers -> [size : Nat, mac : Owner, pad : Owner]]
  /\ \A h \in Handlers : pc[h] \in {"copy", "fill", "build", "put"} => held[h] \in Buffers

\* "The server only responds when the embedded HMAC proof is correct", with
\* a "TXT containing HMAC(key, nonce||0x01) padded to MTU" (verify.go:38 and
\* 41): the probe that does have a correct proof is responded to, and does not
\* end the router instead.
NoPanic == Running

\* What ends the router, exactly: never the size in a nonce, whatever it holds;
\* the size of an OPT record or an MTU below 4, of which rand.IntN gets no
\* quarter, or one for which a payload is planned that, less its length bytes,
\* exceeds a buffer.
PanicsOnlyOutOfRange ==
  \A h \in Handlers : pc[h] = "panic" =>
    LET p == probe[h] IN
    /\ ~(p.desired >= 200 /\ p.desired <= 4096)
    /\ \E size \in {p.edns, p.mtu} \ {0} :
         size < 4 \/ DataSize(size, p.end) > BufferSize

\* "Randomize around the target (75%-100%)", to which the answer keeps within
\* two bytes with all its length bytes and fixed parts; it exceeds the target
\* only when that is below 200, or when HMAC and question leave no choice.
SizeNearTarget ==
  \A h \in Handlers : reply[h] # NoReply =>
    LET size   == reply[h].size
        target == Target(probe[h])
    IN  /\ 4 * (size + 2) >= 3 * target
        /\ size <= AtLeast(target, 200) \/ size <= probe[h].end + 12 + (MacSize + 1) + 11

\* An answer has the HMAC of its own probe and padding of its own: no handler
\* gets a buffer that another one still reads from or writes to.
OwnReply ==
  \A h \in Handlers : reply[h] # NoReply =>
    reply[h].mac = h /\ reply[h].pad \in {h, Nobody}
===============================================================================
