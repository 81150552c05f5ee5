-------------------------- MODULE VerifyReplyProofs --------------------------
(***************************************************************************)
(* Theorems about VerifyReply, for any number of handlers and buffers, and *)
(* probes of any sizes: what ends the router, sizes near their target, and *)
(* answers that are their own handler's.                                   *)
(***************************************************************************)
EXTENDS VerifyReply, TLAPS

-------------------------------------------------------------------------------
(***************************************************************************)
(* Sizes                                                                   *)
(***************************************************************************)
\* What is known of the numbers in a probe.
LEMMA ProbeType ==
  \A p \in Probes \cup {NoProbe} :
    p.mtu \in Int /\ p.desired \in Nat /\ p.edns \in Nat /\ p.end \in Nat
<1>1. NoProbe \in [mtu : Int, desired : Uint16, edns : Uint16, end : Nat]
  BY DEF NoProbe, Uint16
<1>2. \A p \in Probes \cup {NoProbe} : p \in [mtu : Int, desired : Uint16, edns : Uint16, end : Nat]
  BY <1>1, VerifyAssumption
<1>3. Uint16 \subseteq Nat
  BY DEF Uint16
<1>4. QED
  BY <1>2, <1>3

\* Who decides on the size.
LEMMA TargetOf ==
  ASSUME NEW p \in Probes \cup {NoProbe}
  PROVE  /\ Target(p) \in Int
         /\ \/ p.desired >= 200 /\ p.desired <= 4096 /\ Target(p) = p.desired
            \/ /\ ~(p.desired >= 200 /\ p.desired <= 4096)
               /\ Target(p) = 1232 \/ Target(p) \in {p.edns, p.mtu} \ {0}
BY ProbeType DEF Target

\* A payload and its length bytes take up what was planned for them, or one
\* byte less.
LEMMA StringsFit ==
  ASSUME NEW n \in Nat, n >= 33
  PROVE  LET d == n - n \div 256 - 1 IN d >= 32 /\ d + Strings(d) \in {n - 1, n}
<1> DEFINE k == n \div 256
           r == n % 256
           d == n - k - 1
<1>1. k \in Nat /\ r \in 0..255 /\ n = 256 * k + r
  OBVIOUS
<1> HIDE DEF k, r
<1>2. d = 255 * k + r - 1 /\ d >= 32
  BY <1>1
<1>3. CASE r <= 1
  <2>1. d + 254 = 255 * k + (r + 253) /\ r + 253 \in 0..254
    BY <1>1, <1>2, <1>3
  <2>2. (d + 254) \div 255 = k
    BY <2>1, <1>1, <1>2
  <2>3. QED
    BY <2>2, <1>1, <1>2, <1>3 DEF Strings, k
<1>4. CASE r >= 2
  <2>1. d + 254 = 255 * (k + 1) + (r - 2) /\ r - 2 \in 0..254
    BY <1>1, <1>2, <1>4
  <2>2. (d + 254) \div 255 = k + 1
    BY <2>1, <1>1, <1>2
  <2>3. QED
    BY <2>2, <1>1, <1>2, <1>4 DEF Strings, k
<1>5. QED
  BY <1>1, <1>3, <1>4

\* The answer has the size planned for it, give or take, unless HMAC and
\* question need more; and only a planned size beyond a buffer's exceeds one.
LEMMA SizeFacts ==
  ASSUME NEW n \in Nat, n >= 4, NEW end \in Nat
  PROVE  /\ DataSize(n, end) \in Nat /\ DataSize(n, end) >= 32
         /\ n <= 4096 => DataSize(n, end) <= 4096
         /\ ReplySize(end, DataSize(n, end)) \in Nat
         /\ ReplySize(end, DataSize(n, end)) >= n - 3
         /\ \/ ReplySize(end, DataSize(n, end)) <= n
            \/ ReplySize(end, DataSize(n, end)) <= end + 12 + (MacSize + 1) + 11
<1> DEFINE payload == n - (end + 14 + 11)
           d == DataSize(n, end)
           size == ReplySize(end, d)
<1>1. payload \in Int /\ payload <= n
  OBVIOUS
<1>2. CASE payload >= 33
  <2>1. payload - payload \div 256 - 1 >= 32
    BY <1>1, <1>2, StringsFit
  <2>2. d = payload - payload \div 256 - 1
    BY <1>1, <2>1 DEF DataSize, AtLeast, MacSize
  <2>3. d + Strings(d) \in {payload - 1, payload}
    <3>1. payload \in Nat
      BY <1>1, <1>2
    <3> HIDE DEF payload, d
    <3>2. QED
      BY <1>2, <2>2, <3>1, StringsFit
  <2>4. payload \div 256 \in Nat
    BY <1>1, <1>2
  <2>5. d \in Nat /\ d >= 32 /\ d <= n
    BY <1>1, <2>1, <2>2, <2>4
  <2> HIDE DEF d
  <2>6. size = end + 12 + (d + Strings(d)) + 11
    BY DEF ReplySize
  <2>7. QED
    BY <1>1, <1>2, <2>3, <2>5, <2>6 DEF d
<1>3. CASE payload <= 32
  <2>1. payload - payload \div 256 - 1 <= 32
    BY <1>1, <1>3
  <2>2. d = 32
    BY <1>1, <2>1 DEF DataSize, AtLeast, MacSize
  <2>3. Strings(32) = 1
    BY DEF Strings
  <2>4. size = end + 12 + 33 + 11
    BY <2>2, <2>3 DEF ReplySize
  <2>5. QED
    BY <1>3, <2>2, <2>4 DEF MacSize
<1>4. QED
  BY <1>1, <1>2, <1>3

\* A smaller size has no larger payload.
LEMMA DataSizeMonotone ==
  ASSUME NEW m \in Nat, NEW n \in Nat, m <= n, NEW end \in Nat
  PROVE  DataSize(m, end) <= DataSize(n, end)
<1> DEFINE x == m - (end + 14 + 11)
           y == n - (end + 14 + 11)
<1>1. x \in Int /\ y \in Int /\ x <= y
  OBVIOUS
<1>2. DataSize(m, end) = AtLeast(x - x \div 256 - 1, MacSize)
      /\ DataSize(n, end) = AtLeast(y - y \div 256 - 1, MacSize)
  BY DEF DataSize
<1> HIDE DEF x, y
<1>3. x - x \div 256 <= y - y \div 256
  BY <1>1
<1>4. x \div 256 \in Int /\ y \div 256 \in Int
  BY <1>1
<1>5. QED
  BY <1>1, <1>2, <1>3, <1>4 DEF AtLeast, MacSize

\* What rand.IntN is called with.
LEMMA Quarter == \A t \in Nat : t >= 4 => t \div 4 \in Nat \ {0} /\ 4 * (t \div 4) <= t
OBVIOUS

\* A size that is good for a probe that asks for t.
Near(n, t) ==
  /\ n \in Nat /\ n >= 200
  /\ t \in Nat /\ t >= 4 /\ 4 * n >= 3 * t + 4 /\ n <= AtLeast(t, 200)

\* What becomes of the size after a draw.
LEMMA Draw ==
  \A t, r \in Nat : t >= 4 /\ r < t \div 4 => Near(AtLeast(t - r, 200), t)
<1> SUFFICES ASSUME NEW t \in Nat, NEW r \in Nat, t >= 4, r < t \div 4
             PROVE  Near(AtLeast(t - r, 200), t)
  OBVIOUS
<1>1. t \div 4 \in Nat /\ 4 * (t \div 4) <= t
  BY Quarter
<1>2. 4 * (t - r) >= 3 * t + 4
  BY <1>1
<1>3. QED
  BY <1>2 DEF Near, AtLeast

-------------------------------------------------------------------------------
(***************************************************************************)
(* The handlers                                                            *)
(***************************************************************************)
Working == {"copy", "fill", "build", "put"}

\* What a handler has aimed at stays near what its probe asks for.
Aimed ==
  \A h \in Handlers : pc[h] \in Working \cup {"get", "sent"} => Near(total[h], Target(probe[h]))

\* A handler has panicked over what its probe asks for, or over the payload.
PanicExplained ==
  \A h \in Handlers : pc[h] = "panic" =>
    \/ Target(probe[h]) < 4
    \/ /\ Near(total[h], Target(probe[h]))
       /\ DataSize(total[h], probe[h].end) > BufferSize

\* A buffer is one handler's, or the pool's.
BuffersExclusive ==
  \A h \in Handlers :
    /\ pc[h] \in Working => held[h] # NoBuffer
    /\ held[h] # NoBuffer => pc[h] \in Working \cup {"panic"}
    /\ held[h] \notin pool
    /\ \A g \in Handlers : held[g] = held[h] /\ held[h] # NoBuffer => g = h

\* What a handler has written is what its buffer holds.
ContentIsOwn ==
  \A h \in Handlers :
    /\ pc[h] \in {"fill", "build"} => content[held[h]].mac = h
    /\ pc[h] = "build" /\ DataSize(total[h], probe[h].end) > MacSize => content[held[h]].pad = h

\* What a handler has answered.
ReplyIsBuilt ==
  \A h \in Handlers : reply[h] # NoReply =>
    /\ pc[h] \in {"put", "sent"}
    /\ reply[h].size = ReplySize(probe[h].end, DataSize(total[h], probe[h].end))
    /\ reply[h].mac = h /\ reply[h].pad \in {h, Nobody}

IInv == TypeOK /\ Aimed /\ PanicExplained /\ BuffersExclusive /\ ContentIsOwn /\ ReplyIsBuilt

\* Nothing has been accepted yet.
LEMMA InitInv == Init => IInv
<1> SUFFICES ASSUME Init  PROVE IInv
  OBVIOUS
<1> USE DEF Init
<1>1. TypeOK
  BY VerifyAssumption DEF TypeOK, Owner, NoReply
<1>2. Aimed /\ PanicExplained /\ ContentIsOwn /\ ReplyIsBuilt
  BY DEF Aimed, PanicExplained, ContentIsOwn, ReplyIsBuilt, Working
<1>3. BuffersExclusive
  <2>1. \A h \in Handlers : held[h] = NoBuffer /\ pc[h] = "idle"
    OBVIOUS
  <2>2. pool = {}
    OBVIOUS
  <2> HIDE DEF Init
  <2>3. QED
    BY <2>1, <2>2 DEF BuffersExclusive, Working
<1>4. QED
  BY <1>1, <1>2, <1>3 DEF IInv

\* Each step keeps the types, with what the other parts say of its handler.
LEMMA TypeStep == IInv /\ [Next]_vars => TypeOK'
<1> SUFFICES ASSUME IInv, [Next]_vars  PROVE TypeOK'
  OBVIOUS
<1> USE DEF IInv, TypeOK, Goto
<1>1. CASE UNCHANGED vars
  BY <1>1 DEF vars
<1>2. ASSUME NEW h \in Handlers, Accept(h)  PROVE TypeOK'
  <2>1. probe' \in [Handlers -> Probes \cup {NoProbe}]
    BY <1>2 DEF Accept
  <2>2. QED
    BY <1>2, <2>1 DEF Accept
<1>3. ASSUME NEW h \in Handlers, Aim(h)  PROVE TypeOK'
  <2> DEFINE t == Target(probe[h])
  <2>1. t \in Int
    BY TargetOf
  <2> HIDE DEF t
  <2>2. CASE t < 4
    BY <1>3, <2>2 DEF Aim, t
  <2>3. CASE ~(t < 4)
    <3>1. PICK r \in Draws : r < t \div 4 /\ total' = [total EXCEPT ![h] = AtLeast(t - r, 200)]
      BY <1>3, <2>3 DEF Aim, t
    <3>2. t \in Nat /\ t >= 4 /\ r \in Nat
      BY <2>1, <2>3, VerifyAssumption
    <3>3. AtLeast(t - r, 200) \in Nat
      BY <3>1, <3>2, Draw DEF Near
    <3>4. QED
      BY <1>3, <2>3, <3>1, <3>3 DEF Aim, t
  <2>4. QED
    BY <2>2, <2>3
<1>4. ASSUME NEW h \in Handlers, GetBuffer(h)  PROVE TypeOK'
  BY <1>4 DEF GetBuffer
<1>5. ASSUME NEW h \in Handlers, CopyMac(h) \/ FillPadding(h)  PROVE TypeOK'
  <2>1. content' \in [Buffers -> [mac : Owner, pad : Owner]]
    BY <1>5 DEF CopyMac, FillPadding, Owner
  <2>2. QED
    BY <1>5, <2>1 DEF CopyMac, FillPadding
<1>6. ASSUME NEW h \in Handlers, Build(h)  PROVE TypeOK'
  <2>1. ReplySize(probe[h].end, DataSize(total[h], probe[h].end)) \in Nat
    <3> DEFINE n == total[h]
               end == probe[h].end
    <3>1. n \in Nat /\ n >= 200
      BY <1>6 DEF Build, Aimed, Working, Near
    <3>2. end \in Nat
      BY ProbeType
    <3> HIDE DEF IInv, TypeOK, n, end
    <3>3. n >= 4
      BY <3>1
    <3>4. ReplySize(end, DataSize(n, end)) \in Nat
      BY <3>1, <3>2, <3>3, SizeFacts
    <3>5. QED
      BY <3>4 DEF n, end
  <2>2. held[h] \in Buffers
    BY <1>6 DEF Build
  <2>3. content[held[h]].mac \in Owner /\ content[held[h]].pad \in Owner /\ Nobody \in Owner
    BY <2>2 DEF Owner
  <2>4. reply' \in [Handlers -> [size : Nat, mac : Owner, pad : Owner]]
    BY <1>6, <2>1, <2>3 DEF Build
  <2>5. QED
    BY <1>6, <2>4 DEF Build
<1>7. ASSUME NEW h \in Handlers, PutBuffer(h)  PROVE TypeOK'
  BY <1>7 DEF PutBuffer
<1>8. CASE Collect
  BY <1>8 DEF Collect
<1>9. QED
  BY <1>1, <1>2, <1>3, <1>4, <1>5, <1>6, <1>7, <1>8 DEF Next, Step

\* Each step keeps what is said of sizes, buffers and answers.
LEMMA InvStep == IInv /\ [Next]_vars => IInv'
<1> SUFFICES ASSUME IInv, [Next]_vars  PROVE IInv'
  OBVIOUS
<1> DEFINE Goal == Aimed' /\ PanicExplained' /\ BuffersExclusive' /\ ContentIsOwn' /\ ReplyIsBuilt'
<1> USE DEF IInv, TypeOK, Goto, Aimed, PanicExplained, BuffersExclusive, ContentIsOwn, ReplyIsBuilt, Working
<1>1. CASE UNCHANGED vars
  BY <1>1 DEF vars
<1>2. ASSUME NEW h \in Handlers, Accept(h)  PROVE Goal
  <2>1. /\ pc[h] = "idle" /\ pc' = [pc EXCEPT ![h] = "aim"]
        /\ \A g \in Handlers : g # h => probe'[g] = probe[g]
        /\ UNCHANGED <<total, held, pool, content, reply>>
    BY <1>2 DEF Accept
  <2>2. reply[h] = NoReply
    BY <2>1
  <2>3. QED
    BY <2>1, <2>2
<1>3. ASSUME NEW h \in Handlers, Aim(h)  PROVE Goal
  <2> DEFINE t == Target(probe[h])
  <2>1. t \in Int
    BY TargetOf
  <2> HIDE DEF t
  <2>2. CASE t < 4
    <3>1. /\ pc[h] = "aim" /\ pc' = [pc EXCEPT ![h] = "panic"]
          /\ UNCHANGED <<probe, total, held, pool, content, reply>>
      BY <1>3, <2>2 DEF Aim, t
    <3>2. QED
      BY <2>2, <3>1 DEF t
  <2>3. CASE ~(t < 4)
    <3>1. PICK r \in Draws : r < t \div 4 /\ total' = [total EXCEPT ![h] = AtLeast(t - r, 200)]
      BY <1>3, <2>3 DEF Aim, t
    <3>2. t \in Nat /\ t >= 4 /\ r \in Nat
      BY <2>1, <2>3, VerifyAssumption
    <3>3. total'[h] = AtLeast(t - r, 200) /\ Near(AtLeast(t - r, 200), t)
      <4>1. total'[h] = AtLeast(t - r, 200)
        BY <3>1
      <4>2. Near(AtLeast(t - r, 200), t)
        BY <3>1, <3>2, Draw
      <4>3. QED
        BY <4>1, <4>2
    <3>4. /\ pc[h] = "aim" /\ pc' = [pc EXCEPT ![h] = "get"]
          /\ \A g \in Handlers : g # h => total'[g] = total[g]
          /\ UNCHANGED <<probe, held, pool, content, reply>>
      BY <1>3, <2>3, <3>1 DEF Aim, t
    <3>5. Aimed'
      BY <3>3, <3>4 DEF t
    <3>6. QED
      BY <3>4, <3>5
  <2>4. QED
    BY <2>2, <2>3
<1>4. ASSUME NEW h \in Handlers, GetBuffer(h)  PROVE Goal
  <2> DEFINE size == DataSize(total[h], probe[h].end)
  <2> HIDE DEF size
  <2>2. PICK b \in Buffers : /\ b \in pool \/ \A g \in Handlers : held[g] # b
                             /\ held' = [held EXCEPT ![h] = b] /\ pool' = pool \ {b}
    BY <1>4 DEF GetBuffer
  <2>3. pc[h] = "get" /\ UNCHANGED <<probe, total, content, reply>>
    BY <1>4 DEF GetBuffer
  <2>4. \/ pc' = [pc EXCEPT ![h] = "copy"]
        \/ pc' = [pc EXCEPT ![h] = "panic"] /\ size > BufferSize
    BY <1>4 DEF GetBuffer, size
  <2>5. \A g \in Handlers : held[g] # b
    BY <2>2
  <2>6. BuffersExclusive'
    BY <2>2, <2>3, <2>4, <2>5, VerifyAssumption
  <2>7. PanicExplained'
    BY <2>3, <2>4 DEF size
  <2>8. QED
    BY <2>2, <2>3, <2>4, <2>6, <2>7
<1>5. ASSUME NEW h \in Handlers, CopyMac(h)  PROVE Goal
  <2>1. /\ pc[h] = "copy" /\ content' = [content EXCEPT ![held[h]].mac = h]
        /\ \E l \in {"fill", "build"} : pc' = [pc EXCEPT ![h] = l]
        /\ DataSize(total[h], probe[h].end) > MacSize => pc'[h] = "fill"
        /\ UNCHANGED <<probe, total, held, pool, reply>>
    <3>1. CASE DataSize(total[h], probe[h].end) > MacSize
      BY <1>5, <3>1 DEF CopyMac
    <3>2. CASE ~(DataSize(total[h], probe[h].end) > MacSize)
      BY <1>5, <3>2 DEF CopyMac
    <3>3. QED
      BY <3>1, <3>2
  <2>2. held[h] \in Buffers /\ content'[held[h]].mac = h
    BY <2>1
  <2>3. \A g \in Handlers : g # h /\ pc[g] \in Working => content'[held[g]] = content[held[g]]
    BY <2>1, VerifyAssumption
  <2>4. ContentIsOwn'
    BY <2>1, <2>2, <2>3
  <2>5. QED
    BY <2>1, <2>4
<1>6. ASSUME NEW h \in Handlers, FillPadding(h)  PROVE Goal
  <2>1. /\ pc[h] = "fill" /\ content' = [content EXCEPT ![held[h]].pad = h]
        /\ pc' = [pc EXCEPT ![h] = "build"]
        /\ UNCHANGED <<probe, total, held, pool, reply>>
    BY <1>6 DEF FillPadding
  <2>2. held[h] \in Buffers /\ content'[held[h]].mac = h /\ content'[held[h]].pad = h
    BY <2>1
  <2>3. \A g \in Handlers : g # h /\ pc[g] \in Working => content'[held[g]] = content[held[g]]
    BY <2>1, VerifyAssumption
  <2>4. ContentIsOwn'
    BY <2>1, <2>2, <2>3
  <2>5. QED
    BY <2>1, <2>4
<1>7. ASSUME NEW h \in Handlers, Build(h)  PROVE Goal
  <2> DEFINE size == DataSize(total[h], probe[h].end)
  <2>1. /\ pc[h] = "build" /\ pc' = [pc EXCEPT ![h] = "put"]
        /\ \A g \in Handlers : g # h => reply'[g] = reply[g]
        /\ UNCHANGED <<probe, total, held, pool, content>>
    BY <1>7 DEF Build
  <2>2. /\ reply'[h].size = ReplySize(probe[h].end, size)
        /\ reply'[h].mac = content[held[h]].mac
        /\ reply'[h].pad = IF size > MacSize THEN content[held[h]].pad ELSE Nobody
    BY <1>7 DEF Build
  <2>3. content[held[h]].mac = h /\ (size > MacSize => content[held[h]].pad = h)
    BY <2>1
  <2>4. ReplyIsBuilt'
    BY <2>1, <2>2, <2>3
  <2>5. QED
    BY <2>1, <2>4
<1>8. ASSUME NEW h \in Handlers, PutBuffer(h)  PROVE Goal
  <2>1. /\ pc[h] = "put" /\ pc' = [pc EXCEPT ![h] = "sent"]
        /\ pool' = pool \cup {held[h]} /\ held' = [held EXCEPT ![h] = NoBuffer]
        /\ UNCHANGED <<probe, total, content, reply>>
    BY <1>8 DEF PutBuffer
  <2>2. held[h] \in Buffers
    BY <2>1
  <2>3. BuffersExclusive'
    BY <2>1, <2>2, VerifyAssumption
  <2>4. QED
    BY <2>1, <2>3
<1>9. CASE Collect
  BY <1>9 DEF Collect
<1>10. Goal
  BY <1>1, <1>2, <1>3, <1>4, <1>5, <1>6, <1>7, <1>8, <1>9 DEF Next, Step
<1>11. TypeOK'
  BY TypeStep
<1>12. QED
  BY <1>10, <1>11

\* All of it together is an invariant of the specification.
LEMMA Invariant == Spec => []IInv
BY InitInv, InvStep, PTL DEF Spec

-------------------------------------------------------------------------------
\* The types, and a buffer for every handler that works on one.
THEOREM TypeCorrect == Spec => []TypeOK
BY Invariant, PTL DEF IInv

\* No size in a nonce ends the router, nor does a record or a route that asks
\* for 4 bytes or more of which the payload fits a buffer (rand.IntN and the
\* slice of the pooled buffer in handleVerify), whatever is drawn.
THEOREM PanicsExplained == Spec => []PanicsOnlyOutOfRange
<1>1. IInv => PanicsOnlyOutOfRange
  <2> SUFFICES ASSUME IInv, NEW h \in Handlers, pc[h] = "panic"
               PROVE  /\ ~(probe[h].desired >= 200 /\ probe[h].desired <= 4096)
                      /\ \E size \in {probe[h].edns, probe[h].mtu} \ {0} :
                           size < 4 \/ DataSize(size, probe[h].end) > BufferSize
    BY DEF PanicsOnlyOutOfRange
  <2> DEFINE t == Target(probe[h])
             n == total[h]
             end == probe[h].end
  <2>1. probe[h] \in Probes \cup {NoProbe} /\ end \in Nat
    BY ProbeType DEF IInv, TypeOK
  <2>2. t \in Int
    BY <2>1, TargetOf
  <2>3. t < 4 \/ (Near(n, t) /\ DataSize(n, end) > BufferSize)
    BY DEF IInv, PanicExplained
  <2> HIDE DEF t, n, end
  <2>4. t < 4 \/ (t > 4096 /\ DataSize(t, end) > BufferSize)
    <3> SUFFICES ASSUME Near(n, t), DataSize(n, end) > BufferSize
                 PROVE  t > 4096 /\ DataSize(t, end) > BufferSize
      BY <2>3
    <3>1. n \in Nat /\ n >= 200 /\ t \in Nat /\ n <= AtLeast(t, 200)
      BY DEF Near
    <3>2. n > 4096
      BY <2>1, <3>1, SizeFacts DEF BufferSize
    <3>3. n <= t
      BY <3>1, <3>2 DEF AtLeast
    <3>4. DataSize(n, end) <= DataSize(t, end)
      BY <2>1, <3>1, <3>3, DataSizeMonotone
    <3>5. DataSize(n, end) \in Nat /\ DataSize(t, end) \in Nat
      <4>1. n >= 4 /\ t >= 4
        BY <3>1, <3>2, <3>3
      <4>2. QED
        BY <2>1, <3>1, <4>1, SizeFacts
    <3>6. QED
      BY <3>1, <3>2, <3>3, <3>4, <3>5 DEF BufferSize
  <2>5. \/ probe[h].desired >= 200 /\ probe[h].desired <= 4096 /\ t = probe[h].desired
        \/ /\ ~(probe[h].desired >= 200 /\ probe[h].desired <= 4096)
           /\ t = 1232 \/ t \in {probe[h].edns, probe[h].mtu} \ {0}
    BY <2>1, TargetOf DEF t
  <2>6. ~(t >= 200 /\ t <= 4096)
    BY <2>2, <2>4
  <2>7. QED
    BY <2>4, <2>5, <2>6 DEF end
<1>2. QED
  BY <1>1, Invariant, PTL

\* Answers are padded to the size asked for, for every question length, draw
\* and size (handleVerify, buildBinaryTXTResponseWithEDNS).
THEOREM SizesNearTarget == Spec => []SizeNearTarget
<1>1. IInv => SizeNearTarget
  <2> SUFFICES ASSUME IInv, NEW h \in Handlers, reply[h] # NoReply
               PROVE  LET size   == reply[h].size
                          target == Target(probe[h])
                      IN  /\ 4 * (size + 2) >= 3 * target
                          /\ \/ size <= AtLeast(target, 200)
                             \/ size <= probe[h].end + 12 + (MacSize + 1) + 11
    BY DEF SizeNearTarget
  <2> DEFINE size == reply[h].size
             target == Target(probe[h])
             n == total[h]
             end == probe[h].end
  <2>1. size = ReplySize(end, DataSize(n, end)) /\ pc[h] \in {"put", "sent"}
    BY DEF IInv, ReplyIsBuilt
  <2>2. n \in Nat /\ n >= 200 /\ 4 * n >= 3 * target + 4 /\ n <= AtLeast(target, 200)
    BY <2>1 DEF IInv, Aimed, Working, Near
  <2>3. end \in Nat
    BY ProbeType DEF IInv, TypeOK
  <2>4. target \in Nat
    BY <2>1 DEF IInv, Aimed, Working, Near
  <2> HIDE DEF size, target, n, end
  <2>5. /\ size \in Nat /\ size >= n - 3
        /\ size <= n \/ size <= end + 12 + (MacSize + 1) + 11
    BY <2>1, <2>2, <2>3, SizeFacts
  <2>6. AtLeast(target, 200) \in Int
    BY <2>4 DEF AtLeast
  <2>7. 4 * (size + 2) >= 3 * target
    BY <2>2, <2>4, <2>5
  <2>8. size <= AtLeast(target, 200) \/ size <= end + 12 + (MacSize + 1) + 11
    BY <2>2, <2>5, <2>6
  <2>9. QED
    BY <2>7, <2>8 DEF size, target, end
<1>2. QED
  BY <1>1, Invariant, PTL

\* No answer has bytes of another handler's, whatever the pool and the garbage
\* collector do (paddingPool.Get and Put in handleVerify).
THEOREM RepliesAreOwn == Spec => []OwnReply
<1>1. IInv => OwnReply
  BY DEF IInv, ReplyIsBuilt, OwnReply
<1>2. QED
  BY <1>1, Invariant, PTL
===============================================================================
