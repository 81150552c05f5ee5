---------------------------- MODULE StunTlsProofs ----------------------------
(***************************************************************************)
(* Theorems about StunTls, for every alphabet, scan limit, buffer size and *)
(* every length of the client's stream: types, the coding of frame         *)
(* lengths, that the scanner finds every banner it can be asked to, and    *)
(* that both directions of the relay carry what they read and only that.   *)
(***************************************************************************)
EXTENDS StunTls, Extrema, SequenceTheorems, FiniteSetTheorems, TLAPS

Items == Bytes \cup Frames \cup
         {Opening("GET "), Opening("CONN"), Rest("valid"), Rest("invalid"), Byte("S")}

\* Nothing but what clients can send is ever appended to the stream.
LEMMA FollowsType == Follows \subseteq Items
BY DEF Follows, Items

\* An opening is that of one of the two kinds of request.
LEMMA OpeningType ==
  ASSUME NEW item \in Items, item.type = "opening"
  PROVE  item.what \in {"GET ", "CONN"}
<1>1. \A x : Byte(x).type = "byte" /\ Rest(x).type = "rest" /\ Opening(x).what = x
  BY DEF Byte, Rest, Opening
<1>2. \A x, n : Frame(x, n).type = "frame"
  BY DEF Frame
<1>3. item \notin Bytes /\ item \notin Frames
  BY <1>1, <1>2 DEF Bytes, Frames
<1>4. QED
  BY <1>1, <1>3 DEF Items

-------------------------------------------------------------------------------
(***************************************************************************)
(* Frame lengths                                                           *)
(***************************************************************************)
\* A length field consists of bytes.
LEMMA HeaderType == \A n \in Nat : Header(n) \in Seq(0..255)
<1> SUFFICES ASSUME NEW n \in Nat  PROVE Header(n) \in Seq(0..255)
  OBVIOUS
<1>1. CASE n <= 125
  BY <1>1 DEF Header
<1>2. \A m \in Nat : m % 256 \in 0..255
  OBVIOUS
<1>3. Short(n) \in Seq(0..255)
  <2>1. n \div 256 \in Nat
    OBVIOUS
  <2>2. (n \div 256) % 256 \in 0..255 /\ n % 256 \in 0..255
    BY <2>1, <1>2
  <2>3. QED
    BY <2>2 DEF Short
<1>4. Long(n) \in Seq(0..255)
  <2>1. n \div 256 \in Nat /\ n \div (256 * 256) \in Nat /\ n \div (256 * 256 * 256) \in Nat
    OBVIOUS
  <2>2. /\ (n \div 256) % 256 \in 0..255 /\ n % 256 \in 0..255
        /\ (n \div (256 * 256)) % 256 \in 0..255 /\ (n \div (256 * 256 * 256)) % 256 \in 0..255
    BY <2>1, <1>2
  <2>3. QED
    BY <2>2 DEF Long
<1>5. QED
  BY <1>1, <1>3, <1>4 DEF Header

\* readWSFrame finds the length that writeWSFrame coded, and consumes as many
\* bytes as were written, for every length of 32 bits.
THEOREM FrameRoundTrip ==
  \A n \in Nat : n < 256 * 256 * 256 * 256 => WellFramed(Header(n), n)
<1> SUFFICES ASSUME NEW n \in Nat, n < 256 * 256 * 256 * 256  PROVE WellFramed(Header(n), n)
  OBVIOUS
<1> DEFINE a == n \div 256
           b == n \div (256 * 256)
           c == n \div (256 * 256 * 256)
<1>1. /\ a \in Nat /\ b \in Nat /\ c \in Nat
      /\ a % 256 \in 0..255 /\ b % 256 \in 0..255 /\ n % 256 \in 0..255
  OBVIOUS
<1>2. n = 256 * a + (n % 256) /\ a = 256 * b + (a % 256) /\ b = 256 * c + (b % 256)
  OBVIOUS
<1>3. c % 256 = c
  OBVIOUS
<1>4. CASE n <= 125
  BY <1>4 DEF Header, WellFramed, HeaderSize, PayloadLength
<1>5. CASE 125 < n /\ n < 256 * 256
  <2>1. Header(n) = Short(n) /\ a % 256 = a
    BY <1>5 DEF Header
  <2> DEFINE h == Short(n)
  <2>2. Len(h) = 3 /\ h[1] = 126 /\ h[2] = a % 256 /\ h[3] = n % 256
    BY DEF Short
  <2> HIDE DEF h, a
  <2>3. QED
    BY <1>1, <1>2, <2>1, <2>2 DEF WellFramed, HeaderSize, PayloadLength, h
<1>6. CASE 256 * 256 <= n
  <2>1. Header(n) = Long(n)
    BY <1>6 DEF Header
  <2> DEFINE h == Long(n)
  <2>2. /\ Len(h) = 9 /\ h[1] = 127 /\ h[6] = c % 256 /\ h[7] = b % 256
        /\ h[8] = a % 256 /\ h[9] = n % 256
    BY DEF Long
  <2> HIDE DEF h, a, b, c
  <2>3. 256 * (256 * (256 * c + (b % 256)) + (a % 256)) + (n % 256) = n
    BY <1>1, <1>2
  <2>4. PayloadLength(h) = n /\ HeaderSize(h) = 9
    BY <1>3, <2>2, <2>3 DEF PayloadLength, HeaderSize
  <2>5. QED
    BY <2>1, <2>2, <2>4 DEF WellFramed, h
<1>7. QED
  BY <1>4, <1>5, <1>6

-------------------------------------------------------------------------------
(***************************************************************************)
(* Types                                                                   *)
(***************************************************************************)
\* TypeOK with what it rests on: the stream consists of items, and the scan
\* goes on only while less than a banner has matched.
TypeInv ==
  /\ TypeOK
  /\ said \in Seq(Items) /\ head \in Seq({"S", "H", "-"})
  /\ pc = "peek" => match = 0
  /\ pc = "scan" => match <= 3

\* Messages of the proxy's own have the type of answers.
LEMMA SayType ==
  ASSUME answers \in Seq(Answer), NEW a \in {"101", "200", "refused", "close"}, Say(a)
  PROVE  answers' \in Seq(Answer)
<1>1. <<>> \in Seq(0..255)
  BY EmptySeq
<1>2. [what |-> a, header |-> <<>>, len |-> 0] \in Answer
  BY <1>1 DEF Answer
<1>3. QED
  BY <1>2, AppendProperties DEF Say

\* A read of what sshd wrote brings something, no more than has arrived and no
\* more than the buffer holds.
LEMMA ReadCountsBound ==
  ASSUME TypeOK, sent > taken
  PROVE  /\ ReadCount \in Nat /\ ReadCount <= sent - taken /\ ReadCount <= ReadSize
         /\ \A n \in ReadCounts : n \in 1..ReadCount
<1>1. /\ ReadCount \in Nat \ {0}
      /\ ReadCount <= sent - taken /\ ReadCount <= ReadSize
  BY StunTlsAssumption DEF TypeOK, ReadCount
<1>2. \A k \in Shortfalls : k \in Nat
  BY StunTlsAssumption
<1>3. \A n \in ReadCounts : n \in 1..ReadCount
  BY <1>1, <1>2 DEF ReadCounts
<1>4. QED
  BY <1>1, <1>3

\* Before the first byte nothing was read.
LEMMA TypeInit == Init => TypeInv
<1> SUFFICES ASSUME Init  PROVE TypeInv
  OBVIOUS
<1> USE DEF Init
<1>1. answers \in Seq(Answer) /\ said \in Seq(Items) /\ head \in Seq({"S", "H", "-"})
  BY EmptySeq
<1>2. Len(said) = 0 /\ Len(head) = 0
  OBVIOUS
<1>3. client \in PeerStates /\ ssh \in PeerStates \cup {"none", "closed"}
  BY DEF PeerStates
<1>4. /\ filled \in 0..Len(said) /\ used \in 0..filled
      /\ scanned \in 0..MaxScan /\ match \in 0..4 /\ sent \in Nat /\ taken \in 0..sent
  BY <1>2, StunTlsAssumption
<1>5. /\ pc = "peek" /\ kind = "none" /\ match = 0
      /\ up = "idle" /\ down = "idle" /\ told = FALSE
  OBVIOUS
<1>6. told \in BOOLEAN
  BY <1>5, Zenon
<1>7. Len(head) <= 4
  BY <1>2
<1> HIDE DEF Init
<1>8. QED
  BY <1>1, <1>3, <1>4, <1>5, <1>6, <1>7 DEF TypeInv, TypeOK

\* Each action, of the peers and of the proxy, keeps the types.
LEMMA TypeStep == TypeInv /\ [Next]_vars => TypeInv'
<1> SUFFICES ASSUME TypeInv, [Next]_vars  PROVE TypeInv'
  OBVIOUS
<1> USE StunTlsAssumption DEF TypeInv, TypeOK, PeerStates, stream, peers, detect, copies, output, source
<1>1. CASE UNCHANGED vars
  BY <1>1 DEF vars
<1>2. CASE ClientSends
  <2>1. PICK item \in Follows : said' = Append(said, item)
    BY <1>2 DEF ClientSends
  <2>2. item \in Items
    BY <2>1, FollowsType
  <2>3. said' \in Seq(Items) /\ Len(said') = Len(said) + 1
    BY <2>1, <2>2, AppendProperties
  <2>4. QED
    BY <1>2, <2>3 DEF ClientSends
<1>3. CASE ClientEnds
  BY <1>3 DEF ClientEnds
<1>4. CASE ClientResets
  BY <1>4 DEF ClientResets
<1>5. CASE SSHSends
  BY <1>5 DEF SSHSends
<1>6. CASE SSHEnds
  BY <1>6 DEF SSHEnds
<1>7. CASE SSHResets
  BY <1>7 DEF SSHResets
<1>8. CASE PeekMore
  BY <1>8 DEF PeekMore, Fill
<1>9. CASE Dispatch
  <2>1. UNCHANGED <<stream, peers, scanned, match, head, copies, output, source>>
    BY <1>9 DEF Dispatch
  <2>2. pc' \in {"request", "dial", "scan"} /\ kind' \in {"ws", "connect", "raw", "payload"}
    BY <1>9 DEF Dispatch
  <2>3. match = 0
    BY <1>9 DEF Dispatch
  <2>4. QED
    BY <2>1, <2>2, <2>3
<1>10. CASE PeekFails
  BY <1>10 DEF PeekFails, Ended
<1>11. CASE ReadMoreOfRequest
  BY <1>11 DEF ReadMoreOfRequest, Fill
<1>12. CASE RequestFails
  BY <1>12 DEF RequestFails, Ended
<1>13. CASE RefuseRequest
  <2>1. answers' \in Seq(Answer)
    BY <1>13, SayType DEF RefuseRequest
  <2>2. QED
    BY <1>13, <2>1 DEF RefuseRequest, Ended
<1>14. CASE AcceptRequest
  <2>1. answers' \in Seq(Answer)
    BY <1>14, SayType DEF AcceptRequest
  <2>2. QED
    BY <1>14, <2>1 DEF AcceptRequest, Ended
<1>15. CASE ScanMore
  BY <1>15 DEF ScanMore, Fill
<1>16. CASE ScanByte
  <2>1. match' \in 0..4
    BY <1>16 DEF ScanByte, NextMatch
  <2>2. head' \in Seq({"S", "H", "-"}) /\ Len(head') <= 4
    <3>1. PushBack \in Seq({"S", "H", "-"}) /\ Len(PushBack) <= 4
      <4>1. "S" \in {"S", "H", "-"} /\ "H" \in {"S", "H", "-"}
        OBVIOUS
      <4>2. \A C : \A a, b \in C : <<a, a, b>> \in Seq(C)
        OBVIOUS
      <4>3. PushBack \in Seq({"S", "H", "-"})
        BY <4>1, <4>2 DEF PushBack
      <4>4. Len(PushBack) <= 4
        BY DEF PushBack
      <4>5. QED
        BY <4>3, <4>4
    <3>2. head' = head \/ head' = PushBack
      BY <1>16 DEF ScanByte
    <3>3. head \in Seq({"S", "H", "-"}) /\ Len(head) <= 4
      OBVIOUS
    <3> HIDE DEF TypeInv, TypeOK
    <3>4. CASE head' = head
      BY <3>3, <3>4
    <3>5. CASE head' = PushBack
      BY <3>1, <3>5, Zenon
    <3>6. QED
      BY <3>2, <3>4, <3>5
  <2>3. QED
    BY <1>16, <2>1, <2>2 DEF ScanByte
<1>17. CASE ScanFails
  BY <1>17 DEF ScanFails, Ended
<1>18. CASE Dial
  BY <1>18 DEF Dial, StartRelay, FirstUnread
<1>19. CASE DialFails
  <2>1. answers' \in Seq(Answer)
    BY <1>19, SayType DEF DialFails
  <2>2. QED
    BY <1>19, <2>1 DEF DialFails, Ended
<1>20. CASE Reply
  <2>1. answers' \in Seq(Answer)
    BY <1>20, SayType DEF Reply
  <2>2. QED
    BY <1>20, <2>1 DEF Reply, StartRelay, FirstUnread, Ended
<1>21. CASE UpRead
  BY <1>21 DEF UpRead, Fill
<1>22. CASE UpWrite
  <2>1. head' \in Seq({"S", "H", "-"}) /\ Len(head') <= 4 /\ used' \in 0..filled
    <3>1. CASE head # <<>>
      <4>1. head' = Tail(head) /\ used' = used
        BY <1>22, <3>1 DEF UpWrite
      <4>2. Tail(head) \in Seq({"S", "H", "-"}) /\ Len(Tail(head)) = Len(head) - 1 /\ Len(head) \in Nat
        BY <3>1, HeadTailProperties
      <4>3. QED
        BY <4>1, <4>2
    <3>2. CASE head = <<>>
      BY <1>22, <3>2 DEF UpWrite, CanRead
    <3>3. QED
      BY <3>1, <3>2
  <2>2. QED
    BY <1>22, <2>1 DEF UpWrite
<1>23. CASE UpStops
  BY <1>23 DEF UpStops
<1>24. CASE UpEnds
  BY <1>24 DEF UpEnds
<1>25. CASE DownCopy
  <2> PICK n \in ReadCounts : DownCopyOf(n)
    BY <1>25 DEF DownCopy
  <2>1. n \in Nat /\ taken + n \in 0..sent
    <3>1. sent > taken
      BY DEF DownCopyOf
    <3>2. n \in 1..ReadCount /\ ReadCount \in Nat /\ ReadCount <= sent - taken
      BY <3>1, ReadCountsBound
    <3>3. QED
      BY <3>1, <3>2
  <2>2. \A h \in {<<>>, Header(n)} : [what |-> "bytes", len |-> n, header |-> h] \in Answer
    <3>1. <<>> \in Seq(0..255) /\ Header(n) \in Seq(0..255)
      BY <2>1, HeaderType, EmptySeq
    <3> HIDE DEF TypeInv, TypeOK
    <3>2. QED
      BY <2>1, <3>1 DEF Answer
  <2>3. answers' \in Seq(Answer)
    <3>1. PICK h \in {<<>>, Header(n)} :
            \/ answers' = Append(answers, [what |-> "bytes", len |-> n, header |-> h])
            \/ answers' = answers
      BY DEF DownCopyOf
    <3>2. answers \in Seq(Answer)
      OBVIOUS
    <3> HIDE DEF TypeInv, TypeOK
    <3>3. QED
      BY <2>2, <3>1, <3>2, AppendProperties
  <2>4. /\ taken' = taken + n /\ down' \in {down, "done"}
        /\ UNCHANGED <<stream, peers, pc, detect, up, told, sent>>
    BY DEF DownCopyOf
  <2>5. QED
    BY <2>1, <2>3, <2>4
<1>26. CASE DownEnds
  <2>1. answers' \in Seq(Answer)
    BY <1>26, SayType DEF DownEnds
  <2>2. QED
    BY <1>26, <2>1 DEF DownEnds
<1>27. CASE Finish
  BY <1>27 DEF Finish, Ended
<1>28. QED
  BY <1>1, <1>2, <1>3, <1>4, <1>5, <1>6, <1>7, <1>8, <1>9, <1>10, <1>11, <1>12, <1>13, <1>14,
     <1>15, <1>16, <1>17, <1>18, <1>19, <1>20, <1>21, <1>22, <1>23, <1>24, <1>25, <1>26, <1>27
     DEF Next, Server, Peek, Request, Scan, Connect, Up, Down

\* Every variable keeps its type, whatever the peers do.
THEOREM TypeCorrect == Spec => []TypeOK
<1>1. Spec => []TypeInv
  BY TypeInit, TypeStep, PTL DEF Spec
<1>2. QED
  BY <1>1, PTL DEF TypeInv

-------------------------------------------------------------------------------
(***************************************************************************)
(* The scanner                                                             *)
(*                                                                         *)
(* `match' is what the four bytes of the banner look like from the last    *)
(* byte consumed: that many bytes match (MatchIsReal), and no fair banner  *)
(* that has begun has a different number of them behind it (NoneMissed).   *)
(* So the fourth byte of a fair banner always completes the match, and     *)
(* none lies behind the scanner while it goes on (NonePassed).             *)
(***************************************************************************)
\* The last k bytes consumed begin a banner that does not follow an "S".
Begun(k) ==
  /\ k <= used
  /\ \A j \in 1..k : said[used - k + j].what = Banner[j]
  /\ used = k \/ said[used - k].what # "S"

MatchIsReal == match <= used /\ \A j \in 1..match : said[used - match + j].what = Banner[j]
NoneMissed  == \A k \in 1..3 : Begun(k) => match = k
NonePassed  == \A i \in 1..Len(said) : FairBanner(i) => i + 3 > used

\* A payload's handler goes on only with a banner, and what it did not read is
\* not looked at.
ScanInv ==
  /\ pc = "peek" => kind = "none" /\ used = 0 /\ scanned = 0
  /\ pc = "request" => kind # "payload"
  /\ pc = "scan" => scanned = used /\ MatchIsReal /\ NoneMissed /\ NonePassed
  /\ kind = "payload" /\ pc \notin {"scan", "ended"} => match = 4
  /\ up = "copying" => pc = "relay"
  /\ BannerFound

\* The bytes of "SSH-", one by one.
LEMMA BannerBytes == Banner[1] = "S" /\ Banner[2] = "S" /\ Banner[3] = "H" /\ Banner[4] = "-"
BY DEF Banner

\* At first there is no scan.
LEMMA ScanInit == Init => ScanInv
BY DEF Init, ScanInv, BannerFound

\* What the client sends is behind what the scanner has seen.
LEMMA SendingKeepsScan ==
  ASSUME TypeInv, ScanInv, ClientSends
  PROVE  ScanInv'
<1> USE DEF TypeInv, TypeOK
<1>1. PICK item \in Follows : said' = Append(said, item)
  BY DEF ClientSends
<1>2. item \in Items
  BY <1>1, FollowsType
<1>3. Len(said') = Len(said) + 1 /\ \A i \in 1..Len(said) : said'[i] = said[i]
  BY <1>1, <1>2, AppendProperties
<1>4. UNCHANGED <<filled, used, client, pc, kind, scanned, match, up>> /\ client = "open" /\ pc # "ended"
  BY DEF ClientSends, peers, detect, copies
<1>5. used \in 0..Len(said) /\ Len(said) \in Nat
  OBVIOUS
<1>6. ASSUME pc = "scan"  PROVE MatchIsReal' /\ NoneMissed' /\ NonePassed'
  <2>1. MatchIsReal /\ NoneMissed /\ NonePassed
    BY <1>6 DEF ScanInv
  <2>2. MatchIsReal'
    <3>1. match \in Nat /\ match <= used /\ used \in Nat
      BY <2>1, <1>5 DEF MatchIsReal
    <3>2. \A j \in 1..match : used - match + j \in 1..Len(said)
      BY <3>1, <1>5
    <3>3. QED
      BY <2>1, <3>1, <3>2, <1>3, <1>4 DEF MatchIsReal
  <2>3. ASSUME NEW k \in 1..3, Begun(k)'  PROVE Begun(k)
    <3>1. k <= used /\ used \in Nat
      BY <2>3, <1>4, <1>5 DEF Begun
    <3>2. \A j \in 1..k : used - k + j \in 1..Len(said)
      BY <3>1, <1>5
    <3>3. used # k => used - k \in 1..Len(said)
      BY <3>1, <1>5
    <3>4. QED
      BY <2>3, <3>1, <3>2, <3>3, <1>3, <1>4 DEF Begun
  <2>4. NoneMissed'
    BY <2>1, <2>3, <1>4 DEF NoneMissed
  <2>5. ASSUME NEW i \in 1..Len(said'), FairBanner(i)', i + 3 <= used  PROVE FALSE
    <3>1. i \in 1..Len(said) /\ i + 3 <= Len(said)
      BY <2>5, <1>3, <1>5
    <3>2. \A j \in 1..4 : i + j - 1 \in 1..Len(said)
      BY <3>1, <1>5
    <3>3. IsBanner(i)
      BY <2>5, <3>1, <3>2, <1>3, <1>5 DEF FairBanner, IsBanner
    <3>4. i = 1 \/ said[i - 1].what # "S"
      <4>1. i # 1 => i - 1 \in 1..Len(said)
        BY <3>1, <1>5
      <4>2. QED
        BY <2>5, <4>1, <1>3 DEF FairBanner
    <3>5. FairBanner(i)
      BY <3>3, <3>4 DEF FairBanner
    <3>6. QED
      BY <2>1, <2>5, <3>1, <3>5, <1>5 DEF NonePassed
  <2>6. NonePassed'
    BY <2>5, <1>3, <1>4, <1>5 DEF NonePassed
  <2>7. QED
    BY <2>2, <2>4, <2>6
<1>7. BannerFound'
  BY <1>4 DEF ScanInv, BannerFound
<1>8. QED
  BY <1>4, <1>6, <1>7 DEF ScanInv

\* The scanner's own step: what a byte does to the match.
LEMMA ScanningKeepsScan ==
  ASSUME TypeInv, ScanInv, ScanByte
  PROVE  ScanInv'
<1> USE DEF TypeInv, TypeOK
<1> DEFINE b == said[used + 1].what
<1>1. /\ pc = "scan" /\ used < filled /\ scanned' = scanned + 1
      /\ match' = NextMatch(match, b)
      /\ UNCHANGED <<said, filled, kind, client>> /\ up # "copying"
  BY DEF ScanByte, peers, ScanInv
<1>2. MatchIsReal /\ NoneMissed /\ NonePassed /\ scanned = used
  BY <1>1 DEF ScanInv
<1>3. match \in 0..3 /\ used \in Nat /\ match <= used
  BY <1>1, <1>2 DEF MatchIsReal
<1>4. CASE match' = 4
  <2>1. pc' = "dial" /\ up' # "copying"
    BY <1>1, <1>4 DEF ScanByte, copies
  <2>2. QED
    BY <1>1, <1>4, <2>1 DEF ScanInv, BannerFound
<1>5. CASE match' # 4
  <2>1. pc' = "scan" /\ used' = used + 1 /\ match' \in 0..3 /\ up' # "copying"
    BY <1>1, <1>3, <1>5 DEF ScanByte, NextMatch, copies
  <2>2. \A j \in 1..match : said[used - match + j].what = Banner[j]
    BY <1>2 DEF MatchIsReal
  <2>3. MatchIsReal'
    <3>1. CASE match' = match + 1
      <4>1. b = Banner[match + 1]
        BY <1>1, <1>3, <3>1 DEF NextMatch
      <4>2. \A j \in 1..(match + 1) : said[used - match + j].what = Banner[j]
        <5>1. \A j \in 1..(match + 1) : j \in 1..match \/ (j = match + 1 /\ used - match + j = used + 1)
          BY <1>3
        <5>2. QED
          BY <2>2, <4>1, <5>1
      <4>3. used' - match' = used - match
        BY <1>3, <2>1, <3>1
      <4>4. QED
        BY <1>1, <1>3, <2>1, <3>1, <4>2, <4>3 DEF MatchIsReal
    <3>2. CASE match' = 1 /\ b = "S"
      BY <1>1, <1>3, <2>1, <3>2, BannerBytes DEF MatchIsReal
    <3>3. CASE match' = 0
      BY <1>1, <1>3, <2>1, <3>3 DEF MatchIsReal
    <3>4. QED
      BY <1>1, <1>3, <3>1, <3>2, <3>3, BannerBytes DEF NextMatch
  <2>4. ASSUME NEW k \in 1..3, Begun(k)'  PROVE match' = k
    <3>1. /\ \A j \in 1..k : said[used + 1 - k + j].what = Banner[j]
          /\ k <= used + 1 /\ (used + 1 = k \/ said[used + 1 - k].what # "S")
      BY <1>1, <2>1, <2>4 DEF Begun
    <3>2. b = Banner[k]
      <4>1. used + 1 - k + k = used + 1 /\ k \in 1..k
        BY <1>3
      <4>2. said[used + 1 - k + k].what = Banner[k]
        BY <3>1, <4>1
      <4>3. QED
        BY <4>1, <4>2
    <3>3. CASE k = 1
      <4>1. used = 0 \/ said[used].what # "S"
        BY <3>1, <3>3, <1>3
      <4>2. match # 1 /\ match # 2
        <5>1. ASSUME match = 1 \/ match = 2  PROVE FALSE
          <6>1. said[used].what = Banner[match]
            BY <2>2, <5>1, <1>3
          <6>2. QED
            BY <6>1, <5>1, <4>1, <1>3, BannerBytes
        <5>2. QED
          BY <5>1
      <4>3. QED
        BY <1>1, <1>3, <3>2, <3>3, <4>2, BannerBytes DEF NextMatch
    <3>4. CASE k \in {2, 3}
      <4>1. \A j \in 1..(k - 1) : said[used - (k - 1) + j].what = Banner[j]
        <5>1. used - (k - 1) = used + 1 - k
          BY <3>4, <1>3
        <5>2. QED
          <6> TAKE j \in 1..(k - 1)
          <6>1. j \in 1..k
            BY <3>4
          <6>2. said[used + 1 - k + j].what = Banner[j]
            BY <3>1, <6>1
          <6>3. QED
            BY <5>1, <6>2
      <4>2. used = k - 1 \/ said[used - (k - 1)].what # "S"
        <5>1. used - (k - 1) = used + 1 - k /\ (used + 1 = k => used = k - 1)
          BY <3>4, <1>3
        <5>2. QED
          BY <5>1, <3>1
      <4>3. Begun(k - 1) /\ k - 1 \in 1..3
        BY <3>1, <3>4, <4>1, <4>2, <1>3 DEF Begun
      <4>4. match = k - 1
        BY <4>3, <1>2 DEF NoneMissed
      <4>5. QED
        BY <1>1, <3>2, <3>4, <4>4 DEF NextMatch
    <3>5. QED
      BY <3>3, <3>4
  <2>5. ASSUME NEW i \in 1..Len(said), FairBanner(i)  PROVE i + 3 > used + 1
    <3>1. i + 3 > used
      BY <1>2, <2>5 DEF NonePassed
    <3>2. ASSUME i + 3 = used + 1  PROVE FALSE
      <4>1. /\ \A j \in 1..4 : said[i + j - 1].what = Banner[j]
            /\ i = 1 \/ said[i - 1].what # "S"
        BY <2>5 DEF FairBanner, IsBanner
      <4>2. \A j \in 1..3 : used - 3 + j = i + j - 1
        BY <3>2, <1>3
      <4>3. \A j \in 1..3 : said[used - 3 + j].what = Banner[j]
        <5> TAKE j \in 1..3
        <5>1. used - 3 + j = i + j - 1
          BY <4>2
        <5>2. said[i + j - 1].what = Banner[j]
          <6>1. j \in 1..4
            OBVIOUS
          <6>2. QED
            BY <4>1, <6>1
        <5>3. QED
          BY <5>1, <5>2
      <4>4. i = used - 2 /\ i - 1 = used - 3 /\ 3 <= used /\ (i = 1 => used = 3)
        BY <3>2, <1>3
      <4>5. Begun(3)
        BY <4>1, <4>3, <4>4 DEF Begun
      <4>6. match = 3
        BY <4>5, <1>2 DEF NoneMissed
      <4>7. said[i + 4 - 1].what = Banner[4] /\ i + 4 - 1 = used + 1
        BY <4>1, <3>2, <1>3
      <4>8. b = Banner[match + 1]
        BY <4>6, <4>7
      <4>9. QED
        BY <1>1, <1>5, <4>6, <4>8 DEF NextMatch
    <3>3. QED
      BY <3>1, <3>2, <1>3
  <2>6. NoneMissed'
    BY <2>4 DEF NoneMissed
  <2>7. NonePassed'
    <3>1. \A i \in 1..Len(said) : FairBanner(i)' => FairBanner(i)
      BY <1>1 DEF FairBanner, IsBanner
    <3>2. QED
      BY <2>5, <3>1, <1>1, <2>1 DEF NonePassed
  <2>8. QED
    BY <1>1, <1>2, <2>1, <2>3, <2>6, <2>7 DEF ScanInv, BannerFound
<1>6. QED
  BY <1>4, <1>5

\* When the scan ends without a match there was none to be found.
LEMMA GivingUpKeepsScan ==
  ASSUME TypeInv, ScanInv, ScanFails
  PROVE  ScanInv'
<1> USE DEF TypeInv, TypeOK
<1>1. /\ pc = "scan" /\ pc' = "ended"
      /\ UNCHANGED <<said, filled, used, client, kind, scanned, match, up>>
      /\ scanned = MaxScan \/ (used = filled /\ CannotFill)
  BY DEF ScanFails, Ended, stream, detect, copies
<1>2. NonePassed /\ scanned = used
  BY <1>1 DEF ScanInv
<1>3. ASSUME client # "reset", NEW i \in 1..(MaxScan - 3), FairBanner(i)  PROVE FALSE
  <2>1. i \in 1..Len(said) /\ i + 3 <= Len(said)
    BY <1>3, StunTlsAssumption DEF FairBanner, IsBanner
  <2>2. i + 3 > used
    BY <1>2, <1>3, <2>1 DEF NonePassed
  <2>3. CASE scanned = MaxScan
    BY <1>2, <2>2, <2>3, StunTlsAssumption
  <2>4. CASE used = filled /\ CannotFill
    BY <1>3, <2>1, <2>2, <2>4 DEF CannotFill
  <2>5. QED
    BY <1>1, <2>3, <2>4
<1>4. \A i : FairBanner(i)' => FairBanner(i)
  BY <1>1 DEF FairBanner, IsBanner
<1>5. BannerFound'
  BY <1>1, <1>3, <1>4 DEF BannerFound
<1>6. QED
  BY <1>1, <1>5 DEF ScanInv

\* The first bytes decide what is detected, and the scan begins with nothing.
LEMMA DispatchKeepsScan ==
  ASSUME TypeInv, ScanInv, Dispatch
  PROVE  ScanInv'
<1> USE DEF TypeInv, TypeOK
<1>1. /\ pc = "peek" /\ filled > 0
      /\ UNCHANGED <<said, filled, used, client, scanned, match, up>>
      /\ match = 0 /\ used = 0 /\ scanned = 0
  BY DEF Dispatch, Peeked, ScanInv, stream, peers, copies
<1>2. CASE said[1].type = "opening"
  <2>1. said[1] \in Items
    BY <1>1
  <2>2. said[1].what \in {"GET ", "CONN"}
    BY <2>1, <1>2, OpeningType
  <2>3. ~IsBanner(1)
    <3>1. ASSUME IsBanner(1)  PROVE FALSE
      <4>1. said[1].what = Banner[1]
        <5>1. \A j \in 1..4 : said[1 + j - 1].what = Banner[j]
          BY <3>1 DEF IsBanner
        <5>2. 1 \in 1..4 /\ 1 + 1 - 1 = 1
          OBVIOUS
        <5>3. QED
          BY <5>1, <5>2
      <4>2. QED
        BY <4>1, <2>2, BannerBytes
    <3>2. QED
      BY <3>1
  <2>4. pc' = "request"
    BY <1>2, <2>3 DEF Dispatch
  <2>5. CASE said[1].what = "GET "
    <3>1. kind' = "ws"
      BY <2>5, <2>3 DEF Dispatch
    <3>2. QED
      BY <1>1, <2>4, <3>1 DEF ScanInv, BannerFound
  <2>6. CASE said[1].what = "CONN"
    <3>1. said[1].what # "GET "
      BY <2>6
    <3>2. kind' = "connect"
      BY <2>6, <2>3, <3>1 DEF Dispatch
    <3>3. QED
      BY <1>1, <2>4, <3>2 DEF ScanInv, BannerFound
  <2>7. QED
    BY <2>2, <2>5, <2>6
<1>3. CASE said[1].type # "opening" /\ IsBanner(1)
  <2>1. pc' = "dial" /\ kind' \in {"ws", "connect", "raw"}
    BY <1>3 DEF Dispatch
  <2>2. QED
    BY <1>1, <2>1 DEF ScanInv, BannerFound
<1>4. CASE said[1].type # "opening" /\ ~IsBanner(1)
  <2>1. pc' = "scan"
    BY <1>4 DEF Dispatch
  <2>2. MatchIsReal'
    BY <1>1 DEF MatchIsReal
  <2>3. NoneMissed'
    BY <1>1 DEF NoneMissed, Begun
  <2>4. NonePassed'
    BY <1>1 DEF NonePassed
  <2>5. QED
    BY <1>1, <2>1, <2>2, <2>3, <2>4 DEF ScanInv, BannerFound
<1>5. QED
  BY <1>2, <1>3, <1>4

\* A step that leaves the stream, the detection and the place alone.
LEMMA ElsewhereKeepsScan ==
  ASSUME TypeInv, ScanInv, UNCHANGED <<said, used, pc, kind, scanned, match>>,
         client = "reset" => client' = "reset", up' = "copying" => up = "copying"
  PROVE  ScanInv'
<1>1. \A i : FairBanner(i)' <=> FairBanner(i)
  BY DEF FairBanner, IsBanner
<1>2. MatchIsReal' <=> MatchIsReal
  BY DEF MatchIsReal
<1>3. NoneMissed' <=> NoneMissed
  BY DEF NoneMissed, Begun
<1>4. NonePassed' <=> NonePassed
  BY <1>1 DEF NonePassed
<1>5. BannerFound'
  BY <1>1 DEF ScanInv, BannerFound
<1>6. QED
  BY <1>2, <1>3, <1>4, <1>5 DEF ScanInv

\* A step of a handler that is neither before nor in the scan.
LEMMA HandlersKeepScan ==
  ASSUME TypeInv, ScanInv, UNCHANGED <<said, kind, match, client>>,
         pc \notin {"scan", "ended"}, pc' \notin {"peek", "scan", "request"},
         up' = "copying" => pc' = "relay"
  PROVE  ScanInv'
<1>1. kind = "payload" => match = 4 /\ pc # "request"
  BY DEF ScanInv
<1>2. QED
  BY <1>1 DEF ScanInv, BannerFound

\* Each action keeps the scanner's invariant.
LEMMA ScanStep == TypeInv /\ ScanInv /\ [Next]_vars => ScanInv'
<1> SUFFICES ASSUME TypeInv, ScanInv, [Next]_vars  PROVE ScanInv'
  OBVIOUS
<1> USE DEF stream, peers, detect, copies, output, source
<1>1. CASE UNCHANGED vars
  BY <1>1, ElsewhereKeepsScan DEF vars
<1>2. CASE ClientSends
  BY <1>2, SendingKeepsScan
<1>3. CASE Dispatch
  BY <1>3, DispatchKeepsScan
<1>4. CASE ScanByte
  BY <1>4, ScanningKeepsScan
<1>5. CASE ScanFails
  BY <1>5, GivingUpKeepsScan
<1>6. CASE ClientEnds \/ ClientResets
  BY <1>6, ElsewhereKeepsScan DEF ClientEnds, ClientResets
<1>7. CASE SSHSends \/ SSHEnds \/ SSHResets
  BY <1>7, ElsewhereKeepsScan DEF SSHSends, SSHEnds, SSHResets
<1>8. CASE PeekMore \/ ReadMoreOfRequest \/ ScanMore \/ UpRead
  BY <1>8, ElsewhereKeepsScan DEF PeekMore, ReadMoreOfRequest, ScanMore, UpRead, Fill
<1>9. CASE UpStops \/ UpEnds \/ DownCopy \/ DownEnds
  BY <1>9, ElsewhereKeepsScan DEF UpStops, UpEnds, DownCopy, DownCopyOf, DownEnds
<1>10. CASE UpWrite
  <2>1. pc = "relay" /\ up = "copying"
    BY <1>10 DEF UpWrite, ScanInv
  <2>2. UNCHANGED <<said, kind, match, client, pc>>
    BY <1>10 DEF UpWrite
  <2>3. QED
    BY <2>1, <2>2, HandlersKeepScan
<1>11. CASE PeekFails
  BY <1>11, HandlersKeepScan DEF PeekFails, Ended, ScanInv
<1>12. CASE RequestFails \/ RefuseRequest \/ AcceptRequest
  BY <1>12, HandlersKeepScan DEF RequestFails, RefuseRequest, AcceptRequest, Ended, ScanInv
<1>13. CASE Dial \/ DialFails \/ Reply
  BY <1>13, HandlersKeepScan DEF Dial, DialFails, Reply, StartRelay, Ended, ScanInv
<1>14. CASE Finish
  BY <1>14, HandlersKeepScan DEF Finish, Ended, ScanInv
<1>15. QED
  BY <1>1, <1>2, <1>3, <1>4, <1>5, <1>6, <1>7, <1>8, <1>9, <1>10, <1>11, <1>12, <1>13, <1>14
     DEF Next, Server, Peek, Request, Scan, Connect, Up, Down

\* The scan of a payload gives up only if no banner within the limit was there
\* to be found, however the client's bytes arrive (handlePayload).
THEOREM BannersFound == Spec => []BannerFound
<1>1. Spec => [](TypeInv /\ ScanInv)
  BY TypeInit, TypeStep, ScanInit, ScanStep, PTL DEF Spec
<1>2. QED
  BY <1>1, PTL DEF ScanInv

-------------------------------------------------------------------------------
(***************************************************************************)
(* The stages of a connection                                              *)
(***************************************************************************)
\* sshd is there from the dial to the end, and the goroutines run in the relay
\* and nowhere else.
Stages ==
  /\ pc \in {"peek", "request", "scan", "dial"} => ssh = "none"
  /\ pc \in {"reply", "relay"} => ssh # "none"
  /\ pc \notin {"relay", "ended"} => up = "idle" /\ down = "idle"
  /\ pc = "relay" => up # "idle" /\ down # "idle"
  /\ pc = "ended" => up \in {"idle", "done"} /\ down \in {"idle", "done"} /\ ssh \in {"none", "closed"}
  /\ up = "idle" => toSSH = <<>>

\* At first nothing has begun.
LEMMA StagesInit == Init => Stages
BY DEF Init, Stages

\* Each action keeps to the order of the stages.
LEMMA StagesStep == TypeInv /\ Stages /\ [Next]_vars => Stages'
<1> SUFFICES ASSUME TypeInv, Stages, [Next]_vars  PROVE Stages'
  OBVIOUS
<1>0. /\ up \in {"idle", "copying", "ending", "done"} /\ down \in {"idle", "copying", "done"}
      /\ pc \in {"peek", "request", "scan", "dial", "reply", "relay", "ended"}
  BY DEF TypeInv, TypeOK
<1> USE <1>0 DEF Stages, stream, peers, detect, copies, output, source
<1>1. CASE UNCHANGED vars
  BY <1>1 DEF vars
<1>2. CASE ClientSends \/ ClientEnds \/ ClientResets
  BY <1>2 DEF ClientSends, ClientEnds, ClientResets
<1>3. CASE SSHSends \/ SSHEnds \/ SSHResets
  BY <1>3 DEF SSHSends, SSHEnds, SSHResets
<1>4. CASE PeekMore \/ ReadMoreOfRequest \/ ScanMore \/ UpRead
  BY <1>4 DEF PeekMore, ReadMoreOfRequest, ScanMore, UpRead
<1>5. CASE Dispatch
  BY <1>5 DEF Dispatch
<1>6. CASE PeekFails \/ RequestFails \/ RefuseRequest \/ ScanFails \/ DialFails
  BY <1>6 DEF PeekFails, RequestFails, RefuseRequest, ScanFails, DialFails, Ended
<1>7. CASE AcceptRequest
  BY <1>7 DEF AcceptRequest, Ended
<1>8. CASE ScanByte
  BY <1>8 DEF ScanByte
<1>9. CASE Dial
  BY <1>9 DEF Dial, StartRelay
<1>10. CASE Reply
  BY <1>10 DEF Reply, StartRelay, Ended
<1>11. CASE UpWrite
  <2>1. up = "copying" /\ up' \in {"copying", "ending"} /\ UNCHANGED <<pc, ssh, down>>
    BY <1>11 DEF UpWrite
  <2>2. QED
    BY <2>1
<1>12. CASE UpStops \/ UpEnds
  BY <1>12 DEF UpStops, UpEnds
<1>13. CASE DownCopy \/ DownEnds
  BY <1>13 DEF DownCopy, DownCopyOf, DownEnds
<1>14. CASE Finish
  BY <1>14 DEF Finish, Ended
<1>15. QED
  BY <1>1, <1>2, <1>3, <1>4, <1>5, <1>6, <1>7, <1>8, <1>9, <1>10, <1>11, <1>12, <1>13, <1>14
     DEF Next, Server, Peek, Request, Scan, Connect, Up, Down

-------------------------------------------------------------------------------
(***************************************************************************)
(* From sshd to the client                                                 *)
(***************************************************************************)
\* Running totals of the bytes in the answers, the last of them what was read
\* from sshd.
Totals(total) ==
  /\ total[0] = 0
  /\ \A n \in 1..Len(answers) : total[n] = total[n - 1] + BytesIn(answers[n])
  /\ total[Len(answers)] = taken

Counted == \E total \in [0..Len(answers) -> Nat] : Totals(total)

\* Running totals are what the recursive function computes.
LEMMA CountedReceived ==
  ASSUME answers \in Seq(Answer), Counted
  PROVE  Received[Len(answers)] = taken
<1>1. PICK total \in [0..Len(answers) -> Nat] : Totals(total)
  BY DEF Counted
<1>2. Len(answers) \in Nat
  OBVIOUS
<1> DEFINE Sums(r) == r = [n \in 0..Len(answers) |-> IF n = 0 THEN 0 ELSE r[n - 1] + BytesIn(answers[n])]
<1>3. Sums(total)
  <2>1. \A n \in 0..Len(answers) : total[n] = IF n = 0 THEN 0 ELSE total[n - 1] + BytesIn(answers[n])
    BY <1>1, <1>2 DEF Totals
  <2>2. QED
    BY <2>1
<1>4. Received = CHOOSE r : Sums(r)
  BY DEF Received
<1>5. Sums(Received)
  <2> HIDE DEF Sums
  <2>1. QED
    BY <1>3, <1>4
<1>6. \A n \in 0..Len(answers) : Received[n] = IF n = 0 THEN 0 ELSE Received[n - 1] + BytesIn(answers[n])
  <2> DEFINE Sum(r, n) == IF n = 0 THEN 0 ELSE r[n - 1] + BytesIn(answers[n])
  <2>1. Received = [n \in 0..Len(answers) |-> Sum(Received, n)]
    BY <1>5
  <2> HIDE DEF Sum
  <2>2. \A n \in 0..Len(answers) : Received[n] = Sum(Received, n)
    BY <2>1
  <2>3. QED
    BY <2>2 DEF Sum
<1> DEFINE Bad == {n \in 0..Len(answers) : Received[n] # total[n]}
<1>7. Bad = {}
  <2>1. SUFFICES ASSUME Bad # {}  PROVE FALSE
    OBVIOUS
  <2>2. Bad \in SUBSET Nat
    BY <1>2
  <2>3. PICK n \in Bad : \A m \in Bad : n <= m
    BY <2>1, <2>2, LeastNat
  <2>4. n \in 0..Len(answers) /\ Received[n] # total[n]
    BY <2>3
  <2>5. n # 0
    BY <1>1, <1>2, <1>6, <2>4 DEF Totals
  <2>6. n - 1 \in 0..Len(answers) /\ ~(n <= n - 1)
    BY <1>2, <2>4, <2>5
  <2>7. Received[n - 1] = total[n - 1]
    BY <2>3, <2>6
  <2>8. n \in 1..Len(answers)
    BY <1>2, <2>4, <2>5
  <2>9. Received[n] = Received[n - 1] + BytesIn(answers[n]) /\ total[n] = total[n - 1] + BytesIn(answers[n])
    BY <1>1, <1>6, <2>4, <2>5, <2>8 DEF Totals
  <2>10. QED
    BY <2>4, <2>7, <2>9
<1>8. Len(answers) \in 0..Len(answers)
  BY <1>2
<1>9. QED
  BY <1>1, <1>7, <1>8 DEF Totals

\* One more answer, with the bytes that were read for it.
LEMMA CountOne ==
  ASSUME answers \in Seq(Answer), Counted, NEW a \in Answer, answers' = Append(answers, a),
         taken' \in Nat, taken' = taken + BytesIn(a)
  PROVE  Counted'
<1>1. PICK total \in [0..Len(answers) -> Nat] : Totals(total)
  BY DEF Counted
<1> DEFINE k == Len(answers)
<1>2. /\ k \in Nat /\ Len(answers') = k + 1
      /\ answers'[k + 1] = a /\ \A i \in 1..k : answers'[i] = answers[i]
  BY AppendProperties
<1> HIDE DEF k
<1> DEFINE next == [n \in 0..(k + 1) |-> IF n = k + 1 THEN taken' ELSE total[n]]
<1>3. next \in [0..(k + 1) -> Nat]
  <2>1. \A n \in 0..(k + 1) : n # k + 1 => n \in 0..k
    BY <1>2
  <2>2. \A n \in 0..k : total[n] \in Nat
    BY <1>1 DEF k
  <2>3. QED
    BY <2>1, <2>2
<1>4. next[0] = 0 /\ next[k + 1] = taken'
  BY <1>1, <1>2 DEF Totals
<1>5. ASSUME NEW n \in 1..(k + 1)  PROVE next[n] = next[n - 1] + BytesIn(answers'[n])
  <2>1. CASE n = k + 1
    <3>1. n - 1 = k /\ k \in 0..(k + 1) /\ k # k + 1
      BY <1>2, <2>1
    <3>2. next[n - 1] = taken
      BY <1>1, <3>1 DEF Totals, k
    <3>3. next[n] = taken' /\ answers'[n] = a
      BY <1>2, <1>4, <2>1
    <3>4. QED
      BY <3>2, <3>3
  <2>2. CASE n # k + 1
    <3>1. n \in 1..k /\ n - 1 \in 0..(k + 1) /\ n - 1 # k + 1 /\ n \in 0..(k + 1)
      BY <1>2, <2>2
    <3>2. next[n] = total[n] /\ next[n - 1] = total[n - 1] /\ answers'[n] = answers[n]
      BY <1>2, <2>2, <3>1
    <3>3. total[n] = total[n - 1] + BytesIn(answers[n])
      BY <1>1, <3>1 DEF Totals, k
    <3>4. QED
      BY <3>2, <3>3
  <2>3. QED
    BY <2>1, <2>2
<1> HIDE DEF next
<1>6. PICK total1 : total1 = next
  OBVIOUS
<1>7. Totals(total1)'
  BY <1>2, <1>4, <1>5, <1>6 DEF Totals
<1>8. total1 \in [0..Len(answers') -> Nat]
  BY <1>2, <1>3, <1>6
<1>9. QED
  BY <1>7, <1>8 DEF Counted

\* A close frame in the relay is the last thing: all of sshd's stream was read,
\* unless sshd reset it.
AfterTheEnd(a) == a.what = "close" => down = "done" /\ SSHFinished

DownInv ==
  /\ \A i \in DOMAIN answers :
       /\ answers[i].header # <<>> => WellFramed(answers[i].header, answers[i].len)
       /\ pc = "relay" => AfterTheEnd(answers[i])
       /\ pc \notin {"relay", "ended"} => answers[i].what # "close"
  /\ client = "open" => Counted

\* Nothing was answered at first, and nothing was read.
LEMMA DownInit == Init => DownInv
<1> SUFFICES ASSUME Init  PROVE DownInv
  OBVIOUS
<1>1. answers = <<>> /\ taken = 0 /\ Len(answers) = 0
  BY DEF Init
<1>2. DOMAIN answers = {}
  BY <1>1
<1> DEFINE zero == [n \in 0..0 |-> 0]
<1>3. zero \in [0..Len(answers) -> Nat] /\ zero[0] = 0
  BY <1>1
<1>4. \A n \in 1..Len(answers) : FALSE
  BY <1>1
<1> HIDE DEF zero
<1>5. Totals(zero)
  BY <1>1, <1>3, <1>4 DEF Totals
<1>6. QED
  BY <1>2, <1>3, <1>5 DEF DownInv, Counted

\* What is read for the client with its length field is of that length.
LEMMA ChunkFramed ==
  ASSUME TypeInv, sent > taken, NEW n \in ReadCounts
  PROVE  /\ n \in Nat /\ taken + n \in Nat
         /\ WellFramed(Header(n), n) /\ Header(n) # <<>>
<1>1. n \in Nat /\ n <= ReadSize /\ taken \in Nat
  <2>1. n \in 1..ReadCount /\ ReadCount \in Nat /\ ReadCount <= ReadSize
    BY ReadCountsBound DEF TypeInv
  <2>2. QED
    BY <2>1, StunTlsAssumption DEF TypeInv, TypeOK
<1>2. n < 256 * 256 * 256 * 256
  <2>1. MaxLength \in Nat /\ MaxLength < 256 * 256 * 256 * 256
    BY SMT DEF MaxLength
  <2>2. n <= MaxLength
    BY <1>1, <2>1, StunTlsAssumption, LengthAssumption
  <2>3. QED
    BY <1>1, <2>1, <2>2, SMT
<1>3. WellFramed(Header(n), n)
  BY <1>1, <1>2, FrameRoundTrip
<1>4. Header(n) # <<>>
  BY DEF Header, Short, Long
<1>5. QED
  BY <1>1, <1>3, <1>4

\* A step of the relay or of a peer that answers nothing.
LEMMA SilenceKeepsDown ==
  ASSUME DownInv, UNCHANGED <<answers, taken>>, client' = "open" => client = "open",
         pc' # "ended" => (pc' = "relay" <=> pc = "relay") /\ pc # "ended",
         pc' = "relay" /\ down = "done" /\ SSHFinished => down' = "done" /\ SSHFinished'
  PROVE  DownInv'
<1>1. Counted' <=> Counted
  BY DEF Counted, Totals
<1>2. QED
  BY <1>1 DEF DownInv, AfterTheEnd

\* A step that may add a message of the proxy's own.
LEMMA SayingKeepsDown ==
  ASSUME TypeInv, DownInv, NEW a \in {"101", "200", "refused", "close"}, Say(a) \/ UNCHANGED answers,
         UNCHANGED <<client, taken>>, pc # "ended",
         pc' = "relay" => IF pc = "relay" THEN SSHFinished' /\ down' = "done" ELSE a # "close",
         pc' # "ended" /\ pc' # "relay" => pc # "relay" /\ a # "close"
  PROVE  DownInv'
<1>1. CASE UNCHANGED answers
  <2>1. Counted' <=> Counted
    BY <1>1 DEF Counted, Totals
  <2>2. QED
    BY <1>1, <2>1 DEF DownInv, AfterTheEnd
<1>2. CASE Say(a)
  <2> DEFINE e == [what |-> a, header |-> <<>>, len |-> 0]
  <2>1. answers \in Seq(Answer) /\ taken \in Nat
    BY DEF TypeInv, TypeOK
  <2>2. e \in Answer
    <3>1. <<>> \in Seq(0..255)
      BY EmptySeq
    <3>2. QED
      BY <3>1 DEF Answer
  <2>3. e.what = a /\ e.header = <<>> /\ BytesIn(e) = 0
    BY DEF BytesIn
  <2>4. answers' = Append(answers, e)
    BY <1>2 DEF Say
  <2> HIDE DEF e
  <2>5. taken' \in Nat /\ taken' = taken + BytesIn(e)
    BY <2>1, <2>3
  <2>6. client = "open" => Counted'
    BY <2>1, <2>2, <2>4, <2>5, CountOne DEF DownInv
  <2>7. \A i \in DOMAIN answers' : (i \in DOMAIN answers /\ answers'[i] = answers[i]) \/ answers'[i] = e
    BY <2>1, <2>2, <2>4, AppendProperties
  <2>8. QED
    BY <2>3, <2>6, <2>7 DEF DownInv, AfterTheEnd
<1>3. QED
  BY <1>1, <1>2

\* What was read from sshd is written with its length, or the client has gone.
LEMMA CopyingKeepsDown ==
  ASSUME TypeInv, Stages, DownInv, DownCopy
  PROVE  DownInv'
<1> PICK n \in ReadCounts : DownCopyOf(n)
  BY DEF DownCopy
<1>1. answers \in Seq(Answer) /\ taken \in Nat
  BY DEF TypeInv, TypeOK
<1>2. /\ down = "copying" /\ sent > taken /\ taken' = taken + n
      /\ UNCHANGED <<pc, client>> /\ pc = "relay"
  BY DEF DownCopyOf, stream, peers, Stages, TypeInv, TypeOK
<1>3. /\ n \in Nat /\ taken' \in Nat
      /\ WellFramed(Header(n), n) /\ Header(n) # <<>>
  BY <1>2, ChunkFramed
<1>4. \A i \in DOMAIN answers : answers[i].what # "close"
  BY <1>2 DEF DownInv, AfterTheEnd
<1>5. CASE UNCHANGED answers /\ MayFail(client)
  BY <1>2, <1>4, <1>5 DEF DownInv, AfterTheEnd, MayFail
<1>6. CASE answers' = Append(answers, [what |-> "bytes", len |-> n,
                                       header |-> IF kind = "ws" THEN Header(n) ELSE <<>>])
  <2> DEFINE h == IF kind = "ws" THEN Header(n) ELSE <<>>
             e == [what |-> "bytes", len |-> n, header |-> h]
  <2>1. h \in Seq(0..255) /\ (h # <<>> => WellFramed(h, n))
    <3>1. Header(n) \in Seq(0..255) /\ <<>> \in Seq(0..255)
      BY <1>3, HeaderType, EmptySeq
    <3>2. QED
      BY <1>3, <3>1
  <2> HIDE DEF h
  <2>2. e \in Answer /\ e.what = "bytes" /\ e.header = h /\ e.len = n
    BY <1>3, <2>1 DEF Answer
  <2>3. answers' = Append(answers, e)
    BY <1>6 DEF h
  <2> HIDE DEF e
  <2>4. BytesIn(e) = n
    BY <2>1, <2>2 DEF BytesIn, WellFramed
  <2>5. client = "open" => Counted'
    BY <1>1, <1>2, <1>3, <2>2, <2>3, <2>4, CountOne DEF DownInv
  <2>6. \A i \in DOMAIN answers' : (i \in DOMAIN answers /\ answers'[i] = answers[i]) \/ answers'[i] = e
    BY <1>1, <2>2, <2>3, AppendProperties
  <2>7. QED
    BY <1>2, <1>4, <2>1, <2>2, <2>5, <2>6 DEF DownInv, AfterTheEnd
<1>7. QED
  BY <1>5, <1>6 DEF DownCopyOf

\* Each action keeps the totals right and the close frame last.
LEMMA DownStep == TypeInv /\ Stages /\ DownInv /\ [Next]_vars => DownInv'
<1> SUFFICES ASSUME TypeInv, Stages, DownInv, [Next]_vars  PROVE DownInv'
  OBVIOUS
<1> USE DEF stream, peers, detect, copies, output, source
<1>1. CASE UNCHANGED vars
  BY <1>1, SilenceKeepsDown DEF vars, SSHFinished, Stages, DownInv, AfterTheEnd, Counted, Totals
<1>2. CASE ClientSends \/ ClientEnds \/ ClientResets
  BY <1>2, SilenceKeepsDown DEF ClientSends, ClientEnds, ClientResets, SSHFinished
<1>3. CASE SSHSends \/ SSHEnds \/ SSHResets
  <2>1. pc # "ended"
    BY <1>3 DEF SSHSends, SSHEnds, SSHResets, Stages
  <2>2. UNCHANGED <<answers, taken, client, pc, down>>
    BY <1>3 DEF SSHSends, SSHEnds, SSHResets
  <2>3. SSHFinished => SSHFinished'
    BY <1>3, <2>2 DEF SSHSends, SSHEnds, SSHResets, SSHFinished
  <2>4. QED
    BY <2>1, <2>2, <2>3, SilenceKeepsDown
<1>4. CASE PeekMore \/ ReadMoreOfRequest \/ ScanMore
  BY <1>4, SilenceKeepsDown DEF PeekMore, ReadMoreOfRequest, ScanMore, SSHFinished
<1>5. CASE Dispatch \/ ScanByte
  BY <1>5, SilenceKeepsDown DEF Dispatch, ScanByte, SSHFinished
<1>6. CASE PeekFails \/ RequestFails \/ ScanFails \/ Finish
  BY <1>6, SilenceKeepsDown DEF PeekFails, RequestFails, ScanFails, Finish, Ended
<1>7. CASE RefuseRequest
  BY <1>7, SayingKeepsDown DEF RefuseRequest, Ended
<1>8. CASE AcceptRequest
  <2>1. Say("101") \/ UNCHANGED answers
    BY <1>8 DEF AcceptRequest
  <2>2. UNCHANGED <<client, taken>> /\ pc = "request" /\ pc' \in {"dial", "ended"}
    BY <1>8 DEF AcceptRequest, Ended
  <2>3. QED
    BY <2>1, <2>2, SayingKeepsDown
<1>9. CASE Dial
  <2>1. /\ UNCHANGED <<answers, taken, client>> /\ pc = "dial" /\ pc' \in {"reply", "relay"}
    BY <1>9 DEF Dial, StartRelay
  <2>2. QED
    BY <2>1, SayingKeepsDown
<1>10. CASE DialFails
  <2>1. Say("close") \/ Say("refused") \/ UNCHANGED answers
    BY <1>10 DEF DialFails
  <2>2. UNCHANGED <<client, taken>> /\ pc = "dial" /\ pc' = "ended"
    BY <1>10 DEF DialFails, Ended
  <2>3. QED
    BY <2>1, <2>2, SayingKeepsDown
<1>11. CASE Reply
  <2>1. Say("200") \/ UNCHANGED answers
    BY <1>11 DEF Reply
  <2>2. UNCHANGED <<client, taken>> /\ pc = "reply" /\ pc' \in {"relay", "ended"}
    BY <1>11 DEF Reply, StartRelay, Ended
  <2>3. QED
    BY <2>1, <2>2, SayingKeepsDown
<1>12. CASE UpRead \/ UpStops \/ UpEnds \/ UpWrite
  <2>1. up \in {"copying", "ending"} /\ UNCHANGED <<answers, taken, client, pc, down, ssh, sent>>
    BY <1>12 DEF UpRead, UpStops, UpEnds, UpWrite
  <2>2. pc # "ended"
    BY <2>1 DEF Stages
  <2>3. QED
    BY <2>1, <2>2, SilenceKeepsDown DEF SSHFinished
<1>13. CASE DownCopy
  BY <1>13, CopyingKeepsDown
<1>14. CASE DownEnds
  <2>1. Say("close") \/ UNCHANGED answers
    BY <1>14 DEF DownEnds
  <2>2. /\ down = "copying" /\ down' = "done" /\ SSHFinished
        /\ UNCHANGED <<client, taken, pc, ssh, sent>>
    BY <1>14 DEF DownEnds
  <2>3. SSHFinished' /\ pc = "relay"
    BY <2>2 DEF SSHFinished, Stages, TypeInv, TypeOK
  <2>4. QED
    BY <2>1, <2>2, <2>3, SayingKeepsDown
<1>15. QED
  BY <1>1, <1>2, <1>3, <1>4, <1>5, <1>6, <1>7, <1>8, <1>9, <1>10, <1>11, <1>12, <1>13, <1>14
     DEF Next, Server, Peek, Request, Scan, Connect, Up, Down

\* A client that is there gets exactly the bytes that were read from sshd, with
\* length fields that say so, and no close frame before the end of sshd's stream
\* (copyToWS, io.Copy).
THEOREM FramesFaithful == Spec => []DownFaithful
<1>1. Spec => [](TypeInv /\ Stages /\ DownInv)
  BY TypeInit, TypeStep, StagesInit, StagesStep, DownInit, DownStep, PTL DEF Spec
<1>2. TypeInv /\ DownInv => DownFaithful
  <2> SUFFICES ASSUME TypeInv, DownInv  PROVE DownFaithful
    OBVIOUS
  <2>1. client = "open" => Received[Len(answers)] = taken
    BY CountedReceived DEF TypeInv, TypeOK, DownInv
  <2>2. QED
    BY <2>1 DEF DownFaithful, DownInv, AfterTheEnd, SSHFinished
<1>3. QED
  BY <1>1, <1>2, PTL

-------------------------------------------------------------------------------
(***************************************************************************)
(* The shape of the client's stream                                        *)
(***************************************************************************)
\* The items that can be at a place of a stream.
Allowed(first, i) ==
  IF first.type = "byte" THEN Bytes
  ELSE IF i = 1 THEN {Opening("GET "), Opening("CONN")}
  ELSE IF i = 2 THEN {Rest("valid"), Rest("invalid")}
  ELSE IF first.what = "CONN" THEN {Byte("S")} ELSE Frames

\* Nothing follows a close frame.
Shape ==
  /\ \A i \in 1..Len(said) : said[i] \in Allowed(said[1], i)
  /\ \A i \in 1..Len(said) : said[i].what = "close" => i = Len(said)

\* What was detected is what the client began with.
Linked ==
  /\ kind # "none" => said # <<>>
  /\ kind = "ws" => said[1].type # "byte" /\ said[1].what = "GET "
  /\ kind = "connect" => said[1].type # "byte" /\ said[1].what = "CONN"
  /\ kind \in {"raw", "payload"} => said[1].type = "byte"
  /\ kind = "raw" => IsBanner(1)

\* The names of items are different.
LEMMA ByteNames ==
  ASSUME NEW item \in Bytes
  PROVE  /\ item.type = "byte" /\ item.len = 1 /\ item = Byte(item.what)
         /\ item.what \notin {"GET ", "CONN", "data", "close", "ping", "pong"}
<1>1. PICK b \in Alphabet \cup {Banner[i] : i \in 1..4} : item = Byte(b)
  BY DEF Bytes
<1>2. item.type = "byte" /\ item.len = 1 /\ item.what = b
  BY <1>1 DEF Byte
<1>3. \A i \in 1..4 : Banner[i] \in {"S", "H", "-"}
  BY BannerBytes
<1>4. b \notin {"GET ", "CONN", "data", "close", "ping", "pong"}
  BY <1>3, NamesAssumption
<1>5. QED
  BY <1>1, <1>2, <1>4

LEMMA FrameNames ==
  ASSUME NEW item \in Frames
  PROVE  /\ item.type = "frame" /\ item.what \in {"data", "close", "ping", "pong"}
         /\ item.len \in Nat /\ item.len <= MaxLength
         /\ item.what # "data" => item.len = 0
<1>1. 0 <= MaxLength /\ MaxLength \in Nat
  BY SMT DEF MaxLength
<1>2. CASE \E n \in FrameLens : item = Frame("data", n)
  BY <1>2, StunTlsAssumption, LengthAssumption DEF Frame
<1>3. CASE \E op \in {"close", "ping", "pong"} : item = Frame(op, 0)
  BY <1>1, <1>3 DEF Frame
<1>4. QED
  BY <1>2, <1>3 DEF Frames

LEMMA RequestNames ==
  /\ \A r : Opening(r).type = "opening" /\ Opening(r).what = r
  /\ \A r : Rest(r).type = "rest" /\ Rest(r).what = r
BY DEF Opening, Rest

\* The byte after a CONNECT is one of those a client can send.
LEMMA FirstByte == Byte("S") \in Bytes
BY BannerBytes DEF Bytes

\* The stream only grows.
LEMMA SaidGrows ==
  ASSUME TypeInv, [Next]_vars
  PROVE  /\ Len(said) \in Nat /\ Len(said') \in Nat /\ Len(said') >= Len(said)
         /\ \A j \in 1..Len(said) : said'[j] = said[j]
         /\ ClientSends \/ UNCHANGED said
<1>1. said \in Seq(Items) /\ Len(said) \in Nat
  BY DEF TypeInv
<1>2. ClientSends \/ UNCHANGED said
  BY DEF Next, Server, Peek, Request, Scan, Connect, Up, Down, vars, stream,
     ClientEnds, ClientResets, SSHSends, SSHEnds, SSHResets, PeekMore, Dispatch, PeekFails,
     ReadMoreOfRequest, RequestFails, RefuseRequest, AcceptRequest, ScanMore, ScanByte, ScanFails,
     Dial, DialFails, Reply, UpRead, UpWrite, UpStops, UpEnds, DownCopy, DownCopyOf, DownEnds, Finish
<1>3. CASE ClientSends
  <2>1. PICK item \in Follows : said' = Append(said, item)
    BY <1>3 DEF ClientSends
  <2>2. item \in Items
    BY <2>1, FollowsType
  <2>3. QED
    BY <1>1, <1>2, <2>1, <2>2, AppendProperties
<1>4. CASE UNCHANGED said
  BY <1>1, <1>2, <1>4
<1>5. QED
  BY <1>2, <1>3, <1>4

\* The shape is kept by all that a client sends.
LEMMA ShapeStep ==
  ASSUME TypeInv, Shape, [Next]_vars
  PROVE  Shape'
<1>1. CASE UNCHANGED said
  BY <1>1 DEF Shape, Allowed
<1>2. CASE ClientSends
  <2>1. PICK item \in Follows : said' = Append(said, item)
    BY <1>2 DEF ClientSends
  <2>2. PICK n : n = Len(said)
    OBVIOUS
  <2>3. said \in Seq(Items) /\ n \in Nat /\ item \in Items
    BY <2>1, <2>2, FollowsType DEF TypeInv
  <2>4. /\ Len(said') = n + 1 /\ said'[n + 1] = item
        /\ \A i \in 1..n : said'[i] = said[i]
    BY <2>1, <2>2, <2>3, AppendProperties
  <2>5. said = <<>> <=> n = 0
    BY <2>2, <2>3
  <2>6. CASE n = 0
    <3>1. item \in Bytes \cup {Opening("GET "), Opening("CONN")}
      BY <2>1, <2>5, <2>6 DEF Follows
    <3>2. said'[1] = item /\ Len(said') = 1
      BY <2>4, <2>6
    <3>3. item \in Bytes => item.type = "byte"
      BY ByteNames
    <3>4. item \notin Bytes => item.type # "byte"
      BY <3>1, RequestNames
    <3>5. item \in Allowed(item, 1)
      BY <3>1, <3>3, <3>4 DEF Allowed
    <3>6. \A i \in 1..Len(said') : i = 1
      BY <3>2
    <3>7. QED
      BY <3>2, <3>5, <3>6 DEF Shape
  <2>7. CASE n # 0
    <3> DEFINE first == said[1]
    <3>1. said # <<>> /\ 1 \in 1..n /\ n \in 1..n /\ said'[1] = first /\ said[n] \in Allowed(first, n)
      BY <2>2, <2>3, <2>4, <2>5, <2>7 DEF Shape
    <3>2. item \in Allowed(first, n + 1) /\ said[n].what # "close"
      <4>1. CASE first.type = "byte"
        <5>1. item \in Bytes
          BY <2>1, <3>1, <4>1 DEF Follows
        <5>2. Allowed(first, n) = Bytes /\ Allowed(first, n + 1) = Bytes
          BY <4>1 DEF Allowed
        <5>3. QED
          BY <3>1, <5>1, <5>2, ByteNames
      <4>2. CASE first.type # "byte" /\ n = 1
        <5>1. item \in {Rest("valid"), Rest("invalid")}
          BY <2>1, <2>2, <3>1, <4>2 DEF Follows
        <5>2. said[n] \in {Opening("GET "), Opening("CONN")}
          BY <3>1, <4>2 DEF Allowed
        <5>3. n + 1 = 2 /\ Allowed(first, 2) = {Rest("valid"), Rest("invalid")}
          BY <4>2 DEF Allowed
        <5>4. QED
          BY <5>1, <5>2, <5>3, RequestNames
      <4>3. CASE first.type # "byte" /\ n # 1
        <5>1. said[2].what # "invalid" /\ ~(Len(said) = MaxItems + 2)
          BY <2>1, <2>2, <3>1, <4>3 DEF Follows
        <5>2. n + 1 # 1 /\ n + 1 # 2
          BY <2>3, <2>7, <4>3
        <5>3. CASE first.what = "CONN"
          <6>1. item = Byte("S")
            BY <2>1, <2>2, <3>1, <4>3, <5>1, <5>3 DEF Follows
          <6>2. said[n] \in {Rest("valid"), Rest("invalid"), Byte("S")}
            BY <3>1, <4>3, <5>3 DEF Allowed
          <6>3. said[n].what # "close"
            <7>1. \A x \in {Rest("valid"), Rest("invalid")} : x.what # "close"
              BY RequestNames
            <7>2. Byte("S").what # "close"
              BY FirstByte, ByteNames
            <7>3. QED
              BY <6>2, <7>1, <7>2
          <6>4. Allowed(first, n + 1) = {Byte("S")}
            BY <4>3, <5>2, <5>3 DEF Allowed
          <6>5. QED
            BY <6>1, <6>3, <6>4
        <5>4. CASE first.what # "CONN"
          <6>1. item \in Frames /\ Last(said).what # "close"
            BY <2>1, <2>2, <3>1, <4>3, <5>1, <5>4 DEF Follows
          <6>2. Last(said) = said[n]
            BY <2>2 DEF Last
          <6>3. Allowed(first, n + 1) = Frames
            BY <4>3, <5>2, <5>4 DEF Allowed
          <6>4. QED
            BY <6>1, <6>2, <6>3
        <5>5. QED
          BY <5>3, <5>4
      <4>4. QED
        BY <4>1, <4>2, <4>3
    <3>3. \A i \in 1..n : said'[i] \in Allowed(said'[1], i)
      BY <2>2, <2>4, <3>1 DEF Shape
    <3>4. \A i \in 1..(n + 1) : i \in 1..n \/ i = n + 1
      BY <2>3
    <3>5. \A i \in 1..n : said'[i].what # "close"
      <4>1. \A i \in 1..n : said[i].what = "close" => i = n
        BY <2>2 DEF Shape
      <4>2. QED
        BY <2>4, <3>2, <4>1
    <3>6. QED
      BY <2>4, <3>1, <3>2, <3>3, <3>4, <3>5 DEF Shape
  <2>8. QED
    BY <2>6, <2>7
<1>3. QED
  BY <1>1, <1>2, SaidGrows

\* A banner stays one, and none appears among what was sent before it.
LEMMA BannersStay ==
  ASSUME TypeInv, [Next]_vars, NEW i, IsBanner(i), i \in Nat
  PROVE  IsBanner(i)' /\ \A j \in 1..(i - 1) : FairBanner(j)' => FairBanner(j)
<1>1. Len(said) \in Nat /\ i > 0 /\ i + 3 <= Len(said)
  BY DEF TypeInv, IsBanner
<1>2. Len(said') >= Len(said) /\ \A j \in 1..Len(said) : said'[j] = said[j]
  BY SaidGrows
<1>3. Len(said') \in Nat
  BY SaidGrows
<1>4. \A j \in 1..4 : i + j - 1 \in 1..Len(said)
  BY <1>1
<1>5. IsBanner(i)'
  BY <1>1, <1>2, <1>3, <1>4 DEF IsBanner
<1>6. ASSUME NEW j \in 1..(i - 1), FairBanner(j)'  PROVE FairBanner(j)
  <2>1. j > 0 /\ j + 3 <= Len(said) /\ \A k \in 1..4 : j + k - 1 \in 1..Len(said)
    BY <1>1
  <2>2. j # 1 => j - 1 \in 1..Len(said)
    BY <1>1
  <2>3. QED
    BY <1>2, <1>6, <2>1, <2>2 DEF FairBanner, IsBanner
<1>7. QED
  BY <1>5, <1>6

\* Only the dispatch changes what was detected.
LEMMA KindStays ==
  ASSUME [Next]_vars
  PROVE  Dispatch \/ UNCHANGED kind
BY DEF Next, Server, Peek, Request, Scan, Connect, Up, Down, vars, detect,
   ClientSends, ClientEnds, ClientResets, SSHSends, SSHEnds, SSHResets, PeekMore, PeekFails,
   ReadMoreOfRequest, RequestFails, RefuseRequest, AcceptRequest, ScanMore, ScanByte, ScanFails,
   Dial, DialFails, Reply, UpRead, UpWrite, UpStops, UpEnds, DownCopy, DownCopyOf, DownEnds, Finish

\* A request does not look like a banner.
LEMMA RequestNoBanner == said[1].what \in {"GET ", "CONN"} => ~IsBanner(1)
<1>1. 1 \in 1..4 /\ 1 + 1 - 1 = 1
  OBVIOUS
<1>2. ASSUME IsBanner(1)  PROVE said[1].what = "S"
  <2>1. \A j \in 1..4 : said[1 + j - 1].what = Banner[j]
    BY <1>2 DEF IsBanner
  <2>2. said[1 + 1 - 1].what = Banner[1]
    BY <1>1, <2>1
  <2>3. QED
    BY <1>1, <2>2, BannerBytes
<1>3. QED
  BY <1>2

\* The detection goes by the first bytes, and these stay.
LEMMA LinkedStep ==
  ASSUME TypeInv, ScanInv, Shape, Linked, [Next]_vars
  PROVE  Linked'
<1>1. /\ Len(said) \in Nat /\ Len(said') \in Nat /\ Len(said') >= Len(said)
      /\ \A j \in 1..Len(said) : said'[j] = said[j]
  BY SaidGrows
<1>2. (said = <<>> <=> Len(said) = 0) /\ (said' = <<>> => Len(said') = 0)
  <2>1. said \in Seq(Items)
    BY DEF TypeInv
  <2>2. said = <<>> <=> Len(said) = 0
    BY <2>1
  <2>3. said' = <<>> => Len(said') = 0
    BY EmptySeq
  <2>4. QED
    BY <2>2, <2>3
<1>3. CASE UNCHANGED kind
  <2>1. CASE kind = "none"
    BY <1>3, <2>1 DEF Linked
  <2>2. CASE kind # "none"
    <3>1. said' # <<>> /\ said'[1] = said[1]
      <4>1. Len(said) # 0
        BY <1>2, <2>2 DEF Linked
      <4>2. 1 \in 1..Len(said) /\ Len(said') # 0
        BY <1>1, <4>1
      <4>3. QED
        BY <1>1, <1>2, <4>2
    <3>2. IsBanner(1) => IsBanner(1)'
      BY BannersStay
    <3>3. QED
      BY <1>3, <2>2, <3>1, <3>2 DEF Linked
  <2>3. QED
    BY <2>1, <2>2
<1>4. CASE Dispatch
  <2>1. UNCHANGED said /\ said # <<>> /\ 1 \in 1..Len(said)
    <3>1. UNCHANGED said /\ filled > 0
      BY <1>4 DEF Dispatch, Peeked, stream
    <3>2. filled \in 0..Len(said)
      BY DEF TypeInv, TypeOK
    <3>3. Len(said) # 0 /\ 1 \in 1..Len(said)
      BY <1>1, <3>1, <3>2
    <3>4. QED
      BY <1>2, <3>1, <3>3
  <2>2. said[1] \in Allowed(said[1], 1)
    BY <2>1 DEF Shape
  <2>3. said[1].type = "byte" => said[1].what \notin {"GET ", "CONN"}
    BY <2>2, ByteNames DEF Allowed
  <2>4. said[1].type # "byte" => said[1].what \in {"GET ", "CONN"}
    BY <2>2, RequestNames DEF Allowed
  <2>5. /\ kind' = "ws" => said[1].what = "GET "
        /\ kind' = "connect" => said[1].what = "CONN"
        /\ kind' \in {"raw", "payload"} => said[1].what \notin {"GET ", "CONN"}
        /\ kind' = "raw" => IsBanner(1)
    <3>1. said[1].what \in {"GET ", "CONN"} => ~IsBanner(1)
      BY RequestNoBanner
    <3>2. CASE said[1].what = "GET "
      <4>1. kind' = "ws"
        BY <1>4, <3>1, <3>2 DEF Dispatch
      <4>2. QED
        BY <3>2, <4>1
    <3>3. CASE said[1].what = "CONN"
      <4>1. kind' = "connect"
        BY <1>4, <3>1, <3>3 DEF Dispatch
      <4>2. QED
        BY <3>3, <4>1
    <3>4. CASE said[1].what \notin {"GET ", "CONN"}
      <4>1. kind' \in {"raw", "payload"} /\ (kind' = "raw" => IsBanner(1))
        BY <1>4, <3>4 DEF Dispatch
      <4>2. QED
        BY <3>4, <4>1
    <3>5. QED
      BY <3>2, <3>3, <3>4
  <2>6. IsBanner(1)' <=> IsBanner(1)
    BY <2>1 DEF IsBanner
  <2>7. QED
    BY <2>1, <2>3, <2>4, <2>5, <2>6 DEF Linked
<1>5. QED
  BY <1>3, <1>4, KindStays

-------------------------------------------------------------------------------
(***************************************************************************)
(* From the client to sshd                                                 *)
(*                                                                         *)
(* Everything consumed since the stream for sshd began was written or is   *)
(* pushed back and comes next, byte for byte (Straight) or data frame by   *)
(* data frame (Picked).  Only when sshd is gone can the last item have     *)
(* been read and not written, and then nothing follows it.                 *)
(***************************************************************************)
\* A handler has found where the stream for sshd begins.
Carrying == pc \in {"dial", "reply"} \/ up # "idle"

\* What was read last may be lost.
Behind == up \in {"ending", "done"} /\ ssh # "open"

\* The place at which the bytes for sshd begin.
StartsAt(i) ==
  /\ i \in Nat \ {0}
  /\ kind = "connect" => i = 3
  /\ kind # "connect" => IsBanner(i) /\ \A j \in 1..(i - 1) : ~FairBanner(j)

Straight(i) ==
  /\ Len(toSSH) <= used - i + 1
  /\ \A k \in 1..Len(toSSH) : toSSH[k] = said[i + k - 1]
  /\ ~Behind =>
       /\ Len(toSSH) + Len(head) = used - i + 1
       /\ \A k \in 1..Len(head) : Byte(head[k]) = said[i + Len(toSSH) + k - 1]

\* The data frames up to m, enumerated by g.
IsData(item) == item.what = "data" /\ item.len > 0

Picked(g, m) ==
  /\ \A k \in 1..Len(toSSH) :
       g[k] \in 1..m /\ IsData(said[g[k]]) /\ toSSH[k] = said[g[k]]
  /\ \A j, k \in 1..Len(toSSH) : j < k => g[j] < g[k]
  /\ \A d \in 1..m : IsData(said[d]) => \E k \in 1..Len(toSSH) : g[k] = d
  /\ ~Behind => m = used

FramesPicked == \E m \in 0..used : \E g \in [1..Len(toSSH) -> Nat] : Picked(g, m)

CarryInv ==
  /\ toSSH \in Seq(Items)
  /\ pc \in {"peek", "request", "scan"} \/ kind = "ws" => head = <<>>
  /\ pc = "request" => kind \in {"ws", "connect"}
  /\ pc = "scan" => kind = "payload"
  /\ Carrying /\ kind = "ws" => used >= 2 /\ (~Pinged => FramesPicked)
  /\ Carrying /\ kind # "ws" => kind # "none" /\ \E i : StartsAt(i) /\ Straight(i)

\* With sshd there and the client not reset, the goroutine stops at the end of
\* the client's stream or at a close frame, with nothing left to write.
AllRead == client = "eof" /\ used = Len(said)
AtClose == used + 1 = Len(said) /\ said[used + 1].what = "close"

CompleteInv ==
  up \in {"ending", "done"} /\ ssh = "open" /\ client # "reset" =>
    head = <<>> /\ (AllRead \/ AtClose)

\* What a client sends for sshd is bytes or frames.
LEMMA BytesForSSH ==
  ASSUME TypeInv, Shape, Linked, kind \in {"raw", "payload", "connect"},
         NEW i, StartsAt(i), NEW n \in Nat, i <= n, n <= Len(said)
  PROVE  said[n] \in Bytes
<1>1. Len(said) \in Nat /\ i \in Nat \ {0}
  BY DEF TypeInv, StartsAt
<1>2. n \in 1..Len(said)
  BY <1>1
<1>3. said[n] \in Allowed(said[1], n)
  BY <1>2 DEF Shape
<1>4. CASE kind = "connect"
  <2>1. said[1].type # "byte" /\ said[1].what = "CONN" /\ n >= 3
    BY <1>4 DEF Linked, StartsAt
  <2>2. n # 1 /\ n # 2
    BY <2>1
  <2>3. said[n] = Byte("S")
    BY <1>3, <2>1, <2>2 DEF Allowed
  <2>4. QED
    BY <2>3, FirstByte
<1>5. CASE kind # "connect"
  BY <1>3, <1>5 DEF Linked, Allowed
<1>6. QED
  BY <1>4, <1>5

LEMMA FramesForSSH ==
  ASSUME TypeInv, Shape, Linked, kind = "ws", NEW n \in Nat, 3 <= n, n <= Len(said)
  PROVE  said[n] \in Frames
<1>1. Len(said) \in Nat
  BY DEF TypeInv
<1>2. said[n] \in Allowed(said[1], n)
  BY <1>1 DEF Shape
<1>3. said[1].type # "byte" /\ said[1].what = "GET "
  BY DEF Linked
<1>4. said[1].what # "CONN" /\ n # 1 /\ n # 2
  <2>1. n # 1 /\ n # 2
    OBVIOUS
  <2>2. said[1].what # "CONN"
    BY <1>3
  <2>3. QED
    BY <2>1, <2>2
<1>5. Allowed(said[1], n) = Frames
  BY <1>3, <1>4 DEF Allowed
<1>6. QED
  BY <1>2, <1>5

\* A byte is written as it is, a frame as its payload, a ping as a pong.
LEMMA BytePayload ==
  ASSUME NEW item \in Bytes
  PROVE  PayloadOf(item) = <<item>> /\ item \in Items
BY ByteNames DEF PayloadOf, Items

LEMMA FramePayload ==
  ASSUME NEW item \in Frames
  PROVE  /\ item \in Items /\ PayloadOf(item) \in Seq(Items)
         /\ IsData(item) => PayloadOf(item) = <<item>>
         /\ ~IsData(item) /\ item.what # "ping" => PayloadOf(item) = <<>>
<1>1. /\ item.type = "frame" /\ item.what \in {"data", "close", "ping", "pong"}
      /\ item.len \in Nat /\ item.len <= MaxLength
  BY FrameNames
<1>2. item \in Items /\ Frame("pong", 0) \in Items
  BY DEF Items, Frames
<1>3. item.len < 256 * 256 * 256 * 256
  <2>1. MaxLength \in Nat /\ MaxLength < 256 * 256 * 256 * 256
    BY SMT DEF MaxLength
  <2>2. QED
    BY <1>1, <2>1, SMT
<1>4. WellFramed(Header(item.len), item.len)
  BY <1>1, <1>3, FrameRoundTrip
<1>5. PayloadOf(item) = IF item.what = "data" THEN IF item.len = 0 THEN <<>> ELSE <<item>>
                        ELSE IF item.what = "ping" THEN <<Frame("pong", 0)>> ELSE <<>>
  BY <1>1, <1>4 DEF PayloadOf
<1>6. <<>> \in Seq(Items) /\ <<item>> \in Seq(Items) /\ <<Frame("pong", 0)>> \in Seq(Items)
  BY <1>2, EmptySeq
<1>7. QED
  BY <1>1, <1>2, <1>5, <1>6 DEF IsData

\* The place where the bytes for sshd begin is found once.
LEMMA PlaceStays ==
  ASSUME TypeInv, [Next]_vars, UNCHANGED kind, NEW i, StartsAt(i)
  PROVE  StartsAt(i)'
<1>1. CASE kind = "connect"
  BY <1>1 DEF StartsAt
<1>2. CASE kind # "connect"
  <2>1. i \in Nat \ {0} /\ IsBanner(i) /\ \A j \in 1..(i - 1) : ~FairBanner(j)
    BY <1>2 DEF StartsAt
  <2>2. IsBanner(i)' /\ \A j \in 1..(i - 1) : FairBanner(j)' => FairBanner(j)
    BY <2>1, BannersStay
  <2>3. \A j \in 1..(i - 1) : ~FairBanner(j)'
    BY <2>1, <2>2
  <2>4. QED
    BY <1>2, <2>1, <2>2, <2>3 DEF StartsAt
<1>3. QED
  BY <1>1, <1>2

\* What was consumed is not touched by what comes later.
LEMMA StraightStays ==
  ASSUME TypeInv, CarryInv, [Next]_vars, UNCHANGED <<used, head, toSSH>>, ~Behind' => ~Behind,
         NEW i \in Nat \ {0}, Straight(i)
  PROVE  Straight(i)'
<1>1. /\ Len(said) \in Nat /\ Len(said') >= Len(said)
      /\ \A j \in 1..Len(said) : said'[j] = said[j]
  BY SaidGrows
<1>2. Len(toSSH) \in Nat /\ Len(head) \in Nat /\ used \in Nat /\ used <= Len(said)
  BY <1>1 DEF CarryInv, TypeInv, TypeOK
<1>3. Len(toSSH) <= used - i + 1 /\ \A k \in 1..Len(toSSH) : toSSH[k] = said[i + k - 1]
  BY DEF Straight
<1>4. \A k \in 1..Len(toSSH) : i + k - 1 \in 1..Len(said)
  BY <1>1, <1>2, <1>3
<1>5. \A k \in 1..Len(toSSH) : toSSH[k] = said'[i + k - 1]
  BY <1>1, <1>3, <1>4
<1>6. ASSUME ~Behind'
      PROVE  /\ Len(toSSH) + Len(head) = used - i + 1
             /\ \A k \in 1..Len(head) : Byte(head[k]) = said'[i + Len(toSSH) + k - 1]
  <2>1. /\ Len(toSSH) + Len(head) = used - i + 1
        /\ \A k \in 1..Len(head) : Byte(head[k]) = said[i + Len(toSSH) + k - 1]
    BY <1>6 DEF Straight
  <2>2. \A k \in 1..Len(head) : i + Len(toSSH) + k - 1 \in 1..Len(said)
    BY <1>1, <1>2, <2>1
  <2>3. QED
    BY <1>1, <2>1, <2>2
<1>7. QED
  BY <1>3, <1>5, <1>6 DEF Straight

LEMMA PickedStays ==
  ASSUME TypeInv, CarryInv, [Next]_vars, UNCHANGED <<used, toSSH>>, ~Behind' => ~Behind, FramesPicked
  PROVE  FramesPicked'
<1>1. /\ Len(said) \in Nat /\ \A j \in 1..Len(said) : said'[j] = said[j]
  BY SaidGrows
<1>2. used \in Nat /\ used <= Len(said)
  BY <1>1 DEF TypeInv, TypeOK
<1>3. PICK m \in 0..used : \E g \in [1..Len(toSSH) -> Nat] : Picked(g, m)
  BY DEF FramesPicked
<1>4. PICK g \in [1..Len(toSSH) -> Nat] : Picked(g, m)
  BY <1>3
<1>5. \A d \in 1..m : said'[d] = said[d]
  BY <1>1, <1>2
<1>6. /\ \A k \in 1..Len(toSSH) :
           g[k] \in 1..m /\ IsData(said'[g[k]]) /\ toSSH[k] = said'[g[k]]
      /\ \A d \in 1..m : IsData(said'[d]) => \E k \in 1..Len(toSSH) : g[k] = d
  BY <1>4, <1>5 DEF Picked
<1>7. \A j, k \in 1..Len(toSSH) : j < k => g[j] < g[k]
  BY <1>4 DEF Picked
<1>8. Picked(g, m)'
  BY <1>4, <1>6, <1>7 DEF Picked
<1>9. QED
  BY <1>8 DEF FramesPicked

\* A ping that was sent stays sent.
LEMMA PingStays ==
  ASSUME TypeInv, [Next]_vars, Pinged
  PROVE  Pinged'
<1>1. PICK i \in DOMAIN said : said[i].what = "ping"
  BY DEF Pinged
<1>2. i \in 1..Len(said)
  BY <1>1 DEF TypeInv
<1>3. said' \in Seq(Items)
  BY TypeStep DEF TypeInv
<1>4. said'[i].what = "ping" /\ i \in DOMAIN said'
  BY <1>1, <1>2, <1>3, SaidGrows
<1>5. QED
  BY <1>4 DEF Pinged

\* A step that neither consumes nor writes anything.
LEMMA ElsewhereKeepsCarry ==
  ASSUME TypeInv, CarryInv, [Next]_vars, UNCHANGED <<used, head, toSSH, kind>>,
         ~Behind' => ~Behind, Carrying' => Carrying, pc' \in {"peek", "request", "scan"} => pc' = pc
  PROVE  CarryInv'
<1>1. ASSUME Carrying', kind = "ws"  PROVE used' >= 2 /\ (~Pinged' => FramesPicked')
  BY <1>1, PickedStays, PingStays DEF CarryInv
<1>2. ASSUME Carrying', kind # "ws"  PROVE kind # "none" /\ \E i : StartsAt(i)' /\ Straight(i)'
  <2>1. kind # "none" /\ \E i : StartsAt(i) /\ Straight(i)
    BY <1>2 DEF CarryInv
  <2>2. PICK i : StartsAt(i) /\ Straight(i)
    BY <2>1
  <2>3. i \in Nat \ {0}
    BY <2>2 DEF StartsAt
  <2>4. StartsAt(i)' /\ Straight(i)'
    BY <2>2, <2>3, PlaceStays, StraightStays
  <2>5. QED
    BY <2>1, <2>4
<1>3. QED
  BY <1>1, <1>2 DEF CarryInv

\* A banner in the first bytes is where the stream for sshd begins.
LEMMA DispatchKeepsCarry ==
  ASSUME TypeInv, ScanInv, Stages, Shape, Linked, CarryInv, Dispatch, Linked'
  PROVE  CarryInv'
<1>1. /\ pc = "peek" /\ UNCHANGED <<said, used, head, toSSH, up, ssh>>
      /\ head = <<>> /\ used = 0 /\ up = "idle" /\ toSSH = <<>>
  BY DEF Dispatch, stream, peers, copies, output, CarryInv, ScanInv, Stages
<1>2. said # <<>> /\ Len(said) \in Nat \ {0}
  <2>1. filled \in 1..Len(said) /\ Len(said) \in Nat
    <3>1. filled > 0
      BY DEF Dispatch, Peeked
    <3>2. filled \in 0..Len(said) /\ Len(said) \in Nat
      BY DEF TypeInv, TypeOK
    <3>3. QED
      BY <3>1, <3>2
  <2>2. said \in Seq(Items)
    BY DEF TypeInv
  <2>3. QED
    BY <2>1, <2>2
<1>3. /\ kind' \in {"ws", "connect", "raw", "payload"}
      /\ pc' = CASE said[1].type = "opening" -> "request"
                 [] IsBanner(1)              -> "dial"
                 [] OTHER                    -> "scan"
  BY DEF Dispatch
<1>4. said[1].type # "opening" => said[1].type = "byte"
  <2>1. said[1] \in Allowed(said[1], 1)
    BY <1>2 DEF Shape
  <2>2. QED
    BY <2>1, RequestNames DEF Allowed
<1>5. CASE said[1].type = "opening"
  <2>1. pc' = "request" /\ kind' \in {"ws", "connect"}
    <3>0. ~IsBanner(1)
      <4>1. said[1] \in Allowed(said[1], 1)
        BY <1>2 DEF Shape
      <4>2. said[1] \in {Opening("GET "), Opening("CONN")}
        BY <1>5, <4>1 DEF Allowed
      <4>3. QED
        BY <4>2, RequestNames, RequestNoBanner
    <3>1. pc' = "request"
      BY <1>3, <1>5, <3>0
    <3>2. kind' \in {"raw", "payload"} => said[1].type = "byte"
      BY <1>1 DEF Linked
    <3>3. kind' \notin {"raw", "payload"}
      BY <1>5, <3>2
    <3>4. QED
      BY <1>3, <3>1, <3>3
  <2>2. QED
    BY <1>1, <2>1 DEF CarryInv, Carrying
<1>6. CASE said[1].type # "opening" /\ ~IsBanner(1)
  <2>1. ~IsBanner(1)'
    BY <1>1, <1>6 DEF IsBanner
  <2>2. pc' = "scan" /\ kind' = "payload"
    BY <1>1, <1>3, <1>4, <1>6, <2>1 DEF Linked
  <2>3. QED
    BY <1>1, <2>2 DEF CarryInv, Carrying
<1>7. CASE said[1].type # "opening" /\ IsBanner(1)
  <2>1. pc' = "dial" /\ kind' \in {"raw", "payload"}
    BY <1>1, <1>3, <1>4, <1>7 DEF Linked
  <2>2. IsBanner(1)'
    BY <1>1, <1>7 DEF IsBanner
  <2>3. StartsAt(1)'
    BY <2>1, <2>2 DEF StartsAt
  <2>4. Len(toSSH') = 0 /\ Len(head') = 0
    BY <1>1
  <2>5. Straight(1)'
    BY <1>1, <2>4 DEF Straight
  <2>6. QED
    BY <1>1, <2>1, <2>3, <2>5 DEF CarryInv, Carrying
<1>8. QED
  BY <1>5, <1>6, <1>7

\* After a request nothing of it is left for sshd.
LEMMA RequestKeepsCarry ==
  ASSUME TypeInv, Stages, Shape, Linked, CarryInv, AcceptRequest
  PROVE  CarryInv'
<1>1. /\ pc = "request" /\ filled >= 2 /\ used' = 2 /\ pc' \in {"dial", "ended"}
      /\ UNCHANGED <<said, kind, head, toSSH, up>>
      /\ head = <<>> /\ up = "idle" /\ toSSH = <<>> /\ kind \in {"ws", "connect"}
  BY DEF AcceptRequest, Ended, detect, copies, CarryInv, Stages
<1>2. Len(toSSH') = 0 /\ Len(head') = 0
  BY <1>1
<1>3. CASE kind = "ws"
  <2>1. said[1] \in Allowed(said[1], 1) /\ said[2] \in Allowed(said[1], 2)
    BY <1>1 DEF Shape, TypeInv, TypeOK
  <2>2. said[1].type # "byte"
    BY <1>3 DEF Linked
  <2>3. said[1].what # "data" /\ said[2].what # "data"
    BY <2>1, <2>2, RequestNames DEF Allowed
  <2>4. \A d \in 1..2 : ~IsData(said'[d])
    <3>1. \A d \in 1..2 : d = 1 \/ d = 2
      OBVIOUS
    <3>2. QED
      BY <1>1, <2>3, <3>1 DEF IsData
  <2>5. PICK g : g = [k \in 1..0 |-> 0]
    OBVIOUS
  <2>6. g \in [1..Len(toSSH') -> Nat]
    BY <1>2, <2>5
  <2>7. \A k \in 1..Len(toSSH') : FALSE
    BY <1>2
  <2>8. Picked(g, 2)'
    BY <1>1, <2>4, <2>7 DEF Picked
  <2>9. FramesPicked'
    <3>1. 2 \in 0..used'
      BY <1>1
    <3>2. QED
      BY <2>6, <2>8, <3>1 DEF FramesPicked
  <2>10. QED
    BY <1>1, <1>3, <2>9 DEF CarryInv
<1>4. CASE kind = "connect"
  <2>1. StartsAt(3)'
    BY <1>1, <1>4 DEF StartsAt
  <2>2. Straight(3)'
    BY <1>1, <1>2 DEF Straight
  <2>3. QED
    BY <1>1, <1>4, <2>1, <2>2 DEF CarryInv
<1>5. QED
  BY <1>1, <1>3, <1>4

\* The scanner gives back what it took of the banner.
LEMMA ScanKeepsCarry ==
  ASSUME TypeInv, ScanInv, Stages, Shape, Linked, CarryInv, ScanByte
  PROVE  CarryInv'
<1>1. /\ pc = "scan" /\ scanned < MaxScan /\ used < filled /\ kind = "payload"
      /\ UNCHANGED <<said, kind, toSSH, up, ssh>>
      /\ head = <<>> /\ up = "idle" /\ toSSH = <<>>
      /\ match' = NextMatch(match, said[used + 1].what)
  BY DEF ScanByte, peers, copies, output, CarryInv, Stages
<1>2. CASE match' # 4
  BY <1>1, <1>2 DEF ScanByte, CarryInv, Carrying
<1>3. CASE match' = 4
  <2>1. pc' = "dial" /\ head' = PushBack /\ used' = used
    BY <1>3 DEF ScanByte
  <2>2. MatchIsReal /\ NonePassed /\ match \in 0..3
    BY <1>1 DEF ScanInv, TypeInv, TypeOK
  <2>3. match = 3 /\ said[used + 1].what = "-"
    BY <1>1, <1>3, <2>2, BannerBytes DEF NextMatch
  <2>4. /\ used \in Nat /\ used >= 3 /\ used + 1 <= Len(said) /\ Len(said) \in Nat
    BY <1>1, <2>2, <2>3 DEF MatchIsReal, TypeInv, TypeOK
  <2>5. PICK i : i = used - 2
    OBVIOUS
  <2>6. i \in Nat \ {0} /\ i + 3 <= Len(said) /\ used = i + 2
    BY <2>4, <2>5
  <2>7. said[i].what = "S" /\ said[i + 1].what = "S" /\ said[i + 2].what = "H" /\ said[i + 3].what = "-"
    <3>1. \A j \in 1..3 : said[used - 3 + j].what = Banner[j]
      BY <2>2, <2>3 DEF MatchIsReal
    <3>2. used - 3 + 1 = i /\ used - 3 + 2 = i + 1 /\ used - 3 + 3 = i + 2 /\ used + 1 = i + 3
      BY <2>6
    <3>3. 1 \in 1..3 /\ 2 \in 1..3 /\ 3 \in 1..3
      OBVIOUS
    <3>4. /\ said[used - 3 + 1].what = Banner[1] /\ said[used - 3 + 2].what = Banner[2]
          /\ said[used - 3 + 3].what = Banner[3]
      BY <3>1, <3>3
    <3>5. QED
      BY <2>3, <3>2, <3>4, BannerBytes
  <2>8. IsBanner(i)
    <3>1. \A j \in 1..4 : j = 1 \/ j = 2 \/ j = 3 \/ j = 4
      OBVIOUS
    <3>2. i + 1 - 1 = i /\ i + 2 - 1 = i + 1 /\ i + 3 - 1 = i + 2 /\ i + 4 - 1 = i + 3
      BY <2>6
    <3>3. \A j \in 1..4 : said[i + j - 1].what = Banner[j]
      BY <2>7, <3>1, <3>2, BannerBytes
    <3>4. i > 0
      BY <2>6
    <3>5. QED
      BY <2>6, <3>3, <3>4 DEF IsBanner
  <2>9. \A j \in 1..(i - 1) : ~FairBanner(j)
    <3>1. \A j \in 1..(i - 1) : j \in 1..Len(said) /\ ~(j + 3 > used)
      BY <2>4, <2>6
    <3>2. QED
      BY <2>2, <3>1 DEF NonePassed
  <2>10. StartsAt(i)
    BY <1>1, <2>6, <2>8, <2>9 DEF StartsAt
  <2>11. StartsAt(i)'
    BY <1>1, <2>10 DEF StartsAt, IsBanner, FairBanner
  <2>12. /\ said[i] = Byte("S") /\ said[i + 1] = Byte("S") /\ said[i + 2] = Byte("H")
    <3>1. \A n \in {i, i + 1, i + 2} : n \in Nat /\ i <= n /\ n <= Len(said)
      BY <2>4, <2>6
    <3>2. \A n \in {i, i + 1, i + 2} : said[n] \in Bytes
      BY <1>1, <2>10, <3>1, BytesForSSH
    <3>3. \A n \in {i, i + 1, i + 2} : said[n] = Byte(said[n].what)
      BY <3>2, ByteNames
    <3>4. QED
      BY <2>7, <3>3
  <2>13. Len(toSSH') = 0 /\ Len(head') = 3 /\ head'[1] = "S" /\ head'[2] = "S" /\ head'[3] = "H"
    BY <1>1, <2>1 DEF PushBack
  <2>14. \A k \in 1..3 : Byte(head'[k]) = said[i + k - 1]
    <3>1. \A k \in 1..3 : k = 1 \/ k = 2 \/ k = 3
      OBVIOUS
    <3>2. i + 1 - 1 = i /\ i + 2 - 1 = i + 1 /\ i + 3 - 1 = i + 2
      BY <2>6
    <3>3. QED
      BY <2>12, <2>13, <3>1, <3>2
  <2>15. \A k \in 1..3 : i + 0 + k - 1 = i + k - 1
    BY <2>6
  <2>16. Straight(i)'
    <3>1. 0 <= used' - i + 1 /\ 0 + 3 = used' - i + 1
      BY <2>1, <2>6
    <3>2. \A k \in 1..0 : FALSE
      OBVIOUS
    <3>3. \A k \in 1..Len(head') : Byte(head'[k]) = said'[i + Len(toSSH') + k - 1]
      BY <1>1, <2>13, <2>14, <2>15
    <3>4. QED
      BY <2>13, <3>1, <3>2, <3>3 DEF Straight
  <2>17. QED
    BY <1>1, <2>1, <2>11, <2>16 DEF CarryInv
<1>4. QED
  BY <1>2, <1>3

\* The next byte is written, or sshd is gone and the goroutine ends.
LEMMA WritingBytesKeepsCarry ==
  ASSUME TypeInv, ScanInv, Shape, Linked, CarryInv, UpWrite, kind # "ws"
  PROVE  CarryInv'
<1>1. /\ up = "copying" /\ CanRead /\ pc = "relay"
      /\ UNCHANGED <<said, filled, pc, kind, ssh>>
  BY DEF UpWrite, peers, ScanInv
<1>2. PICK i : StartsAt(i) /\ Straight(i)
  BY <1>1 DEF CarryInv, Carrying
<1>3. kind \in {"raw", "payload", "connect"} /\ i \in Nat \ {0}
  BY <1>1, <1>2 DEF CarryInv, Carrying, StartsAt, TypeInv, TypeOK
<1>4. PICK n : n = Len(toSSH)
  OBVIOUS
<1>5. /\ n \in Nat /\ Len(head) \in Nat /\ filled \in Nat
      /\ used \in Nat /\ used <= filled /\ filled <= Len(said) /\ Len(said) \in Nat
  BY <1>4 DEF CarryInv, TypeInv, TypeOK
<1>6. /\ n + Len(head) = used - i + 1
      /\ \A k \in 1..Len(head) : Byte(head[k]) = said[i + n + k - 1]
      /\ \A k \in 1..n : toSSH[k] = said[i + k - 1]
  BY <1>1, <1>2, <1>4 DEF Straight, Behind
<1>7. /\ NextItem = said[i + n] /\ i + n <= Len(said)
      /\ Len(head') \in Nat /\ n + 1 + Len(head') = used' - i + 1
      /\ \A k \in 1..Len(head') : Byte(head'[k]) = said[i + (n + 1) + k - 1]
  <2>1. CASE head # <<>>
    <3>1. head' = Tail(head) /\ used' = used
      BY <2>1 DEF UpWrite
    <3>0. head \in Seq({"S", "H", "-"})
      BY DEF TypeInv
    <3>2. /\ Len(head') = Len(head) - 1 /\ \A k \in 1..Len(head') : head'[k] = head[k + 1]
      BY <2>1, <3>0, <3>1, HeadTailProperties
    <3>3. Len(head) # 0 /\ Head(head) = head[1]
      BY <2>1, <3>0
    <3>4. 1 \in 1..Len(head) /\ i + n + 1 - 1 = i + n /\ i + n <= used
      BY <1>3, <1>5, <1>6, <3>3
    <3>5. NextItem = said[i + n]
      <4>1. NextItem = Byte(head[1])
        BY <2>1, <3>3 DEF NextItem
      <4>2. Byte(head[1]) = said[i + n + 1 - 1]
        BY <1>6, <3>4
      <4>3. QED
        BY <3>4, <4>1, <4>2
    <3>6. \A k \in 1..Len(head') : Byte(head'[k]) = said[i + (n + 1) + k - 1]
      <4> TAKE k \in 1..Len(head')
      <4>1. k + 1 \in 1..Len(head) /\ i + n + (k + 1) - 1 = i + (n + 1) + k - 1
        BY <1>3, <1>5, <3>2
      <4>2. Byte(head[k + 1]) = said[i + n + (k + 1) - 1] /\ head'[k] = head[k + 1]
        BY <1>6, <3>2, <4>1
      <4>3. QED
        BY <4>1, <4>2
    <3>7. i + n <= Len(said) /\ Len(head') \in Nat /\ n + 1 + Len(head') = used' - i + 1
      <4>1. i \in Nat /\ n + Len(head) = used - i + 1 /\ Len(head') = Len(head) - 1 /\ used' = used
        BY <1>3, <1>6, <3>1, <3>2
      <4>2. QED
        BY <1>5, <3>3, <3>4, <4>1
    <3>8. QED
      BY <3>5, <3>6, <3>7
  <2>2. CASE head = <<>>
    <3>1. used' = used + 1 /\ head' = head /\ used < filled
      BY <1>1, <2>2 DEF UpWrite, CanRead
    <3>2. Len(head) = 0 /\ Len(head') = 0
      BY <2>2, <3>1
    <3>3. i + n = used + 1
      BY <1>3, <1>5, <1>6, <3>2
    <3>4. NextItem = said[i + n]
      BY <2>2, <3>3 DEF NextItem
    <3>5. \A k \in 1..Len(head') : FALSE
      BY <3>2
    <3>6. i + n <= Len(said) /\ n + 1 + Len(head') = used' - i + 1
      <4>1. i \in Nat /\ Len(head') = 0 /\ used' = used + 1 /\ used < filled
        BY <1>3, <3>1, <3>2
      <4>2. QED
        BY <1>5, <3>3, <4>1
    <3>7. QED
      BY <3>2, <3>4, <3>5, <3>6
  <2>3. QED
    BY <2>1, <2>2
<1>8. NextItem \in Bytes
  BY <1>2, <1>3, <1>5, <1>7, BytesForSSH
<1>9. PayloadOf(NextItem) = <<NextItem>> /\ NextItem \in Items /\ NextItem.len = 1
  BY <1>8, BytePayload, ByteNames
<1>10. StartsAt(i)'
  BY <1>1, <1>2 DEF StartsAt, IsBanner, FairBanner
<1>11. toSSH' \in Seq(Items) /\ Straight(i)'
  <2>1. CASE toSSH' = toSSH \o PayloadOf(NextItem)
    <3>1. toSSH' = Append(toSSH, NextItem) /\ toSSH \in Seq(Items)
      BY <1>9, <2>1 DEF CarryInv
    <3>2. /\ toSSH' \in Seq(Items) /\ Len(toSSH') = n + 1 /\ toSSH'[n + 1] = NextItem
          /\ \A k \in 1..n : toSSH'[k] = toSSH[k]
      BY <1>4, <1>9, <3>1, AppendProperties
    <3>3. \A k \in 1..(n + 1) : toSSH'[k] = said[i + k - 1]
      <4> TAKE k \in 1..(n + 1)
      <4>1. CASE k \in 1..n
        BY <1>6, <3>2, <4>1
      <4>2. CASE k = n + 1
        <5>1. i + k - 1 = i + n
          BY <1>3, <1>5, <4>2
        <5>2. QED
          BY <1>7, <3>2, <4>2, <5>1
      <4>3. QED
        BY <1>5, <4>1, <4>2
    <3>4. Len(toSSH') <= used' - i + 1
      BY <1>3, <1>5, <1>7, <3>2
    <3>5. QED
      BY <1>1, <1>7, <3>2, <3>3, <3>4 DEF Straight
  <2>2. CASE MayFail(ssh) /\ toSSH' = toSSH /\ up' = IF NextItem.len = 0 THEN up ELSE "ending"
    <3>1. Behind'
      BY <1>1, <1>9, <2>2 DEF Behind, MayFail
    <3>2. Len(toSSH') <= used' - i + 1
      BY <1>3, <1>4, <1>5, <1>7, <2>2
    <3>3. QED
      BY <1>1, <1>4, <1>6, <2>2, <3>1, <3>2 DEF Straight, CarryInv
  <2>3. QED
    BY <2>1, <2>2 DEF UpWrite
<1>12. QED
  BY <1>1, <1>3, <1>10, <1>11 DEF CarryInv

\* A frame without data for sshd is passed over.
LEMMA PassOver ==
  ASSUME NEW m \in Nat, used' = m + 1, UNCHANGED <<said, toSSH>>, ~IsData(said[m + 1]),
         NEW g, Picked(g, m)
  PROVE  Picked(g, m + 1)'
<1>1. \A k \in 1..Len(toSSH) : g[k] \in 1..(m + 1) /\ IsData(said[g[k]]) /\ toSSH[k] = said[g[k]]
  BY DEF Picked
<1>2. \A d \in 1..(m + 1) : d \in 1..m \/ d = m + 1
  OBVIOUS
<1>3. \A d \in 1..(m + 1) : IsData(said[d]) => \E k \in 1..Len(toSSH) : g[k] = d
  BY <1>2 DEF Picked
<1>4. QED
  BY <1>1, <1>3 DEF Picked

\* A data frame's payload is the next.
LEMMA PickNext ==
  ASSUME NEW m \in Nat, used' = m + 1, toSSH \in Seq(Items), UNCHANGED said,
         NEW item \in Items, item = said[m + 1], IsData(item), toSSH' = Append(toSSH, item),
         NEW g \in [1..Len(toSSH) -> Nat], Picked(g, m)
  PROVE  FramesPicked'
<1>1. PICK n : n = Len(toSSH)
  OBVIOUS
<1>2. /\ n \in Nat /\ Len(toSSH') = n + 1 /\ toSSH'[n + 1] = item
      /\ \A k \in 1..n : toSSH'[k] = toSSH[k]
  BY <1>1, AppendProperties
<1>3. PICK g1 : g1 = [k \in 1..(n + 1) |-> IF k = n + 1 THEN m + 1 ELSE g[k]]
  OBVIOUS
<1>4. g1 \in [1..(n + 1) -> Nat] /\ g1[n + 1] = m + 1 /\ \A k \in 1..n : g1[k] = g[k]
  BY <1>1, <1>2, <1>3
<1>5. /\ \A k \in 1..n : g[k] \in 1..m /\ IsData(said[g[k]]) /\ toSSH[k] = said[g[k]]
      /\ \A j, k \in 1..n : j < k => g[j] < g[k]
      /\ \A d \in 1..m : IsData(said[d]) => \E k \in 1..n : g[k] = d
  BY <1>1 DEF Picked
<1>6. \A k \in 1..(n + 1) : k \in 1..n \/ k = n + 1
  BY <1>2
<1>7. ASSUME NEW k \in 1..(n + 1)
      PROVE  g1[k] \in 1..(m + 1) /\ IsData(said[g1[k]]) /\ toSSH'[k] = said[g1[k]]
  <2>1. CASE k \in 1..n
    <3>1. g1[k] = g[k] /\ g[k] \in 1..m
      BY <1>4, <1>5, <2>1
    <3>2. QED
      BY <1>2, <1>5, <2>1, <3>1
  <2>2. CASE k = n + 1
    BY <1>2, <1>4, <2>2
  <2>3. QED
    BY <1>6, <2>1, <2>2
<1>8. ASSUME NEW j \in 1..(n + 1), NEW k \in 1..(n + 1), j < k  PROVE g1[j] < g1[k]
  <2>1. j \in 1..n
    BY <1>2, <1>8
  <2>2. CASE k \in 1..n
    BY <1>4, <1>5, <1>8, <2>1, <2>2
  <2>3. CASE k = n + 1
    <3>1. g[j] \in 1..m
      BY <1>5, <2>1
    <3>2. QED
      BY <1>4, <2>1, <2>3, <3>1
  <2>4. QED
    BY <1>6, <2>2, <2>3
<1>9. ASSUME NEW d \in 1..(m + 1), IsData(said[d])  PROVE \E k \in 1..(n + 1) : g1[k] = d
  <2>1. CASE d \in 1..m
    <3>1. PICK k \in 1..n : g[k] = d
      BY <1>5, <1>9, <2>1
    <3>2. k \in 1..(n + 1) /\ g1[k] = d
      BY <1>2, <1>4, <3>1
    <3>3. QED
      BY <3>2
  <2>2. CASE d = m + 1
    <3>1. n + 1 \in 1..(n + 1)
      BY <1>2
    <3>2. QED
      BY <1>4, <2>2, <3>1
  <2>3. QED
    BY <2>1, <2>2
<1>10. Picked(g1, m + 1)'
  BY <1>2, <1>7, <1>8, <1>9 DEF Picked
<1>11. m + 1 \in 0..used'
  OBVIOUS
<1>12. QED
  BY <1>2, <1>4, <1>10, <1>11 DEF FramesPicked

\* The next frame's payload is written, or sshd is gone.
LEMMA WritingFramesKeepsCarry ==
  ASSUME TypeInv, ScanInv, Shape, Linked, CarryInv, UpWrite, kind = "ws"
  PROVE  CarryInv'
<1>1. /\ up = "copying" /\ CanRead /\ pc = "relay" /\ head = <<>> /\ used >= 2 /\ used \in Nat
      /\ UNCHANGED <<said, filled, pc, kind, ssh>> /\ toSSH \in Seq(Items)
  BY DEF UpWrite, peers, ScanInv, CarryInv, Carrying, TypeInv, TypeOK
<1>2. PICK item : item = said[used + 1]
  OBVIOUS
<1>3. /\ used < filled /\ used' = used + 1 /\ head' = head /\ NextItem = item
  BY <1>1, <1>2 DEF UpWrite, CanRead, NextItem
<1>4. used + 1 \in 1..Len(said) /\ 3 <= used + 1
  BY <1>1, <1>3 DEF TypeInv, TypeOK
<1>5. item \in Frames
  BY <1>2, <1>4, FramesForSSH
<1>6. /\ item \in Items /\ PayloadOf(item) \in Seq(Items)
      /\ IsData(item) => PayloadOf(item) = <<item>>
      /\ ~IsData(item) /\ item.what # "ping" => PayloadOf(item) = <<>>
  BY <1>5, FramePayload
<1>7. \/ toSSH' = toSSH \o PayloadOf(item) /\ up' = up
      \/ MayFail(ssh) /\ toSSH' = toSSH /\ up' = IF item.len = 0 THEN up ELSE "ending"
  BY <1>3 DEF UpWrite
<1>8. toSSH' \in Seq(Items)
  BY <1>1, <1>6, <1>7, ConcatProperties
<1>9. ASSUME ~Pinged'  PROVE FramesPicked'
  <2>1. ~Pinged /\ item.what # "ping"
    <3>1. ~Pinged
      BY <1>1, <1>9 DEF Pinged
    <3>2. used + 1 \in DOMAIN said
      BY <1>4 DEF TypeInv
    <3>3. QED
      BY <1>2, <3>1, <3>2 DEF Pinged
  <2>2. FramesPicked
    BY <1>1, <2>1 DEF CarryInv, Carrying
  <2>3. PICK m \in 0..used : \E g \in [1..Len(toSSH) -> Nat] : Picked(g, m)
    BY <2>2 DEF FramesPicked
  <2>4. PICK g \in [1..Len(toSSH) -> Nat] : Picked(g, m)
    BY <2>3
  <2>5. m = used /\ m \in Nat /\ used' = m + 1 /\ item = said[m + 1]
    BY <1>1, <1>2, <1>3, <2>4 DEF Picked, Behind
  <2>6. m + 1 \in 0..used' /\ m \in 0..used'
    BY <2>5
  <2>7. CASE toSSH' = toSSH \o PayloadOf(item) /\ IsData(item)
    <3>1. toSSH' = Append(toSSH, item)
      <4>1. toSSH' = toSSH \o <<item>>
        BY <1>6, <2>7
      <4>2. QED
        BY <1>1, <1>6, <4>1, AppendIsConcat
    <3>2. FramesPicked'
      <4>1. m \in Nat /\ used' = m + 1 /\ item = said[m + 1] /\ Picked(g, m)
        BY <2>4, <2>5
      <4>2. UNCHANGED said /\ toSSH \in Seq(Items) /\ item \in Items /\ IsData(item)
        BY <1>1, <1>6, <2>7
      <4>3. QED
        BY <3>1, <4>1, <4>2, PickNext
    <3>3. QED
      BY <3>2
  <2>8. CASE toSSH' = toSSH /\ ~IsData(item)
    <3>1. Picked(g, m + 1)'
      BY <1>1, <2>4, <2>5, <2>8, PassOver
    <3>2. g \in [1..Len(toSSH') -> Nat]
      BY <2>8
    <3>3. QED
      BY <2>6, <3>1, <3>2 DEF FramesPicked
  <2>9. CASE toSSH' = toSSH /\ MayFail(ssh) /\ up' = "ending"
    <3>1. Behind'
      BY <1>1, <2>9 DEF Behind, MayFail
    <3>2. Picked(g, m)'
      BY <1>1, <2>4, <2>9, <3>1 DEF Picked
    <3>3. g \in [1..Len(toSSH') -> Nat]
      BY <2>9
    <3>4. QED
      BY <2>6, <3>2, <3>3 DEF FramesPicked
  <2>10. ~IsData(item) => toSSH \o PayloadOf(item) = toSSH
    BY <1>1, <1>6, <2>1, ConcatEmptySeq
  <2>11. item.len = 0 => ~IsData(item)
    BY DEF IsData
  <2>12. QED
    BY <1>7, <2>7, <2>8, <2>9, <2>10, <2>11
<1>10. used' >= 2 /\ head' = <<>>
  BY <1>1, <1>3
<1>11. QED
  BY <1>1, <1>8, <1>9, <1>10 DEF CarryInv

\* Each action keeps what is carried.
LEMMA CarryStep ==
  ASSUME TypeInv, ScanInv, Stages, Shape, Linked, CarryInv, [Next]_vars
  PROVE  CarryInv'
<1> USE DEF stream, peers, detect, copies, output, source
<1>1. CASE UNCHANGED vars
  BY <1>1, ElsewhereKeepsCarry DEF vars, Behind, Carrying
<1>2. CASE ClientSends \/ ClientEnds \/ ClientResets
  BY <1>2, ElsewhereKeepsCarry DEF ClientSends, ClientEnds, ClientResets, Behind, Carrying
<1>3. CASE SSHSends \/ SSHEnds \/ SSHResets
  BY <1>3, ElsewhereKeepsCarry DEF SSHSends, SSHEnds, SSHResets, Behind, Carrying
<1>4. CASE PeekMore \/ ReadMoreOfRequest \/ ScanMore \/ UpRead
  BY <1>4, ElsewhereKeepsCarry DEF PeekMore, ReadMoreOfRequest, ScanMore, UpRead, Behind, Carrying
<1>5. CASE UpStops \/ UpEnds \/ DownCopy \/ DownEnds
  BY <1>5, ElsewhereKeepsCarry DEF UpStops, UpEnds, DownCopy, DownCopyOf, DownEnds,
     Behind, Carrying
<1>6. CASE PeekFails \/ RequestFails \/ ScanFails \/ DialFails
  <2>1. /\ UNCHANGED <<used, head, toSSH, kind, up>> /\ pc' = "ended" /\ up = "idle"
    BY <1>6 DEF PeekFails, RequestFails, ScanFails, DialFails, Ended, Stages
  <2>2. QED
    BY <2>1, ElsewhereKeepsCarry DEF Behind, Carrying
<1>7. CASE Finish
  <2>1. /\ UNCHANGED <<used, head, toSSH, kind, up>> /\ pc' = "ended" /\ ssh' = "closed" /\ up = "done"
    BY <1>7 DEF Finish, Ended, Stages
  <2>2. QED
    BY <2>1, ElsewhereKeepsCarry DEF Behind, Carrying
<1>8. CASE RefuseRequest
  <2>1. /\ UNCHANGED <<head, toSSH, kind, up>> /\ pc' = "ended" /\ up = "idle"
    BY <1>8 DEF RefuseRequest, Ended, Stages
  <2>2. head = <<>>
    BY <1>8 DEF RefuseRequest, CarryInv
  <2>3. QED
    BY <2>1, <2>2 DEF CarryInv, Carrying
<1>9. CASE Dial \/ Reply
  <2>1. /\ UNCHANGED <<used, head, toSSH, kind>> /\ pc' \in {"reply", "relay", "ended"} /\ up = "idle"
        /\ up' \in {"idle", "copying"} /\ pc \in {"dial", "reply"}
    BY <1>9 DEF Dial, Reply, StartRelay, FirstUnread, Ended, Stages
  <2>2. QED
    BY <2>1, ElsewhereKeepsCarry DEF Behind, Carrying
<1>10. CASE Dispatch
  BY <1>10, LinkedStep, DispatchKeepsCarry
<1>11. CASE AcceptRequest
  BY <1>11, RequestKeepsCarry
<1>12. CASE ScanByte
  BY <1>12, ScanKeepsCarry
<1>13. CASE UpWrite
  BY <1>13, WritingBytesKeepsCarry, WritingFramesKeepsCarry
<1>14. QED
  BY <1>1, <1>2, <1>3, <1>4, <1>5, <1>6, <1>7, <1>8, <1>9, <1>10, <1>11, <1>12, <1>13
     DEF Next, Server, Peek, Request, Scan, Connect, Up, Down

\* The goroutine stops at the end of what the client sent, and nothing follows.
LEMMA CompleteStep ==
  ASSUME TypeInv, ScanInv, Stages, Shape, CarryInv, CompleteInv, [Next]_vars
  PROVE  CompleteInv'
<1> USE DEF stream, peers, detect, copies, output, source
<1>0. /\ up \in {"idle", "copying", "ending", "done"} /\ used \in Nat /\ filled \in Nat
      /\ Len(said) \in Nat /\ used <= filled /\ filled <= Len(said)
  BY DEF TypeInv, TypeOK
<1>1. CASE UNCHANGED <<said, used, head, client>> /\ (up' = up \/ (up = "ending" /\ up' = "done"))
           /\ (ssh' = "open" => ssh = "open")
  <2>1. ASSUME up' \in {"ending", "done"}, ssh' = "open", client' # "reset"
        PROVE  head' = <<>> /\ (AllRead' \/ AtClose')
    <3>1. up \in {"ending", "done"} /\ ssh = "open" /\ client # "reset"
      BY <1>1, <2>1
    <3>2. head = <<>> /\ (AllRead \/ AtClose)
      BY <3>1 DEF CompleteInv
    <3>3. (AllRead' <=> AllRead) /\ (AtClose' <=> AtClose)
      BY <1>1 DEF AllRead, AtClose
    <3>4. QED
      BY <1>1, <3>2, <3>3
  <2>2. QED
    BY <2>1 DEF CompleteInv
<1>2. CASE up' \notin {"ending", "done"} \/ ssh' # "open" \/ client' = "reset"
  BY <1>2 DEF CompleteInv
<1>3. CASE ClientSends
  <2>1. UNCHANGED <<used, head, up, ssh, client>> /\ client = "open"
    BY <1>3 DEF ClientSends
  <2>2. Shape' /\ Len(said') \in Nat
    BY ShapeStep, SaidGrows
  <2>3. PICK item \in Follows : said' = Append(said, item)
    BY <1>3 DEF ClientSends
  <2>4. said \in Seq(Items) /\ item \in Items
    BY <2>3, FollowsType DEF TypeInv
  <2>5. Len(said') = Len(said) + 1 /\ \A j \in 1..Len(said) : said'[j] = said[j]
    BY <2>3, <2>4, AppendProperties
  <2>6. ~AtClose
    <3>1. SUFFICES ASSUME AtClose  PROVE FALSE
      OBVIOUS
    <3>2. used + 1 = Len(said) /\ used + 1 \in 1..Len(said) /\ used + 1 \in 1..Len(said')
      BY <1>0, <2>5, <3>1 DEF AtClose
    <3>3. said'[used + 1].what = "close"
      BY <2>5, <3>1, <3>2 DEF AtClose
    <3>4. used + 1 = Len(said')
      BY <2>2, <3>2, <3>3 DEF Shape
    <3>5. QED
      BY <1>0, <2>5, <3>2, <3>4
  <2>7. up \in {"ending", "done"} /\ ssh = "open" => FALSE
    BY <2>1, <2>6 DEF CompleteInv, AllRead
  <2>8. QED
    BY <2>1, <2>7 DEF CompleteInv
<1>4. CASE ClientEnds
  <2>1. UNCHANGED <<said, used, head, up, ssh>> /\ client = "open"
    BY <1>4 DEF ClientEnds
  <2>2. AtClose' <=> AtClose
    BY <2>1 DEF AtClose
  <2>3. QED
    BY <2>1, <2>2 DEF CompleteInv, AllRead
<1>5. CASE UpStops
  <2>1. up = "copying" /\ UNCHANGED <<said, used, head, ssh, client>>
    BY <1>5 DEF UpStops
  <2>2. ASSUME client # "reset"  PROVE head = <<>> /\ (AllRead \/ AtClose)
    <3>1. CASE ~CanRead /\ CannotFill
      BY <1>0, <2>2, <3>1 DEF CanRead, CannotFill, AllRead
    <3>2. CASE CanRead /\ NextItem.what = "close"
      <4>1. head = <<>>
        <5>1. SUFFICES ASSUME head # <<>>  PROVE FALSE
          OBVIOUS
        <5>2. Head(head) \in {"S", "H", "-"}
          BY <5>1, HeadTailProperties DEF TypeInv
        <5>3. NextItem.what = Head(head)
          BY <5>1 DEF NextItem, Byte
        <5>4. QED
          BY <3>2, <5>2, <5>3
      <4>2. used < filled /\ said[used + 1].what = "close"
        BY <3>2, <4>1 DEF CanRead, NextItem
      <4>3. used + 1 \in 1..Len(said)
        BY <1>0, <4>2
      <4>4. QED
        BY <4>1, <4>2, <4>3 DEF Shape, AtClose
    <3>3. QED
      BY <1>5, <3>1, <3>2 DEF UpStops
  <2>3. (AllRead' <=> AllRead) /\ (AtClose' <=> AtClose)
    BY <2>1 DEF AllRead, AtClose
  <2>4. QED
    BY <2>1, <2>2, <2>3 DEF CompleteInv
<1>6. CASE UpWrite
  <2>1. up = "copying" /\ ssh' = ssh /\ (up' = up \/ ssh # "open")
    BY <1>6 DEF UpWrite, MayFail
  <2>2. QED
    BY <1>2, <2>1
<1>7. CASE PeekMore \/ Dispatch \/ PeekFails \/ ReadMoreOfRequest \/ RequestFails \/ RefuseRequest
           \/ AcceptRequest \/ ScanMore \/ ScanByte \/ ScanFails \/ DialFails
  <2>1. up = "idle" /\ up' = up
    BY <1>7 DEF PeekMore, Dispatch, PeekFails, ReadMoreOfRequest, RequestFails, RefuseRequest,
       AcceptRequest, ScanMore, ScanByte, ScanFails, DialFails, Stages
  <2>2. QED
    BY <1>2, <2>1
<1>8. CASE Dial \/ Reply
  <2>1. up' \in {"idle", "copying"}
    BY <1>8 DEF Dial, Reply, StartRelay, Stages
  <2>2. QED
    BY <1>2, <2>1
<1>9. CASE Finish
  <2>1. ssh' # "open"
    BY <1>9 DEF Finish, Ended, Stages
  <2>2. QED
    BY <1>2, <2>1
<1>10. CASE SSHSends \/ SSHEnds \/ SSHResets
  BY <1>1, <1>10 DEF SSHSends, SSHEnds, SSHResets
<1>11. CASE UpRead \/ UpEnds \/ DownCopy \/ DownEnds
  BY <1>1, <1>11 DEF UpRead, UpEnds, DownCopy, DownCopyOf, DownEnds
<1>12. CASE ClientResets
  BY <1>2, <1>12 DEF ClientResets
<1>13. CASE UNCHANGED vars
  BY <1>1, <1>13 DEF vars
<1>14. QED
  BY <1>3, <1>4, <1>5, <1>6, <1>7, <1>8, <1>9, <1>10, <1>11, <1>12, <1>13
     DEF Next, Server, Peek, Request, Scan, Connect, Up, Down

\* All of it holds from the start.
StreamInv == TypeInv /\ ScanInv /\ Stages /\ Shape /\ Linked /\ CarryInv /\ CompleteInv

LEMMA StreamInit == Init => StreamInv
<1> SUFFICES ASSUME Init  PROVE StreamInv
  OBVIOUS
<1>1. TypeInv /\ ScanInv /\ Stages
  BY TypeInit, ScanInit, StagesInit
<1>2. /\ said = <<>> /\ toSSH = <<>> /\ head = <<>> /\ pc = "peek" /\ up = "idle" /\ kind = "none"
  BY DEF Init
<1>3. Len(said) = 0 /\ toSSH \in Seq(Items)
  BY <1>2, EmptySeq
<1>4. Shape
  BY <1>3 DEF Shape
<1>5. Linked /\ CarryInv /\ CompleteInv
  BY <1>2, <1>3 DEF Linked, CarryInv, Carrying, CompleteInv
<1>6. QED
  BY <1>1, <1>4, <1>5 DEF StreamInv

LEMMA StreamStep == StreamInv /\ [Next]_vars => StreamInv'
BY TypeStep, ScanStep, StagesStep, ShapeStep, LinkedStep, CarryStep, CompleteStep DEF StreamInv

-------------------------------------------------------------------------------
(***************************************************************************)
(* What the client means for sshd                                          *)
(***************************************************************************)
\* Bytes from the place where they begin.
LEMMA BytesMeant ==
  ASSUME StreamInv, kind \in {"raw", "payload", "connect"}, NEW i, StartsAt(i), i <= Len(said) + 1
  PROVE  \E s \in MeantForSSH :
           /\ s \in Seq(Items) /\ Len(s) = Len(said) - i + 1
           /\ \A k \in 1..Len(s) : s[k] = said[i + k - 1]
<1>1. said \in Seq(Items) /\ Len(said) \in Nat /\ i \in Nat \ {0}
  BY DEF StreamInv, TypeInv, StartsAt
<1>2. PICK s : s = SubSeq(said, i, Len(said))
  OBVIOUS
<1>3. \A j \in i..Len(said) : said[j] \in Items
  BY <1>1
<1>4. /\ s \in Seq(Items) /\ Len(s) = IF i <= Len(said) THEN Len(said) - i + 1 ELSE 0
      /\ \A k \in 1..(Len(said) - i + 1) : s[k] = said[i + k - 1]
  BY <1>1, <1>2, <1>3, SubSeqProperties
<1>5. Len(s) = Len(said) - i + 1
  BY <1>1, <1>4
<1>6. said # <<>>
  BY DEF StreamInv, Linked
<1>7. s \in MeantForSSH
  <2>1. CASE kind = "connect"
    <3>1. said[1].what = "CONN" /\ i = 3
      BY <2>1 DEF StreamInv, Linked, StartsAt
    <3>2. MeantForSSH = {SubSeq(said, 3, Len(said))}
      BY <1>6, <3>1 DEF MeantForSSH
    <3>3. QED
      BY <1>2, <3>1, <3>2
  <2>2. CASE kind # "connect"
    <3>1. said[1].type = "byte"
      BY <2>2 DEF StreamInv, Linked
    <3>2. 1 \in 1..Len(said)
      BY <1>1, <1>6
    <3>3. said[1] \in Bytes
      BY <3>1, <3>2 DEF StreamInv, Shape, Allowed
    <3>4. said[1].what # "GET " /\ said[1].what # "CONN"
      BY <3>3, ByteNames
    <3>5. MeantForSSH = {SubSeq(said, j, Len(said)) :
                           j \in {j \in DOMAIN said : IsBanner(j) /\ \A l \in 1..(j - 1) : ~FairBanner(l)}}
      BY <1>6, <3>4 DEF MeantForSSH
    <3>6. IsBanner(i) /\ \A l \in 1..(i - 1) : ~FairBanner(l)
      BY <2>2 DEF StartsAt
    <3>7. i \in DOMAIN said
      BY <1>1, <3>6 DEF IsBanner
    <3>8. QED
      BY <1>2, <3>5, <3>6, <3>7
  <2>3. QED
    BY <2>1, <2>2
<1>8. QED
  BY <1>4, <1>5, <1>7

\* Data frames, of which some first ones were picked.
LEMMA FramesMeant ==
  ASSUME StreamInv, kind = "ws", NEW m \in 0..used, NEW g \in [1..Len(toSSH) -> Nat], Picked(g, m)
  PROVE  \E s \in MeantForSSH :
           /\ s \in Seq(Items) /\ Len(toSSH) <= Len(s)
           /\ \A k \in 1..Len(toSSH) : s[k] = toSSH[k]
           /\ (\A d \in (m + 1)..Len(said) : ~IsData(said[d])) => Len(s) = Len(toSSH)
<1>1. /\ said \in Seq(Items) /\ Len(said) \in Nat /\ Len(toSSH) \in Nat /\ m \in Nat /\ m <= Len(said)
  <2>1. said \in Seq(Items) /\ toSSH \in Seq(Items) /\ used \in 0..filled /\ filled \in 0..Len(said)
    BY DEF StreamInv, TypeInv, TypeOK, CarryInv
  <2>2. QED
    BY <2>1
<1>2. PICK S : S = DataFrames
  OBVIOUS
<1>3. S \in SUBSET (1..Len(said)) /\ \A d \in 1..Len(said) : d \in S <=> IsData(said[d])
  BY <1>1, <1>2 DEF DataFrames, IsData
<1>4. PICK k : k = Len(toSSH)
  OBVIOUS
<1>5. \A i \in 1..k : g[i] \in 1..m /\ IsData(said[g[i]]) /\ toSSH[i] = said[g[i]]
  BY <1>4 DEF Picked
<1>6. \A i \in 1..k : g[i] \in S /\ g[i] <= m
  BY <1>1, <1>3, <1>5
<1>7. \A i, j \in 1..k : i < j => g[i] < g[j]
  BY <1>4 DEF Picked
<1>8. \A d \in S : d <= m => \E i \in 1..k : g[i] = d
  BY <1>1, <1>3, <1>4 DEF Picked
<1>9. g \in [1..k -> Nat] /\ k \in Nat
  BY <1>1, <1>4
<1>10. /\ Cardinality(S) \in Nat /\ k <= Cardinality(S)
       /\ \E f \in [1..Cardinality(S) -> S] :
            /\ \A i, j \in DOMAIN f : i < j => f[i] < f[j]
            /\ \A i \in 1..k : f[i] = g[i]
       /\ (\A d \in S : d <= m) => Cardinality(S) = k
  <2>1. InOrderUpTo(S, m, k, g)
    BY <1>6, <1>7, <1>8 DEF InOrderUpTo
  <2>2. PICK n : n = Len(said)
    OBVIOUS
  <2>3. n \in Nat /\ S \in SUBSET (1..n)
    BY <1>1, <1>3, <2>2
  <2>4. Continued(S, m, k, g)
    BY <1>1, <1>9, <2>1, <2>3, OrderExtends
  <2>5. QED
    BY <2>4 DEF Continued
<1>11. PICK c : c = Cardinality(S)
  OBVIOUS
<1>12. PICK f \in [1..c -> S] :
         /\ \A i, j \in DOMAIN f : i < j => f[i] < f[j]
         /\ \A i \in 1..k : f[i] = g[i]
  BY <1>10, <1>11
<1>13. PICK s : s = [i \in DOMAIN f |-> said[f[i]]]
  OBVIOUS
<1>14. DOMAIN f = 1..c /\ c \in Nat /\ k <= c
  BY <1>10, <1>11, <1>12
<1>15. \A i \in 1..c : f[i] \in 1..Len(said) /\ said[f[i]] \in Items
  <2>1. ASSUME NEW i \in 1..c  PROVE f[i] \in S
    BY <1>12
  <2>2. \A d \in S : d \in 1..Len(said)
    BY <1>3
  <2>3. \A d \in 1..Len(said) : said[d] \in Items
    BY <1>1
  <2>4. QED
    BY <2>1, <2>2, <2>3
<1>16. s \in Seq(Items) /\ Len(s) = c /\ \A i \in 1..c : s[i] = said[f[i]]
  BY <1>13, <1>14, <1>15
<1>17. s \in MeantForSSH
  <2>1. said # <<>> /\ said[1].what = "GET "
    BY DEF StreamInv, Linked
  <2>2. MeantForSSH = {[i \in DOMAIN h |-> said[h[i]]] : h \in InOrder(S)}
    BY <1>2, <2>1 DEF MeantForSSH
  <2>3. f \in InOrder(S)
    BY <1>11, <1>12 DEF InOrder
  <2>4. QED
    BY <1>13, <2>2, <2>3
<1>18. \A i \in 1..k : s[i] = toSSH[i]
  <2> TAKE i \in 1..k
  <2>1. i \in 1..c
    BY <1>9, <1>14
  <2>2. s[i] = said[f[i]] /\ f[i] = g[i]
    BY <1>12, <1>16, <2>1
  <2>3. QED
    BY <1>5, <2>2
<1>19. ASSUME \A d \in (m + 1)..Len(said) : ~IsData(said[d])  PROVE c = k
  <2>1. ASSUME NEW d \in S, ~(d <= m)  PROVE FALSE
    <3>1. d \in (m + 1)..Len(said)
      BY <1>1, <1>3, <2>1
    <3>2. QED
      BY <1>3, <1>19, <3>1
  <2>2. QED
    BY <1>10, <1>11, <2>1
<1>20. QED
  BY <1>4, <1>14, <1>16, <1>17, <1>18, <1>19

\* A sequence that agrees with a longer one as far as it goes is its prefix.
LEMMA Agreeing ==
  ASSUME NEW s \in Seq(Items), NEW t \in Seq(Items), Len(s) <= Len(t),
         \A k \in 1..Len(s) : s[k] = t[k]
  PROVE  IsPrefix(s, t)
<1>1. Len(s) \in Nat /\ Len(t) \in Nat
  OBVIOUS
<1>2. (\A k \in 1..Len(s) : s[k] \in Items) /\ \A k \in 1..Len(s) : t[k] \in Items
  BY <1>1
<1>3. /\ SubSeq(s, 1, Len(s)) \in Seq(Items) /\ SubSeq(t, 1, Len(s)) \in Seq(Items)
      /\ Len(SubSeq(s, 1, Len(s))) = Len(SubSeq(t, 1, Len(s)))
      /\ Len(SubSeq(s, 1, Len(s))) = Len(s)
      /\ \A i \in 1..Len(s) : SubSeq(s, 1, Len(s))[i] = s[1 + i - 1]
      /\ \A i \in 1..Len(s) : SubSeq(t, 1, Len(s))[i] = t[1 + i - 1]
  <2>1. /\ SubSeq(s, 1, Len(s)) \in Seq(Items)
        /\ Len(SubSeq(s, 1, Len(s))) = IF 1 <= Len(s) THEN Len(s) - 1 + 1 ELSE 0
        /\ \A i \in 1..(Len(s) - 1 + 1) : SubSeq(s, 1, Len(s))[i] = s[1 + i - 1]
    BY <1>1, <1>2, SubSeqProperties
  <2>2. /\ SubSeq(t, 1, Len(s)) \in Seq(Items)
        /\ Len(SubSeq(t, 1, Len(s))) = IF 1 <= Len(s) THEN Len(s) - 1 + 1 ELSE 0
        /\ \A i \in 1..(Len(s) - 1 + 1) : SubSeq(t, 1, Len(s))[i] = t[1 + i - 1]
    BY <1>1, <1>2, SubSeqProperties
  <2>3. Len(s) - 1 + 1 = Len(s) /\ (IF 1 <= Len(s) THEN Len(s) - 1 + 1 ELSE 0) = Len(s)
    BY <1>1
  <2>4. QED
    BY <2>1, <2>2, <2>3
<1>4. \A i \in 1..Len(s) : SubSeq(s, 1, Len(s))[i] = SubSeq(t, 1, Len(s))[i]
  <2>1. \A i \in 1..Len(s) : 1 + i - 1 = i
    BY <1>1
  <2>2. QED
    BY <1>3, <2>1
<1>5. SubSeq(s, 1, Len(s)) = SubSeq(t, 1, Len(s))
  BY <1>3, <1>4, SeqEqual
<1>6. QED
  BY <1>5 DEF IsPrefix

\* What the invariant says of what has reached sshd.
LEMMA StreamPrefix == StreamInv => NothingInserted
<1> SUFFICES ASSUME StreamInv, toSSH # <<>>, ~Pinged
             PROVE  \E s \in MeantForSSH : IsPrefix(toSSH, s)
  BY DEF NothingInserted
<1>1. Carrying /\ toSSH \in Seq(Items)
  BY DEF StreamInv, Stages, Carrying, CarryInv
<1>2. CASE kind = "ws"
  <2>1. FramesPicked
    BY <1>1, <1>2 DEF StreamInv, CarryInv
  <2>2. PICK m \in 0..used : \E g \in [1..Len(toSSH) -> Nat] : Picked(g, m)
    BY <2>1 DEF FramesPicked
  <2>3. PICK g \in [1..Len(toSSH) -> Nat] : Picked(g, m)
    BY <2>2
  <2>4. PICK s \in MeantForSSH :
          /\ s \in Seq(Items) /\ Len(toSSH) <= Len(s)
          /\ \A k \in 1..Len(toSSH) : s[k] = toSSH[k]
          /\ (\A d \in (m + 1)..Len(said) : ~IsData(said[d])) => Len(s) = Len(toSSH)
    BY <1>2, <2>3, FramesMeant
  <2>5. QED
    BY <1>1, <2>4, Agreeing
<1>3. CASE kind # "ws"
  <2>1. kind # "none" /\ \E i : StartsAt(i) /\ Straight(i)
    BY <1>1, <1>3 DEF StreamInv, CarryInv
  <2>2. PICK i : StartsAt(i) /\ Straight(i)
    BY <2>1
  <2>3. kind \in {"raw", "payload", "connect"}
    BY <1>3, <2>1 DEF StreamInv, TypeInv, TypeOK
  <2>4. /\ Len(toSSH) <= used - i + 1 /\ \A k \in 1..Len(toSSH) : toSSH[k] = said[i + k - 1]
    BY <2>2 DEF Straight
  <2>5. i \in Nat \ {0} /\ Len(toSSH) \in Nat /\ used \in Nat /\ used <= Len(said) /\ Len(said) \in Nat
    <3>1. used \in 0..filled /\ filled \in 0..Len(said) /\ Len(said) \in Nat
      BY DEF StreamInv, TypeInv, TypeOK
    <3>2. i \in Nat \ {0} /\ Len(toSSH) \in Nat
      BY <1>1, <2>2 DEF StartsAt
    <3>3. QED
      BY <3>1, <3>2
  <2>6. i <= Len(said) + 1 /\ Len(toSSH) <= Len(said) - i + 1
    BY <2>4, <2>5
  <2>7. PICK s \in MeantForSSH :
          /\ s \in Seq(Items) /\ Len(s) = Len(said) - i + 1
          /\ \A k \in 1..Len(s) : s[k] = said[i + k - 1]
    BY <2>2, <2>3, <2>6, BytesMeant
  <2>8. Len(toSSH) <= Len(s) /\ \A k \in 1..Len(toSSH) : toSSH[k] = s[k]
    <3>1. \A k \in 1..Len(toSSH) : k \in 1..Len(s)
      BY <2>5, <2>6, <2>7
    <3>2. QED
      BY <2>4, <2>6, <2>7, <3>1
  <2>9. QED
    BY <1>1, <2>7, <2>8, Agreeing
<1>4. QED
  BY <1>2, <1>3

\* And of what has reached it at the end.
LEMMA StreamWhole == StreamInv => NothingLost
<1> SUFFICES ASSUME StreamInv, up \in {"ending", "done"}, client # "reset", ssh = "open", ~Pinged
             PROVE  toSSH \in MeantForSSH
  BY DEF NothingLost
<1>1. Carrying /\ toSSH \in Seq(Items) /\ ~Behind
  BY DEF StreamInv, Carrying, CarryInv, Behind
<1>2. head = <<>> /\ (AllRead \/ AtClose)
  BY DEF StreamInv, CompleteInv
<1>3. Len(toSSH) \in Nat /\ used \in Nat /\ used <= Len(said) /\ Len(said) \in Nat
  <2>1. used \in 0..filled /\ filled \in 0..Len(said) /\ Len(said) \in Nat
    BY DEF StreamInv, TypeInv, TypeOK
  <2>2. QED
    BY <1>1, <2>1
<1>4. CASE kind = "ws"
  <2>1. FramesPicked
    BY <1>1, <1>4 DEF StreamInv, CarryInv
  <2>2. PICK m \in 0..used : \E g \in [1..Len(toSSH) -> Nat] : Picked(g, m)
    BY <2>1 DEF FramesPicked
  <2>3. PICK g \in [1..Len(toSSH) -> Nat] : Picked(g, m)
    BY <2>2
  <2>4. m = used
    BY <1>1, <2>3 DEF Picked
  <2>5. \A d \in (m + 1)..Len(said) : ~IsData(said[d])
    <3>1. CASE AllRead
      BY <1>3, <2>4, <3>1 DEF AllRead
    <3>2. CASE AtClose
      <4>1. used + 1 = Len(said) /\ ~IsData(said[used + 1])
        BY <3>2 DEF AtClose, IsData
      <4>2. \A d \in (used + 1)..Len(said) : d = used + 1
        BY <1>3, <4>1
      <4>3. QED
        BY <2>4, <4>1, <4>2
    <3>3. QED
      BY <1>2, <3>1, <3>2
  <2>6. PICK s \in MeantForSSH :
          /\ s \in Seq(Items) /\ Len(toSSH) <= Len(s)
          /\ \A k \in 1..Len(toSSH) : s[k] = toSSH[k]
          /\ (\A d \in (m + 1)..Len(said) : ~IsData(said[d])) => Len(s) = Len(toSSH)
    BY <1>4, <2>3, FramesMeant
  <2>7. s = toSSH
    BY <1>1, <2>5, <2>6, SeqEqual
  <2>8. QED
    BY <2>6, <2>7
<1>5. CASE kind # "ws"
  <2>1. kind # "none" /\ \E i : StartsAt(i) /\ Straight(i)
    BY <1>1, <1>5 DEF StreamInv, CarryInv
  <2>2. PICK i : StartsAt(i) /\ Straight(i)
    BY <2>1
  <2>3. kind \in {"raw", "payload", "connect"} /\ i \in Nat \ {0}
    BY <1>5, <2>1, <2>2 DEF StreamInv, TypeInv, TypeOK, StartsAt
  <2>4. Len(head) = 0
    BY <1>2
  <2>5. /\ Len(toSSH) + Len(head) = used - i + 1
        /\ \A k \in 1..Len(toSSH) : toSSH[k] = said[i + k - 1]
    BY <1>1, <2>2 DEF Straight
  <2>6. i <= used + 1 /\ Len(toSSH) = used - i + 1
    BY <1>3, <2>3, <2>4, <2>5
  <2>7. used = Len(said)
    <3>1. ~AtClose
      <4>1. SUFFICES ASSUME AtClose  PROVE FALSE
        OBVIOUS
      <4>2. used + 1 = Len(said) /\ said[used + 1].what = "close"
        BY <4>1 DEF AtClose
      <4>3. used + 1 \in Nat /\ i <= used + 1 /\ used + 1 <= Len(said)
        BY <1>3, <2>6, <4>2
      <4>4. said[used + 1] \in Bytes
        BY <2>2, <2>3, <4>3, BytesForSSH DEF StreamInv
      <4>5. QED
        BY <4>2, <4>4, ByteNames
    <3>2. QED
      BY <1>2, <3>1 DEF AllRead
  <2>8. i <= Len(said) + 1
    BY <2>6, <2>7
  <2>9. PICK s \in MeantForSSH :
          /\ s \in Seq(Items) /\ Len(s) = Len(said) - i + 1
          /\ \A k \in 1..Len(s) : s[k] = said[i + k - 1]
    BY <2>2, <2>3, <2>8, BytesMeant
  <2>10. Len(s) = Len(toSSH) /\ \A k \in 1..Len(s) : s[k] = toSSH[k]
    BY <2>5, <2>6, <2>7, <2>9
  <2>11. s = toSSH
    BY <1>1, <2>9, <2>10, SeqEqual
  <2>12. QED
    BY <2>9, <2>11
<1>6. QED
  BY <1>4, <1>5

\* What reaches sshd is a prefix of what the client means for it, however the
\* bytes arrive and whichever protocol was detected (peekedConn, readerConn,
\* the bytes that handlePayload pushes back, readWSFrame).
THEOREM StreamUntouched == Spec => []NothingInserted
<1>1. Spec => []StreamInv
  BY StreamInit, StreamStep, PTL DEF Spec
<1>2. QED
  BY <1>1, StreamPrefix, PTL

\* And it is all of it when the goroutine that writes to sshd ends, if sshd is
\* still there and the client has not reset the connection.
THEOREM StreamComplete == Spec => []NothingLost
<1>1. Spec => []StreamInv
  BY StreamInit, StreamStep, PTL DEF Spec
<1>2. QED
  BY <1>1, StreamWhole, PTL
===============================================================================
