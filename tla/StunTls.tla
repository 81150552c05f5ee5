------------------------------ MODULE StunTls ------------------------------
(***************************************************************************)
(* One connection of the StunTLS proxy (internal/proxy/stuntls.go): the    *)
(* protocol of the client is detected from its first bytes, an SSH banner  *)
(* is searched for behind a payload, WebSocket frames are unpacked and     *)
(* packed, and two goroutines copy between the client and sshd.            *)
(* Connections share nothing, so one stands for all.                       *)
(*                                                                         *)
(* The client's stream is a sequence of items: single bytes, WebSocket     *)
(* frames, and the two parts of an HTTP request (its first four bytes, and *)
(* the rest).  `used' of them were consumed, `filled' are in or through    *)
(* the bufio.Reader, the others are still in the network.  What sshd sends *)
(* is counted.  A write is never blocked by a full socket buffer.  A frame *)
(* that is cut off by the end of the connection is one that was not sent.  *)
(* Not modelled: the computation of Sec-WebSocket-Accept, the TLS          *)
(* handshake, which the first read performs, and the accept loop; and a    *)
(* frame header that announces more than MaxLength bytes.  readWSFrame     *)
(* allocates the payload at whatever 64-bit length it read, before any of  *)
(* it has come (line 341): a length that make or the memory of the host    *)
(* cannot serve ends the process, with all its connections.  Here lengths  *)
(* are those of frames that were sent, at most MaxLength by                *)
(* LengthAssumption, and the high four bytes of a length are 0.            *)
(***************************************************************************)
EXTENDS Integers, FiniteSets, SequencesExt

CONSTANTS
  Alphabet,    \* bytes the client sends besides those of the banner
  MaxScan,     \* maxScan in handlePayload (8192 there)
  ReadSize,    \* the buffer of tcpToWS (32768 there)
  FrameLens,   \* payload lengths of the client's data frames
  ChunkLens,   \* how much sshd writes at once
  Shortfalls,  \* by how much a read may stay behind what has arrived
  MaxBytes,    \* bound: bytes of a client without a request
  MaxItems,    \* bound: bytes or frames after a request
  MaxChunks    \* bound: writes of sshd

ASSUME StunTlsAssumption ==
  /\ MaxScan \in Nat \ {0} /\ ReadSize \in Nat \ {0}
  /\ FrameLens \subseteq Nat /\ ChunkLens \subseteq Nat \ {0} /\ Shortfalls \subseteq Nat
  /\ MaxBytes \in Nat /\ MaxItems \in Nat /\ MaxChunks \in Nat

\* No byte has the name of another item, and lengths are those that TLC can
\* count.
MaxLength == 2147483647

ASSUME NamesAssumption == Alphabet \cap {"GET ", "CONN", "data", "close", "ping", "pong"} = {}
ASSUME LengthAssumption == ReadSize <= MaxLength /\ \A n \in FrameLens : n <= MaxLength

VARIABLES
  said,            \* items the client sent
  filled, used,    \* how many of them were read from the socket, and consumed
  client, ssh,     \* state of the two peers
  pc, kind,        \* handleConn: where it is, the protocol it detected
  scanned, match,  \* handlePayload: scanned and matchIdx
  head,            \* bytes that a reader returns before those of the bufio.Reader
  up, down,        \* the two copying goroutines
  told,            \* CloseWrite was called on the connection to sshd
  toSSH,           \* payloads written to sshd, in order
  chunks, sent,    \* writes of sshd, and the bytes in them
  taken,           \* how many of these bytes were read
  answers          \* what was written to the client, in order

stream == <<said, filled, used>>
peers  == <<client, ssh>>
detect == <<scanned, match, head, kind>>
copies == <<up, down, told>>
output == <<toSSH, answers>>
source == <<chunks, sent, taken>>
vars   == <<said, filled, used, client, ssh, pc, kind, scanned, match, head, up, down,
            told, toSSH, chunks, sent, taken, answers>>

-------------------------------------------------------------------------------
\* Items of the client's stream.
Byte(b)      == [type |-> "byte", what |-> b, len |-> 1]
Opening(r)   == [type |-> "opening", what |-> r, len |-> 4]
Rest(r)      == [type |-> "rest", what |-> r, len |-> 1]
Frame(op, n) == [type |-> "frame", what |-> op, len |-> n]

Banner == <<"S", "S", "H", "-">>
Bytes  == {Byte(b) : b \in Alphabet \cup {Banner[i] : i \in 1..4}}
Frames == {Frame("data", n) : n \in FrameLens}
            \cup {Frame(op, 0) : op \in {"close", "ping", "pong"}}

\* What a client may send next, given what it sent: a request and what goes
\* with it, or bytes.  Nothing follows a close frame.
Follows ==
  LET first == said[1] IN
  IF said = <<>> THEN Bytes \cup {Opening("GET "), Opening("CONN")}
  ELSE IF first.type = "byte"
  THEN IF Len(said) < MaxBytes THEN Bytes ELSE {}
  ELSE IF Len(said) = 1
  THEN {Rest("valid"), Rest("invalid")}
  ELSE IF said[2].what = "invalid" \/ Len(said) = MaxItems + 2 THEN {}
  ELSE IF first.what = "CONN" THEN {Byte("S")}
  ELSE IF Last(said).what = "close" THEN {}
  ELSE Frames

-------------------------------------------------------------------------------
\* The length field of a WebSocket frame, without the byte of the opcode: one
\* byte, or a marker and 16 or 64 bits.  (Lengths are at most MaxLength: of the
\* eight bytes of the long form the first four are 0 and are not looked at.)
Short(n) == <<126, (n \div 256) % 256, n % 256>>
Long(n)  == <<127, 0, 0, 0, 0, (n \div (256 * 256 * 256)) % 256, (n \div (256 * 256)) % 256,
              (n \div 256) % 256, n % 256>>

FaultyHeader(n) == IF n <= 126 THEN <<n>> ELSE IF n < 256 * 256 THEN Short(n) ELSE Long(n)

Header(n) == IF n <= 125 THEN <<n>> ELSE IF n < 256 * 256 THEN Short(n) ELSE Long(n)

\* How many bytes of a header readWSFrame consumes, and the length it finds.
HeaderSize(h) == IF h[1] = 126 THEN 3 ELSE IF h[1] = 127 THEN 9 ELSE 1

PayloadLength(h) ==
  IF h[1] = 126 THEN 256 * h[2] + h[3]
  ELSE IF h[1] = 127 THEN 256 * (256 * (256 * h[6] + h[7]) + h[8]) + h[9]
  ELSE h[1]

\* A frame is read as it was written.
WellFramed(h, n) == Len(h) = HeaderSize(h) /\ PayloadLength(h) = n

-------------------------------------------------------------------------------
Init ==
  /\ said = <<>> /\ filled = 0 /\ used = 0
  /\ client = "open" /\ ssh = "none"
  /\ pc = "peek" /\ kind = "none"
  /\ scanned = 0 /\ match = 0 /\ head = <<>>
  /\ up = "idle" /\ down = "idle" /\ told = FALSE
  /\ toSSH = <<>> /\ chunks = 0 /\ sent = 0 /\ taken = 0 /\ answers = <<>>

\* The peers.  A peer that ends its stream may go on reading or be gone; what
\* it sent can be read.  After a reset nothing can.
ClientSends ==
  /\ client = "open" /\ pc # "ended"
  /\ \E item \in Follows : said' = Append(said, item)
  /\ UNCHANGED <<filled, used, peers, pc, detect, copies, output, source>>

ClientEnds ==
  /\ client = "open" /\ pc # "ended" /\ client' = "eof"
  /\ UNCHANGED <<stream, ssh, pc, detect, copies, output, source>>

ClientResets ==
  /\ client # "reset" /\ pc # "ended" /\ client' = "reset"
  /\ UNCHANGED <<stream, ssh, pc, detect, copies, output, source>>

SSHSends ==
  /\ ssh = "open" /\ chunks < MaxChunks
  /\ chunks' = chunks + 1
  /\ \E n \in ChunkLens : sent' = sent + n
  /\ UNCHANGED <<stream, peers, pc, detect, copies, output, taken>>

SSHEnds ==
  /\ ssh = "open" /\ ssh' = "eof"
  /\ UNCHANGED <<stream, client, pc, detect, copies, output, source>>

SSHResets ==
  /\ ssh \in {"open", "eof"} /\ ssh' = "reset"
  /\ UNCHANGED <<stream, client, pc, detect, copies, output, source>>

-------------------------------------------------------------------------------
\* A read from the socket brings what has arrived; none is possible after a
\* reset, and it fails after the end when everything was read.
Fill ==
  /\ filled < Len(said) /\ client # "reset"
  /\ filled' = Len(said)

CannotFill == client = "reset" \/ (client = "eof" /\ filled = Len(said))

Ended == pc' = "ended" /\ ssh' = IF ssh = "none" THEN ssh ELSE "closed"
Say(a) == answers' = Append(answers, [what |-> a, header |-> <<>>, len |-> 0])

\* A write to a peer: certain to arrive, certain to fail, or either.
CanWrite(peer)  == peer \in {"open", "eof"}
MayFail(peer)   == peer # "open"

\* handleConn: Peek returns four bytes or an error, at the latest when
\* the deadline of 30 s has passed, which may be at any time.
Peeked == filled > 0 /\ (said[1].type = "opening" \/ filled >= 4)

IsBanner(i) == i > 0 /\ i + 3 <= Len(said) /\ \A j \in 1..4 : said[i + j - 1].what = Banner[j]

PeekMore ==
  /\ pc = "peek" /\ ~Peeked /\ Fill
  /\ UNCHANGED <<said, used, peers, pc, detect, copies, output, source>>

Dispatch ==
  /\ pc = "peek" /\ Peeked
  /\ kind' = CASE said[1].what = "GET " -> "ws"
               [] said[1].what = "CONN" -> "connect"
               [] IsBanner(1)           -> "raw"
               [] OTHER                 -> "payload"
  /\ pc' = CASE said[1].type = "opening" -> "request"
             [] IsBanner(1)              -> "dial"
             [] OTHER                    -> "scan"
  /\ UNCHANGED <<stream, peers, scanned, match, head, copies, output, source>>

PeekFails ==
  /\ pc = "peek" /\ ~Peeked
  /\ Ended
  /\ UNCHANGED <<stream, client, detect, copies, output, source>>

-------------------------------------------------------------------------------
\* readHTTPRequest, and what the handlers make of the request.  The deadline is
\* gone, so a client can take any time.
ReadMoreOfRequest ==
  /\ pc = "request" /\ filled < 2 /\ Fill
  /\ UNCHANGED <<said, used, peers, pc, detect, copies, output, source>>

RequestFails ==
  /\ pc = "request" /\ filled < 2 /\ CannotFill
  /\ Ended
  /\ UNCHANGED <<stream, client, detect, copies, output, source>>

\* 405 for another method, 400 for a request without the upgrade header,
\* nothing for a request line without a path.
RefuseRequest ==
  /\ pc = "request" /\ filled >= 2 /\ said[2].what = "invalid"
  /\ used' = 2
  /\ (CanWrite(client) /\ Say("refused")) \/ UNCHANGED answers
  /\ Ended
  /\ UNCHANGED <<said, filled, client, detect, copies, toSSH, source>>

\* A WebSocket client is told 101 before sshd is dialled.
AcceptRequest ==
  /\ pc = "request" /\ filled >= 2 /\ said[2].what = "valid"
  /\ used' = 2
  /\ \/ /\ kind = "ws" => CanWrite(client)
        /\ IF kind = "ws" THEN Say("101") ELSE UNCHANGED answers
        /\ pc' = "dial" /\ UNCHANGED ssh
     \/ /\ kind = "ws" /\ MayFail(client)
        /\ Ended /\ UNCHANGED answers
  /\ UNCHANGED <<said, filled, client, detect, copies, toSSH, source>>

-------------------------------------------------------------------------------
\* handlePayload: one byte at a time.
\* After a mismatch the byte may begin a banner of its own.
NextMatch(m, b) ==
  IF b = Banner[m + 1] THEN m + 1 ELSE IF m > 0 /\ b = Banner[1] THEN 1 ELSE 0

\* UnreadByte takes back the "-"; the rest comes from a MultiReader.
FaultyPushBack == Banner
PushBack == <<"S", "S", "H">>

ScanMore ==
  /\ pc = "scan" /\ scanned < MaxScan /\ used = filled /\ Fill
  /\ UNCHANGED <<said, used, peers, pc, detect, copies, output, source>>

ScanByte ==
  /\ pc = "scan" /\ scanned < MaxScan /\ used < filled
  /\ scanned' = scanned + 1
  /\ match' = NextMatch(match, said[used + 1].what)
  /\ IF match' = 4
     THEN pc' = "dial" /\ head' = PushBack /\ UNCHANGED used
     ELSE used' = used + 1 /\ UNCHANGED <<pc, head>>
  /\ UNCHANGED <<said, filled, peers, kind, copies, output, source>>

\* The connection is dropped at the limit, or when the client has gone.
FaultyScanFails ==
  /\ pc = "scan"
  /\ scanned >= MaxScan - 1 \/ (used = filled /\ CannotFill)
  /\ Ended
  /\ UNCHANGED <<stream, client, detect, copies, output, source>>

ScanFails ==
  /\ pc = "scan"
  /\ scanned = MaxScan \/ (used = filled /\ CannotFill)
  /\ Ended
  /\ UNCHANGED <<stream, client, detect, copies, output, source>>

-------------------------------------------------------------------------------
\* The goroutines start.  What they read from comes after the bytes of the
\* bufio.Reader: a peekedConn or a readerConn, and br itself for a WebSocket.
FaultyFirstUnread == filled

FirstUnread == used

StartRelay == pc' = "relay" /\ up' = "copying" /\ down' = "copying" /\ used' = FirstUnread

\* Each handler dials; a CONNECT is answered before the relay starts.
Dial ==
  /\ pc = "dial" /\ ssh' = "open"
  /\ IF kind = "connect" THEN pc' = "reply" /\ UNCHANGED <<up, down, used>> ELSE StartRelay
  /\ UNCHANGED <<said, filled, client, detect, told, output, source>>

\* 502 for a CONNECT, a close frame for a WebSocket, nothing for the others.
DialFails ==
  /\ pc = "dial"
  /\ IF kind \in {"connect", "ws"} /\ CanWrite(client)
     THEN Say(IF kind = "ws" THEN "close" ELSE "refused") ELSE UNCHANGED answers
  /\ Ended
  /\ UNCHANGED <<stream, client, detect, copies, toSSH, source>>

Reply ==
  /\ pc = "reply"
  /\ \/ CanWrite(client) /\ Say("200") /\ StartRelay /\ UNCHANGED ssh
     \/ MayFail(client) /\ Ended /\ UNCHANGED <<up, down, used, answers>>
  /\ UNCHANGED <<said, filled, client, detect, told, toSSH, source>>

-------------------------------------------------------------------------------
\* Client to sshd.  What was pushed back comes first.
CanRead == head # <<>> \/ used < filled
NextItem == IF head # <<>> THEN Byte(Head(head)) ELSE said[used + 1]

UpRead ==
  /\ up = "copying" /\ ~CanRead /\ Fill
  /\ UNCHANGED <<said, used, peers, pc, detect, copies, output, source>>

\* What a data item becomes on the way.  A payload of length 0 writes nothing,
\* and a pong is written to sshd, the connection wsToTCP was given.
PayloadOf(item) ==
  IF item.type = "byte" THEN <<item>>
  ELSE IF ~WellFramed(Header(item.len), item.len) THEN <<[item EXCEPT !.what = "garbage"]>>
  ELSE IF item.what = "data" THEN IF item.len = 0 THEN <<>> ELSE <<item>>
  ELSE IF item.what = "ping" THEN <<Frame("pong", 0)>>
  ELSE <<>>

\* After a failed write io.Copy and wsToTCP return; a failed pong is ignored.
UpWrite ==
  /\ up = "copying" /\ CanRead /\ NextItem.what # "close"
  /\ IF head # <<>> THEN head' = Tail(head) /\ UNCHANGED used
                    ELSE used' = used + 1 /\ UNCHANGED head
  /\ \/ CanWrite(ssh) /\ toSSH' = toSSH \o PayloadOf(NextItem) /\ UNCHANGED up
     \/ /\ MayFail(ssh) /\ UNCHANGED toSSH
        /\ up' = IF NextItem.len = 0 THEN up ELSE "ending"
  /\ UNCHANGED <<said, filled, peers, pc, kind, scanned, match, down, told, answers, source>>

UpStops ==
  /\ up = "copying"
  /\ \/ ~CanRead /\ CannotFill
     \/ CanRead /\ NextItem.what = "close"
  /\ up' = "ending"
  /\ UNCHANGED <<stream, peers, pc, detect, down, told, output, source>>

\* The other end of the connection to sshd is a *net.TCPConn.
FaultyUpEnds ==
  /\ up = "ending" /\ up' = "done"
  /\ UNCHANGED <<stream, peers, pc, detect, down, told, output, source>>

UpEnds ==
  /\ up = "ending" /\ up' = "done" /\ told' = TRUE
  /\ UNCHANGED <<stream, peers, pc, detect, down, output, source>>

-------------------------------------------------------------------------------
\* sshd to client: what a read brings, buf[:n].  It may bring less than has
\* arrived and the buffer would hold.
FaultyReadCount == ReadSize

ReadCount == IF sent - taken > ReadSize THEN ReadSize ELSE sent - taken

ReadCounts == {ReadCount} \cup {ReadCount - k : k \in {k \in Shortfalls : k < ReadCount}}

DownCopyOf(n) ==
  /\ down = "copying" /\ sent > taken /\ ssh # "reset"
  /\ taken' = taken + n
  /\ \/ /\ CanWrite(client) /\ UNCHANGED down
        /\ answers' = Append(answers, [what |-> "bytes", len |-> n,
                                       header |-> IF kind = "ws" THEN Header(n) ELSE <<>>])
     \/ MayFail(client) /\ down' = "done" /\ UNCHANGED answers
  /\ UNCHANGED <<stream, peers, pc, detect, up, told, toSSH, chunks, sent>>

DownCopy == \E n \in ReadCounts : DownCopyOf(n)

\* At the end of sshd's stream, or an error, a WebSocket client gets a close
\* frame.  The others get nothing: the connection to the client is a
\* peekedConn or a readerConn, and only a *net.TCPConn is half-closed.
SSHFinished == ssh = "reset" \/ (ssh = "eof" /\ taken = sent)

FaultyDownEnds ==
  /\ down = "copying" /\ SSHFinished /\ down' = "done"
  /\ UNCHANGED <<stream, peers, pc, detect, up, told, output, source>>

DownEnds ==
  /\ down = "copying" /\ SSHFinished /\ down' = "done"
  /\ IF kind = "ws" /\ CanWrite(client) THEN Say("close") ELSE UNCHANGED answers
  /\ UNCHANGED <<stream, peers, pc, detect, up, told, toSSH, source>>

\* wg.Wait returns and the deferred calls close both connections.
Finish ==
  /\ pc = "relay" /\ up = "done" /\ down = "done"
  /\ Ended
  /\ UNCHANGED <<stream, client, detect, copies, output, source>>

-------------------------------------------------------------------------------
Peek    == PeekMore \/ Dispatch \/ PeekFails
Request == ReadMoreOfRequest \/ RequestFails \/ RefuseRequest \/ AcceptRequest
Scan    == ScanMore \/ ScanByte \/ ScanFails
Connect == Dial \/ DialFails \/ Reply
Up      == UpRead \/ UpWrite \/ UpStops \/ UpEnds
Down    == DownCopy \/ DownEnds

Server == Peek \/ Request \/ Scan \/ Connect \/ Finish
Next ==
  \/ ClientSends \/ ClientEnds \/ ClientResets
  \/ SSHSends \/ SSHEnds \/ SSHResets
  \/ Server \/ Up \/ Down

\* The runtime and the network serve every goroutine; sshd ends a connection
\* whose client side has ended; a WebSocket client answers a close frame by
\* ending its side.  Nothing forces a client to send.
PoliteClient == ClientEnds /\ \E i \in DOMAIN answers : answers[i].what = "close"
PoliteSSH    == SSHEnds /\ told

Fairness ==
  /\ WF_vars(Server) /\ WF_vars(Up) /\ WF_vars(Down)
  /\ WF_vars(PoliteClient) /\ WF_vars(PoliteSSH)

Spec == Init /\ [][Next]_vars /\ Fairness

-------------------------------------------------------------------------------
\* The types of all variables.
Answer == [what : {"101", "200", "refused", "close", "bytes"}, len : Nat, header : Seq(0..255)]
PeerStates == {"open", "eof", "reset"}

TypeOK ==
  /\ filled \in 0..Len(said) /\ used \in 0..filled
  /\ client \in PeerStates /\ ssh \in PeerStates \cup {"none", "closed"}
  /\ pc \in {"peek", "request", "scan", "dial", "reply", "relay", "ended"}
  /\ kind \in {"none", "raw", "payload", "connect", "ws"}
  /\ scanned \in 0..MaxScan /\ match \in 0..4 /\ Len(head) <= 4
  /\ up \in {"idle", "copying", "ending", "done"} /\ down \in {"idle", "copying", "done"}
  /\ told \in BOOLEAN
  /\ sent \in Nat /\ taken \in 0..sent
  /\ answers \in Seq(Answer)

\* The streams the client can mean for sshd: the payloads of its WebSocket
\* frames in their order, what follows its CONNECT, or what begins with a banner
\* and comes after no banner that the proxy should have seen.
FairBanner(i) == IsBanner(i) /\ (i = 1 \/ said[i - 1].what # "S")

DataFrames == {i \in DOMAIN said : said[i].what = "data" /\ said[i].len > 0}

InOrder(S) == {f \in [1..Cardinality(S) -> S] : \A j, k \in DOMAIN f : j < k => f[j] < f[k]}

MeantForSSH ==
  IF said = <<>> THEN {}
  ELSE CASE said[1].what = "GET " -> {[k \in DOMAIN f |-> said[f[k]]] : f \in InOrder(DataFrames)}
         [] said[1].what = "CONN" -> {SubSeq(said, 3, Len(said))}
         [] OTHER -> {SubSeq(said, i, Len(said)) :
                        i \in {i \in DOMAIN said : IsBanner(i) /\ \A j \in 1..(i - 1) : ~FairBanner(j)}}

Pinged == \E i \in DOMAIN said : said[i].what = "ping"

\* What reaches sshd is a prefix of the client's SSH stream: nothing of the
\* payload or of a header comes through, nothing is repeated, dropped in the
\* middle or put in between, whatever arrived early in the proxy's buffer
\* (peekedConn, readerConn, the bytes pushed back, readWSFrame).  A client that
\* pings gets its pong into the SSH stream: wsToTCP writes it to dst.
NothingInserted ==
  toSSH # <<>> /\ ~Pinged => \E s \in MeantForSSH : IsPrefix(toSSH, s)

\* When the client has ended its stream and sshd is still there, sshd has got
\* all of the stream before it is told of the end, also what the client sent
\* together with its request.
NothingLost ==
  up \in {"ending", "done"} /\ client # "reset" /\ ssh = "open" /\ ~Pinged => toSSH \in MeantForSSH

\* A client that is there reads, frame by frame as the headers say, exactly the
\* bytes that were read from sshd, and all of them before the close frame.
BytesIn(a) == IF a.header = <<>> THEN a.len ELSE PayloadLength(a.header)

Received[n \in 0..Len(answers)] == IF n = 0 THEN 0 ELSE Received[n - 1] + BytesIn(answers[n])

DownFaithful ==
  client = "open" =>
    /\ \A i \in DOMAIN answers :
         /\ answers[i].header # <<>> => WellFramed(answers[i].header, answers[i].len)
         /\ answers[i].what = "close" /\ pc = "relay" /\ ssh = "eof" => taken = sent
    /\ Received[Len(answers)] = taken

\* A banner within the limit is found: the scan gives up only if there is none,
\* except one that follows another "S", which the reset of the match to its
\* first byte does not see.
BannerFound ==
  kind = "payload" /\ pc # "scan" /\ client # "reset" =>
    (match = 4 \/ ~ \E i \in 1..(MaxScan - 3) : FairBanner(i))

\* A client that has gone takes its connection with it: sshd is told of the
\* end, and when it has closed too both goroutines return.
ClientGoneEnds == client # "open" ~> pc = "ended"

\* When sshd has gone a WebSocket client is told and the connection ends.  The
\* other kinds of clients are not told: their connection may stay for ever.
SSHGoneEnds == (kind = "ws" /\ ssh \in {"eof", "reset"}) ~> pc = "ended"
===============================================================================
