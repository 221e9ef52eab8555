---------------------------- MODULE AnswerProofs ----------------------------
(***************************************************************************)
(* The theorem about what the echo servers answer, in all of them and for  *)
(* any number of clients, requests, threads and coroutines, any sizes of   *)
(* messages and buffers: what a client gets is as long as what it asked    *)
(* for, and no answer mixes with the next.                                 *)
(***************************************************************************)
EXTENDS ServersProofs

(***************************************************************************)
(* The stages of a Conn: it reads a request, has got it, or writes the     *)
(* answer.                                                                 *)
(***************************************************************************)
(* The length of the message last asked for. *)
Message(k) == HeadLen + Body(k.req)

IsPacket(p) == p \in [len : Nat, use_len : Nat, parse_len : Nat]

IsCodec(x) ==
  x \in [decode_status : {"HEAD", "BODY", "FINISH"}, body_len : Nat, msg : BOOLEAN,
         pkt : [len : Nat, use_len : Nat, parse_len : Nat]]

(* Something is missing: of the head, or of the body, of length `body'. *)
Decoding(x, body) ==
  /\ IsCodec(x) /\ ~ x.msg
  /\ \/ /\ x.decode_status = "HEAD" /\ x.pkt.parse_len = 0
        /\ x.pkt.use_len < HeadLen /\ HeadLen <= x.pkt.len
     \/ /\ x.decode_status = "BODY" /\ x.pkt.parse_len = HeadLen /\ x.body_len = body
        /\ HeadLen <= x.pkt.use_len /\ x.pkt.use_len < HeadLen + body
        /\ HeadLen + body <= x.pkt.len

Decoded(x) == IsCodec(x) /\ x.decode_status = "FINISH" /\ HeadLen <= x.pkt.len

(* A request that the client waits for is under way and `used' of it has been
   read; a part may have been lost with the socket.  Or there is none. *)
Asked(k, used) ==
  \/ k.outbox = k.want /\ k.unsent = 0 /\ k.inbox = 0 /\ used = 0
  \/ k.outbox = 0 /\ k.want = Message(k) /\ k.unsent + k.inbox + used <= Message(k)

(* What a completion knows and the Conn does not yet. *)
Undecoded(k) == IF k.op = "was read" THEN k.res ELSE 0

Reading(k) ==
  /\ Decoding(k.codec, Body(k.req)) /\ k.pkt.use_len = 0 /\ k.send_len = 0
  /\ k.op \in {"none", "was accepted", "read", "was read"}
  /\ k.op = "was read" => k.res > 0 /\ k.codec.pkt.use_len + k.res <= k.codec.pkt.len
  /\ Asked(k, k.codec.pkt.use_len + Undecoded(k))

Got(k) ==
  /\ Decoded(k.codec) /\ k.codec.msg /\ k.codec.body_len = Body(k.req)
  /\ k.pkt.use_len = 0 /\ k.send_len = 0 /\ k.op # "written"
  /\ k.want = Message(k) /\ k.unsent = 0 /\ k.inbox = 0 /\ k.outbox = 0

Written(k) == k.send_len + IF k.op = "written" THEN k.res ELSE 0

Writing(k) ==
  /\ Decoded(k.codec) /\ ~ k.codec.msg /\ k.op \in {"none", "write", "written"}
  /\ \/ /\ Written(k) < k.pkt.use_len /\ k.unsent = 0 /\ k.inbox = 0
        /\ k.outbox + k.pkt.use_len - Written(k) = k.want
     \/ Written(k) = k.pkt.use_len /\ k.op = "written" /\ Asked(k, 0)

Counts(k) ==
  /\ k.req \in Nat /\ k.unsent \in Nat /\ k.want \in Nat /\ k.inbox \in Nat
  /\ k.outbox \in Nat /\ k.outbox <= SendBuf /\ k.send_len \in Nat /\ k.res \in Nat
  /\ k.pkt.use_len \in Nat /\ IsPacket(k.pkt)

Staged(k) == Counts(k) /\ (Reading(k) \/ Got(k) \/ Writing(k))

(* The servers whose threads are with one connection until it ends: none has
   the event of an answer watched. *)
OneByOne == BlockingNames \cup {"MultiProcess", "Epoll", "Poll", "Select"}

(* What the connection is registered for, and what has been submitted for it,
   fit the stage. *)
Fits(k) ==
  /\ k.event.type = "write" => Writing(k) /\ server.name \notin OneByOne
  /\ k.op \in {"was accepted", "read", "was read"} => Reading(k)
  /\ k.op \in {"write", "written"} => Writing(k)
  /\ IF server.name \in OnRing THEN k.event.type = "none" /\ (k.op = "none" => Reading(k))
     ELSE k.op = "none"
  /\ k.listener # 0 \/ k.phase = "new" => Reading(k) /\ k.op = "none" /\ k.event.type = "none"

(* Only a connection that the server has refused has an error. *)
Clean(k) ==
  k.error => /\ k.phase # "new" /\ k.fds = {} /\ k.listener = 0
             /\ server.name \notin OnRing \cup {"EpollReactorProcessPoolMS"}

Fine(k) == Staged(k) /\ Fits(k) /\ Clean(k)

(* A thread that is busy with the connection is where the stage has it. *)
ToWrite == {"send", "writing", "idle", "work"}
ToPush  == {"push", "slot"}

Stands(place, k) ==
  /\ place \in ToWrite => Writing(k)
  /\ place \in ToPush => Got(k)
  /\ place # "close"

Placed(c) ==
  /\ \A t \in Thread : thread[t].cur = c => Stands(thread[t].pc, conn[c])
  /\ server.name \in HandOver => \A i \in 1 .. Len(queue) : queue[i] = c => Got(conn[c])
  /\ server.name \in CoNames /\ conn[c].cid = "writing" =>
       Writing(conn[c]) \/ \E t \in Thread : thread[t].cur = c

(* Of a connection that the client has closed nothing is said. *)
AnswerInv == \A c \in Client : conn[c].phase # "down" => Fine(conn[c]) /\ Placed(c)

-----------------------------------------------------------------------------
(***************************************************************************)
(* What the operators on a connection do to its stage.                     *)
(***************************************************************************)
LEMMA BodyIs == ASSUME NEW req \in Nat PROVE Body(req) \in Nat
  BY DEF Body

LEMMA StageHolds ==
  ASSUME NEW k, Staged(k)
  PROVE  /\ k.outbox + (k.pkt.use_len - Written(k)) \in {0, k.want}
  <1>1. Counts(k)
    BY DEF Staged
  <1>2. CASE Reading(k)
    <2>1. Written(k) = 0 /\ k.pkt.use_len = 0
      <3>1. k.op # "written" /\ k.send_len = 0 /\ k.pkt.use_len = 0
        BY <1>2 DEF Reading
      <3>2. QED
        BY <3>1 DEF Written
    <2>2. k.outbox \in {0, k.want}
      BY <1>2 DEF Reading, Asked
    <2>3. QED
      BY <1>1, <2>1, <2>2 DEF Counts
  <1>3. CASE Got(k)
    <2>1. Written(k) = 0 /\ k.pkt.use_len = 0 /\ k.outbox = 0
      <3>1. k.op # "written" /\ k.send_len = 0 /\ k.pkt.use_len = 0 /\ k.outbox = 0
        BY <1>3 DEF Got
      <3>2. QED
        BY <3>1 DEF Written
    <2>2. QED
      BY <2>1
  <1>4. CASE Writing(k)
    <2>1. Written(k) \in Nat
      BY <1>1 DEF Written, Counts
    <2>2. CASE Written(k) < k.pkt.use_len
      BY <1>1, <1>4, <2>1, <2>2 DEF Writing, Counts
    <2>3. CASE Written(k) = k.pkt.use_len /\ Asked(k, 0)
      BY <1>1, <2>1, <2>3 DEF Asked, Counts
    <2>4. QED
      BY <1>4, <2>2, <2>3 DEF Writing
  <1>5. QED
    BY <1>2, <1>3, <1>4 DEF Staged

(* The codec: a part of the message has arrived, or the rest of it. *)
LEMMA WithPkt ==
  ASSUME NEW x, IsCodec(x), NEW p
  PROVE  [x EXCEPT !.pkt = p] = [decode_status |-> x.decode_status, body_len |-> x.body_len,
                                 msg |-> x.msg, pkt |-> p]
  BY DEF IsCodec

LEMMA DeCodeGives ==
  ASSUME NEW body \in Nat, NEW x, Decoding(x, body), NEW n \in Nat,
         x.pkt.use_len + n <= HeadLen + body, x.pkt.use_len + n <= x.pkt.len,
         NEW y, y = DeCode(x, n, body)
  PROVE  /\ y.pkt.use_len = x.pkt.use_len + n
         /\ \/ Decoding(y, body)
            \/ /\ Decoded(y) /\ y.msg /\ y.body_len = body
               /\ y.pkt.use_len = HeadLen + body
  <1> USE CodecAssumption
  <1> DEFINE use == x.pkt.use_len + n
             len == x.pkt.len
             big == IF HeadLen + body < len THEN len ELSE HeadLen + body
             a == [x EXCEPT !.pkt = UpdateUseLen(@, n)]
             b == decodeHead(a, body)
             Codec(s, l, m, p) == [decode_status |-> s, body_len |-> l, msg |-> m, pkt |-> p]
             Pkt(l, u, p) == [len |-> l, use_len |-> u, parse_len |-> p]
  <1>1. /\ x = Codec(x.decode_status, x.body_len, FALSE, Pkt(len, x.pkt.use_len, x.pkt.parse_len))
        /\ len \in Nat /\ x.pkt.use_len \in Nat /\ use \in Nat /\ x.body_len \in Nat
    BY DEF Decoding, IsCodec
  <1>2. a = Codec(x.decode_status, x.body_len, FALSE, Pkt(len, use, x.pkt.parse_len))
    <2>1. /\ x.pkt = Pkt(len, x.pkt.use_len, x.pkt.parse_len)
          /\ x = Codec(x.decode_status, x.body_len, FALSE, Pkt(len, x.pkt.use_len, x.pkt.parse_len))
      BY <1>1 DEF Decoding, IsCodec
    <2>2. UpdateUseLen(x.pkt, n) = Pkt(len, use, x.pkt.parse_len)
      BY <2>1 DEF UpdateUseLen
    <2>3. a = Codec(x.decode_status, x.body_len, FALSE, UpdateUseLen(x.pkt, n))
      <3>1. IsCodec(x) /\ x.msg = FALSE
        BY <2>1 DEF Decoding
      <3>2. a = Codec(x.decode_status, x.body_len, x.msg, UpdateUseLen(x.pkt, n))
        BY <3>1, WithPkt
      <3>3. QED
        BY <3>1, <3>2
    <2>4. QED
      BY <2>2, <2>3
  <1>3. y = decodeBody(b)
    BY DEF DeCode
  <1> HIDE DEF a
  <1>4. b = IF use < HeadLen THEN a ELSE Codec("BODY", body, FALSE, Pkt(big, use, HeadLen))
    <2>1. CASE x.decode_status = "HEAD"
      <3>1. /\ x.pkt.parse_len = 0 /\ NeedParseLen(a.pkt) = use
            /\ a = Codec("HEAD", x.body_len, FALSE, Pkt(len, use, 0))
        <4>1. x.pkt.parse_len = 0
          BY <2>1 DEF Decoding
        <4>2. a = Codec("HEAD", x.body_len, FALSE, Pkt(len, use, 0))
          BY <1>2, <2>1, <4>1
        <4>3. NeedParseLen(a.pkt) = use - 0
          BY <4>2 DEF NeedParseLen
        <4>4. QED
          BY <1>1, <4>1, <4>2, <4>3
      <3>2. CASE use < HeadLen
        BY <3>1, <3>2 DEF decodeHead
      <3>3. CASE ~ use < HeadLen
        <4>1. UpdateParseLen(a.pkt, HeadLen) = Pkt(len, use, HeadLen)
          BY <3>1 DEF UpdateParseLen
        <4>2. ReAlloc(Pkt(len, use, HeadLen), HeadLen + body) = Pkt(big, use, HeadLen)
          BY <1>1 DEF ReAlloc
        <4>3. b = [a EXCEPT !.decode_status = "BODY", !.body_len = body,
                            !.pkt = ReAlloc(UpdateParseLen(a.pkt, HeadLen), HeadLen + body)]
          BY <1>1, <3>1, <3>3 DEF decodeHead
        <4>4. QED
          BY <3>1, <3>3, <4>1, <4>2, <4>3
      <3>4. QED
        BY <3>2, <3>3
    <2>2. CASE x.decode_status = "BODY"
      <3>1. /\ x.pkt.parse_len = HeadLen /\ x.body_len = body /\ HeadLen + body <= len
            /\ HeadLen <= x.pkt.use_len
        BY <2>2 DEF Decoding
      <3>2. b = a /\ ~ use < HeadLen /\ big = len
        BY <1>1, <1>2, <2>2, <3>1 DEF decodeHead
      <3>3. QED
        BY <1>2, <2>2, <3>1, <3>2
    <2>3. QED
      BY <2>1, <2>2 DEF Decoding
  <1>5. big \in Nat /\ HeadLen + body <= big
    BY <1>1
  <1> HIDE DEF b
  <1>6. CASE use < HeadLen
    <2>1. x.decode_status = "HEAD" /\ x.pkt.parse_len = 0 /\ HeadLen <= len
      BY <1>1, <1>6 DEF Decoding
    <2>2. y = Codec("HEAD", x.body_len, FALSE, Pkt(len, use, 0))
      BY <1>2, <1>3, <1>4, <1>6, <2>1 DEF decodeBody
    <2>3. QED
      BY <1>1, <1>6, <2>1, <2>2 DEF Decoding, IsCodec
  <1>7. CASE ~ use < HeadLen
    <2>1. b = Codec("BODY", body, FALSE, Pkt(big, use, HeadLen)) /\ NeedParseLen(b.pkt) = use - HeadLen
      BY <1>1, <1>4, <1>7 DEF NeedParseLen
    <2>2. CASE use < HeadLen + body
      <3>1. y = b
        BY <1>1, <1>3, <2>1, <2>2 DEF decodeBody
      <3>2. QED
        BY <1>1, <1>5, <1>7, <2>1, <2>2, <3>1 DEF Decoding, IsCodec
    <2>3. CASE ~ use < HeadLen + body
      <3>1. y = [b EXCEPT !.decode_status = "FINISH", !.msg = TRUE, !.pkt = UpdateParseLen(@, b.body_len)]
        BY <1>1, <1>3, <2>1, <2>3 DEF decodeBody
      <3>2. UpdateParseLen(b.pkt, b.body_len) = Pkt(big, use, HeadLen + body)
        BY <2>1 DEF UpdateParseLen
      <3>3. y = Codec("FINISH", body, TRUE, Pkt(big, use, HeadLen + body))
        BY <2>1, <3>1, <3>2
      <3>4. use = HeadLen + body
        BY <1>1, <2>3
      <3>5. QED
        BY <1>1, <1>5, <3>3, <3>4 DEF Decoded, IsCodec
    <2>4. QED
      BY <2>2, <2>3
  <1>8. QED
    BY <1>6, <1>7

(* The same to the client and to the Conn; what has arrived may be lost. *)
SameTalk(k, r) ==
  /\ r.req = k.req /\ r.unsent = k.unsent /\ r.want = k.want
  /\ r.outbox = k.outbox /\ r.inbox \in {0, k.inbox}
  /\ r.codec = k.codec /\ r.pkt = k.pkt /\ r.send_len = k.send_len
  /\ r.op = k.op /\ r.res = k.res

(* Nothing of the stage is lost. *)
SameStage(k, r) ==
  /\ Counts(k) => Counts(r)
  /\ Reading(k) => Reading(r)
  /\ Got(k) => Got(r)
  /\ Writing(k) => Writing(r)

LEMMA StageStays == ASSUME NEW k, NEW r, SameStage(k, r), Staged(k) PROVE Staged(r)
  BY DEF SameStage, Staged

(* What of the request has been read. *)
LEMMA UsedIs ==
  ASSUME NEW k, Counts(k), Reading(k)
  PROVE  /\ k.codec.pkt.use_len \in Nat /\ Undecoded(k) \in Nat
         /\ k.codec.pkt.use_len + Undecoded(k) \in Nat
  <1>1. k.codec.pkt.use_len \in Nat
    BY DEF Reading, Decoding, IsCodec
  <1>2. Undecoded(k) \in Nat
    BY DEF Undecoded, Counts
  <1>3. \A n, m \in Nat : n + m \in Nat
    OBVIOUS
  <1>4. QED
    BY ONLY <1>1, <1>2, <1>3

LEMMA TalkStays ==
  ASSUME NEW k, NEW r, Counts(k), SameTalk(k, r)
  PROVE  SameStage(k, r)
  <1> USE DEF SameTalk
  <1>1. Counts(r)
    BY DEF Counts
  <1>2. Message(r) = Message(k) /\ Undecoded(r) = Undecoded(k) /\ Written(r) = Written(k)
    BY DEF Message, Undecoded, Written
  <1>3. Written(r) = Written(k)
    BY <1>2 DEF Written
  <1>4. Message(k) \in Nat
    BY BodyIs, CodecAssumption DEF Counts, Message
  <1>5. ASSUME NEW used \in Nat, Asked(k, used) PROVE Asked(r, used)
    <2>1. CASE k.outbox = k.want /\ k.unsent = 0 /\ k.inbox = 0 /\ used = 0
      BY <2>1 DEF Asked
    <2>2. CASE k.outbox = 0 /\ k.want = Message(k) /\ k.unsent + k.inbox + used <= Message(k)
      <3>1. r.unsent + r.inbox + used <= Message(r)
        BY <1>2, <1>4, <2>2 DEF Counts
      <3>2. QED
        BY <1>2, <2>2, <3>1 DEF Asked
    <2>3. QED
      BY <1>5, <2>1, <2>2 DEF Asked
  <1>6. Reading(k) => Reading(r)
    <2> SUFFICES ASSUME Reading(k) PROVE Reading(r)
      OBVIOUS
    <2>1. k.codec.pkt.use_len + Undecoded(k) \in Nat
      BY UsedIs
    <2>2. Asked(r, r.codec.pkt.use_len + Undecoded(r))
      BY <1>2, <1>5, <2>1 DEF Reading
    <2>3. QED
      BY <2>2 DEF Reading
  <1>7. Got(k) => Got(r)
    BY <1>2 DEF Got
  <1>8. Writing(k) => Writing(r)
    BY <1>3, <1>5 DEF Writing
  <1>9. QED
    BY <1>1, <1>6, <1>7, <1>8 DEF SameStage

(* The client asks, sends a part of the request, takes a part of the answer. *)
LEMMA AskStays ==
  ASSUME NEW k, IsConn(k), Counts(k), k.want = 0, NEW len, len = HeadLen + Body(k.req + 1),
         NEW r, r = [k EXCEPT !.req = @ + 1, !.unsent = len, !.want = len]
  PROVE  SameStage(k, r)
  <1> USE CodecAssumption
  <1>1. /\ r.req = k.req + 1 /\ r.unsent = len /\ r.want = len
        /\ r.inbox = k.inbox /\ r.outbox = k.outbox /\ r.codec = k.codec /\ r.pkt = k.pkt
        /\ r.send_len = k.send_len /\ r.op = k.op /\ r.res = k.res
    BY DEF IsConn, Fields
  <1>2. Body(k.req) \in Nat /\ Body(k.req + 1) \in Nat /\ len \in Nat /\ Message(k) \in Nat
    BY BodyIs DEF Counts, Message
  <1>3. Counts(r)
    BY <1>1, <1>2 DEF Counts
  <1>4. Message(r) = len /\ Message(k) # 0
    BY <1>1, <1>2 DEF Message
  <1>5. ASSUME NEW used \in Nat, Asked(k, used)
        PROVE  k.outbox = 0 /\ used = 0 /\ Asked(r, used)
    <2>1. k.outbox = 0 /\ k.inbox = 0 /\ used = 0
      BY <1>4, <1>5 DEF Asked
    <2>2. QED
      BY <1>1, <1>2, <1>4, <2>1 DEF Asked
  <1>6. Reading(k) => Reading(r)
    <2> SUFFICES ASSUME Reading(k) PROVE Reading(r)
      OBVIOUS
    <2> DEFINE use == k.codec.pkt.use_len
               new == Undecoded(k)
    <2>1. use \in Nat /\ new \in Nat /\ use + new \in Nat
      BY UsedIs
    <2>2. Asked(k, use + new)
      BY DEF Reading
    <2>3. Undecoded(r) = new
      BY <1>1 DEF Undecoded
    <2> HIDE DEF new
    <2>4. use + new = 0 /\ Asked(r, use + new)
      BY <1>5, <2>1, <2>2
    <2>5. use = 0
      BY <2>1, <2>4
    <2>6. Decoding(r.codec, Body(r.req))
      <3>1. Decoding(k.codec, Body(k.req))
        BY DEF Reading
      <3>2. ~ HeadLen <= k.codec.pkt.use_len
        BY <2>5
      <3>3. QED
        BY <1>1, <3>1, <3>2 DEF Decoding
    <2>7. QED
      BY <1>1, <2>3, <2>4, <2>6 DEF Reading
  <1>7. ~ Got(k)
    BY <1>4 DEF Got
  <1>8. Writing(k) => Writing(r)
    <2> SUFFICES ASSUME Writing(k) PROVE Writing(r)
      OBVIOUS
    <2>1. Written(r) = Written(k) /\ Written(k) \in Nat
      BY <1>1 DEF Written, Counts
    <2>2. Written(k) = k.pkt.use_len /\ k.op = "written" /\ Asked(k, 0)
      BY <2>1 DEF Writing, Counts
    <2>3. QED
      BY <1>1, <1>5, <2>1, <2>2 DEF Writing
  <1>9. QED
    BY <1>3, <1>6, <1>7, <1>8 DEF SameStage

LEMMA SendStays ==
  ASSUME NEW k, IsConn(k), Counts(k), NEW n \in Nat, n <= k.unsent, 0 < n, NEW in \in {0, k.inbox + n},
         NEW r, r = [k EXCEPT !.unsent = @ - n, !.inbox = in]
  PROVE  SameStage(k, r)
  <1>1. /\ r.unsent = k.unsent - n /\ r.inbox = in /\ r.req = k.req /\ r.want = k.want
        /\ r.outbox = k.outbox /\ r.codec = k.codec /\ r.pkt = k.pkt
        /\ r.send_len = k.send_len /\ r.op = k.op /\ r.res = k.res
    BY DEF IsConn, Fields
  <1>2. Counts(r)
    BY <1>1 DEF Counts
  <1>3. /\ Message(r) = Message(k) /\ Message(k) \in Nat
        /\ Undecoded(r) = Undecoded(k) /\ Written(r) = Written(k)
    BY <1>1, BodyIs, CodecAssumption DEF Message, Undecoded, Written, Counts
  <1>4. ASSUME NEW used \in Nat, Asked(k, used) PROVE Asked(r, used)
    <2>1. /\ k.outbox = 0 /\ k.want = Message(k)
          /\ k.unsent + k.inbox + used <= Message(k)
      BY <1>4 DEF Asked, Counts
    <2>2. r.unsent + r.inbox + used <= Message(r)
      BY <1>1, <1>3, <2>1 DEF Counts
    <2>3. QED
      BY <1>1, <1>3, <2>1, <2>2 DEF Asked
  <1>5. Reading(k) => Reading(r)
    <2> SUFFICES ASSUME Reading(k) PROVE Reading(r)
      OBVIOUS
    <2>1. k.codec.pkt.use_len + Undecoded(k) \in Nat
      BY UsedIs
    <2>2. Asked(k, k.codec.pkt.use_len + Undecoded(k))
      BY DEF Reading
    <2>3. Asked(r, k.codec.pkt.use_len + Undecoded(r))
      BY <1>3, <1>4, <2>1, <2>2
    <2>4. QED
      BY <1>1, <1>3, <2>3 DEF Reading
  <1>6. ~ Got(k)
    BY DEF Got, Counts
  <1>7. Writing(k) => Writing(r)
    <2> SUFFICES ASSUME Writing(k) PROVE Writing(r)
      OBVIOUS
    <2>1. Written(r) = Written(k)
      BY <1>1, <1>3 DEF Written
    <2>2. Written(k) = k.pkt.use_len /\ k.op = "written" /\ Asked(k, 0)
      BY DEF Writing, Counts
    <2>3. QED
      BY <1>1, <1>4, <2>1, <2>2 DEF Writing
  <1>8. QED
    BY <1>2, <1>5, <1>6, <1>7 DEF SameStage

LEMMA TakeStays ==
  ASSUME NEW k, IsConn(k), Staged(k), k.outbox > 0,
         NEW r, r = [k EXCEPT !.want = @ - k.outbox, !.outbox = 0]
  PROVE  SameStage(k, r)
  <1>0. Counts(k)
    BY DEF Staged
  <1>1. /\ r.want = k.want - k.outbox /\ r.outbox = 0 /\ r.unsent = k.unsent /\ r.inbox = k.inbox
        /\ r.req = k.req /\ r.codec = k.codec /\ r.pkt = k.pkt
        /\ r.send_len = k.send_len /\ r.op = k.op /\ r.res = k.res
    BY DEF IsConn, Fields
  <1>2. ASSUME NEW used, Asked(k, used)
        PROVE  k.outbox = k.want /\ Asked(r, used)
    BY <1>0, <1>1, <1>2 DEF Asked, Counts
  <1>3. Undecoded(r) = Undecoded(k) /\ Written(r) = Written(k)
    BY <1>1 DEF Undecoded, Written
  <1>4. Written(r) = Written(k) /\ Written(k) \in Nat
    BY <1>0, <1>1, <1>3 DEF Written, Counts
  <1>5. CASE Reading(k)
    <2>1. Asked(k, k.codec.pkt.use_len + Undecoded(k))
      BY <1>5 DEF Reading
    <2>2. k.outbox = k.want /\ Asked(r, k.codec.pkt.use_len + Undecoded(k))
      BY <1>2, <2>1
    <2>3. Counts(r)
      <3>0. k.outbox = k.want /\ k.want \in Nat
        BY <1>0, <2>2 DEF Counts
      <3>1. r.want = 0
        BY ONLY <3>0, r.want = k.want - k.outbox, <1>1
      <3>2. QED
        BY <1>0, <1>1, <3>1, EchoConnAssumption DEF Counts
    <2>4. Reading(r) /\ ~ Got(k) /\ ~ Writing(k)
      BY <1>1, <1>3, <1>5, <2>2 DEF Reading, Got, Writing, Decoding, Decoded
    <2>5. QED
      BY <2>3, <2>4 DEF SameStage
  <1>6. CASE Writing(k)
    <2> SUFFICES Counts(r) /\ Writing(r)
      BY <1>6 DEF SameStage, Reading, Got, Writing, Decoding, Decoded
    <2>1. CASE Written(k) < k.pkt.use_len /\ k.unsent = 0 /\ k.inbox = 0
               /\ k.outbox + k.pkt.use_len - Written(k) = k.want
      <3>1. r.want \in Nat /\ r.outbox + r.pkt.use_len - Written(r) = r.want
        BY <1>0, <1>1, <1>4, <2>1 DEF Counts
      <3>2. Counts(r)
        BY <1>0, <1>1, <3>1, EchoConnAssumption DEF Counts
      <3>3. QED
        BY <1>1, <1>4, <1>6, <2>1, <3>1, <3>2 DEF Writing
    <2>2. CASE Written(k) = k.pkt.use_len /\ k.op = "written" /\ Asked(k, 0)
      <3>1. k.outbox = k.want /\ Asked(r, 0)
        BY <1>2, <2>2
      <3>2. Counts(r)
        BY <1>0, <1>1, <3>1, EchoConnAssumption DEF Counts
      <3>3. QED
        BY <1>1, <1>4, <1>6, <2>2, <3>1, <3>2 DEF Writing
    <2>3. QED
      BY <1>6, <2>1, <2>2 DEF Writing
  <1>7. ~ Got(k)
    BY DEF Got
  <1>8. QED
    BY <1>5, <1>6, <1>7 DEF Staged
-----------------------------------------------------------------------------
(***************************************************************************)
(* What the handlers do to the stage of an open connection.                *)
(***************************************************************************)
(* The same to epoll, to the server's coroutine, and to the kernel. *)
SameShell(k, r) == SameHold(k, r) /\ r.cid = k.cid /\ r.op = k.op

(* A connection that the server has accepted and the client not closed, with
   no request of its own in the kernel; and one of a known stage. *)
Open(k) ==
  IsConn(k) /\ k.op = "none" /\ ~ k.error /\ k.listener = 0 /\ k.phase \notin {"new", "down"}

Steady(k) ==
  /\ Open(k) /\ Staged(k)
  /\ k.event.type = "write" => Writing(k) /\ server.name \notin OneByOne

LEMMA SteadyFine ==
  ASSUME NEW k, Steady(k), server.name \notin OnRing
  PROVE  Fine(k)
  BY DEF Steady, Open, Fine, Fits, Clean

LEMMA FineSteady ==
  ASSUME NEW k, IsConn(k), Fine(k), server.name \notin OnRing, k.phase \notin {"new", "down"},
         k.listener = 0, k.fds # {} \/ server.name = "EpollReactorProcessPoolMS"
  PROVE  Steady(k)
  BY DEF Steady, Open, Fine, Fits, Clean

LEMMA MinOfIs ==
  ASSUME NEW a \in Int, NEW b \in Int
  PROVE  /\ MinOf(a, b) \in Int /\ MinOf(a, b) <= a /\ MinOf(a, b) <= b
         /\ MinOf(a, b) \in {a, b}
  BY DEF MinOf

(* What arrives first is read, as far as the buffer has room. *)
LEMMA ReadOnceIs ==
  ASSUME NEW k, IsConn(k), Counts(k), Reading(k), k.op \in {"none", "read"}, k.inbox # 0,
         NEW r, r = ReadOnce(k)
  PROVE  \E len \in Nat :
           /\ len > 0 /\ len <= k.inbox /\ k.codec.pkt.use_len + len <= k.codec.pkt.len
           /\ r = [k EXCEPT !.inbox = @ - len, !.codec = DeCode(@, len, Body(k.req))]
  <1> USE CodecAssumption
  <1> DEFINE use == k.codec.pkt.use_len
             room == CanWriteLen(k.codec.pkt)
             len == MinOf(k.inbox, room)
  <1>1. use \in Nat /\ k.codec.pkt.len \in Nat /\ k.codec.decode_status # "FINISH"
    BY DEF Reading, Decoding, IsCodec
  <1>2. use < k.codec.pkt.len
    <2>1. k.req \in Nat /\ Body(k.req) \in Nat
      BY BodyIs DEF Counts
    <2>2. Decoding(k.codec, Body(k.req))
      BY DEF Reading
    <2>3. QED
      BY <1>1, <2>1, <2>2 DEF Decoding
  <1>3. room = k.codec.pkt.len - use /\ room \in Nat /\ room > 0
    BY <1>1, <1>2 DEF CanWriteLen
  <1>4. k.inbox \in Nat /\ k.inbox > 0
    BY DEF Counts
  <1>5. r = [k EXCEPT !.inbox = @ - len, !.codec = DeCode(@, len, Body(k.req))]
    BY <1>1 DEF ReadOnce
  <1>6. len \in {k.inbox, room} /\ len <= k.inbox /\ len <= room
    BY <1>3, <1>4 DEF MinOf
  <1> HIDE DEF len, room
  <1>7. len \in Nat /\ len > 0 /\ len <= k.inbox /\ use + len <= k.codec.pkt.len
    BY <1>1, <1>3, <1>4, <1>6
  <1>8. QED
    BY <1>5, <1>7

(* What has been read is decoded. *)
LEMMA DecodedGives ==
  ASSUME NEW k, Counts(k), NEW used \in Nat, NEW len \in Nat,
         Decoding(k.codec, Body(k.req)), k.pkt.use_len = 0, k.send_len = 0, used = k.codec.pkt.use_len,
         Asked(k, used + len), len > 0, used + len <= k.codec.pkt.len,
         NEW r, Counts(r), r.req = k.req, r.want = k.want, r.unsent = k.unsent, r.inbox = k.inbox,
         r.outbox = k.outbox, r.pkt = k.pkt, r.send_len = k.send_len, r.op \notin {"written", "write"},
         r.codec = DeCode(k.codec, len, Body(k.req))
  PROVE  /\ r.codec.pkt.use_len = used + len
         /\ \/ Got(r)
            \/ Decoding(r.codec, Body(r.req)) /\ Asked(r, r.codec.pkt.use_len)
  <1> USE CodecAssumption
  <1>1. Body(k.req) \in Nat /\ Message(k) \in Nat /\ Message(r) = Message(k)
    BY BodyIs DEF Counts, Message
  <1>2. /\ k.outbox = 0 /\ k.want = Message(k) /\ k.unsent + k.inbox + (used + len) <= Message(k)
    BY DEF Asked
  <1>3. used + len <= HeadLen + Body(k.req)
    BY <1>1, <1>2 DEF Counts, Message
  <1>4. /\ r.codec.pkt.use_len = used + len
        /\ \/ Decoding(r.codec, Body(k.req))
           \/ /\ Decoded(r.codec) /\ r.codec.msg /\ r.codec.body_len = Body(k.req)
              /\ r.codec.pkt.use_len = HeadLen + Body(k.req)
    BY <1>1, <1>3, DeCodeGives
  <1>5. CASE Decoding(r.codec, Body(k.req))
    <2>1. Asked(r, used + len)
      BY <1>1, <1>2 DEF Asked
    <2>2. QED
      BY <1>4, <1>5, <2>1
  <1>6. CASE /\ Decoded(r.codec) /\ r.codec.msg /\ r.codec.body_len = Body(k.req)
             /\ r.codec.pkt.use_len = HeadLen + Body(k.req)
    <2>1. r.unsent = 0 /\ r.inbox = 0
      BY <1>1, <1>2, <1>4, <1>6 DEF Counts, Message
    <2>2. Got(r)
      BY <1>1, <1>2, <1>6, <2>1 DEF Got
    <2>3. QED
      BY <1>4, <2>2
  <1>7. QED
    BY <1>4, <1>5, <1>6

LEMMA ReadOnceGives ==
  ASSUME NEW k, IsConn(k), Staged(k), k.op = "none", k.phase # "down", ~ k.error,
         NEW r, r = ReadOnce(k)
  PROVE  /\ SameShell(k, r) /\ ~ r.error /\ Staged(r)
         /\ Writing(k) => Writing(r)
         /\ OneMessage(r) => Got(r)
  <1>0. Counts(k)
    BY DEF Staged
  <1>1. CASE k.codec.decode_status = "FINISH"
    <2>1. r = k
      BY <1>1 DEF ReadOnce
    <2>2. ~ Reading(k)
      BY <1>1 DEF Reading, Decoding
    <2>3. OneMessage(k) => Got(k)
      BY <2>2 DEF OneMessage, Staged, Writing
    <2>4. QED
      BY <2>1, <2>3 DEF SameShell, SameHold
  <1>2. CASE k.codec.decode_status # "FINISH" /\ k.inbox = 0
    <2>1. r = [k EXCEPT !.error = k.phase = "down"]
      BY <1>2 DEF ReadOnce
    <2>2. SameShell(k, r) /\ SameTalk(k, r) /\ ~ r.error
      BY <2>1 DEF SameShell, SameHold, SameTalk, IsConn, Fields
    <2>3. SameStage(k, r)
      BY <1>0, <2>2, TalkStays
    <2>4. ~ OneMessage(r)
      BY <1>2, <2>2 DEF OneMessage, SameTalk
    <2>5. QED
      BY <2>2, <2>3, <2>4, StageStays DEF SameStage
  <1>3. CASE k.codec.decode_status # "FINISH" /\ k.inbox # 0
    <2>1. Reading(k)
      BY <1>3 DEF Staged, Got, Writing, Decoded
    <2>2. PICK len \in Nat :
            /\ len > 0 /\ len <= k.inbox /\ k.codec.pkt.use_len + len <= k.codec.pkt.len
            /\ r = [k EXCEPT !.inbox = @ - len, !.codec = DeCode(@, len, Body(k.req))]
      BY <1>0, <1>3, <2>1, ReadOnceIs
    <2> DEFINE m == [k EXCEPT !.inbox = @ - len]
               used == k.codec.pkt.use_len
    <2>3. /\ SameShell(k, r) /\ ~ r.error
          /\ r.req = k.req /\ r.unsent = k.unsent /\ r.want = k.want /\ r.inbox = k.inbox - len
          /\ r.outbox = k.outbox /\ r.pkt = k.pkt /\ r.send_len = k.send_len /\ r.res = k.res
          /\ r.codec = DeCode(k.codec, len, Body(k.req))
      BY <2>2 DEF SameShell, SameHold, IsConn, Fields
    <2>4. /\ m.req = k.req /\ m.unsent = k.unsent /\ m.want = k.want /\ m.inbox = k.inbox - len
          /\ m.outbox = k.outbox /\ m.pkt = k.pkt /\ m.send_len = k.send_len /\ m.res = k.res
          /\ m.codec = k.codec /\ m.op = "none"
      BY DEF IsConn, Fields
    <2> HIDE DEF m
    <2>5. Counts(m) /\ Counts(r)
      BY <1>0, <2>2, <2>3, <2>4 DEF Counts
    <2>6. used \in Nat /\ Undecoded(k) = 0
      BY <1>0, <2>1, UsedIs DEF Undecoded
    <2>7. Message(k) \in Nat /\ Message(m) = Message(k)
      BY <1>0, <2>4, BodyIs, CodecAssumption DEF Counts, Message
    <2>8. Asked(k, used)
      <3>1. Asked(k, used + Undecoded(k))
        BY <2>1 DEF Reading
      <3>2. used + Undecoded(k) = used
        BY <2>6
      <3>3. QED
        BY <3>1, <3>2
    <2>9. Asked(m, used + len)
      <3>1. k.outbox = 0 /\ k.want = Message(k) /\ k.unsent + k.inbox + used <= Message(k)
        BY <1>3, <2>8 DEF Asked
      <3>2. m.unsent + m.inbox + (used + len) <= Message(m)
        <4>1. k.unsent \in Nat /\ k.inbox \in Nat
          BY <1>0 DEF Counts
        <4>2. \A a, b, u, l, x \in Int : a + b + u <= x => a + (b - l) + (u + l) <= x
          OBVIOUS
        <4>3. k.unsent + (k.inbox - len) + (used + len) <= Message(k)
          BY <2>6, <2>7, <3>1, <4>1, <4>2
        <4>4. QED
          BY <2>4, <2>7, <4>3
      <3>3. QED
        BY <2>4, <2>7, <3>1, <3>2 DEF Asked
    <2>10. /\ Decoding(m.codec, Body(m.req)) /\ m.pkt.use_len = 0 /\ m.send_len = 0
      BY <2>1, <2>4 DEF Reading
    <2>11. r.op = "none"
      BY <2>3 DEF SameShell
    <2>12. \/ Got(r)
           \/ Decoding(r.codec, Body(r.req)) /\ Asked(r, r.codec.pkt.use_len)
      <3>1. /\ r.req = m.req /\ r.want = m.want /\ r.unsent = m.unsent /\ r.inbox = m.inbox
            /\ r.outbox = m.outbox /\ r.pkt = m.pkt /\ r.send_len = m.send_len
            /\ r.op \notin {"written", "write"} /\ r.codec = DeCode(m.codec, len, Body(m.req))
            /\ used = m.codec.pkt.use_len /\ used + len <= m.codec.pkt.len
            /\ len > 0 /\ Counts(m) /\ Counts(r) /\ used \in Nat
        BY <2>2, <2>3, <2>4, <2>5, <2>6, <2>11
      <3> HIDE DEF used
      <3>2. QED
        BY ONLY len \in Nat, <2>9, <2>10, <3>1, DecodedGives
    <2>13. CASE Decoding(r.codec, Body(r.req)) /\ Asked(r, r.codec.pkt.use_len)
      <3>1. Undecoded(r) = 0 /\ r.codec.pkt.use_len \in Nat
        BY <2>11, <2>13 DEF Undecoded, Decoding, IsCodec
      <3>2. Asked(r, r.codec.pkt.use_len + Undecoded(r))
        <4>1. r.codec.pkt.use_len + Undecoded(r) = r.codec.pkt.use_len
          BY <3>1
        <4>2. QED
          BY <2>13, <4>1
      <3>3. Reading(r) /\ ~ OneMessage(r)
        BY <2>3, <2>4, <2>10, <2>11, <2>13, <3>2 DEF Reading, OneMessage, Decoding
      <3>4. QED
        BY <2>1, <2>3, <2>5, <3>3 DEF Staged, Reading, Writing, Decoding, Decoded
    <2>14. CASE Got(r)
      BY <2>1, <2>3, <2>5, <2>14 DEF Staged, Reading, Writing, Decoding, Decoded
    <2>15. QED
      BY <2>12, <2>13, <2>14
  <1>4. QED
    BY <1>1, <1>2, <1>3

LEMMA ReadGives ==
  ASSUME NEW k, IsConn(k), Staged(k), k.op = "none", k.phase # "down", ~ k.error,
         NEW multi, NEW r \in Read(k, multi)
  PROVE  /\ SameShell(k, r) /\ ~ r.error /\ Staged(r)
         /\ Writing(k) => Writing(r)
         /\ OneMessage(r) => Got(r)
  <1> DEFINE Sound(x) == IsConn(x) /\ Staged(x) /\ x.op = "none" /\ x.phase # "down" /\ ~ x.error
             Gives(x, y) == /\ SameShell(x, y) /\ ~ y.error /\ Staged(y)
                            /\ Writing(x) => Writing(y)
                            /\ OneMessage(y) => Got(y)
             f(x) == ReadOnce(x)
  <1>1. r = f(k) \/ r = f(f(f(k)))
    BY DEF Read
  <1>2. \A x : Sound(x) => Gives(x, f(x))
    BY ReadOnceGives
  <1> HIDE DEF f
  <1>3. \A x, y : Sound(x) /\ Gives(x, y) => Sound(y)
    BY DEF SameShell, SameHold
  <1>4. \A x, y, z : Gives(x, y) /\ Gives(y, z) => Gives(x, z)
    BY DEF SameShell, SameHold
  <1>5. Sound(k)
    OBVIOUS
  <1> HIDE DEF Sound, Gives
  <1>6. Gives(k, f(k)) /\ Gives(f(k), f(f(k))) /\ Gives(f(f(k)), f(f(f(k))))
    BY <1>2, <1>3, <1>5
  <1>7. Gives(k, r)
    BY <1>1, <1>4, <1>6
  <1>8. QED
    BY <1>7 DEF Gives

(* The answer to a request is encoded. *)
LEMMA EncodedIs ==
  ASSUME NEW k, IsConn(k), NEW r, r = Encoded(k)
  PROVE  /\ SameShell(k, r) /\ r.error = k.error
         /\ r.req = k.req /\ r.unsent = k.unsent /\ r.want = k.want /\ r.inbox = k.inbox
         /\ r.outbox = k.outbox /\ r.send_len = k.send_len /\ r.res = k.res
         /\ r.codec = [k.codec EXCEPT !.msg = FALSE] /\ r.pkt = EnCode(k.codec.body_len)
  BY DEF Encoded, SameShell, SameHold, IsConn, Fields

LEMMA EncodedWrites ==
  ASSUME NEW k, Counts(k), Got(k), NEW r, r.op \in {"none", "write"},
         r.req = k.req, r.unsent = k.unsent, r.want = k.want, r.inbox = k.inbox,
         r.outbox = k.outbox, r.send_len = k.send_len, r.res = k.res,
         r.codec = [k.codec EXCEPT !.msg = FALSE], r.pkt = EnCode(k.codec.body_len)
  PROVE  Counts(r) /\ Writing(r)
  <1> USE CodecAssumption
  <1>1. Decoded(k.codec) /\ k.codec.body_len \in Nat
    BY DEF Got, Decoded, IsCodec
  <1>2. r.pkt.use_len = HeadLen + k.codec.body_len
    <2>1. r.pkt.use_len = 0 + (HeadLen + k.codec.body_len)
      BY DEF EnCode, UpdateUseLen, Alloc
    <2>2. QED
      BY <1>1, <2>1
  <1>3. Counts(r)
    <2>1. r.pkt = [len |-> HeadLen + k.codec.body_len, use_len |-> 0 + (HeadLen + k.codec.body_len),
                   parse_len |-> 0]
      BY DEF EnCode, UpdateUseLen, Alloc
    <2>2. IsPacket(r.pkt)
      BY <1>1, <2>1 DEF IsPacket
    <2>3. QED
      BY <1>1, <1>2, <2>2 DEF Counts
  <1>4. Decoded(r.codec) /\ ~ r.codec.msg
    BY <1>1 DEF Decoded, IsCodec
  <1>5. r.pkt.use_len = r.want /\ r.want > 0
    BY <1>1, <1>2 DEF Got, Message, Counts
  <1>6. r.send_len = 0 /\ r.unsent = 0 /\ r.inbox = 0 /\ r.outbox = 0
    BY DEF Got
  <1>7. Written(r) = 0
    BY <1>6 DEF Written
  <1>8. Written(r) < r.pkt.use_len /\ r.outbox + r.pkt.use_len - Written(r) = r.want
    BY <1>3, <1>5, <1>6, <1>7 DEF Counts
  <1>9. QED
    BY <1>3, <1>4, <1>6, <1>8 DEF Writing

LEMMA EncodedGives ==
  ASSUME NEW k, IsConn(k), Counts(k), Got(k), k.op = "none", NEW r, r = Encoded(k)
  PROVE  SameShell(k, r) /\ r.error = k.error /\ Staged(r) /\ Writing(r)
  <1>1. /\ SameShell(k, r) /\ r.error = k.error /\ r.op = "none"
        /\ r.req = k.req /\ r.unsent = k.unsent /\ r.want = k.want /\ r.inbox = k.inbox
        /\ r.outbox = k.outbox /\ r.send_len = k.send_len /\ r.res = k.res
        /\ r.codec = [k.codec EXCEPT !.msg = FALSE] /\ r.pkt = EnCode(k.codec.body_len)
    BY EncodedIs DEF SameShell
  <1>2. Counts(r) /\ Writing(r)
    BY <1>1, EncodedWrites
  <1>3. QED
    BY <1>1, <1>2 DEF Staged

(* The answer has been written, or there was none. *)
Finished(k) ==
  /\ Counts(k) /\ IsCodec(k.codec) /\ HeadLen <= k.codec.pkt.len /\ Asked(k, 0)

LEMMA WriteGives ==
  ASSUME NEW k, IsConn(k), Staged(k), k.op = "none", k.phase # "down", ~ k.error,
         NEW w \in WriteResults(k)
  PROVE  /\ SameShell(k, w) /\ ~ w.error /\ Counts(w)
         /\ FinishWrite(w) => Finished(w)
         /\ ~ FinishWrite(w) => Writing(k) /\ Writing(w) /\ Staged(w)
  <1> USE CodecAssumption, EchoConnAssumption
  <1> DEFINE rest == k.pkt.use_len - k.send_len
             room == SendBuf - k.outbox
             len == MinOf(room, rest)
  <1>1. Counts(k)
    BY DEF Staged
  <1>2. w = [k EXCEPT !.send_len = @ + len, !.outbox = @ + len]
    BY DEF WriteResults, Write
  <1>3. /\ SameShell(k, w) /\ ~ w.error
        /\ w.req = k.req /\ w.unsent = k.unsent /\ w.want = k.want /\ w.inbox = k.inbox
        /\ w.outbox = k.outbox + len /\ w.pkt = k.pkt /\ w.send_len = k.send_len + len /\ w.res = k.res
        /\ w.codec = k.codec /\ w.op = "none"
    BY <1>2 DEF SameShell, SameHold, IsConn, Fields
  <1>4. room \in Nat /\ rest \in Int
    <2>1. /\ k.outbox \in Nat /\ k.outbox <= SendBuf /\ SendBuf \in Nat
          /\ k.pkt.use_len \in Nat /\ k.send_len \in Nat
      BY <1>1 DEF Counts
    <2>2. QED
      BY ONLY <2>1
  <1>5. len \in {room, rest} /\ len <= room /\ len <= rest
    BY <1>4 DEF MinOf
  <1>6. Message(w) = Message(k) /\ Written(k) = k.send_len /\ Written(w) = w.send_len
    <2>1. Message(w) = Message(k)
      BY <1>3 DEF Message
    <2>2. Written(k) = k.send_len + 0 /\ Written(w) = w.send_len + 0
      BY <1>3 DEF Written
    <2>3. k.send_len \in Int /\ w.send_len \in Int
      BY <1>1, <1>3, <1>4, <1>5 DEF Counts
    <2>4. QED
      BY <2>1, <2>2, <2>3
  <1> HIDE DEF len
  <1>7. CASE Writing(k)
    <2>1. /\ k.send_len < k.pkt.use_len /\ k.unsent = 0 /\ k.inbox = 0
          /\ k.outbox + k.pkt.use_len - k.send_len = k.want
          /\ Decoded(k.codec) /\ ~ k.codec.msg
      BY <1>6, <1>7 DEF Writing
    <2>2. len \in Nat
      <3>1. k.pkt.use_len \in Nat /\ k.send_len \in Nat
        BY <1>1 DEF Counts
      <3>2. rest \in Nat
        BY <2>1, <3>1
      <3> HIDE DEF rest, room
      <3>3. QED
        BY <1>4, <1>5, <3>2
    <2>3. w.outbox \in Nat /\ w.outbox <= SendBuf /\ w.send_len \in Nat /\ w.send_len <= w.pkt.use_len
      <3>1. k.pkt.use_len \in Nat /\ k.send_len \in Nat /\ k.outbox \in Nat /\ SendBuf \in Nat
        BY <1>1 DEF Counts
      <3>2. len <= SendBuf - k.outbox /\ len <= k.pkt.use_len - k.send_len
        BY <1>5
      <3>3. k.outbox + len \in Nat /\ k.outbox + len <= SendBuf
        BY ONLY <2>2, <3>1, <3>2
      <3>4. k.send_len + len \in Nat /\ k.send_len + len <= k.pkt.use_len
        BY ONLY <2>2, <3>1, <3>2
      <3>5. QED
        BY ONLY <1>3, <3>3, <3>4
    <2>4. Counts(w)
      BY <1>1, <1>3, <2>3 DEF Counts
    <2>5. w.outbox + w.pkt.use_len - w.send_len = w.want
      <3>1. k.pkt.use_len \in Nat /\ k.send_len \in Nat /\ k.outbox \in Nat
        BY <1>1 DEF Counts
      <3>2. (k.outbox + len) + k.pkt.use_len - (k.send_len + len) = k.outbox + k.pkt.use_len - k.send_len
        BY ONLY <2>2, <3>1
      <3>3. QED
        BY ONLY <1>3, <2>1, <3>2
    <2>6. CASE FinishWrite(w)
      <3>1. w.outbox = w.want
        BY <2>4, <2>5, <2>6 DEF FinishWrite, Counts
      <3>2. Asked(w, 0)
        BY <1>3, <2>1, <3>1 DEF Asked
      <3>3. QED
        BY <1>3, <2>1, <2>4, <2>6, <3>2 DEF Finished, Decoded
    <2>7. CASE ~ FinishWrite(w)
      <3>1. w.send_len < w.pkt.use_len
        BY <2>3, <2>4, <2>7 DEF FinishWrite, Counts
      <3>2. Writing(w)
        BY <1>3, <1>6, <2>1, <2>5, <3>1 DEF Writing
      <3>3. QED
        BY <1>3, <1>7, <2>4, <2>7, <3>2 DEF Staged
    <2>8. QED
      BY <2>6, <2>7
  <1>8. CASE Reading(k) \/ Got(k)
    <2>1. k.pkt.use_len = 0 /\ k.send_len = 0
      BY <1>8 DEF Reading, Got
    <2>2. len = 0
      BY <1>1, <1>4, <1>5, <2>1
    <2>3. w.outbox = k.outbox /\ w.send_len = k.send_len
      BY <1>1, <1>3, <2>2 DEF Counts
    <2>4. Counts(w) /\ FinishWrite(w)
      <3>1. w.pkt = k.pkt /\ w.send_len = k.send_len /\ w.outbox = k.outbox
        BY <1>3, <2>3
      <3>2. Counts(w)
        BY <1>1, <1>3, <3>1 DEF Counts
      <3>3. FinishWrite(w)
        BY <2>1, <3>1 DEF FinishWrite
      <3>4. QED
        BY <3>2, <3>3
    <2>5. Message(k) \in Nat
      <3>1. Body(k.req) \in Nat /\ HeadLen \in Nat
        BY <1>1, BodyIs DEF Counts
      <3>2. QED
        BY ONLY <3>1 DEF Message
    <2>6. Asked(k, 0)
      <3>1. CASE Reading(k)
        <4> DEFINE used == k.codec.pkt.use_len + Undecoded(k)
        <4>1. used \in Nat /\ Asked(k, used)
          BY <1>1, <3>1, UsedIs DEF Reading
        <4> HIDE DEF used
        <4>2. QED
          BY <1>1, <2>5, <4>1 DEF Asked, Counts
      <3>2. CASE Got(k)
        BY <1>1, <2>5, <3>2 DEF Got, Asked, Counts
      <3>3. QED
        BY <1>8, <3>1, <3>2
    <2>7. Asked(w, 0)
      BY <1>3, <1>6, <2>3, <2>6 DEF Asked
    <2>8. IsCodec(k.codec) /\ HeadLen <= k.codec.pkt.len
      <3>1. CASE Got(k)
        BY <3>1 DEF Got, Decoded
      <3>2. CASE Reading(k)
        <4>1. Body(k.req) \in Nat /\ Decoding(k.codec, Body(k.req))
          BY <1>1, <3>2, BodyIs DEF Reading, Counts
        <4>2. QED
          BY <4>1 DEF Decoding, IsCodec
      <3>3. QED
        BY <1>8, <3>1, <3>2
    <2>9. QED
      BY <1>3, <2>4, <2>7, <2>8 DEF Finished
  <1>9. QED
    BY <1>7, <1>8 DEF Staged

LEMMA PacketWith ==
  ASSUME NEW p \in [len : Nat, use_len : Nat, parse_len : Nat], NEW u, NEW q
  PROVE  [p EXCEPT !.use_len = u, !.parse_len = q] = [len |-> p.len, use_len |-> u, parse_len |-> q]
  <1>1. [p EXCEPT !.use_len = u] = [len |-> p.len, use_len |-> u, parse_len |-> p.parse_len]
    OBVIOUS
  <1>2. [p EXCEPT !.use_len = u, !.parse_len = q] = [[p EXCEPT !.use_len = u] EXCEPT !.parse_len = q]
    OBVIOUS
  <1>3. [[len |-> p.len, use_len |-> u, parse_len |-> p.parse_len] EXCEPT !.parse_len = q]
          = [len |-> p.len, use_len |-> u, parse_len |-> q]
    OBVIOUS
  <1>4. QED
    BY <1>1, <1>2, <1>3

CodecFields == {"decode_status", "body_len", "msg", "pkt"}

LEMMA ResetIs ==
  ASSUME NEW x, IsCodec(x), NEW p,
         NEW r, r = [x EXCEPT !.decode_status = "HEAD", !.body_len = 0, !.msg = FALSE, !.pkt = p]
  PROVE  r = [decode_status |-> "HEAD", body_len |-> 0, msg |-> FALSE, pkt |-> p]
  <1>1. x = [f \in CodecFields |-> x[f]]
    BY DEF CodecFields, IsCodec
  <1>2. /\ r = [f \in CodecFields |-> r[f]]
        /\ r.decode_status = "HEAD" /\ r.body_len = 0 /\ r.msg = FALSE /\ r.pkt = p
    BY <1>1 DEF CodecFields
  <1>3. ASSUME NEW d, NEW l, NEW m, r.decode_status = d, r.body_len = l, r.msg = m
        PROVE  r = [decode_status |-> d, body_len |-> l, msg |-> m, pkt |-> p]
    BY <1>2, <1>3 DEF CodecFields
  <1>4. QED
    BY <1>2, <1>3

(* A codec that begins anew, with a buffer of the length it had or a new one. *)
LEMMA BeginsAnew ==
  ASSUME NEW x, IsCodec(x), HeadLen <= x.pkt.len, NEW body
  PROVE  /\ Decoding(Reset(x), body) /\ Reset(x).pkt.use_len = 0
         /\ Decoding(NewCodec, body) /\ NewCodec.pkt.use_len = 0
  <1> USE CodecAssumption
  <1>1. PacketReset(x.pkt) = [len |-> x.pkt.len, use_len |-> 0, parse_len |-> 0]
    <2>1. x.pkt \in [len : Nat, use_len : Nat, parse_len : Nat]
      BY DEF IsCodec
    <2>2. QED
      BY <2>1, PacketWith DEF PacketReset
  <1>2. Reset(x) = [decode_status |-> "HEAD", body_len |-> 0, msg |-> FALSE, pkt |-> PacketReset(x.pkt)]
    <2>1. Reset(x) = [x EXCEPT !.decode_status = "HEAD", !.body_len = 0, !.msg = FALSE,
                               !.pkt = PacketReset(x.pkt)]
      BY DEF Reset
    <2>2. QED
      BY <2>1, ResetIs
  <1>3. Reset(x) = [decode_status |-> "HEAD", body_len |-> 0, msg |-> FALSE,
                    pkt |-> [len |-> x.pkt.len, use_len |-> 0, parse_len |-> 0]]
    BY <1>1, <1>2
  <1>4. x.pkt.len \in Nat
    BY DEF IsCodec
  <1>5. Decoding(Reset(x), body) /\ Reset(x).pkt.use_len = 0
    BY <1>3, <1>4 DEF Decoding, IsCodec
  <1>6. Decoding(NewCodec, body) /\ NewCodec.pkt.use_len = 0
    BY DEF NewCodec, Alloc, Decoding, IsCodec
  <1>7. QED
    BY <1>5, <1>6

LEMMA AnewGives ==
  ASSUME NEW k, Finished(k), NEW r, r.op \in {"none", "read"},
         r.req = k.req, r.unsent = k.unsent, r.want = k.want, r.inbox = k.inbox,
         r.outbox = k.outbox, r.res = k.res, r.send_len = 0, r.pkt = PacketReset(k.pkt),
         r.codec \in {Reset(k.codec), NewCodec}
  PROVE  Reading(r) /\ Staged(r)
  <1>0. IsPacket(r.pkt) /\ r.pkt.use_len = 0
    <2>1. k.pkt \in [len : Nat, use_len : Nat, parse_len : Nat]
      BY DEF Finished, Counts, IsPacket
    <2>2. r.pkt = [len |-> k.pkt.len, use_len |-> 0, parse_len |-> 0]
      BY <2>1, PacketWith DEF PacketReset
    <2>3. QED
      BY <2>1, <2>2 DEF IsPacket
  <1>1. Counts(r)
    BY <1>0 DEF Finished, Counts
  <1>2. Decoding(r.codec, Body(r.req)) /\ r.codec.pkt.use_len = 0
    BY BeginsAnew DEF Finished
  <1>3. Undecoded(r) = 0 /\ Message(r) = Message(k)
    BY DEF Undecoded, Message
  <1>4. Asked(r, r.codec.pkt.use_len + Undecoded(r))
    <2>1. r.codec.pkt.use_len + Undecoded(r) = 0
      BY <1>2, <1>3
    <2>2. Asked(r, 0)
      BY <1>3 DEF Finished, Asked
    <2>3. QED
      BY <2>1, <2>2
  <1>5. QED
    BY <1>0, <1>1, <1>2, <1>4 DEF Reading, Staged

(* A result of reading, with what it means for the answer. *)
LEMMA SteadyRead ==
  ASSUME NEW k, Steady(k), NEW multi, NEW r \in Read(k, multi)
  PROVE  /\ Steady(r) /\ r.cid = k.cid
         /\ OneMessage(r) => Got(r)
         /\ Writing(k) => Writing(r)
  <1>1. /\ SameShell(k, r) /\ ~ r.error /\ Staged(r)
        /\ Writing(k) => Writing(r)
        /\ OneMessage(r) => Got(r)
    BY ReadGives DEF Steady, Open
  <1>2. QED
    BY <1>1 DEF Steady, Open, SameShell, SameHold

LEMMA SteadyEncoded ==
  ASSUME NEW k, Steady(k), Got(k), NEW r, r = Encoded(k)
  PROVE  Steady(r) /\ r.cid = k.cid /\ Writing(r)
  <1>1. SameShell(k, r) /\ r.error = k.error /\ Staged(r) /\ Writing(r)
    BY EncodedGives DEF Steady, Open, Staged
  <1>2. QED
    BY <1>1 DEF Steady, Open, SameShell, SameHold

(* A change of the registration, or of the coroutine. *)
LEMMA EventChanges ==
  ASSUME NEW k, IsConn(k), NEW e, NEW r, r = [k EXCEPT !.event = e]
  PROVE  /\ SameTalk(k, r) /\ r.phase = k.phase /\ r.event = e /\ r.error = k.error /\ r.cid = k.cid
         /\ r.fds = k.fds /\ r.listener = k.listener
         /\ IsEvent(e) => IsConn(r)
  BY DEF SameTalk, IsConn, Fields

LEMMA OpenEvent ==
  ASSUME NEW k, Open(k), Staged(k), NEW e, IsEvent(e),
         e.type = "write" => Writing(k) /\ server.name \notin OneByOne,
         NEW r, r = [k EXCEPT !.event = e]
  PROVE  Steady(r) /\ r.cid = k.cid /\ SameStage(k, r)
  <1>1. /\ SameTalk(k, r) /\ r.phase = k.phase /\ r.event = e /\ r.error = k.error /\ r.cid = k.cid
        /\ r.fds = k.fds /\ r.listener = k.listener /\ IsConn(r)
    BY EventChanges DEF Open
  <1>2. SameStage(k, r)
    BY <1>1, TalkStays DEF Staged
  <1>3. Staged(r)
    BY <1>2, StageStays
  <1>4. QED
    BY <1>1, <1>2, <1>3 DEF Steady, Open, SameTalk, SameStage

LEMMA EventIs ==
  ASSUME NEW epoll, NEW type, NEW mode
  PROVE  /\ IsEvent(Event(epoll, type, mode)) /\ Event(epoll, type, mode).type = type
         /\ IsEvent(NoEvent) /\ NoEvent.type = "none"
  BY DEF Event, NoEvent, IsEvent, EventFields

LEMMA SteadyMod ==
  ASSUME NEW k, Open(k), Staged(k), NEW mode, NEW epoll
  PROVE  /\ Steady(ModToReadEvent(k, mode)) /\ ModToReadEvent(k, mode).cid = k.cid
         /\ Steady(ReStartReadEvent(k))
         /\ Steady(AddReadEvent(k, epoll, mode)) /\ AddReadEvent(k, epoll, mode).cid = k.cid
         /\ SameStage(k, AddReadEvent(k, epoll, mode))
         /\ Steady(ClearEvent(k)) /\ ClearEvent(k).cid = k.cid
  <1> DEFINE a == Event(k.event.epoll, "read", mode)
             b == Event(k.event.epoll, "read", "oneshot")
             d == Event(epoll, "read", mode)
  <1>1. /\ IsEvent(a) /\ IsEvent(b) /\ IsEvent(d) /\ IsEvent(NoEvent)
        /\ a.type = "read" /\ b.type = "read" /\ d.type = "read" /\ NoEvent.type = "none"
    BY EventIs
  <1>2. /\ ModToReadEvent(k, mode) = [k EXCEPT !.event = a]
        /\ ReStartReadEvent(k) = [k EXCEPT !.event = b]
        /\ AddReadEvent(k, epoll, mode) = [k EXCEPT !.event = d]
        /\ ClearEvent(k) = [k EXCEPT !.event = NoEvent]
    BY DEF ModToReadEvent, ReStartReadEvent, AddReadEvent, ClearEvent
  <1> HIDE DEF a, b, d
  <1>3. QED
    BY <1>1, <1>2, OpenEvent

LEMMA SteadyToWrite ==
  ASSUME NEW k, Open(k), Staged(k), Writing(k), server.name \notin OneByOne, NEW mode,
         NEW r, r = ModToWriteEvent(k, mode)
  PROVE  Steady(r) /\ r.cid = k.cid /\ Writing(r)
  <1> DEFINE e == Event(k.event.epoll, "write", mode)
  <1>1. IsEvent(e) /\ r = [k EXCEPT !.event = e]
    BY EventIs DEF ModToWriteEvent
  <1> HIDE DEF e
  <1>2. QED
    BY <1>1, OpenEvent DEF SameStage

LEMMA SteadyCid ==
  ASSUME NEW k, Steady(k), NEW x, NEW r, r = [k EXCEPT !.cid = x]
  PROVE  Steady(r) /\ r.cid = x /\ SameStage(k, r)
  <1>1. /\ SameTalk(k, r) /\ r.phase = k.phase /\ r.event = k.event /\ r.error = k.error /\ r.cid = x
        /\ r.listener = k.listener /\ IsConn(r)
    BY DEF SameTalk, IsConn, Fields, Steady, Open
  <1>2. SameStage(k, r)
    BY <1>1, TalkStays DEF Steady, Staged
  <1>3. Staged(r)
    BY <1>2, StageStays DEF Steady
  <1>4. QED
    BY <1>1, <1>2, <1>3 DEF Steady, Open, SameTalk, SameStage

(* A part of the answer has been written, or all that was left of it. *)
LEMMA SteadyWrite ==
  ASSUME NEW k, Steady(k), NEW w \in WriteResults(k)
  PROVE  /\ Open(w) /\ w.cid = k.cid /\ w.event = k.event
         /\ FinishWrite(w) => Finished(w)
         /\ ~ FinishWrite(w) => Steady(w) /\ Writing(w)
  <1>1. /\ SameShell(k, w) /\ ~ w.error /\ Counts(w)
        /\ FinishWrite(w) => Finished(w)
        /\ ~ FinishWrite(w) => Writing(k) /\ Writing(w) /\ Staged(w)
    BY WriteGives DEF Steady, Open
  <1>2. QED
    BY <1>1 DEF Steady, Open, SameShell, SameHold

LEMMA ResetGives ==
  ASSUME NEW w, Open(w), Finished(w),
         NEW r, r \in {ConnReset(w), [ConnReset(w) EXCEPT !.codec = NewCodec]}
  PROVE  Open(r) /\ Reading(r) /\ Staged(r) /\ r.event = w.event /\ r.cid = w.cid
  <1> DEFINE s == ConnReset(w)
             p == PacketReset(w.pkt)
  <1>1. s = [w EXCEPT !.codec = Reset(w.codec), !.send_len = 0, !.pkt = p]
    BY DEF ConnReset
  <1> HIDE DEF s, p
  <1>2. /\ IsConn(s) /\ s.phase = w.phase /\ s.listener = w.listener /\ s.event = w.event
        /\ s.error = w.error /\ s.cid = w.cid /\ s.op = w.op
        /\ s.req = w.req /\ s.unsent = w.unsent /\ s.want = w.want /\ s.inbox = w.inbox
        /\ s.outbox = w.outbox /\ s.res = w.res /\ s.send_len = 0 /\ s.pkt = p
        /\ s.codec = Reset(w.codec)
    <2> DEFINE codec == Reset(w.codec)
    <2>1. IsConn(w) /\ s = [w EXCEPT !.codec = codec, !.send_len = 0, !.pkt = p]
      BY <1>1 DEF Open
    <2> HIDE DEF codec
    <2>2. /\ IsConn(s) /\ s.phase = w.phase /\ s.listener = w.listener /\ s.event = w.event
          /\ s.error = w.error /\ s.cid = w.cid /\ s.op = w.op
          /\ s.req = w.req /\ s.unsent = w.unsent /\ s.want = w.want /\ s.inbox = w.inbox
          /\ s.outbox = w.outbox /\ s.res = w.res /\ s.send_len = 0 /\ s.pkt = p /\ s.codec = codec
      BY ONLY <2>1 DEF IsConn, Fields
    <2>3. QED
      BY <2>2 DEF codec
  <1>3. r = s \/ r = [s EXCEPT !.codec = NewCodec]
    BY DEF s
  <1>4. /\ IsConn(r) /\ r.phase = w.phase /\ r.listener = w.listener /\ r.event = w.event
        /\ r.error = w.error /\ r.cid = w.cid /\ r.op = w.op
        /\ r.req = w.req /\ r.unsent = w.unsent /\ r.want = w.want /\ r.inbox = w.inbox
        /\ r.outbox = w.outbox /\ r.res = w.res /\ r.send_len = 0 /\ r.pkt = p
        /\ r.codec \in {Reset(w.codec), NewCodec}
    <2>1. CASE r = s
      BY <1>2, <2>1
    <2>2. CASE r = [s EXCEPT !.codec = NewCodec]
      BY <1>2, <2>2 DEF IsConn, Fields
    <2>3. QED
      BY <1>3, <2>1, <2>2
  <1>5. Open(r)
    BY <1>4 DEF Open
  <1>6. Reading(r) /\ Staged(r)
    BY <1>4, <1>5, AnewGives DEF p, Open
  <1>7. QED
    BY <1>4, <1>5, <1>6

(* An answer that has been written is followed by the next request. *)
LEMMA SteadyReset ==
  ASSUME NEW w, Open(w), Finished(w), NEW mode,
         NEW s, s \in {ConnReset(w), [ConnReset(w) EXCEPT !.codec = NewCodec]}
  PROVE  /\ Steady(ModToReadEvent(s, mode)) /\ Steady(ReStartReadEvent(s))
         /\ w.event.type # "write" => Steady(s)
  <1>1. Open(s) /\ Staged(s) /\ s.event = w.event
    BY ResetGives
  <1>2. QED
    BY <1>1, SteadyMod DEF Steady

(* What a handler does not change, for a client that is there or not. *)
SameLife(k, r) ==
  /\ IsConn(r) /\ r.phase = k.phase /\ r.listener = k.listener
  /\ r.event.epoll \in {0, k.event.epoll}

LEMMA DeletedGives ==
  ASSUME NEW x, IsConn(x)
  PROVE  /\ IsConn(Deleted(x)) /\ Deleted(x).phase = x.phase
         /\ Deleted(x).listener = x.listener /\ Deleted(x).fds = x.fds
         /\ Deleted(x).event = x.event
  <1> DEFINE codec == NewCodec
             pkt   == Alloc(0)
             r     == [x EXCEPT !.codec = codec, !.pkt = pkt, !.send_len = 0, !.error = FALSE,
                                !.cid = "none", !.op = "none", !.res = 0]
  <1>1. Deleted(x) = r
    BY DEF Deleted
  <1> HIDE DEF codec, pkt
  <1>2. r = [f \in Fields |-> r[f]]
    BY DEF IsConn, Fields
  <1>3. /\ r.phase = x.phase /\ r.listener = x.listener /\ r.fds = x.fds
        /\ r.event = x.event
    BY DEF IsConn, Fields
  <1> HIDE DEF r
  <1>4. QED
    BY <1>1, <1>2, <1>3 DEF IsConn

LEMMA ClosedGives ==
  ASSUME NEW x, IsConn(x), NEW p
  PROVE  /\ IsConn(Close(x, p)) /\ Close(x, p).phase = x.phase
         /\ Close(x, p).listener = x.listener /\ Close(x, p).fds = x.fds \ {p}
         /\ Close(x, p).event = x.event
  <1> DEFINE left  == x.fds \ {p}
             inbox == IF x.fds = {p} THEN 0 ELSE x.inbox
             r     == [x EXCEPT !.fds = left, !.inbox = inbox]
  <1>1. Close(x, p) = r
    BY DEF Close
  <1> HIDE DEF left, inbox
  <1>2. r = [f \in Fields |-> r[f]]
    BY DEF IsConn, Fields
  <1>3. /\ r.phase = x.phase /\ r.listener = x.listener /\ r.fds = left
        /\ r.event = x.event
    BY DEF IsConn, Fields
  <1> HIDE DEF r
  <1>4. QED
    BY <1>1, <1>2, <1>3 DEF IsConn, left

LEMMA ReleaseLives ==
  ASSUME NEW k, IsConn(k), NEW p
  PROVE  SameLife(k, ReleaseConn(k, p)) /\ SameLife(k, Deleted(Close(k, p)))
  <1>1. \A x : IsConn(x) => SameLife(x, ClearEvent(x))
    <2> TAKE x
    <2>1. ClearEvent(x) = [x EXCEPT !.event = NoEvent] /\ IsEvent(NoEvent) /\ NoEvent.epoll = 0
      BY EventIs DEF ClearEvent, NoEvent
    <2>2. QED
      BY <2>1 DEF SameLife, IsConn, Fields
  <1>2. \A x : IsConn(x) => SameLife(x, Close(x, p)) /\ Close(x, p).event = x.event
    BY ClosedGives DEF SameLife
  <1>3. \A x : IsConn(x) => SameLife(x, Deleted(x)) /\ Deleted(x).event = x.event
    BY DeletedGives DEF SameLife
  <1>4. QED
    BY <1>1, <1>2, <1>3 DEF ReleaseConn, SameLife

LEMMA ModLives ==
  ASSUME NEW k, IsConn(k), NEW mode
  PROVE  /\ SameLife(k, ModToReadEvent(k, mode)) /\ SameLife(k, ModToWriteEvent(k, mode))
         /\ SameLife(k, ReStartReadEvent(k))
  <1> DEFINE E(type, m) == Event(k.event.epoll, type, m)
  <1>1. \A type, m : IsEvent(E(type, m)) /\ E(type, m).epoll = k.event.epoll
    BY EventIs DEF Event
  <1>2. /\ ModToReadEvent(k, mode) = [k EXCEPT !.event = E("read", mode)]
        /\ ModToWriteEvent(k, mode) = [k EXCEPT !.event = E("write", mode)]
        /\ ReStartReadEvent(k) = [k EXCEPT !.event = E("read", "oneshot")]
    BY DEF ModToReadEvent, ModToWriteEvent, ReStartReadEvent
  <1> HIDE DEF E
  <1>3. ASSUME NEW type, NEW m PROVE SameLife(k, [k EXCEPT !.event = E(type, m)])
    <2>1. IsEvent(E(type, m)) /\ E(type, m).epoll = k.event.epoll
      BY <1>1
    <2>2. QED
      BY <2>1, EventChanges DEF SameLife, SameTalk
  <1>4. QED
    BY <1>2, <1>3

LEMMA HoldLives ==
  ASSUME NEW k, NEW r, SameHold(k, r)
  PROVE  SameLife(k, r)
  BY DEF SameHold, SameLife

LEMMA LifeTwice ==
  ASSUME NEW k, NEW r, NEW s, SameLife(k, r), SameLife(r, s)
  PROVE  SameLife(k, s)
  BY DEF SameLife

(* A result of a handler: the client is there as before, and if it is there
   the stage is known. *)
Handled(k, r) ==
  SameLife(k, r) /\ (k.phase # "down" => Steady(r))

LEMMA ReadEventGives ==
  ASSUME NEW k, IsConn(k), k.phase # "down" => Steady(k), server.name \notin OneByOne,
         NEW p, NEW multi, NEW mode, NEW r \in ReadEvent(k, p, multi, mode)
  PROVE  Handled(k, r)
  <1>1. PICK s \in Read(k, multi) :
          r = IF s.error THEN ReleaseConn(s, p)
              ELSE IF OneMessage(s) THEN ModToWriteEvent(Encoded(s), mode) ELSE s
    BY DEF ReadEvent
  <1>2. SameHold(k, s) /\ IsConn(s)
    BY ReadHolds DEF SameHold
  <1>3. SameLife(k, r)
    <2>1. SameHold(k, Encoded(s)) /\ IsConn(Encoded(s))
      BY <1>2, EncodedHolds DEF SameHold
    <2>2. SameLife(k, s) /\ SameLife(k, Encoded(s))
      BY <1>2, <2>1, HoldLives
    <2>3. SameLife(s, ReleaseConn(s, p)) /\ SameLife(Encoded(s), ModToWriteEvent(Encoded(s), mode))
      BY <1>2, <2>1, ReleaseLives, ModLives
    <2>4. QED
      BY <1>1, <2>2, <2>3, LifeTwice
  <1>4. ASSUME k.phase # "down" PROVE Steady(r)
    <2>1. Steady(s) /\ (OneMessage(s) => Got(s))
      BY <1>4, SteadyRead
    <2>2. ~ s.error
      BY <2>1 DEF Steady, Open
    <2>3. CASE OneMessage(s)
      <3>1. Steady(Encoded(s)) /\ Writing(Encoded(s))
        BY <2>1, <2>3, SteadyEncoded
      <3>2. QED
        BY <1>1, <2>2, <2>3, <3>1, SteadyToWrite DEF Steady
    <2>4. QED
      BY <1>1, <2>1, <2>2, <2>3
  <1>5. QED
    BY <1>3, <1>4 DEF Handled

LEMMA WriteEventGives ==
  ASSUME NEW k, IsConn(k), k.phase # "down" => Steady(k),
         NEW p, NEW mode, NEW r \in WriteEvent(k, p, mode)
  PROVE  Handled(k, r)
  <1>1. PICK w \in WriteResults(k) :
          r = IF w.error THEN ReleaseConn(w, p)
              ELSE IF FinishWrite(w) THEN ModToReadEvent(ConnReset(w), mode) ELSE w
    BY DEF WriteEvent, Done
  <1>2. SameHold(k, w) /\ IsConn(w)
    BY WriteHolds DEF SameHold
  <1>3. SameLife(k, r)
    <2>1. SameHold(k, ConnReset(w)) /\ IsConn(ConnReset(w))
      BY <1>2, ResetHolds DEF SameHold
    <2>2. SameLife(k, w) /\ SameLife(k, ConnReset(w))
      BY <1>2, <2>1, HoldLives
    <2>3. SameLife(w, ReleaseConn(w, p)) /\ SameLife(ConnReset(w), ModToReadEvent(ConnReset(w), mode))
      BY <1>2, <2>1, ReleaseLives, ModLives
    <2>4. QED
      BY <1>1, <2>2, <2>3, LifeTwice
  <1>4. ASSUME k.phase # "down" PROVE Steady(r)
    <2>1. /\ Open(w) /\ (FinishWrite(w) => Finished(w))
          /\ ~ FinishWrite(w) => Steady(w)
      BY <1>4, SteadyWrite
    <2>2. ~ w.error
      BY <2>1 DEF Open
    <2>3. QED
      BY <1>1, <2>1, <2>2, SteadyReset
  <1>5. QED
    BY <1>3, <1>4 DEF Handled

LEMMA WriteFirstGives ==
  ASSUME NEW k, IsConn(k), k.phase # "down" => Steady(k), server.name \notin OneByOne,
         NEW multi, NEW r \in WriteFirst(k, multi)
  PROVE  Handled(k, r)
  <1>1. PICK s \in ReadEvent(k, 1, multi, "lt") :
          r \in IF s.event.type = "write" THEN WriteEvent(s, 1, "lt") ELSE {s}
    BY DEF WriteFirst
  <1>2. Handled(k, s)
    BY ReadEventGives
  <1>3. CASE s.event.type = "write"
    <2>1. IsConn(s) /\ (s.phase # "down" => Steady(s))
      BY <1>2 DEF Handled, SameLife
    <2>2. Handled(s, r)
      BY <1>1, <1>3, <2>1, WriteEventGives
    <2>3. QED
      BY <1>2, <2>2, LifeTwice DEF Handled, SameLife
  <1>4. QED
    BY <1>1, <1>2, <1>3
-----------------------------------------------------------------------------
(***************************************************************************)
(* What does not lead a connection to another stage: what the client does, *)
(* what the kernel reports, and accept.                                    *)
(***************************************************************************)
(* Unless the client has closed it, all that was known of k is known of r. *)
Follows(k, r) ==
  r.phase # "down" =>
    /\ k.phase # "down" /\ r.cid = k.cid
    /\ Fine(k) => Fine(r) /\ SameStage(k, r)

LEMMA FollowsSelf == ASSUME NEW k PROVE Follows(k, k)
  BY DEF Follows, SameStage

LEMMA FollowsTwice ==
  ASSUME NEW k, NEW r, NEW s, Follows(k, r), Follows(r, s)
  PROVE  Follows(k, s)
  BY DEF Follows, SameStage

LEMMA StageFine ==
  ASSUME NEW k, Fine(k), NEW r, SameStage(k, r), r.phase = k.phase, r.op = k.op,
         r.event.type = k.event.type, r.listener = k.listener, r.fds = k.fds, r.error = k.error
  PROVE  Fine(r)
  BY StageStays DEF Fine, Fits, Clean, SameStage

LEMMA EventFollows ==
  ASSUME NEW k, IsConn(k), NEW e, e.type = k.event.type, NEW r, r = [k EXCEPT !.event = e]
  PROVE  Follows(k, r)
  <1>1. /\ SameTalk(k, r) /\ r.phase = k.phase /\ r.event = e /\ r.error = k.error /\ r.cid = k.cid
        /\ r.fds = k.fds /\ r.listener = k.listener
    BY EventChanges
  <1>2. ASSUME Fine(k) PROVE Fine(r) /\ SameStage(k, r)
    <2>1. SameStage(k, r)
      BY <1>1, <1>2, TalkStays DEF Fine, Staged
    <2>2. QED
      BY <1>1, <1>2, <2>1, StageFine DEF SameTalk
  <1>3. QED
    BY <1>1, <1>2 DEF Follows

LEMMA EdgeFollows ==
  ASSUME NEW k, IsConn(k), NEW types
  PROVE  Follows(k, Edge(k, types)) /\ Follows(k, Reported(k))
  <1> DEFINE a == [k.event EXCEPT !.armed = @ \/ (k.event.mode = "et" /\ k.event.type \in types)]
             b == [k.event EXCEPT !.armed = k.event.mode = "lt"]
  <1>1. a.type = k.event.type /\ b.type = k.event.type
    BY DEF IsConn, IsEvent, EventFields
  <1>2. Edge(k, types) = [k EXCEPT !.event = a] /\ Reported(k) = [k EXCEPT !.event = b]
    BY DEF Edge, Reported
  <1> HIDE DEF a, b
  <1>3. QED
    BY <1>1, <1>2, EventFollows

(* accept: the connection is read from; or it is refused, at once or later. *)
LEMMA AcceptedGives ==
  ASSUME NEW k, IsConn(k), k.phase \notin {"new", "down"}, Fine(k), k.listener # 0,
         server.name \notin OnRing, NEW p, NEW r, r = Accepted(k, p)
  PROVE  Steady(r) /\ Reading(r) /\ SameStage(k, r) /\ r.cid = k.cid
  <1>1. /\ SameTalk(k, r) /\ r.phase = k.phase /\ r.event = k.event /\ r.error = k.error
        /\ r.cid = k.cid /\ r.listener = 0 /\ IsConn(r)
    BY DEF Accepted, SameTalk, IsConn, Fields
  <1>2. Reading(k) /\ k.op = "none" /\ k.event.type = "none" /\ ~ k.error /\ Staged(k)
    BY DEF Fine, Fits, Clean
  <1>3. SameStage(k, r) /\ Staged(r)
    BY <1>1, <1>2, TalkStays, StageStays DEF Staged
  <1>4. QED
    BY <1>1, <1>2, <1>3 DEF Steady, Open, SameStage, SameTalk

LEMMA EnterFollows ==
  ASSUME NEW k, IsConn(k), k.phase # "new", k.listener # 0, server.name \notin OnRing, NEW p
  PROVE  /\ Follows(k, Accepted(k, p))
         /\ \A epoll, mode : Follows(k, NewRead(k, p, epoll, mode))
  <1>1. IsConn(k) /\ k.phase # "new"
    OBVIOUS
  <1>2. Follows(k, Accepted(k, p)) /\ SameLife(Accepted(k, p), Accepted(k, p))
    <2>1. Accepted(k, p).phase = k.phase /\ Accepted(k, p).cid = k.cid /\ IsConn(Accepted(k, p))
      BY <1>1 DEF Accepted, IsConn, Fields
    <2>2. k.phase # "down" /\ Fine(k) => Fine(Accepted(k, p)) /\ SameStage(k, Accepted(k, p))
      BY <1>1, AcceptedGives, SteadyFine
    <2>3. QED
      BY <2>1, <2>2 DEF Follows, SameLife
  <1>3. ASSUME NEW epoll, NEW mode PROVE Follows(k, NewRead(k, p, epoll, mode))
    <2> DEFINE m == Accepted(k, p)
               r == AddReadEvent(m, epoll, mode)
    <2>1. r.phase = m.phase /\ r.cid = m.cid
      <3>1. r = [m EXCEPT !.event = Event(epoll, "read", mode)] /\ IsConn(m)
        BY <1>2 DEF AddReadEvent, SameLife
      <3> HIDE DEF m, r
      <3>2. QED
        BY <3>1, EventChanges
    <2>2. ASSUME k.phase # "down", Fine(k) PROVE Fine(r) /\ SameStage(m, r)
      <3>1. Steady(m)
        BY <1>1, <2>2, AcceptedGives
      <3>2. QED
        BY <3>1, SteadyMod, SteadyFine DEF Steady
    <2>3. Follows(m, r) \/ k.phase = "down" \/ ~ Fine(k)
      BY <2>1, <2>2 DEF Follows
    <2>4. QED
      BY <1>2, <2>1, <2>2 DEF Follows, NewRead, SameStage
  <1>4. QED
    BY <1>2, <1>3

LEMMA RefusedFollows ==
  ASSUME NEW k, IsConn(k), k.phase # "new",
         server.name \notin OnRing \cup {"EpollReactorProcessPoolMS"}
  PROVE  Follows(k, Refused(k))
  <1> DEFINE r == Refused(k)
  <1>1. /\ SameTalk(k, r) /\ r.phase = k.phase /\ r.event = k.event /\ r.error = TRUE
        /\ r.cid = k.cid /\ r.fds = {} /\ r.listener = 0
    BY DEF Refused, SameTalk, IsConn, Fields
  <1> HIDE DEF r
  <1>2. ASSUME Fine(k) PROVE Fine(r) /\ SameStage(k, r)
    <2>1. SameStage(k, r) /\ Staged(r)
      BY <1>1, <1>2, TalkStays, StageStays DEF Fine, Staged
    <2>2. Fits(r)
      BY <1>1, <1>2, <2>1 DEF Fine, Fits, SameStage, SameTalk
    <2>3. Clean(r)
      BY <1>1 DEF Clean
    <2>4. QED
      BY <2>1, <2>2, <2>3 DEF Fine
  <1>3. QED
    BY <1>1, <1>2 DEF Follows, r

LEMMA AcceptFollows ==
  ASSUME NEW k, ConnOK(k), k.listener # 0, server.name \notin OnRing, NEW p
  PROVE  /\ Follows(k, Accepted(k, p))
         /\ \A epoll, mode : Follows(k, NewRead(k, p, epoll, mode))
         /\ server.name # "EpollReactorProcessPoolMS" => Follows(k, Refused(k))
  <1>1. IsConn(k) /\ k.phase # "new"
    BY DEF ConnOK
  <1>2. QED
    BY <1>1, EnterFollows, RefusedFollows

(* A copy of the descriptor is made, or closed. *)
LEMMA FdsFollow ==
  ASSUME NEW k, IsConn(k), NEW F, k.error => F = {} \/ k.phase = "down" \/ ~ Fine(k),
         NEW i \in {0, k.inbox}, NEW r, r = [k EXCEPT !.fds = F, !.inbox = i]
  PROVE  Follows(k, r)
  <1>1. /\ SameTalk(k, r) /\ r.phase = k.phase /\ r.event = k.event /\ r.error = k.error
        /\ r.cid = k.cid /\ r.fds = F /\ r.listener = k.listener
    BY DEF SameTalk, IsConn, Fields
  <1>2. ASSUME Fine(k), k.phase # "down" PROVE Fine(r) /\ SameStage(k, r)
    <2>1. SameStage(k, r) /\ Staged(r)
      BY <1>1, <1>2, TalkStays, StageStays DEF Fine, Staged
    <2>2. Fits(r)
      BY <1>1, <1>2, <2>1 DEF Fine, Fits, SameStage, SameTalk
    <2>3. Clean(r)
      BY <1>1, <1>2 DEF Clean, Fine
    <2>4. QED
      BY <2>1, <2>2, <2>3 DEF Fine
  <1>3. QED
    BY <1>1, <1>2 DEF Follows

LEMMA CloseFollows ==
  ASSUME NEW k, IsConn(k), NEW p
  PROVE  Follows(k, Close(k, p))
  <1> DEFINE F == k.fds \ {p}
             i == IF k.fds = {p} THEN 0 ELSE k.inbox
  <1>1. Close(k, p) = [k EXCEPT !.fds = F, !.inbox = i] /\ i \in {0, k.inbox}
    BY DEF Close
  <1>2. k.error => F = {} \/ k.phase = "down" \/ ~ Fine(k)
    BY DEF Fine, Clean
  <1> HIDE DEF F, i
  <1>3. QED
    BY <1>1, <1>2, FdsFollow

(* The client. *)
LEMMA ClientFollows ==
  ASSUME NEW c \in Client, IsConn(conn[c]), conn' = [conn EXCEPT ![c] = conn'[c]],
         conn = [d \in Client |-> conn[d]],
         (\E l \in Listeners : Connect(c, l)) \/ Ask(c) \/ Send(c) \/ Take(c) \/ Hangup(c)
  PROVE  Follows(conn[c], conn'[c])
  <1> DEFINE k == conn[c]
  <1>1. CASE \E l \in Listeners : Connect(c, l)
    <2>1. PICK l : k.phase = "new" /\ conn'[c] = [k EXCEPT !.phase = "up", !.listener = l]
      BY <1>1 DEF Connect, Update
    <2>2. /\ SameTalk(k, conn'[c]) /\ conn'[c].event = k.event /\ conn'[c].error = k.error
          /\ conn'[c].cid = k.cid /\ conn'[c].phase = "up" /\ conn'[c].fds = k.fds
      BY <2>1 DEF SameTalk, IsConn, Fields
    <2>3. ASSUME Fine(k) PROVE Fine(conn'[c]) /\ SameStage(k, conn'[c])
      <3>1. SameStage(k, conn'[c]) /\ Staged(conn'[c])
        BY <2>2, <2>3, TalkStays, StageStays DEF Fine, Staged
      <3>2. Reading(k) /\ k.op = "none" /\ k.event.type = "none" /\ ~ k.error
        BY <2>1, <2>3 DEF Fine, Fits, Clean
      <3>3. QED
        BY <2>2, <3>1, <3>2 DEF Fine, Fits, Clean, SameStage, SameTalk
    <2>4. QED
      BY <2>1, <2>2, <2>3 DEF Follows
  <1>2. ASSUME NEW m, SameHold(k, m), m.op = k.op, m.error = k.error, m.cid = k.cid,
               Fine(k) => SameStage(k, m)
        PROVE  Follows(k, m)
    BY <1>2, StageFine DEF Follows, SameHold
  <1>3. CASE Ask(c)
    <2> DEFINE len == HeadLen + Body(k.req + 1)
               m == [k EXCEPT !.req = @ + 1, !.unsent = len, !.want = len]
    <2>1. conn'[c] = m /\ k.want = 0
      BY <1>3 DEF Ask, Update
    <2>2. SameHold(k, m) /\ m.op = k.op /\ m.error = k.error /\ m.cid = k.cid
      BY DEF SameHold, IsConn, Fields
    <2>3. Fine(k) => SameStage(k, m)
      BY <2>1, AskStays DEF Fine, Staged
    <2> HIDE DEF m
    <2>4. QED
      BY <1>2, <2>1, <2>2, <2>3
  <1>4. CASE Send(c)
    <2>1. PICK n \in {1, k.unsent} :
            conn'[c] = Edge([k EXCEPT !.unsent = @ - n,
                                      !.inbox = IF k.fds = {} /\ k.listener = 0 THEN 0 ELSE @ + n], {"read"})
      BY <1>4 DEF Send, Update
    <2> DEFINE in == IF k.fds = {} /\ k.listener = 0 THEN 0 ELSE k.inbox + n
               m == [k EXCEPT !.unsent = @ - n, !.inbox = in]
    <2>2. conn'[c] = Edge(m, {"read"}) /\ in \in {0, k.inbox + n} /\ k.unsent > 0
      BY <1>4, <2>1 DEF Send
    <2> HIDE DEF in
    <2>3. SameHold(k, m) /\ m.op = k.op /\ m.error = k.error /\ m.cid = k.cid
      BY DEF SameHold, IsConn, Fields
    <2>4. ASSUME Fine(k) PROVE SameStage(k, m)
      <3>1. Counts(k) /\ n \in Nat /\ n <= k.unsent /\ 0 < n
        BY <2>2, <2>4 DEF Fine, Staged, Counts
      <3>2. QED
        BY <2>2, <3>1, SendStays
    <2> HIDE DEF m
    <2>5. Follows(k, m) /\ IsConn(m)
      BY <1>2, <2>3, <2>4 DEF SameHold
    <2>6. QED
      BY <2>2, <2>5, EdgeFollows, FollowsTwice
  <1>5. CASE Take(c)
    <2> DEFINE m == [k EXCEPT !.want = @ - k.outbox, !.outbox = 0]
    <2>1. conn'[c] = Edge(m, {"write"}) /\ k.outbox > 0
      BY <1>5 DEF Take, Update
    <2>2. SameHold(k, m) /\ m.op = k.op /\ m.error = k.error /\ m.cid = k.cid
      BY DEF SameHold, IsConn, Fields
    <2>3. Fine(k) => SameStage(k, m)
      BY <2>1, TakeStays DEF Fine
    <2> HIDE DEF m
    <2>4. Follows(k, m) /\ IsConn(m)
      BY <1>2, <2>2, <2>3 DEF SameHold
    <2>5. QED
      BY <2>1, <2>4, EdgeFollows, FollowsTwice
  <1>6. CASE Hangup(c)
    <2>1. PICK n : conn'[c] = Edge([k EXCEPT !.phase = "down", !.unsent = 0, !.want = 0,
                                             !.inbox = n, !.outbox = 0], {"read", "write"})
      BY <1>6 DEF Hangup, Update
    <2> DEFINE m == [k EXCEPT !.phase = "down", !.unsent = 0, !.want = 0, !.inbox = n, !.outbox = 0]
    <2>2. IsConn(m) /\ m.phase = "down"
      BY DEF IsConn, Fields
    <2>3. conn'[c] = Edge(m, {"read", "write"})
      BY <2>1
    <2> HIDE DEF m
    <2>4. Follows(m, conn'[c])
      BY <2>2, <2>3, EdgeFollows
    <2>5. QED
      BY <2>2, <2>4 DEF Follows
  <1>7. QED
    BY <1>1, <1>3, <1>4, <1>5, <1>6
-----------------------------------------------------------------------------
(***************************************************************************)
(* What a step has to keep.                                                *)
(***************************************************************************)
(* No thread turns to a connection other than c, or away from one. *)
Aside(c) ==
  \A t \in Thread :
    \/ thread'[t].cur = thread[t].cur /\ thread'[t].pc = thread[t].pc
    \/ thread'[t].cur \in {0, c} /\ thread[t].cur \in {0, c}

(* Nothing comes into the queue but c. *)
Queues(c) ==
  server.name \in HandOver =>
    \A i \in 1 .. Len(queue') : queue'[i] = c \/ \E j \in 1 .. Len(queue) : queue[j] = queue'[i]

(* Who refers to c after the step finds it, as k, where it should be. *)
Stays(c, k) ==
  /\ \A t \in Thread : thread'[t].cur = c => Stands(thread'[t].pc, k)
  /\ server.name \in HandOver => \A i \in 1 .. Len(queue') : queue'[i] = c => Got(k)
  /\ server.name \in CoNames /\ k.cid = "writing" =>
       Writing(k) \/ \E t \in Thread : thread'[t].cur = c

LEMMA InPlace ==
  ASSUME UNCHANGED server, NEW c \in Client, Fine(conn'[c]), Stays(c, conn'[c])
  PROVE  Fine(conn[c])' /\ Placed(c)'
  <1>1. Fine(conn[c])'
    BY DEF Fine, Staged, Fits, Clean
  <1>2. Placed(c)'
    BY DEF Placed, Stays, Stands
  <1>3. QED
    BY <1>1, <1>2

LEMMA StepKeeps ==
  ASSUME AnswerInv, UNCHANGED server, NEW c, Aside(c), Queues(c),
         \A d \in Client \ {c} : Follows(conn[d], conn'[d]),
         c \in Client /\ conn'[c].phase # "down" => Fine(conn'[c]) /\ Stays(c, conn'[c])
  PROVE  AnswerInv'
  <1> SUFFICES ASSUME NEW d \in Client, conn'[d].phase # "down"
               PROVE  Fine(conn'[d]) /\ Stays(d, conn'[d])
    BY InPlace DEF AnswerInv
  <1>1. CASE d = c
    BY <1>1
  <1>2. CASE d # c
    <2> DEFINE k == conn[d]
               r == conn'[d]
    <2>1. k.phase # "down" /\ r.cid = k.cid /\ (Fine(k) => Fine(r) /\ SameStage(k, r))
      BY <1>2 DEF Follows
    <2>2. Fine(k) /\ Placed(d)
      BY <2>1 DEF AnswerInv
    <2>3. /\ Fine(r)
          /\ Got(k) => Got(r)
          /\ Writing(k) => Writing(r)
      BY <2>1, <2>2 DEF SameStage
    <2>4. ASSUME NEW t \in Thread, thread'[t].cur = d \/ thread[t].cur = d
          PROVE  thread'[t].cur = d /\ thread[t].cur = d /\ thread'[t].pc = thread[t].pc
      BY <1>2, <2>4, NoClientZero DEF Aside
    <2>5. \A t \in Thread : thread'[t].cur = d => Stands(thread'[t].pc, r)
      BY <2>2, <2>3, <2>4 DEF Placed, Stands
    <2>6. server.name \in HandOver => \A i \in 1 .. Len(queue') : queue'[i] = d => Got(r)
      BY <1>2, <2>2, <2>3 DEF Placed, Queues
    <2>7. server.name \in CoNames /\ r.cid = "writing" =>
            Writing(r) \/ \E t \in Thread : thread'[t].cur = d
      BY <2>1, <2>2, <2>3, <2>4 DEF Placed
    <2> HIDE DEF k, r
    <2>8. QED
      BY <2>3, <2>5, <2>6, <2>7 DEF Stays, r
  <1>3. QED
    BY <1>1, <1>2

(***************************************************************************)
(* The servers of one process: thread t, which has c or takes a connection *)
(* nobody has, goes on, as in HandStep.                                    *)
(***************************************************************************)
Takes(t, c) ==
  \/ c \in thread[t].batch /\ thread[t].cur = 0
  \/ thread[t].cur = c
  \/ Unowned(c) /\ thread[t].cur = 0

LEMMA TakesSole ==
  ASSUME OwnInv, NEW t \in Thread, NEW c \in Client, Takes(t, c)
  PROVE  Sole(t, c) /\ \A i \in 1 .. Len(queue) : queue[i] # c
  <1> USE DEF OwnInv
  <1>1. CASE c \in thread[t].batch /\ thread[t].cur = 0
    BY <1>1 DEF InBatches, BusyWith, InQueue, Sole
  <1>2. CASE thread[t].cur = c
    BY <1>2 DEF BusyWith, InQueue, Sole
  <1>3. CASE Unowned(c) /\ thread[t].cur = 0
    BY <1>3 DEF Unowned, Sole
  <1>4. QED
    BY <1>1, <1>2, <1>3 DEF Takes

(* The state k that c has afterwards, with thread t at pc and busy with x. *)
Fit(c, k, pc, x) ==
  k.phase # "down" =>
    /\ conn[c].phase # "down"
    /\ Fine(conn[c]) /\ Placed(c) =>
         /\ Fine(k)
         /\ x = c => Stands(pc, k)
         /\ server.name \in CoNames /\ k.cid = "writing" => Writing(k) \/ x = c

LEMMA HandAnswers ==
  ASSUME OwnInv, AnswerInv, NEW t \in Thread, NEW c \in Client, NEW k, NEW B, NEW x \in {0, c},
         Sole(t, c), ThreadStep(t, B, x), conn' = [conn EXCEPT ![c] = k],
         Queues(c), UNCHANGED server, Fit(c, k, thread'[t].pc, x),
         k.phase # "down" /\ conn[c].phase # "down" /\ Fine(conn[c]) /\ Placed(c) /\ server.name \in HandOver =>
           \A i \in 1 .. Len(queue') : queue'[i] = c => Got(k)
  PROVE  AnswerInv'
  <1>1. /\ \A d \in Client : conn'[d] = IF d = c THEN k ELSE conn[d]
    BY DEF OwnInv, Connections
  <1>2. /\ \A u \in Thread \ {t} : thread'[u] = thread[u] /\ thread[u].cur # c
        /\ thread'[t].cur = x /\ thread[t].cur \in {0, c}
    BY DEF ThreadStep, Sole
  <1>3. Aside(c)
    BY <1>2 DEF Aside
  <1>4. \A d \in Client \ {c} : Follows(conn[d], conn'[d])
    BY <1>1, FollowsSelf
  <1>5. ASSUME conn'[c].phase # "down" PROVE Fine(conn'[c]) /\ Stays(c, conn'[c])
    <2>1. conn'[c] = k /\ conn[c].phase # "down" /\ Fine(conn[c]) /\ Placed(c)
      BY <1>1, <1>5 DEF Fit, AnswerInv
    <2>2. Fine(k) /\ (x = c => Stands(thread'[t].pc, k))
          /\ (server.name \in CoNames /\ k.cid = "writing" => Writing(k) \/ x = c)
      BY <1>5, <2>1 DEF Fit
    <2>3. \A u \in Thread : thread'[u].cur = c => u = t /\ x = c
      BY <1>2
    <2>4. x = c => \E u \in Thread : thread'[u].cur = c
      BY <1>2
    <2>5. Stays(c, k)
      BY <1>5, <2>1, <2>2, <2>3, <2>4 DEF Stays
    <2>6. QED
      BY <2>1, <2>2, <2>5
  <1>6. QED
    BY <1>3, <1>4, <1>5, StepKeeps

(* With the queue as it was. *)
LEMMA HoldAnswers ==
  ASSUME OwnInv, AnswerInv, NEW t \in Thread, NEW c \in Client, NEW k, NEW B, NEW x \in {0, c},
         Takes(t, c), ThreadStep(t, B, x), conn' = [conn EXCEPT ![c] = k],
         UNCHANGED <<queue, server>>, Fit(c, k, thread'[t].pc, x)
  PROVE  AnswerInv'
  <1>1. Sole(t, c) /\ \A i \in 1 .. Len(queue) : queue[i] # c
    BY TakesSole
  <1>2. Queues(c)
    BY DEF Queues
  <1>3. \A i \in 1 .. Len(queue') : queue'[i] # c
    BY <1>1
  <1>4. QED
    BY <1>1, <1>2, <1>3, HandAnswers

(* No connection leads to another stage, and no thread turns to one. *)
LEMMA QuietAnswers ==
  ASSUME AnswerInv, UNCHANGED <<queue, server>>, Aside(0),
         \A c \in Client : Follows(conn[c], conn'[c])
  PROVE  AnswerInv'
  <1>1. Queues(0)
    BY DEF Queues
  <1>2. QED
    BY <1>1, NoClientZero, StepKeeps
-----------------------------------------------------------------------------
(***************************************************************************)
(* The servers that wait for events of many connections.                   *)
(***************************************************************************)
(* A connection that the server has open: its stage, unless its client has
   closed it. *)
Known(k) == IsConn(k) /\ (k.phase # "down" => Steady(k))

LEMMA HeldKnown ==
  ASSUME AnswerInv, NEW c \in Client, Held(conn[c]), server.name \notin OnRing
  PROVE  Known(conn[c])
  <1>1. IsConn(conn[c]) /\ conn[c].phase # "new" /\ conn[c].listener = 0 /\ conn[c].fds # {}
    BY HeldFacts
  <1>2. conn[c].phase # "down" => Fine(conn[c])
    BY DEF AnswerInv
  <1>3. QED
    BY <1>1, <1>2, FineSteady DEF Known

LEMMA DropFits ==
  ASSUME NEW c \in Client, NEW k, Handled(conn[c], k), server.name \notin OnRing,
         server.name \in CoNames => k.phase = "down" \/ k.cid # "writing", NEW pc
  PROVE  Fit(c, k, pc, 0)
  <1>1. k.phase = conn[c].phase /\ (k.phase # "down" => Steady(k))
    BY DEF Handled, SameLife
  <1>2. k.phase # "down" => Fine(k)
    BY <1>1, SteadyFine
  <1>3. QED
    BY <1>1, <1>2, NoClientZero DEF Fit

LEMMA HandleAnswers ==
  ASSUME OwnInv, AnswerInv, NEW t \in Thread, NEW c \in Client, NEW results, Handle(t, c, results),
         \A k \in results : Handled(conn[c], k), UNCHANGED server,
         server.name \notin OnRing, server.name \notin CoNames
  PROVE  AnswerInv'
  <1>1. PICK k \in results : conn' = [conn EXCEPT ![c] = k]
    BY DEF Handle, Update
  <1>2. /\ c \in thread[t].batch /\ thread[t].cur = 0
        /\ ThreadStep(t, thread[t].batch \ {c}, 0)
    BY TakeSteps DEF Handle, OwnInv
  <1>3. Fit(c, k, thread'[t].pc, 0)
    BY DropFits
  <1>4. Takes(t, c) /\ UNCHANGED <<queue, server>>
    BY <1>2 DEF Takes, Handle
  <1>5. QED
    BY <1>1, <1>2, <1>3, <1>4, HoldAnswers

LEMMA ReadWriteAnswers ==
  ASSUME OwnInv, AnswerInv, NEW t \in Thread, NEW c \in Client, NEW p, NEW multi, NEW mode,
         ReadWrite(t, c, p, multi, mode), UNCHANGED server,
         server.name \notin OneByOne, server.name \notin OnRing, server.name \notin CoNames
  PROVE  AnswerInv'
  <1> DEFINE results == IF conn[c].event.type = "read" THEN ReadEvent(conn[c], p, multi, mode)
                        ELSE WriteEvent(conn[c], p, mode)
  <1>1. Handle(t, c, results)
    BY DEF ReadWrite
  <1>2. Known(conn[c])
    BY <1>1, BatchHeld, HeldKnown DEF Handle, TakeEvent
  <1>3. \A k \in results : Handled(conn[c], k)
    BY <1>2, ReadEventGives, WriteEventGives DEF Known
  <1> HIDE DEF results
  <1>4. QED
    BY <1>1, <1>3, HandleAnswers

(* Connections become others that their stages are the same of. *)
LEMMA LoopAcceptAnswers ==
  ASSUME OwnInv, AnswerInv, NEW t \in Thread, NEW max, NEW accepted, LoopAccept(t, max, accepted),
         \A c \in InBacklog(t) : Follows(conn[c], accepted[c]), UNCHANGED server
  PROVE  AnswerInv'
  <1>1. PICK S \in SUBSET InBacklog(t) :
          conn' = [c \in Client |-> IF c \in S THEN accepted[c] ELSE conn[c]]
    BY DEF LoopAccept
  <1>2. thread[t].cur = 0 /\ ThreadStep(t, thread[t].batch \ {Sock}, 0)
    BY TakeSteps DEF LoopAccept, OwnInv
  <1>3. Aside(0)
    BY <1>2 DEF Aside, ThreadStep
  <1>4. \A c \in Client : Follows(conn[c], conn'[c])
    BY <1>1, FollowsSelf
  <1>5. UNCHANGED <<queue, server>>
    BY DEF LoopAccept
  <1>6. QED
    BY <1>3, <1>4, <1>5, QuietAnswers

LEMMA NewReadsAnswer ==
  ASSUME OwnInv, AnswerInv, NEW t \in Thread, NEW max, NEW p, NEW epoll, NEW mode,
         LoopAccept(t, max, NewReads(p, epoll, mode)), server.name \notin OnRing, UNCHANGED server
  PROVE  AnswerInv'
  <1>1. ASSUME NEW c \in InBacklog(t) PROVE Follows(conn[c], NewReads(p, epoll, mode)[c])
    BY BacklogOK, AcceptFollows DEF NewReads
  <1>2. QED
    BY <1>1, LoopAcceptAnswers

LEMMA RefusalAnswers ==
  ASSUME OwnInv, AnswerInv, NEW t \in Thread, NEW max, LoopAccept(t, max, AllRefused),
         server.name \notin OnRing, server.name # "EpollReactorProcessPoolMS", UNCHANGED server
  PROVE  AnswerInv'
  <1>1. ASSUME NEW c \in InBacklog(t) PROVE Follows(conn[c], AllRefused[c])
    BY BacklogOK, AcceptFollows DEF AllRefused
  <1>2. QED
    BY <1>1, LoopAcceptAnswers

(* epoll_wait; all that it needs of the state is its types. *)
LEMMA EpollWaitAnswers ==
  ASSUME AnswerInv, \A c \in Client : IsConn(conn[c]), ThreadsOK,
         NEW t \in Thread, NEW is_readable, EpollWait(t, t, is_readable), UNCHANGED server
  PROVE  AnswerInv'
  <1> DEFINE E == Ready(t) \cup {s \in {Sock} : is_readable}
  <1>1. /\ thread[t].pc = "top" /\ thread' = [thread EXCEPT ![t].pc = "events", ![t].batch = E]
        /\ conn' = [c \in Client |-> IF c \in Ready(t) THEN Reported(conn[c]) ELSE conn[c]]
        /\ UNCHANGED queue
    BY DEF EpollWait
  <1> HIDE DEF E
  <1>2. thread[t].cur = 0
    BY <1>1, Thread0 DEF Resting, Unbusy
  <1>3. Aside(0)
    <2>1. \A u \in Thread \ {t} : thread'[u] = thread[u]
      BY <1>1 DEF ThreadsOK
    <2>2. thread'[t].cur = 0
      BY <1>1, <1>2 DEF ThreadsOK, IsThread
    <2>3. QED
      BY <1>2, <2>1, <2>2 DEF Aside
  <1>4. \A c \in Client : Follows(conn[c], conn'[c])
    BY <1>1, FollowsSelf, EdgeFollows
  <1>5. QED
    BY <1>1, <1>3, <1>4, QuietAnswers

LEMMA ListenWaitAnswers ==
  ASSUME OwnInv, AnswerInv, NEW t \in Thread, ListenWait(t), UNCHANGED server
  PROVE  AnswerInv'
  <1>1. \A c \in Client : IsConn(conn[c])
    BY DEF OwnInv, Connections, ConnOK
  <1>2. QED
    BY <1>1, EpollWaitAnswers DEF ListenWait, OwnInv

LEMMA LevelFacts ==
  ASSUME server.name \in LevelNames
  PROVE  /\ server.name \notin OnRing /\ server.name \notin CoNames /\ server.name \notin HandOver
         /\ server.name # "EpollReactorProcessPoolMS"
         /\ server.name \in OneByOne => server.name \in {"Epoll", "Poll", "Select"}
  BY DEF LevelNames, OnRing, CoNames, WithCoroutines, WithConsumers, HandOver, OneByOne, BlockingNames

LEMMA ReactorAnswers ==
  ASSUME OwnInv, AnswerInv, server.name \in LevelNames, server.name \notin OneByOne, UNCHANGED server,
         \/ \E multi, la, wf : EpollReactorSingleProcess(multi, la, wf)
         \/ EpollReactorSingleProcessET
         \/ \E t \in Thread : EpollReactorThreadPool(t)
         \/ PollReactorSingleProcess \/ SelectReactorSingleProcess
  PROVE  AnswerInv'
  <1>1. CASE \E t \in Thread : ListenWait(t)
    BY <1>1, ListenWaitAnswers
  <1>2. CASE \E t \in Thread : \E max, p, epoll, mode : LoopAccept(t, max, NewReads(p, epoll, mode))
    BY <1>2, NewReadsAnswer, LevelFacts
  <1>3. CASE \E max : LoopAccept(1, max, AllRefused)
    BY <1>3, RefusalAnswers, LevelFacts, One
  <1>4. CASE \E t \in Thread, c \in Client : \E p, multi, mode : ReadWrite(t, c, p, multi, mode)
    BY <1>4, ReadWriteAnswers, LevelFacts
  <1>5. CASE \E c \in Client : \E multi : Handle(1, c, WriteFirst(conn[c], multi))
    <2>0. PICK c \in Client : \E multi : Handle(1, c, WriteFirst(conn[c], multi))
      BY <1>5
    <2>1. PICK multi : Handle(1, c, WriteFirst(conn[c], multi))
      BY <2>0
    <2>2. Known(conn[c])
      BY <2>1, One, BatchHeld, HeldKnown, LevelFacts DEF Handle, TakeEvent
    <2>3. \A k \in WriteFirst(conn[c], multi) : Handled(conn[c], k)
      BY <2>2, WriteFirstGives DEF Known
    <2>4. QED
      BY <2>1, <2>3, One, HandleAnswers, LevelFacts
  <1>6. QED
    <2>1. CASE \E multi, la, wf : EpollReactorSingleProcess(multi, la, wf)
      BY <1>1, <1>2, <1>4, <1>5, <2>1, One DEF EpollReactorSingleProcess
    <2>2. CASE EpollReactorSingleProcessET
      BY <1>1, <1>2, <1>4, <2>2, One DEF EpollReactorSingleProcessET
    <2>3. CASE \E t \in Thread : EpollReactorThreadPool(t)
      BY <1>1, <1>2, <1>4, <2>3 DEF EpollReactorThreadPool
    <2>4. CASE PollReactorSingleProcess
      BY <1>1, <1>2, <1>4, <2>4, One DEF PollReactorSingleProcess, ReadsFirst
    <2>5. CASE SelectReactorSingleProcess
      BY <1>1, <1>2, <1>3, <1>4, <2>5, One DEF SelectReactorSingleProcess, ReadsFirst
    <2>6. QED
      BY <2>1, <2>2, <2>3, <2>4, <2>5
-----------------------------------------------------------------------------
(***************************************************************************)
(* The servers whose threads serve one connection until it ends.           *)
(***************************************************************************)
LEMMA OneByOneFacts ==
  ASSUME server.name \in OneByOne
  PROVE  server.name \notin OnRing /\ server.name \notin CoNames /\ server.name \notin HandOver
  BY DEF OnRing, CoNames, WithCoroutines, WithConsumers, HandOver, OneByOne, BlockingNames

LEMMA GotoPc ==
  ASSUME ThreadsOK, NEW t \in Thread, NEW place, NEW x, Goto(t, place, x)
  PROVE  thread'[t].pc = place /\ thread'[t].cur = x /\ \A u \in Thread \ {t} : thread'[u] = thread[u]
  BY DEF ThreadsOK, IsThread, Goto

(* The connection is in the same stage, at a place that goes with any. *)
LEMMA FollowFits ==
  ASSUME NEW c \in Client, NEW k, Follows(conn[c], k), NEW place, place \notin ToWrite \cup ToPush \cup {"close"},
         server.name \notin CoNames, NEW x
  PROVE  Fit(c, k, place, x)
  BY DEF Follows, Fit, Stands

(* A connection that is to be closed is one whose client has gone. *)
LEMMA GoneFits ==
  ASSUME NEW t \in Thread, NEW c \in Client, thread[t].cur = c, thread[t].pc = "close",
         NEW k, SameLife(conn[c], k), NEW pc, NEW x
  PROVE  Fit(c, k, pc, x)
  <1>1. ~ Placed(c)
    BY DEF Placed, Stands
  <1>2. k.phase = conn[c].phase
    BY DEF SameLife
  <1>3. QED
    BY <1>1, <1>2 DEF Fit

(* handlerClient leads from one stage to the next. *)
LEMMA HandlerFits ==
  ASSUME ThreadsOK, NEW t \in Thread, NEW c \in Client, c = thread[t].cur, Known(conn[c]),
         server.name \in OneByOne, handlerClient(t)
  PROVE  \E k : /\ conn' = [conn EXCEPT ![c] = k] /\ SameHold(conn[c], k)
                /\ ThreadStep(t, thread[t].batch, c) /\ Fit(c, k, thread'[t].pc, c)
                /\ thread'[t].pc \in {"recv", "send", "close"} /\ UNCHANGED queue
  <1>0. {"recv", "send", "close"} \subseteq Places \ (Unbusy \cup {"aborted"})
    BY DEF Places, Unbusy, Resting
  <1>1. server.name \notin OnRing /\ server.name \notin CoNames
    BY OneByOneFacts
  <1>2. ASSUME NEW place \in {"recv", "send", "close"},
               Goto(t, place, c) \/ (UNCHANGED thread /\ thread[t].pc = place)
        PROVE  ThreadStep(t, thread[t].batch, c) /\ thread'[t].pc = place
    <2>1. CASE Goto(t, place, c)
      BY <1>0, <2>1, GotoPc, GotoSteps, NoClientZero DEF Resting, Unbusy
    <2>2. CASE UNCHANGED thread /\ thread[t].pc = place
      BY <2>2, StaySteps
    <2>3. QED
      BY <1>2, <2>1, <2>2
  <1>3. ASSUME NEW k, SameHold(conn[c], k), NEW pc,
               k.phase # "down" /\ Placed(c) => Steady(k) /\ Stands(pc, k)
        PROVE  Fit(c, k, pc, c)
    BY <1>1, <1>3, SteadyFine DEF Fit, SameHold
  <1>4. ASSUME NEW k, NEW place \in {"recv", "send", "close"}, Update(c, k), SameHold(conn[c], k),
               Goto(t, place, c) \/ (UNCHANGED thread /\ thread[t].pc = place), UNCHANGED queue,
               k.phase # "down" /\ Placed(c) => Steady(k) /\ Stands(place, k)
        PROVE  \E r : /\ conn' = [conn EXCEPT ![c] = r] /\ SameHold(conn[c], r)
                      /\ ThreadStep(t, thread[t].batch, c) /\ Fit(c, r, thread'[t].pc, c)
                      /\ thread'[t].pc \in {"recv", "send", "close"} /\ UNCHANGED queue
    <2>1. ThreadStep(t, thread[t].batch, c) /\ thread'[t].pc = place
      BY <1>2, <1>4
    <2>2. Fit(c, k, place, c)
      BY <1>3, <1>4
    <2>3. conn' = [conn EXCEPT ![c] = k]
      BY <1>4 DEF Update
    <2>4. QED
      BY <1>4, <2>1, <2>2, <2>3
  <1>5. CASE RecvMsg(t)
    <2>0. PICK r \in Read(conn[c], FALSE) :
            CASE r.error       -> Update(c, r) /\ Goto(t, "close", c)
              [] OneMessage(r) -> Update(c, Encoded(r)) /\ Goto(t, "send", c)
              [] OTHER         -> Update(c, r) /\ UNCHANGED thread
      BY <1>5 DEF RecvMsg
    <2>1. \/ r.error /\ Update(c, r) /\ Goto(t, "close", c)
          \/ OneMessage(r) /\ Update(c, Encoded(r)) /\ Goto(t, "send", c)
          \/ ~ r.error /\ ~ OneMessage(r) /\ Update(c, r) /\ UNCHANGED thread
      BY <2>0
    <2>2. thread[t].pc = "recv" /\ UNCHANGED queue
      BY <1>5 DEF RecvMsg, At
    <2>3. SameHold(conn[c], r) /\ SameHold(conn[c], Encoded(r))
      <3>1. SameHold(conn[c], r)
        BY ReadHolds DEF Known
      <3>2. QED
        BY <3>1, EncodedHolds, HoldTwice DEF SameHold
    <2>4. r.phase # "down" => Steady(r) /\ ~ r.error /\ (OneMessage(r) => Got(r))
      <3>1. r.phase = conn[c].phase
        BY <2>3 DEF SameHold
      <3>2. QED
        BY <3>1, SteadyRead DEF Known, Steady, Open
    <2>5. CASE r.error /\ Update(c, r) /\ Goto(t, "close", c)
      BY <1>4, <2>2, <2>3, <2>4, <2>5
    <2>6. CASE OneMessage(r) /\ Update(c, Encoded(r)) /\ Goto(t, "send", c)
      <3>1. Encoded(r).phase = r.phase
        BY <2>3 DEF SameHold
      <3>2. Encoded(r).phase # "down" => Steady(Encoded(r)) /\ Writing(Encoded(r))
        BY <2>4, <2>6, <3>1, SteadyEncoded
      <3>3. Encoded(r).phase # "down" => Steady(Encoded(r)) /\ Stands("send", Encoded(r))
        BY <3>2 DEF Stands, ToPush
      <3>4. QED
        BY <1>4, <2>2, <2>3, <2>6, <3>3
    <2>7. CASE ~ r.error /\ ~ OneMessage(r) /\ Update(c, r) /\ UNCHANGED thread
      <3>1. Stands("recv", r)
        BY DEF Stands, ToWrite, ToPush
      <3>2. QED
        BY <1>4, <2>2, <2>3, <2>4, <2>7, <3>1
    <2>8. QED
      BY <2>1, <2>5, <2>6, <2>7
  <1>6. CASE SendMsg(t)
    <2> DEFINE again(w) == [ConnReset(w) EXCEPT !.codec = NewCodec]
    <2>0. PICK w \in WriteResults(conn[c]) :
            CASE w.error        -> Update(c, w) /\ Goto(t, "close", c)
              [] FinishWrite(w) -> Update(c, again(w)) /\ Goto(t, "recv", c)
              [] OTHER          -> Update(c, w) /\ UNCHANGED thread
      BY <1>6 DEF SendMsg
    <2>1. \/ w.error /\ Update(c, w) /\ Goto(t, "close", c)
          \/ FinishWrite(w) /\ Update(c, again(w)) /\ Goto(t, "recv", c)
          \/ ~ w.error /\ ~ FinishWrite(w) /\ Update(c, w) /\ UNCHANGED thread
      BY <2>0
    <2>2. thread[t].pc = "send" /\ UNCHANGED queue
      BY <1>6 DEF SendMsg, At
    <2>3. SameHold(conn[c], w) /\ SameHold(conn[c], again(w))
      <3>1. SameHold(conn[c], w)
        BY WriteHolds DEF Known
      <3>2. SameHold(w, ConnReset(w))
        BY <3>1, ResetHolds DEF SameHold
      <3>3. SameHold(ConnReset(w), again(w))
        BY <3>2 DEF SameHold, IsConn, Fields
      <3> HIDE DEF again
      <3>4. QED
        BY <3>1, <3>2, <3>3, HoldTwice
    <2>4. w.phase = conn[c].phase /\ again(w).phase = conn[c].phase
      BY <2>3 DEF SameHold
    <2>5. ASSUME conn[c].phase # "down"
          PROVE  /\ Open(w) /\ w.event.type # "write"
                 /\ FinishWrite(w) => Steady(again(w))
                 /\ ~ FinishWrite(w) => Steady(w) /\ Writing(w)
      <3>1. Steady(conn[c])
        BY <2>5 DEF Known
      <3>2. /\ Open(w) /\ w.event = conn[c].event
            /\ FinishWrite(w) => Finished(w)
            /\ ~ FinishWrite(w) => Steady(w) /\ Writing(w)
        BY <3>1, SteadyWrite
      <3>3. w.event.type # "write"
        BY <3>1, <3>2 DEF Steady
      <3>4. QED
        BY <3>2, <3>3, SteadyReset
    <2>6. CASE w.error /\ Update(c, w) /\ Goto(t, "close", c)
      <3>1. w.phase # "down" => FALSE
        BY <2>4, <2>5, <2>6 DEF Open
      <3>2. QED
        BY <1>4, <2>2, <2>3, <2>6, <3>1
    <2>7. CASE FinishWrite(w) /\ Update(c, again(w)) /\ Goto(t, "recv", c)
      <3>1. Stands("recv", again(w))
        BY DEF Stands, ToWrite, ToPush
      <3>2. again(w).phase # "down" => Steady(again(w))
        BY <2>4, <2>5, <2>7
      <3> HIDE DEF again
      <3>3. QED
        BY <1>4, <2>2, <2>3, <2>7, <3>1, <3>2
    <2>8. CASE ~ w.error /\ ~ FinishWrite(w) /\ Update(c, w) /\ UNCHANGED thread
      <3>1. w.phase # "down" => Steady(w) /\ Stands("send", w)
        BY <2>4, <2>5, <2>8 DEF Stands, ToPush
      <3>2. QED
        BY <1>4, <2>2, <2>3, <2>8, <3>1
    <2> HIDE DEF again
    <2>9. QED
      BY <2>1, <2>6, <2>7, <2>8
  <1>7. QED
    BY <1>5, <1>6 DEF handlerClient

LEMMA HandlerAnswers ==
  ASSUME OwnInv, AnswerInv, NEW t \in Thread, server.name \in OneByOne, handlerClient(t), UNCHANGED server
  PROVE  AnswerInv'
  <1> DEFINE c == thread[t].cur
  <1>1. thread[t].pc \notin Unbusy \cup {"aborted"}
    BY DEF handlerClient, RecvMsg, SendMsg, At, Unbusy, Resting
  <1>2. c \in Client /\ Known(conn[c])
    BY <1>1, BusyHeld, HeldKnown, OneByOneFacts
  <1>3. Takes(t, c)
    BY DEF Takes
  <1>4. c = thread[t].cur
    OBVIOUS
  <1> HIDE DEF c
  <1>5. PICK k : /\ conn' = [conn EXCEPT ![c] = k]
                 /\ ThreadStep(t, thread[t].batch, c) /\ Fit(c, k, thread'[t].pc, c) /\ UNCHANGED queue
    BY <1>2, <1>4, HandlerFits DEF OwnInv
  <1>6. QED
    BY <1>2, <1>3, <1>5, HoldAnswers

LEMMA CloseAnswers ==
  ASSUME OwnInv, AnswerInv, NEW t \in Thread, At(t, "close"), NEW k, Update(thread[t].cur, k),
         k \in {Deleted(Close(conn[thread[t].cur], p)) : p \in Thread}
           \cup {ReleaseConn(conn[thread[t].cur], p) : p \in Thread},
         ThreadStep(t, thread[t].batch, 0), UNCHANGED <<queue, server>>
  PROVE  AnswerInv'
  <1> DEFINE c == thread[t].cur
  <1>1. thread[t].pc \notin Unbusy \cup {"aborted"}
    BY DEF At, Unbusy, Resting
  <1>2. c \in Client /\ IsConn(conn[c])
    BY <1>1, BusyHeld, HeldFacts
  <1>3. SameLife(conn[c], k)
    BY <1>2, ReleaseLives
  <1>4. Fit(c, k, thread'[t].pc, 0)
    BY <1>2, <1>3, GoneFits DEF At
  <1>5. Takes(t, c) /\ conn' = [conn EXCEPT ![c] = k]
    BY DEF Takes, Update
  <1> HIDE DEF c
  <1>6. QED
    BY <1>2, <1>4, <1>5, HoldAnswers

LEMMA AcceptAnswers ==
  ASSUME OwnInv, AnswerInv, NEW t \in Thread, NEW listener, NEW p, NEW c \in InBacklog(listener),
         Update(c, Accepted(conn[c], p)), Goto(t, "recv", c), thread[t].cur = 0,
         UNCHANGED <<queue, server>>, server.name \in BlockingNames
  PROVE  AnswerInv'
  <1>1. c \in Client /\ ConnOK(conn[c]) /\ conn[c].listener # 0
    BY BacklogOK
  <1>2. Unowned(c)
    BY <1>1, BacklogUnowned DEF ConnOK
  <1>3. ThreadStep(t, thread[t].batch, c) /\ thread'[t].pc = "recv"
    BY <1>1, NoClientZero, GotoSteps, GotoPc DEF OwnInv, Unbusy, Resting, Places
  <1>4. server.name \in OneByOne
    BY DEF OneByOne
  <1>5. Fit(c, Accepted(conn[c], p), "recv", c)
    BY <1>1, <1>4, OneByOneFacts, AcceptFollows, FollowFits DEF ToWrite, ToPush
  <1>6. Takes(t, c)
    BY <1>2 DEF Takes
  <1>7. QED
    BY <1>1, <1>3, <1>5, <1>6, HoldAnswers DEF Update

(* A thread without a connection goes on without one. *)
LEMMA PaceAnswers ==
  ASSUME ThreadsOK, AnswerInv, NEW t \in Thread, NEW B, ThreadStep(t, B, thread[t].cur), thread[t].cur = 0,
         UNCHANGED <<conn, queue, server>>
  PROVE  AnswerInv'
  <1>1. Aside(0)
    BY DEF Aside, ThreadStep
  <1>2. \A c \in Client : Follows(conn[c], conn'[c])
    BY FollowsSelf
  <1>3. QED
    BY <1>1, <1>2, QuietAnswers

LEMMA BlockingAnswers ==
  ASSUME OwnInv, AnswerInv, UNCHANGED server,
         \/ On("SingleProcess") /\ SingleProcess
         \/ On("MultiThread") /\ MultiThread
         \/ On("ProcessPool1") /\ \E t \in Thread : ProcessPool1(t)
         \/ On("ProcessPool2") /\ \E t \in Thread : ProcessPool2(t)
         \/ On("ThreadPool") /\ \E t \in Thread : ThreadPool(t)
         \/ On("LeaderAndFollower") /\ \E t \in Thread : LeaderAndFollower(t)
  PROVE  AnswerInv'
  <1>1. server.name \in BlockingNames /\ server.name \in OneByOne
    BY DEF On, BlockingNames, OneByOne
  <1>2. CASE \E t \in Thread : handlerClient(t)
    BY <1>1, <1>2, HandlerAnswers
  <1>3. CASE \E t, p \in Thread : CloseClient(t, p)
    <2>1. PICK t \in Thread, p \in Thread : CloseClient(t, p)
      BY <1>3
    <2>2. ThreadStep(t, thread[t].batch, 0)
      <3>1. thread[t].batch = {}
        BY <1>1 DEF OwnInv, NeverHave
      <3>2. QED
        BY <2>1, <3>1, GotoSteps DEF CloseClient, OwnInv, Unbusy, Resting, Places
    <2>3. QED
      BY <2>1, <2>2, CloseAnswers DEF CloseClient
  <1>4. CASE \E t \in Thread : \E listener, p :
               (At(t, "top") \/ At(t, "leader")) /\ Accept(t, listener, p, "recv")
    <2>1. PICK t \in Thread : \E listener, p : (At(t, "top") \/ At(t, "leader")) /\ Accept(t, listener, p, "recv")
      BY <1>4
    <2>2. thread[t].cur = 0
      BY <2>1, Thread0 DEF At, Resting, Unbusy, OwnInv
    <2>3. QED
      BY <1>1, <2>1, <2>2, AcceptAnswers DEF Accept
  <1>5. CASE On("MultiThread") /\ MultiThread
    <2>1. \A c \in Client : Of(c) \in Thread /\ c = Of(c) - 1
      BY EchoConnAssumption DEF Of, Thread, Client
    <2>2. CASE \E c \in InBacklog(1) :
                 /\ Update(c, Accepted(conn[c], 1)) /\ Goto(Of(c), "recv", c) /\ UNCHANGED queue
      <3>1. PICK c \in InBacklog(1) :
                 Update(c, Accepted(conn[c], 1)) /\ Goto(Of(c), "recv", c) /\ UNCHANGED queue
        BY <2>2
      <3>2. c \in Client /\ ConnOK(conn[c]) /\ conn[c].listener # 0
        BY BacklogOK
      <3>3. thread[Of(c)].cur = 0
        BY <1>5, <2>1, <3>2, BacklogUnowned DEF OwnInv, NeverHave, Unowned, ConnOK
      <3>4. QED
        BY <1>1, <2>1, <3>1, <3>2, <3>3, AcceptAnswers
    <2>3. CASE \E c \in Client : handlerClient(Of(c)) \/ CloseClient(Of(c), 1)
      BY <1>2, <1>3, <2>1, <2>3, One
    <2>4. QED
      BY <1>5, <2>2, <2>3 DEF MultiThread
  <1>6. CASE \E t \in Thread : LeaderAndFollower(t)
    <2>1. CASE \E t \in Thread : At(t, "top") /\ Goto(t, "leader", 0) /\ UNCHANGED <<conn, queue>>
      <3>1. PICK t \in Thread : At(t, "top") /\ Goto(t, "leader", 0) /\ UNCHANGED <<conn, queue>>
        BY <2>1
      <3>2. thread[t].cur = 0 /\ thread[t].batch = {}
        BY <3>1, Thread0 DEF At, Resting, Unbusy, OwnInv
      <3>3. ThreadStep(t, thread[t].batch, thread[t].cur)
        BY <3>1, <3>2, GotoSteps DEF OwnInv, Unbusy, Resting, Places
      <3>4. QED
        BY <3>1, <3>2, <3>3, PaceAnswers DEF OwnInv
    <2>2. QED
      BY <1>2, <1>3, <1>4, <1>6, <2>1, One DEF LeaderAndFollower
  <1>7. CASE \/ SingleProcess
             \/ \E t \in Thread : ProcessPool1(t) \/ ProcessPool2(t) \/ ThreadPool(t)
    <2>1. CASE SingleProcess
      BY <1>2, <1>3, <1>4, <2>1, One DEF SingleProcess
    <2>2. CASE \E t \in Thread : ProcessPool1(t)
      BY <1>2, <1>3, <1>4, <2>2 DEF ProcessPool1
    <2>3. CASE \E t \in Thread : ProcessPool2(t)
      BY <1>2, <1>3, <1>4, <2>3 DEF ProcessPool2
    <2>4. CASE \E t \in Thread : ThreadPool(t)
      BY <1>2, <1>3, <1>4, <2>4, One DEF ThreadPool
    <2>5. QED
      BY <1>7, <2>1, <2>2, <2>3, <2>4
  <1>8. QED
    BY <1>5, <1>6, <1>7

(* Epoll, Poll and Select. *)
LEMMA EpollPollSelectAnswers ==
  ASSUME OwnInv, AnswerInv, server.name \in LevelNames, server.name \in OneByOne, UNCHANGED server,
         Poll \/ Select \/ \E la : Epoll(la)
  PROVE  AnswerInv'
  <1>1. CASE ListenWait(1)
    BY <1>1, ListenWaitAnswers, One
  <1>2. CASE \E max, p, epoll, mode : LoopAccept(1, max, NewReads(p, epoll, mode))
    BY <1>2, NewReadsAnswer, LevelFacts, One
  <1>3. CASE \E max : LoopAccept(1, max, AllRefused)
    BY <1>3, RefusalAnswers, LevelFacts, One
  <1>4. CASE \E c \in Client : ServeEvent(c)
    <2>1. PICK c \in Client : ServeEvent(c)
      BY <1>4
    <2>2. c \in thread[1].batch /\ thread[1].cur = 0 /\ UNCHANGED queue
      BY <2>1, Thread0, One DEF ServeEvent, At, Unbusy, OwnInv
    <2>3. Run(1, c, "recv") /\ "recv" \in Places \ (Unbusy \cup {"aborted"})
      BY <2>1, <2>2 DEF ServeEvent, Run, Places, Unbusy, Resting
    <2>4. ThreadStep(1, thread[1].batch \ {c}, c)
      BY <2>3, One, RunSteps DEF OwnInv
    <2>5. thread'[1].pc = "recv"
      BY <2>3, One DEF Run, OwnInv, ThreadsOK, IsThread
    <2>6. conn' = [conn EXCEPT ![c] = conn[c]]
      BY <2>1 DEF ServeEvent, OwnInv, Connections
    <2>7. Fit(c, conn[c], "recv", c)
      BY FollowsSelf, FollowFits, OneByOneFacts DEF ToWrite, ToPush
    <2>8. Takes(1, c)
      BY <2>2 DEF Takes
    <2>9. QED
      BY <2>2, <2>4, <2>5, <2>6, <2>7, <2>8, One, HoldAnswers
  <1>5. CASE handlerClient(1)
    BY <1>5, HandlerAnswers, One
  <1>6. CASE Served
    <2>1. ThreadStep(1, thread[1].batch, 0)
      BY <1>6, One, OnwardSteps DEF Served, OwnInv
    <2>2. QED
      BY <1>6, <2>1, One, CloseAnswers DEF Served
  <1>7. QED
    BY <1>1, <1>2, <1>3, <1>4, <1>5, <1>6 DEF Epoll, Poll, Select
-----------------------------------------------------------------------------
(***************************************************************************)
(* The servers that hand connections from one thread to another.           *)
(***************************************************************************)
(* The client is there as before, the stage is known, and the thread, if it
   goes on with the connection, is where the stage has it. *)
LEMMA SteadyFits ==
  ASSUME NEW c \in Client, NEW k, k.phase = conn[c].phase, server.name \notin OnRing, NEW pc, NEW x,
         k.phase # "down" /\ Fine(conn[c]) /\ Placed(c) => Steady(k) /\ (x = c => Stands(pc, k)),
         server.name \in CoNames => x = c \/ k.phase = "down" \/ k.cid # "writing" \/ Writing(k)
  PROVE  Fit(c, k, pc, x)
  BY SteadyFine DEF Fit

(* EpollReactorThreadPoolMS: one connection is accepted. *)
LEMMA OneFollows ==
  ASSUME OwnInv, AnswerInv, NEW t \in Thread, NEW c \in Client, NEW k, Update(c, k), Follows(conn[c], k),
         thread[t].cur = 0, NEW B, ThreadStep(t, B, 0), UNCHANGED <<queue, server>>
  PROVE  AnswerInv'
  <1>1. Aside(0)
    BY DEF Aside, ThreadStep
  <1>2. \A d \in Client : Follows(conn[d], conn'[d])
    BY FollowsSelf DEF Update, OwnInv, Connections
  <1>3. QED
    BY <1>1, <1>2, QuietAnswers

LEMMA LeavingAnswers ==
  ASSUME OwnInv, AnswerInv, NEW c \in Client, Leaving(c), NEW epoll,
         Update(c, AddReadEvent(ClearEvent(conn[c]), epoll, "lt")), Turn(Rest(c)),
         server.name \in LevelNames, UNCHANGED <<queue, server>>
  PROVE  AnswerInv'
  <1> DEFINE k == conn[c]
             m == ClearEvent(k)
             r == AddReadEvent(m, epoll, "lt")
  <1>1. c \in thread[1].batch /\ thread[1].cur = 0 /\ thread[1].pc = "events"
    BY Thread0, One DEF Leaving, At, Unbusy, OwnInv
  <1>2. Known(k)
    BY <1>1, One, BatchHeld, HeldKnown, LevelFacts
  <1>3. r.phase = k.phase
    <2>1. m = [k EXCEPT !.event = NoEvent] /\ IsConn(k)
      BY <1>2 DEF ClearEvent, Known
    <2>2. m.phase = k.phase /\ IsConn(m)
      BY <2>1, EventIs, EventChanges
    <2>3. r = [m EXCEPT !.event = Event(epoll, "read", "lt")]
      BY DEF AddReadEvent
    <2> HIDE DEF m, r
    <2>4. QED
      BY <2>2, <2>3, EventChanges
  <1>4. k.phase # "down" => Steady(r)
    BY <1>2, SteadyMod DEF Known, Steady
  <1>5. /\ Rest(c) = [u \in Thread |-> Rest(c)[u]]
        /\ \A u \in Thread \ {1} : Rest(c)[u] = thread[u]
        /\ Rest(c)[1].batch = thread[1].batch \ {c} /\ Rest(c)[1].cur = 0
        /\ IsThread(Rest(c)[1])
    <2>1. thread = [u \in Thread |-> thread[u]] /\ IsThread(thread[1])
      BY One DEF OwnInv, ThreadsOK
    <2> DEFINE th == [thread[1] EXCEPT !.batch = @ \ {c},
                                       !.pc = IF thread[1].batch = {c} THEN "top" ELSE "events"]
    <2>2. Rest(c) = [thread EXCEPT ![1] = th]
      BY DEF Rest
    <2>3. IsThread(th) /\ th.batch = thread[1].batch \ {c} /\ th.cur = 0
      BY <1>1, <2>1 DEF IsThread, Places, Unbusy, Resting
    <2> HIDE DEF th
    <2>4. QED
      BY <2>1, <2>2, <2>3, One
  <1>6. ThreadStep(1, thread[1].batch \ {c}, 0)
    BY <1>5, TurnSteps
  <1>7. conn' = [conn EXCEPT ![c] = r] /\ Takes(1, c)
    BY <1>1 DEF Update, Takes
  <1> HIDE DEF k, m, r
  <1>8. Fit(c, r, thread'[1].pc, 0)
    BY <1>3, <1>4, NoClientZero, SteadyFits, LevelFacts DEF k
  <1>9. QED
    BY <1>6, <1>7, <1>8, One, HoldAnswers

LEMMA MasterSubAnswers ==
  ASSUME OwnInv, AnswerInv, On("EpollReactorThreadPoolMS"), NEW main, EpollReactorThreadPoolMS(main),
         UNCHANGED server
  PROVE  AnswerInv'
  <1>0. server.name \in LevelNames /\ server.name \notin OneByOne
    BY DEF On, LevelNames, OneByOne, BlockingNames
  <1>1. CASE ListenWait(1)
    BY <1>1, ListenWaitAnswers, One
  <1>2. CASE AcceptEnds
    <2>1. thread[1].cur = 0 /\ ThreadStep(1, thread[1].batch \ {Sock}, 0)
      BY <1>2, TakeSteps, One DEF AcceptEnds, OwnInv
    <2>2. ThreadStep(1, thread[1].batch \ {Sock}, thread[1].cur)
      BY <2>1
    <2>3. QED
      BY <1>2, <2>1, <2>2, One, PaceAnswers DEF AcceptEnds, OwnInv
  <1>3. CASE \E c \in Client : mainReactorThread(c, main)
    <2>1. PICK c \in Client : mainReactorThread(c, main)
      BY <1>3
    <2>2. ASSUME Accepting(c), NEW epoll, NEW k, k = NewRead(conn[c], 1, epoll, "lt"), Update(c, k),
                 UNCHANGED thread \/ Turn(thread), UNCHANGED queue
          PROVE  AnswerInv'
      <3>1. c \in InBacklog(1) /\ thread[1].cur = 0
        BY <2>2, Thread0, One DEF Accepting, At, Unbusy, OwnInv
      <3>2. Follows(conn[c], k)
        BY <1>0, <2>2, <3>1, BacklogOK, AcceptFollows, LevelFacts
      <3>3. ThreadStep(1, thread[1].batch, 0)
        <4>1. CASE UNCHANGED thread
          BY <3>1, <4>1, One, StaySteps DEF OwnInv
        <4>2. CASE Turn(thread)
          BY <3>1, <4>2, One, TurnSteps DEF OwnInv, ThreadsOK
        <4>3. QED
          BY <2>2, <4>1, <4>2
      <3>4. QED
        BY <2>2, <3>1, <3>2, <3>3, One, OneFollows
    <2>3. CASE AcceptToMain(c)
      BY <2>2, <2>3 DEF AcceptToMain
    <2>4. CASE /\ Accepting(c) /\ Update(c, NewRead(conn[c], 1, NextSub, "lt"))
               /\ Turn(thread) /\ UNCHANGED queue
      BY <2>2, <2>4
    <2>5. CASE /\ Leaving(c) /\ Update(c, AddReadEvent(ClearEvent(conn[c]), NextSub, "lt"))
               /\ Turn(Rest(c)) /\ UNCHANGED queue
      BY <1>0, <2>5, LeavingAnswers
    <2>6. QED
      BY <2>1, <2>3, <2>4, <2>5 DEF mainReactorThread
  <1>4. CASE \E t \in Subs : subReactorThread(t)
    <2>1. PICK t \in Thread : subReactorThread(t)
      BY <1>4, EchoConnAssumption DEF Subs, Thread
    <2>2. CASE EpollWait(t, t, FALSE)
      BY <2>2, EpollWaitAnswers DEF OwnInv, Connections, ConnOK
    <2>3. CASE \E c \in Client : ReadWrite(t, c, 1, TRUE, "lt")
      BY <1>0, <2>3, ReadWriteAnswers, LevelFacts
    <2>4. QED
      BY <2>1, <2>2, <2>3 DEF subReactorThread
  <1>5. QED
    BY <1>1, <1>2, <1>3, <1>4 DEF EpollReactorThreadPoolMS

(* The half-sync half-async servers. *)
LEMMA HandOverFacts ==
  ASSUME server.name \in HandOver
  PROVE  server.name \notin OnRing /\ server.name \notin CoNames /\ server.name \notin OneByOne
  BY DEF HandOver, OnRing, CoNames, WithCoroutines, WithConsumers, OneByOne, BlockingNames

LEMMA WalkAnswers ==
  ASSUME ThreadsOK, AnswerInv, NEW t \in Thread, thread[t].cur = 0, NEW place, Goto(t, place, 0),
         UNCHANGED <<conn, queue, server>>
  PROVE  AnswerInv'
  <1>1. Aside(0)
    BY GotoPc DEF Aside
  <1>2. QED
    BY <1>1, FollowsSelf, QuietAnswers

LEMMA ReadRequestAnswers ==
  ASSUME OwnInv, AnswerInv, server.name \in HandOver, NEW t \in Thread, NEW c \in Client, ReadRequest(t, c),
         UNCHANGED server
  PROVE  AnswerInv'
  <1>1. c \in thread[t].batch /\ thread[t].cur = 0 /\ UNCHANGED queue /\ Takes(t, c)
    BY Thread0 DEF ReadRequest, At, Unbusy, OwnInv, Takes
  <1>2. Known(conn[c])
    BY <1>1, BatchHeld, HeldKnown, HandOverFacts
  <1>3. PICK r \in Read(conn[c], TRUE) :
          IF ~ r.error /\ OneMessage(r)
          THEN /\ thread' = [thread EXCEPT ![t].batch = @ \ {c}, ![t].pc = "push", ![t].cur = c]
               /\ Update(c, r)
          ELSE /\ TakeEvent(t, c)
               /\ Update(c, IF r.error THEN ReleaseConn(r, 1) ELSE ReStartReadEvent(r))
    BY DEF ReadRequest
  <1>4. SameLife(conn[c], r) /\ IsConn(r) /\ r.phase = conn[c].phase
    <2>1. SameHold(conn[c], r)
      BY <1>2, ReadHolds DEF Known
    <2>2. QED
      BY <2>1, HoldLives DEF SameHold
  <1>5. r.phase # "down" => Steady(r) /\ ~ r.error /\ (OneMessage(r) => Got(r))
    BY <1>2, <1>4, SteadyRead DEF Known, Steady, Open
  <1>6. CASE ~ r.error /\ OneMessage(r)
    <2>1. ThreadStep(t, thread[t].batch \ {c}, c) /\ thread'[t].pc = "push"
      <3>1. thread' = [thread EXCEPT ![t].batch = @ \ {c}, ![t].pc = "push", ![t].cur = c]
        BY <1>3, <1>6
      <3>2. thread = [u \in Thread |-> thread[u]] /\ \A u \in Thread : IsThread(thread[u])
        BY DEF OwnInv, ThreadsOK
      <3> DEFINE th == [thread[t] EXCEPT !.batch = @ \ {c}, !.pc = "push", !.cur = c]
      <3>3. IsThread(th) /\ th.batch = thread[t].batch \ {c} /\ th.cur = c /\ th.pc = "push"
        BY <3>2, NoClientZero DEF IsThread, Places, Unbusy, Resting
      <3>4. thread' = [thread EXCEPT ![t] = th]
        BY <3>1
      <3> HIDE DEF th
      <3>5. QED
        BY <3>2, <3>3, <3>4 DEF ThreadStep
    <2>2. r.phase # "down" => Steady(r) /\ Stands("push", r)
      BY <1>5, <1>6 DEF Stands, ToWrite
    <2>3. Fit(c, r, "push", c)
      BY <1>4, <2>2, SteadyFits, HandOverFacts
    <2>4. QED
      BY <1>1, <1>3, <1>6, <2>1, <2>3, HoldAnswers DEF Update
  <1>7. CASE ~ (~ r.error /\ OneMessage(r))
    <2> DEFINE k == IF r.error THEN ReleaseConn(r, 1) ELSE ReStartReadEvent(r)
    <2>1. k.phase = r.phase
      BY <1>4, ReleaseLives, ModLives DEF SameLife
    <2>2. r.phase # "down" => Steady(k)
      BY <1>5, SteadyMod DEF Steady
    <2>3. TakeEvent(t, c) /\ Update(c, k)
      BY <1>3, <1>7
    <2> HIDE DEF k
    <2>4. ThreadStep(t, thread[t].batch \ {c}, 0)
      BY <2>3, TakeSteps DEF OwnInv
    <2>5. Fit(c, k, thread'[t].pc, 0)
      BY <1>4, <2>1, <2>2, NoClientZero, SteadyFits, HandOverFacts
    <2>6. QED
      BY <1>1, <2>3, <2>4, <2>5, HoldAnswers DEF Update
  <1>8. QED
    BY <1>6, <1>7

LEMMA IoHandlerAnswers ==
  ASSUME OwnInv, AnswerInv, server.name \in HandOver, NEW t \in Thread, ioHandler(t), UNCHANGED server
  PROVE  AnswerInv'
  <1>1. CASE ListenWait(t)
    BY <1>1, ListenWaitAnswers
  <1>2. CASE LoopAccept(t, All, [c \in Client |-> NewOneShot(conn[c], t)])
    <2>1. ASSUME NEW c \in InBacklog(t) PROVE Follows(conn[c], [d \in Client |-> NewOneShot(conn[d], t)][c])
      BY BacklogOK, AcceptFollows, HandOverFacts DEF NewOneShot
    <2>2. QED
      BY <1>2, <2>1, LoopAcceptAnswers
  <1>3. CASE \E c \in Client : ReadRequest(t, c)
    BY <1>3, ReadRequestAnswers
  <1>4. CASE \E c \in Client : WriteAnswer(t, c)
    <2>1. PICK c \in Client : Handle(t, c, WriteEvent(conn[c], 1, "oneshot"))
      BY <1>4 DEF WriteAnswer
    <2>2. Known(conn[c])
      BY <2>1, BatchHeld, HeldKnown, HandOverFacts DEF Handle, TakeEvent
    <2>3. \A k \in WriteEvent(conn[c], 1, "oneshot") : Handled(conn[c], k)
      BY <2>2, WriteEventGives DEF Known
    <2>4. QED
      BY <2>1, <2>3, HandleAnswers, HandOverFacts
  <1>5. QED
    BY <1>1, <1>2, <1>3, <1>4 DEF ioHandler

LEMMA PushAnswers ==
  ASSUME OwnInv, AnswerInv, server.name \in HandOver, NEW t \in Thread, thread[t].pc \in ToPush,
         NEW place, Push(t, place), place \in {"notify", "fill"}, UNCHANGED server
  PROVE  AnswerInv'
  <1> DEFINE c == thread[t].cur
  <1>1. c \in Client /\ Sole(t, c)
    <2>1. thread[t].pc \notin Unbusy \cup {"aborted"} /\ Takes(t, c)
      BY DEF ToPush, Unbusy, Resting, Takes
    <2>2. QED
      BY <2>1, BusyHeld, TakesSole
  <1>2. ThreadStep(t, thread[t].batch, 0)
    BY GotoSteps DEF Push, OwnInv, Places, Unbusy, Resting
  <1>3. Placed(c) => Got(conn[c])
    BY DEF Placed, Stands
  <1>4. conn' = [conn EXCEPT ![c] = conn[c]] /\ queue' = Append(queue, c)
    BY DEF Push, OwnInv, Connections
  <1> HIDE DEF c
  <1>5. Queues(c)
    <2>1. queue \in Seq(Client)
      BY DEF OwnInv, InQueue
    <2>2. /\ \A i \in 1 .. Len(queue) : queue'[i] = queue[i]
          /\ Len(queue') = Len(queue) + 1 /\ Len(queue) \in Nat /\ queue'[Len(queue) + 1] = c
      BY <1>1, <1>4, <2>1
    <2>3. ASSUME NEW i \in 1 .. Len(queue')
          PROVE  queue'[i] = c \/ \E j \in 1 .. Len(queue) : queue[j] = queue'[i]
      <3>1. i \in 1 .. Len(queue) \/ i = Len(queue) + 1
        BY <2>2
      <3>2. QED
        BY <2>2, <3>1
    <2>4. QED
      BY <2>3 DEF Queues
  <1>6. Fit(c, conn[c], thread'[t].pc, 0)
    BY <1>1, NoClientZero, HandOverFacts DEF Fit
  <1>7. QED
    BY <1>1, <1>2, <1>3, <1>4, <1>5, <1>6, HandAnswers

(* The connection at the front of the queue is nobody's else. *)
LEMMA FrontSole ==
  ASSUME OwnInv, NEW t \in Thread, queue # <<>>, thread[t].cur = 0, queue' = Tail(queue),
         NEW c, c = Head(queue)
  PROVE  /\ c \in Client /\ c = queue[1] /\ 1 \in 1 .. Len(queue)
         /\ Sole(t, c) /\ Queues(c) /\ \A i \in 1 .. Len(queue') : queue'[i] # c
         /\ Held(conn[c]) /\ (server.name \in OnRing => conn[c].op = "none")
  <1> USE DEF OwnInv
  <1>1. /\ queue \in Seq(Client) /\ Len(queue) \in Nat /\ Len(queue) > 0
        /\ c \in Client /\ c = queue[1]
        /\ Len(queue') = Len(queue) - 1
        /\ \A i \in 1 .. Len(queue') : i + 1 \in 1 .. Len(queue) /\ queue'[i] = queue[i + 1]
    BY DEF InQueue
  <1>2. 1 \in 1 .. Len(queue)
    BY <1>1
  <1>3. Sole(t, c) /\ Held(conn[c]) /\ (server.name \in OnRing => conn[c].op = "none")
    <2>1. /\ conn[c].fds # {} /\ (server.name \in OnRing => conn[c].op = "none")
          /\ \A u \in Thread : c \notin thread[u].batch /\ c # thread[u].cur
      BY <1>1, <1>2 DEF InQueue
    <2>2. QED
      BY <1>1, <2>1 DEF Sole, Held, Connections
  <1>4. \A i \in 1 .. Len(queue') : queue'[i] # c
    <2> SUFFICES ASSUME NEW i \in 1 .. Len(queue'), queue[i + 1] = queue[1] PROVE FALSE
      BY <1>1
    <2>1. i + 1 \in 1 .. Len(queue) /\ i + 1 # 1
      BY <1>1
    <2>2. QED
      BY <1>2, <2>1 DEF InQueue
  <1>5. Queues(c)
    BY <1>1 DEF Queues
  <1>6. QED
    BY <1>1, <1>2, <1>3, <1>4, <1>5

LEMMA TakeFrontAnswers ==
  ASSUME OwnInv, AnswerInv, server.name \in HandOver, NEW t \in Thread, thread[t].pc \in {"top", "item"},
         TakeFront(t), NEW place \in {"work", "idle"}, Goto(t, place, Head(queue)), UNCHANGED server
  PROVE  AnswerInv'
  <1> DEFINE c == Head(queue)
  <1>1. thread[t].cur = 0
    BY Thread0 DEF OwnInv, Resting, Unbusy
  <1>2. /\ c \in Client /\ c = queue[1] /\ 1 \in 1 .. Len(queue)
        /\ Sole(t, c) /\ Queues(c) /\ \A i \in 1 .. Len(queue') : queue'[i] # c
        /\ Held(conn[c])
    BY <1>1, FrontSole DEF TakeFront
  <1>3. conn' = [conn EXCEPT ![c] = Encoded(conn[c])]
    BY DEF TakeFront, Update
  <1>4. ThreadStep(t, thread[t].batch, c) /\ thread'[t].pc = place
    <2>1. Goto(t, place, c) /\ c \in Client /\ c # 0
      BY <1>2, NoClientZero
    <2> HIDE DEF c
    <2>2. QED
      BY <2>1, Thread0, GotoSteps, GotoPc DEF OwnInv, Places, Unbusy, Resting
  <1> HIDE DEF c
  <1>5. Known(conn[c])
    BY <1>2, HeldKnown, HandOverFacts
  <1>6. Placed(c) => Got(conn[c])
    BY <1>2 DEF Placed
  <1>7. Encoded(conn[c]).phase = conn[c].phase
    BY <1>5, EncodedHolds DEF Known, SameHold
  <1>8. conn[c].phase # "down" /\ Placed(c) => Steady(Encoded(conn[c])) /\ Writing(Encoded(conn[c]))
    BY <1>5, <1>6, SteadyEncoded DEF Known
  <1>9. conn[c].phase # "down" /\ Placed(c) => Steady(Encoded(conn[c])) /\ Stands(place, Encoded(conn[c]))
    BY <1>8 DEF Stands, ToPush
  <1>10. Fit(c, Encoded(conn[c]), place, c)
    BY <1>2, <1>7, <1>9, SteadyFits, HandOverFacts
  <1>11. QED
    BY <1>2, <1>3, <1>4, <1>10, HandAnswers

(* A thread takes its connection to a place for the same stage. *)
LEMMA CarryAnswers ==
  ASSUME OwnInv, AnswerInv, server.name \notin CoNames, NEW t \in Thread, NEW place,
         <<thread[t].pc, place>> \in {<<"push", "slot">>, <<"idle", "work">>},
         Goto(t, place, thread[t].cur), UNCHANGED <<conn, queue, server>>
  PROVE  AnswerInv'
  <1> DEFINE c == thread[t].cur
  <1>1. \/ thread[t].pc = "push" /\ place = "slot"
        \/ thread[t].pc = "idle" /\ place = "work"
    OBVIOUS
  <1>2. c \in Client
    BY <1>1, BusyHeld DEF Unbusy, Resting
  <1>3. ThreadStep(t, thread[t].batch, c) /\ thread'[t].pc = place
    <2>1. place \in Places \ (Unbusy \cup {"aborted"}) /\ c # 0 /\ Goto(t, place, c)
      BY <1>1, <1>2, NoClientZero DEF Places, Unbusy, Resting
    <2> HIDE DEF c
    <2>2. QED
      BY <1>2, <2>1, GotoSteps, GotoPc DEF OwnInv, Unbusy, Resting
  <1>4. Placed(c) => Stands(place, conn[c])
    BY <1>1 DEF Placed, Stands, ToWrite, ToPush
  <1>5. Fit(c, conn[c], place, c)
    BY <1>4 DEF Fit
  <1>6. conn' = [conn EXCEPT ![c] = conn[c]] /\ Takes(t, c)
    BY DEF OwnInv, Connections, Takes
  <1> HIDE DEF c
  <1>7. QED
    BY <1>2, <1>3, <1>5, <1>6, HoldAnswers

LEMMA NotifyAnswers ==
  ASSUME OwnInv, AnswerInv, NEW t \in Thread, thread[t].pc = "notify", NEW place,
         NotifyOne(t, place, 0, Takers), UNCHANGED server
  PROVE  AnswerInv'
  <1> DEFINE on == [thread EXCEPT ![t].pc = place, ![t].cur = 0]
  <1>1. thread[t].cur = 0 /\ UNCHANGED <<conn, queue>>
    BY Thread0 DEF Unbusy, OwnInv, NotifyOne
  <1>2. on = [u \in Thread |-> on[u]] /\ on[t].cur = 0 /\ \A u \in Thread \ {t} : on[u] = thread[u]
    BY DEF OwnInv, ThreadsOK, IsThread
  <1>3. \A u \in Thread : \/ thread'[u] = on[u]
                          \/ thread[u].cur = 0 /\ thread'[u].cur = 0
    <2>1. CASE thread' = on
      BY <2>1
    <2>2. CASE \E w \in Takers : At(w, "wait") /\ thread' = [on EXCEPT ![w].pc = "top"]
      <3>1. PICK w \in Takers : At(w, "wait") /\ thread' = [on EXCEPT ![w].pc = "top"]
        BY <2>2
      <3>2. w \in Thread /\ w # t /\ thread[w].cur = 0 /\ on[w] = thread[w]
        BY <1>2, <3>1, IoThreads, Thread0 DEF At, OwnInv, Unbusy, Resting
      <3>3. thread[w] \in [pc : Places, batch : SUBSET (Client \cup {Sock}), cur : Client \cup {0}, index : Nat]
        BY <3>2 DEF OwnInv, ThreadsOK, IsThread
      <3> DEFINE its == [thread[w] EXCEPT !.pc = "top"]
      <3>6. thread' = [on EXCEPT ![w] = its] /\ its.cur = 0
        BY <3>1, <3>2, <3>3
      <3> HIDE DEF on, its
      <3>4. thread'[w].cur = 0 /\ \A u \in Thread \ {w} : thread'[u] = on[u]
        BY <1>2, <3>2, <3>6
      <3>5. QED
        BY <3>2, <3>4
    <2>3. QED
      BY <2>1, <2>2 DEF NotifyOne, Takers
  <1> HIDE DEF on
  <1>4. Aside(0)
    BY <1>1, <1>2, <1>3 DEF Aside
  <1>5. QED
    BY <1>1, <1>4, FollowsSelf, QuietAnswers

LEMMA WorkAnswers ==
  ASSUME OwnInv, AnswerInv, server.name \in HandOver, NEW t \in Takers, NEW direct, Work(t, direct),
         UNCHANGED server
  PROVE  AnswerInv'
  <1> DEFINE c == thread[t].cur
             k == conn[c]
  <1>0. t \in Thread /\ thread[t].batch = {}
    BY IoThreads DEF OwnInv, NeverHave
  <1>1. thread[t].pc \notin Unbusy \cup {"aborted"} /\ UNCHANGED queue /\ thread[t].pc = "work"
    BY DEF Work, At, Unbusy, Resting
  <1>2. c \in Client /\ Known(k)
    BY <1>0, <1>1, BusyHeld, HeldKnown, HandOverFacts
  <1>3. Takes(t, c) /\ c = thread[t].cur
    BY DEF Takes
  <1>4. Placed(c) => Writing(k)
    BY <1>0, <1>1 DEF Placed, Stands, ToWrite
  <1>5. ASSUME NEW r, r.phase = k.phase, r.phase # "down" /\ Placed(c) => Steady(r),
               Update(c, r), Goto(t, "top", 0)
        PROVE  AnswerInv'
    <2>1. ThreadStep(t, thread[t].batch, 0)
      BY <1>0, <1>5, GotoSteps DEF OwnInv, Places, Unbusy, Resting
    <2> HIDE DEF c
    <2>2. Fit(c, r, thread'[t].pc, 0)
      BY <1>2, <1>5, NoClientZero, SteadyFits, HandOverFacts
    <2>3. QED
      BY <1>0, <1>1, <1>2, <1>3, <1>5, <2>1, <2>2, HoldAnswers DEF Update
  <1>6. CASE ~ direct
    <2>1. Update(c, ModToWriteEvent(k, "lt")) /\ Goto(t, "top", 0)
      BY <1>6 DEF Work
    <2> HIDE DEF c, k
    <2>2. ModToWriteEvent(k, "lt").phase = k.phase
      BY <1>2, ModLives DEF Known, SameLife
    <2>3. k.phase # "down" /\ Placed(c) => Steady(ModToWriteEvent(k, "lt"))
      BY <1>2, <1>4, SteadyToWrite, HandOverFacts DEF Known, Steady
    <2>4. QED
      BY <1>5, <2>1, <2>2, <2>3
  <1>7. CASE direct
    <2>1. PICK w \in WriteResults(k) :
            IF w.error \/ FinishWrite(w) THEN Update(c, WorkerDone(w)) /\ Goto(t, "top", 0)
            ELSE Update(c, w) /\ UNCHANGED thread
      BY <1>7 DEF Work
    <2> HIDE DEF c, k
    <2>2. IsConn(w) /\ w.phase = k.phase
      BY <1>2, WriteHolds DEF Known, SameHold
    <2>3. ASSUME w.phase # "down"
          PROVE  /\ ~ w.error
                 /\ FinishWrite(w) => Steady(ReStartReadEvent(ConnReset(w)))
                 /\ ~ FinishWrite(w) => Steady(w) /\ Writing(w)
      <3>1. /\ Open(w)
            /\ FinishWrite(w) => Finished(w)
            /\ ~ FinishWrite(w) => Steady(w) /\ Writing(w)
        BY <1>2, <2>2, <2>3, SteadyWrite DEF Known
      <3>2. QED
        BY <3>1, SteadyReset DEF Open
    <2>4. CASE w.error \/ FinishWrite(w)
      <3>1. WorkerDone(w).phase = w.phase
        BY <2>2, ResetHolds, ReleaseLives, ModLives DEF WorkerDone, SameLife, SameHold
      <3>2. w.phase # "down" => Steady(WorkerDone(w))
        BY <2>3, <2>4 DEF WorkerDone
      <3>3. QED
        BY <1>5, <2>1, <2>2, <2>4, <3>1, <3>2
    <2>5. CASE ~ (w.error \/ FinishWrite(w))
      <3>1. w.phase # "down" => Steady(w) /\ Stands("work", w)
        BY <2>3, <2>5 DEF Stands, ToPush
      <3>2. Fit(c, w, "work", c)
        BY <1>2, <2>2, <3>1, SteadyFits, HandOverFacts DEF k
      <3>3. UNCHANGED thread /\ Update(c, w)
        BY <2>1, <2>5
      <3>4. ThreadStep(t, thread[t].batch, c) /\ thread'[t].pc = "work"
        BY <1>0, <1>1, <1>3, <3>3, StaySteps DEF OwnInv
      <3>5. QED
        BY <1>0, <1>1, <1>2, <1>3, <3>2, <3>3, <3>4, HoldAnswers DEF Update
    <2>6. QED
      BY <2>4, <2>5
  <1>8. QED
    BY <1>6, <1>7

LEMMA HandOverAnswers ==
  ASSUME OwnInv, AnswerInv, server.name \in HandOver, NEW direct, UNCHANGED server,
         HSHA1(Io, Takers, direct) \/ HSHA2(Io, Takers, direct)
  PROVE  AnswerInv'
  <1>1. CASE \E t \in Io : ioHandler(t)
    BY <1>1, IoHandlerAnswers, IoThreads
  <1>2. CASE \E t \in Takers : Work(t, direct)
    BY <1>2, WorkAnswers
  <1>3. CASE \E t \in Io : pushToQueue1(t, Takers)
    <2>1. PICK t \in Thread : pushToQueue1(t, Takers)
      BY <1>3, IoThreads
    <2>2. CASE At(t, "push") /\ Push(t, "notify")
      BY <2>2, PushAnswers DEF At, ToPush
    <2>3. CASE At(t, "notify") /\ NotifyOne(t, Onward(t), 0, Takers)
      BY <2>3, NotifyAnswers DEF At
    <2>4. QED
      BY <2>1, <2>2, <2>3 DEF pushToQueue1
  <1>4. CASE \E t \in Io : pushToQueue2(t)
    <2>1. PICK t \in Thread : pushToQueue2(t)
      BY <1>4, IoThreads
    <2>2. CASE At(t, "push") /\ Goto(t, "slot", thread[t].cur) /\ UNCHANGED <<conn, queue>>
      BY <2>2, CarryAnswers, HandOverFacts DEF At
    <2>3. CASE At(t, "slot") /\ Push(t, "fill")
      BY <2>3, PushAnswers DEF At, ToPush
    <2>4. CASE At(t, "fill") /\ Goto(t, Onward(t), 0) /\ UNCHANGED <<conn, queue>>
      BY <2>4, WalkAnswers, Thread0 DEF At, OwnInv, Unbusy
    <2>5. QED
      BY <2>1, <2>2, <2>3, <2>4 DEF pushToQueue2
  <1>5. CASE \E w \in Takers : getQueueData1(w)
    <2>1. PICK w \in Thread : getQueueData1(w)
      BY <1>5, IoThreads
    <2>2. thread[w].cur = 0 /\ thread[w].pc = "top"
      BY <2>1, Thread0 DEF getQueueData1, At, OwnInv, Unbusy, Resting
    <2>3. CASE Goto(w, "wait", 0) /\ UNCHANGED <<conn, queue>>
      BY <2>2, <2>3, WalkAnswers DEF OwnInv
    <2>4. CASE TakeFront(w) /\ Goto(w, "work", Head(queue))
      BY <2>2, <2>4, TakeFrontAnswers
    <2>5. QED
      BY <2>1, <2>3, <2>4 DEF getQueueData1
  <1>6. CASE \E w \in Takers : getQueueData2(w)
    <2>1. PICK w \in Thread : getQueueData2(w)
      BY <1>6, IoThreads
    <2>2. CASE At(w, "top") /\ Goto(w, "item", 0) /\ UNCHANGED <<conn, queue>>
      BY <2>2, WalkAnswers, Thread0 DEF At, OwnInv, Unbusy, Resting
    <2>3. CASE At(w, "item") /\ TakeFront(w) /\ Goto(w, "idle", Head(queue))
      BY <2>3, TakeFrontAnswers DEF At
    <2>4. CASE At(w, "idle") /\ Goto(w, "work", thread[w].cur) /\ UNCHANGED <<conn, queue>>
      BY <2>4, CarryAnswers, HandOverFacts DEF At
    <2>5. QED
      BY <2>1, <2>2, <2>3, <2>4 DEF getQueueData2
  <1>7. QED
    BY <1>1, <1>2, <1>3, <1>4, <1>5, <1>6 DEF HSHA1, HSHA2
-----------------------------------------------------------------------------
(***************************************************************************)
(* The servers with a coroutine per connection, on epoll.                  *)
(***************************************************************************)
LEMMA CoFacts ==
  ASSUME server.name \in CoNames
  PROVE  server.name \notin OneByOne /\ server.name \notin OnRing /\ server.name \notin HandOver
  BY DEF OnRing, CoNames, WithCoroutines, WithConsumers, HandOver, OneByOne, BlockingNames

(* An event runs the coroutine from where it is. *)
LEMMA RunAnswers ==
  ASSUME OwnInv, AnswerInv, server.name \in CoNames, NEW t \in Thread, NEW c \in Client,
         At(t, "events"), c \in thread[t].batch, NEW place \in {"reading", "writing"},
         place = "writing" => conn[c].cid = "writing",
         Run(t, c, place), UNCHANGED <<conn, queue, server>>
  PROVE  AnswerInv'
  <1>1. thread[t].cur = 0
    BY Thread0 DEF At, Unbusy, OwnInv
  <1>2. ThreadStep(t, thread[t].batch \ {c}, c) /\ thread'[t].pc = place
    <2>1. ThreadStep(t, thread[t].batch \ {c}, c)
      BY RunSteps DEF OwnInv, Places, Unbusy, Resting
    <2>2. thread'[t].pc = place
      <3> DEFINE th == [thread[t] EXCEPT !.batch = @ \ {c}, !.pc = place, !.cur = c]
      <3>1. thread' = [thread EXCEPT ![t] = th]
        BY DEF Run
      <3>2. th.pc = place
        BY DEF OwnInv, ThreadsOK, IsThread
      <3> HIDE DEF th
      <3>3. QED
        BY <3>1, <3>2 DEF OwnInv, ThreadsOK
    <2>3. QED
      BY <2>1, <2>2
  <1>3. conn' = [conn EXCEPT ![c] = conn[c]]
    BY DEF OwnInv, Connections
  <1>4. \A u \in Thread : thread[u].cur # c
    BY DEF OwnInv, BusyWith
  <1>5. Placed(c) => Stands(place, conn[c])
    <2>1. CASE place = "reading"
      BY <2>1 DEF Stands, ToWrite, ToPush
    <2>2. CASE place = "writing"
      <3>1. conn[c].cid = "writing"
        BY <2>2
      <3>2. Placed(c) => Writing(conn[c])
        BY <1>4, <3>1 DEF Placed
      <3>3. QED
        BY <2>2, <3>2 DEF Stands, ToPush
    <2>3. QED
      BY <2>1, <2>2
  <1>6. Fit(c, conn[c], place, c)
    BY <1>5 DEF Fit
  <1>7. QED
    BY <1>1, <1>2, <1>3, <1>6, HoldAnswers DEF Takes

LEMMA AbortAnswers ==
  ASSUME OwnInv, AnswerInv, NEW t \in Thread, thread[t].cur = 0, Abort(t), UNCHANGED <<conn, queue, server>>
  PROVE  AnswerInv'
  <1> DEFINE th == [Idler EXCEPT !.pc = "aborted"]
  <1>1. IsThread(th) /\ th.batch = {} /\ th.cur = 0
    BY DEF Idler, IsThread, Places, Unbusy, Resting
  <1>2. thread' = [thread EXCEPT ![t] = th]
    BY DEF Abort
  <1> HIDE DEF th
  <1>3. ThreadStep(t, {}, thread[t].cur)
    BY <1>1, <1>2 DEF OwnInv, ThreadsOK, ThreadStep
  <1>4. QED
    BY <1>3, PaceAnswers DEF OwnInv

LEMMA CreateFailsAnswers ==
  ASSUME OwnInv, AnswerInv, NEW t \in Thread, NEW c, CreateFails(t, c), UNCHANGED server
  PROVE  AnswerInv'
  BY AbortAnswers, Thread0 DEF CreateFails, At, Unbusy, OwnInv

(* The coroutine runs on with its connection, or yields. *)
LEMMA LoopAnswers ==
  ASSUME OwnInv, AnswerInv, server.name \in CoNames, NEW t \in Thread, NEW c \in Client, thread[t].cur = c,
         thread[t].pc \in {"reading", "writing"},
         NEW k, Update(c, k), k.phase = conn[c].phase, UNCHANGED <<queue, server>>,
         \/ /\ Yielded(t)
            /\ k.phase # "down" /\ Placed(c) => Steady(k) /\ (k.cid = "writing" => Writing(k))
         \/ \E place \in {"reading", "writing"} :
              /\ Goto(t, place, c)
              /\ k.phase # "down" /\ Placed(c) => Steady(k) /\ (place = "writing" => Writing(k))
  PROVE  AnswerInv'
  <1>1. conn' = [conn EXCEPT ![c] = k] /\ Takes(t, c)
    BY DEF Update, Takes
  <1>2. CASE /\ Yielded(t)
             /\ k.phase # "down" /\ Placed(c) => Steady(k) /\ (k.cid = "writing" => Writing(k))
    <2>1. ThreadStep(t, thread[t].batch, 0)
      BY <1>2, OnwardSteps DEF Yielded, OwnInv
    <2>2. \A pc : Fit(c, k, pc, 0)
      BY <1>2, CoFacts, SteadyFine, NoClientZero DEF Fit
    <2>3. QED
      BY <1>1, <2>1, <2>2, HoldAnswers
  <1>3. CASE \E place \in {"reading", "writing"} :
               /\ Goto(t, place, c)
               /\ k.phase # "down" /\ Placed(c) => Steady(k) /\ (place = "writing" => Writing(k))
    <2>1. PICK place \in {"reading", "writing"} :
               /\ Goto(t, place, c)
               /\ k.phase # "down" /\ Placed(c) => Steady(k) /\ (place = "writing" => Writing(k))
      BY <1>3
    <2>2. ThreadStep(t, thread[t].batch, c) /\ thread'[t].pc = place
      <3>1. place \in Places /\ place \notin Unbusy \cup {"aborted"} /\ place \notin Resting
        BY DEF Places, Unbusy, Resting
      <3>2. QED
        BY <2>1, <3>1, NoClientZero, GotoSteps, GotoPc DEF OwnInv
    <2>3. k.phase # "down" /\ Placed(c) => Steady(k) /\ Stands(place, k)
      BY <2>1 DEF Stands, ToWrite, ToPush
    <2>4. Fit(c, k, place, c)
      BY <2>3, SteadyFits, CoFacts
    <2>5. QED
      BY <1>1, <2>2, <2>4, HoldAnswers
  <1>4. QED
    BY <1>2, <1>3

LEMMA ReadLoopAnswers ==
  ASSUME OwnInv, AnswerInv, server.name \in CoNames, NEW t \in Thread, ReadLoop(t), UNCHANGED server
  PROVE  AnswerInv'
  <1> DEFINE c == thread[t].cur
  <1>1. thread[t].pc = "reading" /\ UNCHANGED queue
    BY DEF ReadLoop, At
  <1>2. PICK r \in Read(conn[c], TRUE) :
          CASE r.error -> Update(c, ReleaseConn(r, t)) /\ Yielded(t) /\ Returns(t)
            [] OneMessage(r) -> /\ Update(c, ModToWriteEvent(Encoded(r), "lt"))
                                /\ Goto(t, "writing", c) /\ UNCHANGED pool
            [] OTHER -> Update(c, [r EXCEPT !.cid = "reading"]) /\ Yielded(t) /\ UNCHANGED pool
    BY DEF ReadLoop
  <1>3. \/ r.error /\ Update(c, ReleaseConn(r, t)) /\ Yielded(t)
        \/ OneMessage(r) /\ Update(c, ModToWriteEvent(Encoded(r), "lt")) /\ Goto(t, "writing", c)
        \/ Update(c, [r EXCEPT !.cid = "reading"]) /\ Yielded(t)
    BY <1>2
  <1>4. c \in Client /\ thread[t].cur = c
    BY <1>1, BusyHeld DEF Unbusy, Resting
  <1> HIDE DEF c
  <1>5. Known(conn[c])
    BY <1>1, <1>4, BusyHeld, HeldKnown, CoFacts DEF Unbusy, Resting
  <1>6. SameHold(conn[c], r) /\ r.phase = conn[c].phase /\ IsConn(r)
    BY <1>5, ReadHolds DEF Known, SameHold
  <1>7. r.phase # "down" => Steady(r) /\ ~ r.error /\ (OneMessage(r) => Got(r))
    BY <1>5, <1>6, SteadyRead DEF Known, Steady, Open
  <1>8. CASE r.error /\ Update(c, ReleaseConn(r, t)) /\ Yielded(t)
    <2>1. ReleaseConn(r, t).phase = r.phase
      BY <1>6, ReleaseLives DEF SameLife
    <2>2. ReleaseConn(r, t).phase # "down" => FALSE
      BY <1>7, <1>8, <2>1
    <2>3. QED
      BY <1>1, <1>4, <1>6, <1>8, <2>1, <2>2, LoopAnswers
  <1>9. CASE OneMessage(r) /\ Update(c, ModToWriteEvent(Encoded(r), "lt")) /\ Goto(t, "writing", c)
    <2> DEFINE e == Encoded(r)
               k == ModToWriteEvent(e, "lt")
    <2>1. e.phase = r.phase /\ IsConn(e)
      BY <1>6, EncodedHolds DEF SameHold
    <2>2. k.phase = e.phase
      BY <2>1, ModLives DEF SameLife
    <2>3. r.phase # "down" => Steady(e) /\ Writing(e)
      BY <1>7, <1>9, SteadyEncoded
    <2>4. r.phase # "down" => Steady(k) /\ Writing(k)
      BY <2>3, SteadyToWrite, CoFacts DEF Steady
    <2>5. Update(c, k) /\ Goto(t, "writing", c)
      BY <1>9
    <2> HIDE DEF e, k
    <2>6. QED
      BY <1>1, <1>4, <1>6, <2>1, <2>2, <2>4, <2>5, LoopAnswers
  <1>10. CASE Update(c, [r EXCEPT !.cid = "reading"]) /\ Yielded(t)
    <2> DEFINE k == [r EXCEPT !.cid = "reading"]
    <2>1. k.phase = r.phase /\ k.cid = "reading"
      BY <1>6 DEF IsConn, Fields
    <2>2. r.phase # "down" => Steady(k)
      BY <1>7, SteadyCid
    <2>3. Update(c, k)
      BY <1>10
    <2> HIDE DEF k
    <2>4. QED
      BY <1>1, <1>4, <1>6, <1>10, <2>1, <2>2, <2>3, LoopAnswers
  <1>11. QED
    BY <1>3, <1>8, <1>9, <1>10

LEMMA WriteLoopAnswers ==
  ASSUME OwnInv, AnswerInv, server.name \in CoNames, NEW t \in Thread, WriteLoop(t), UNCHANGED server
  PROVE  AnswerInv'
  <1> DEFINE c == thread[t].cur
             again(w) == [ConnReset(w) EXCEPT !.codec = NewCodec]
  <1>1. thread[t].pc = "writing" /\ UNCHANGED queue
    BY DEF WriteLoop, At
  <1>2. PICK w \in WriteResults(conn[c]) :
          CASE w.error -> Update(c, ReleaseConn(w, t)) /\ Yielded(t) /\ Returns(t)
            [] ~ w.error /\ FinishWrite(w) ->
                 /\ Update(c, ModToReadEvent(again(w), "lt"))
                 /\ Goto(t, "reading", c) /\ UNCHANGED pool
            [] OTHER -> Update(c, [w EXCEPT !.cid = "writing"]) /\ Yielded(t) /\ UNCHANGED pool
    BY DEF WriteLoop
  <1>3. \/ w.error /\ Update(c, ReleaseConn(w, t)) /\ Yielded(t)
        \/ FinishWrite(w) /\ Update(c, ModToReadEvent(again(w), "lt")) /\ Goto(t, "reading", c)
        \/ /\ ~ w.error /\ ~ FinishWrite(w)
           /\ Update(c, [w EXCEPT !.cid = "writing"]) /\ Yielded(t)
    BY <1>2
  <1>4. c \in Client /\ thread[t].cur = c
    BY <1>1, BusyHeld DEF Unbusy, Resting
  <1> HIDE DEF c
  <1>5. Known(conn[c])
    BY <1>1, <1>4, BusyHeld, HeldKnown, CoFacts DEF Unbusy, Resting
  <1>6. w.phase = conn[c].phase /\ IsConn(w)
    BY <1>5, WriteHolds DEF Known, SameHold
  <1>7. w.phase # "down" => /\ Open(w) /\ ~ w.error
                            /\ FinishWrite(w) => Finished(w)
                            /\ ~ FinishWrite(w) => Steady(w) /\ Writing(w)
    BY <1>5, <1>6, SteadyWrite DEF Known, Open
  <1>8. CASE w.error /\ Update(c, ReleaseConn(w, t)) /\ Yielded(t)
    <2>1. ReleaseConn(w, t).phase = w.phase
      BY <1>6, ReleaseLives DEF SameLife
    <2>2. ReleaseConn(w, t).phase # "down" => FALSE
      BY <1>7, <1>8, <2>1
    <2>3. QED
      BY <1>1, <1>4, <1>6, <1>8, <2>1, <2>2, LoopAnswers
  <1>9. CASE FinishWrite(w) /\ Update(c, ModToReadEvent(again(w), "lt")) /\ Goto(t, "reading", c)
    <2> DEFINE k == ModToReadEvent(again(w), "lt")
    <2>1. again(w).phase = w.phase /\ IsConn(again(w))
      <3>1. ConnReset(w).phase = w.phase /\ IsConn(ConnReset(w))
        BY <1>6, ResetHolds DEF SameHold
      <3>2. QED
        BY <3>1 DEF IsConn, Fields
    <2>2. k.phase = again(w).phase
      BY <2>1, ModLives DEF SameLife
    <2>3. w.phase # "down" => Steady(k)
      BY <1>7, <1>9, SteadyReset
    <2>4. Update(c, k) /\ Goto(t, "reading", c)
      BY <1>9
    <2> HIDE DEF k, again
    <2>5. QED
      BY <1>1, <1>4, <1>6, <2>1, <2>2, <2>3, <2>4, LoopAnswers
  <1>10. CASE /\ ~ w.error /\ ~ FinishWrite(w)
              /\ Update(c, [w EXCEPT !.cid = "writing"]) /\ Yielded(t)
    <2> DEFINE k == [w EXCEPT !.cid = "writing"]
    <2>1. k.phase = w.phase
      BY <1>6 DEF IsConn, Fields
    <2>2. w.phase # "down" => Steady(k) /\ Writing(k)
      BY <1>7, <1>10, SteadyCid DEF SameStage
    <2>3. Update(c, k)
      BY <1>10
    <2> HIDE DEF k
    <2>4. QED
      BY <1>1, <1>4, <1>6, <1>10, <2>1, <2>2, <2>3, LoopAnswers
  <1> HIDE DEF again
  <1>11. QED
    BY <1>3, <1>8, <1>9, <1>10

LEMMA ProducerAnswers ==
  ASSUME OwnInv, AnswerInv, server.name \in CoNames, NEW c \in Client, NEW notify, Producer(c, notify),
         UNCHANGED server
  PROVE  AnswerInv'
  <1> DEFINE m == ClearEvent(conn[c])
             k == [m EXCEPT !.cid = "producer"]
  <1>1. /\ c \in thread[1].batch /\ thread[1].cur = 0
        /\ ThreadStep(1, thread[1].batch \ {c}, 0)
    BY TakeSteps, One DEF Producer, OwnInv
  <1>2. Known(conn[c])
    BY <1>1, One, BatchHeld, HeldKnown, CoFacts
  <1>3. m.phase = conn[c].phase /\ IsConn(m)
    <2>1. m = [conn[c] EXCEPT !.event = NoEvent] /\ IsConn(conn[c])
      BY <1>2 DEF ClearEvent, Known
    <2> HIDE DEF m
    <2>2. QED
      BY <2>1, EventIs, EventChanges
  <1>4. m.phase # "down" => Steady(m)
    BY <1>2, <1>3, SteadyMod DEF Known, Steady
  <1>5. conn' = [conn EXCEPT ![c] = k]
    BY DEF Producer, Update
  <1> HIDE DEF m
  <1>6. k.phase = m.phase /\ k.cid = "producer"
    BY <1>3 DEF IsConn, Fields
  <1>7. m.phase # "down" => Steady(k)
    BY <1>4, SteadyCid
  <1> HIDE DEF k
  <1>8. \A pc : Fit(c, k, pc, 0)
    BY <1>3, <1>6, <1>7, CoFacts, SteadyFine, NoClientZero DEF Fit
  <1>9. Sole(1, c) /\ Queues(c) /\ server.name \notin HandOver
    BY <1>1, One, CoFacts, TakesSole DEF Takes, Queues
  <1>10. QED
    BY <1>1, <1>5, <1>8, <1>9, One, HandAnswers

LEMMA ConsumeAnswers ==
  ASSUME OwnInv, AnswerInv, server.name \in CoNames, RoundOver, queue # <<>>, NEW notify, Consume(notify),
         UNCHANGED server
  PROVE  AnswerInv'
  <1> DEFINE c == Head(queue)
             a == AddReadEvent(conn[c], 1, "lt")
             k == [a EXCEPT !.cid = "reading"]
  <1>1. thread[1].cur = 0 /\ thread[1].batch = {} /\ queue' = Tail(queue)
    BY One, Thread0 DEF OwnInv, Resting, Unbusy, RoundOver, At, Consume
  <1>2. c \in Client /\ Sole(1, c) /\ Queues(c) /\ Held(conn[c])
    BY <1>1, One, FrontSole
  <1>3. conn' = [conn EXCEPT ![c] = k] /\ Goto(1, "reading", c)
    BY DEF Consume, Consumer, Update
  <1> HIDE DEF c
  <1>4. Known(conn[c])
    BY <1>2, HeldKnown, CoFacts
  <1>5. a.phase = conn[c].phase /\ IsConn(a)
    <2> DEFINE e == Event(1, "read", "lt")
    <2>1. a = [conn[c] EXCEPT !.event = e] /\ IsConn(conn[c]) /\ IsEvent(e)
      BY <1>4, EventIs DEF AddReadEvent, Known
    <2> HIDE DEF a, e
    <2>2. QED
      BY <2>1, EventChanges
  <1>6. a.phase # "down" => Steady(a)
    BY <1>4, <1>5, SteadyMod DEF Known, Steady
  <1> HIDE DEF a
  <1>7. k.phase = a.phase
    BY <1>5 DEF IsConn, Fields
  <1>8. a.phase # "down" => Steady(k)
    BY <1>6, SteadyCid
  <1> HIDE DEF k
  <1>9. ThreadStep(1, thread[1].batch, c) /\ thread'[1].pc = "reading"
    BY <1>2, <1>3, One, NoClientZero, GotoSteps, GotoPc DEF OwnInv, Places, Unbusy, Resting
  <1>10. Stands("reading", k)
    BY DEF Stands, ToWrite, ToPush
  <1>11. Fit(c, k, "reading", c)
    BY <1>2, <1>5, <1>7, <1>8, <1>10, SteadyFits, CoFacts
  <1>12. QED
    BY <1>2, <1>3, <1>9, <1>11, One, CoFacts, HandAnswers

LEMMA CoServerAnswers ==
  ASSUME OwnInv, Notified, AnswerInv, UNCHANGED server,
         \/ On("EpollReactorSingleProcessCoroutine") /\ EpollReactorSingleProcessCoroutine
         \/ /\ On("EpollReactorProcessPoolCoroutine")
            /\ \E t \in Thread : EpollReactorProcessPoolCoroutine(t)
         \/ On("EpollReactorSingleProcessCoroutineHSHA1") /\ EpollReactorSingleProcessCoroutineHSHA1
         \/ On("EpollReactorSingleProcessCoroutineHSHA2") /\ EpollReactorSingleProcessCoroutineHSHA2
  PROVE  AnswerInv'
  <1>0. server.name \in CoNames
    BY DEF On, CoNames, WithCoroutines, WithConsumers, OnRing
  <1>1. CASE \E t \in Thread : ListenWait(t)
    BY <1>1, ListenWaitAnswers
  <1>2. CASE \E t \in Thread : \E max, p, epoll, mode : LoopAccept(t, max, NewReads(p, epoll, mode))
    BY <1>0, <1>2, NewReadsAnswer, CoFacts
  <1>3. CASE \E t \in Thread, c \in Client : CreateOn(t, c)
    BY <1>0, <1>3, RunAnswers DEF CreateOn
  <1>4. CASE \E t \in Thread, c \in Client : CreateFails(t, c)
    BY <1>4, CreateFailsAnswers
  <1>5. CASE \E t \in Thread, c \in Client : ResumeOn(t, c)
    BY <1>0, <1>5, RunAnswers DEF ResumeOn
  <1>6. CASE \E t \in Thread : handlerLoop(t)
    BY <1>0, <1>6, ReadLoopAnswers, WriteLoopAnswers DEF handlerLoop
  <1>7. CASE \E c \in Client : \E notify : Producer(c, notify)
    BY <1>0, <1>7, ProducerAnswers
  <1>8. CASE RoundOver /\ SemaphoreDue /\ Consume(0)
    BY <1>0, <1>8, ConsumeAnswers DEF SemaphoreDue
  <1>9. CASE On("EpollReactorSingleProcessCoroutineHSHA2") /\ CondResume
    <2>1. queue # <<>>
      BY <1>9 DEF CondResume, CondDue, Notified, On, Condition
    <2>2. CASE Consume(1)
      BY <1>0, <1>9, <2>1, <2>2, ConsumeAnswers DEF CondResume
    <2>3. CASE Abort(1) /\ UNCHANGED <<conn, queue>>
      BY <1>9, <2>3, One, AbortAnswers, Thread0 DEF CondResume, RoundOver, At, Unbusy, Resting, OwnInv
    <2>4. QED
      BY <1>9, <2>2, <2>3 DEF CondResume
  <1>10. ASSUME NEW t \in Thread, Coroutines(t) PROVE AnswerInv'
    BY <1>1, <1>2, <1>3, <1>4, <1>5, <1>6, <1>10 DEF Coroutines
  <1>11. ASSUME NEW due, NEW notify, HSHA(due, notify) PROVE AnswerInv'
    BY <1>1, <1>2, <1>4, <1>5, <1>6, <1>7, <1>11, One DEF HSHA
  <1>12. QED
    BY <1>8, <1>9, <1>10, <1>11, One
       DEF EpollReactorSingleProcessCoroutine, EpollReactorProcessPoolCoroutine,
           EpollReactorSingleProcessCoroutineHSHA1, EpollReactorSingleProcessCoroutineHSHA2
-----------------------------------------------------------------------------
(***************************************************************************)
(* The servers on io_uring.                                                *)
(***************************************************************************)
(* A connection that the server has accepted, of which no event is watched. *)
Bare(k) ==
  IsConn(k) /\ k.phase # "new" /\ k.listener = 0 /\ ~ k.error /\ k.event.type = "none"

LEMMA BareFine ==
  ASSUME NEW k, Bare(k), server.name \in OnRing, Counts(k),
         \/ k.op \in {"none", "was accepted", "read", "was read"} /\ Reading(k)
         \/ k.op \in {"write", "written"} /\ Writing(k)
  PROVE  Fine(k)
  BY DEF Bare, Fine, Staged, Fits, Clean

LEMMA FineBare ==
  ASSUME NEW k, Held(k), Fine(k), server.name \in OnRing
  PROVE  /\ Bare(k) /\ Counts(k)
         /\ k.op \in {"none", "was accepted", "read", "was read"} => Reading(k)
         /\ k.op \in {"write", "written"} => Writing(k)
  BY HeldFacts DEF Held, Bare, Fine, Staged, Fits, Clean

LEMMA SubmitIs ==
  ASSUME NEW k, IsConn(k), NEW t, NEW op, NEW r, r = Submit(k, t, op)
  PROVE  /\ IsConn(r) /\ r.op = op /\ r.event.type = k.event.type
         /\ r.phase = k.phase /\ r.req = k.req /\ r.unsent = k.unsent /\ r.want = k.want
         /\ r.listener = k.listener /\ r.inbox = k.inbox /\ r.outbox = k.outbox /\ r.fds = k.fds
         /\ r.codec = k.codec /\ r.pkt = k.pkt /\ r.send_len = k.send_len /\ r.error = k.error
         /\ r.cid = k.cid /\ r.res = k.res
  <1> DEFINE e == [k.event EXCEPT !.epoll = t]
  <1>1. r = [k EXCEPT !.op = op, !.event = e]
    BY DEF Submit
  <1>2. IsEvent(e) /\ e.type = k.event.type
    BY DEF IsConn, IsEvent, EventFields
  <1> HIDE DEF e
  <1>3. QED
    BY <1>1, <1>2 DEF IsConn, Fields

(* A read is submitted; all is as it was but the coroutine. *)
LEMMA ReadSubmitted ==
  ASSUME NEW k, Bare(k), Counts(k), Reading(k), k.op # "was read", server.name \in OnRing,
         NEW r, IsConn(r), r.op \in {"none", "read"}, r.event.type = k.event.type,
         r.phase = k.phase, r.req = k.req, r.unsent = k.unsent, r.want = k.want,
         r.listener = k.listener, r.inbox = k.inbox, r.outbox = k.outbox,
         r.codec = k.codec, r.pkt = k.pkt, r.send_len = k.send_len, r.error = k.error, r.res = k.res
  PROVE  Fine(r)
  <1>1. Bare(r) /\ Counts(r)
    BY DEF Bare, Counts
  <1>2. Undecoded(r) = Undecoded(k) /\ Message(r) = Message(k)
    BY DEF Undecoded, Message
  <1>3. Reading(r)
    BY <1>2 DEF Reading, Asked
  <1>4. QED
    BY <1>1, <1>3, BareFine

(* What is known of a read that has been submitted, of one that has ended,
   and of a write. *)
LEMMA ReadIs ==
  ASSUME NEW k, Counts(k), Reading(k), k.op # "was read"
  PROVE  /\ Decoding(k.codec, Body(k.req)) /\ k.pkt.use_len = 0 /\ k.send_len = 0
         /\ Asked(k, k.codec.pkt.use_len)
  <1>1. Undecoded(k) = 0
    BY Zenon DEF Undecoded
  <1>2. /\ Decoding(k.codec, Body(k.req)) /\ k.pkt.use_len = 0 /\ k.send_len = 0
        /\ Asked(k, k.codec.pkt.use_len + Undecoded(k))
    BY Zenon DEF Reading
  <1>3. k.codec.pkt.use_len \in Nat
    BY UsedIs
  <1>4. k.codec.pkt.use_len + 0 = k.codec.pkt.use_len
    BY ONLY <1>3
  <1>5. QED
    BY <1>1, <1>2, <1>4

LEMMA WasReadIs ==
  ASSUME NEW k, Counts(k), Reading(k), k.op = "was read"
  PROVE  /\ Decoding(k.codec, Body(k.req)) /\ k.pkt.use_len = 0 /\ k.send_len = 0
         /\ k.res > 0 /\ k.codec.pkt.use_len + k.res <= k.codec.pkt.len
         /\ Asked(k, k.codec.pkt.use_len + k.res)
  BY Zenon DEF Reading, Undecoded

LEMMA ReadFine ==
  ASSUME NEW k, Bare(k), Counts(k), server.name \in OnRing, k.op \in {"none", "read"},
         Decoding(k.codec, Body(k.req)), k.pkt.use_len = 0, k.send_len = 0,
         Asked(k, k.codec.pkt.use_len)
  PROVE  Fine(k)
  <1>1. k.op # "was read"
    BY Zenon
  <1>2. Undecoded(k) = 0
    BY <1>1, Zenon DEF Undecoded
  <1>3. k.codec.pkt.use_len + 0 = k.codec.pkt.use_len
    <2>1. k.codec.pkt.use_len \in Nat
      BY DEF Decoding, IsCodec
    <2>2. QED
      BY ONLY <2>1
  <1>4. Asked(k, k.codec.pkt.use_len + Undecoded(k))
    BY <1>2, <1>3
  <1>5. Reading(k)
    BY <1>1, <1>4, Zenon DEF Reading
  <1>6. QED
    BY <1>5, BareFine

LEMMA WriteFine ==
  ASSUME NEW k, Bare(k), Counts(k), Writing(k), server.name \in OnRing, k.op \in {"write", "written"}
  PROVE  Fine(k)
  BY BareFine

(* A read that has ended: what it has read is decoded. *)
LEMMA AfterReadGives ==
  ASSUME NEW k, Bare(k), Counts(k), server.name \in OnRing, k.op \notin {"write", "written"},
         Decoding(k.codec, Body(k.req)), k.pkt.use_len = 0, k.send_len = 0,
         k.res > 0, k.codec.pkt.use_len + k.res <= k.codec.pkt.len,
         Asked(k, k.codec.pkt.use_len + k.res),
         NEW t, NEW r \in AfterRead(k, t)
  PROVE  Fine(r)
  <1> DEFINE x == DeCode(k.codec, k.res, Body(k.req))
             s == [k EXCEPT !.codec = x, !.res = 0]
             used == k.codec.pkt.use_len
  <1>1. k.res \in Nat /\ k.res > 0 /\ used \in Nat /\ used + k.res <= k.codec.pkt.len
    BY DEF Counts, Decoding, IsCodec
  <1>2. r = IF OneMessage(s) THEN Submit(Encoded(s), t, "write") ELSE Submit(s, t, "read")
    <2> DEFINE F(y) == IF OneMessage(y) THEN Submit(Encoded(y), t, "write") ELSE Submit(y, t, "read")
    <2>1. AfterRead(k, t) = IF k.res <= 0 THEN {ReleaseConn(k, t)} ELSE {F(y) : y \in {s}}
      BY DEF AfterRead
    <2> HIDE DEF F, s
    <2>2. ~ (k.res <= 0)
      BY ONLY <1>1
    <2>3. r = F(s)
      BY <2>1, <2>2
    <2>4. QED
      BY <2>3 DEF F
  <1> HIDE DEF x, used
  <1>3. /\ IsConn(s) /\ s.phase = k.phase /\ s.req = k.req /\ s.unsent = k.unsent /\ s.want = k.want
        /\ s.listener = k.listener /\ s.inbox = k.inbox /\ s.outbox = k.outbox
        /\ s.codec = x /\ s.pkt = k.pkt /\ s.send_len = k.send_len /\ s.error = k.error
        /\ s.res = 0 /\ s.op = k.op /\ s.event = k.event
    BY DEF Bare, IsConn, Fields
  <1> HIDE DEF s
  <1>4. Counts(s)
    BY <1>3 DEF Counts
  <1>5. Decoding(k.codec, Body(k.req)) /\ k.pkt.use_len = 0 /\ k.send_len = 0 /\ Asked(k, used + k.res)
    BY DEF used
  <1>6. \/ Got(s)
        \/ Decoding(s.codec, Body(s.req)) /\ Asked(s, s.codec.pkt.use_len)
    <2>1. used = k.codec.pkt.use_len /\ s.codec = DeCode(k.codec, k.res, Body(k.req))
      BY <1>3 DEF used, x
    <2>2. s.op \notin {"written", "write"}
      BY <1>3
    <2>3. QED
      BY <1>1, <1>3, <1>4, <1>5, <2>1, <2>2, DecodedGives
  <1>7. CASE OneMessage(s)
    <2>1. Got(s)
      <3>1. ~ Decoding(s.codec, Body(s.req))
        BY <1>7 DEF OneMessage, Decoding
      <3>2. QED
        BY <1>6, <3>1
    <2> DEFINE e == Encoded(s)
    <2>2. /\ SameShell(s, e) /\ e.error = s.error
          /\ e.req = s.req /\ e.unsent = s.unsent /\ e.want = s.want /\ e.inbox = s.inbox
          /\ e.outbox = s.outbox /\ e.send_len = s.send_len /\ e.res = s.res
          /\ e.codec = [s.codec EXCEPT !.msg = FALSE] /\ e.pkt = EnCode(s.codec.body_len)
      BY <1>3, EncodedIs
    <2>3. r = Submit(e, t, "write")
      BY <1>2, <1>7
    <2> HIDE DEF e
    <2>4. IsConn(e) /\ e.phase = s.phase /\ e.listener = s.listener /\ e.event = s.event
      BY <2>2 DEF SameShell, SameHold
    <2>5. /\ IsConn(r) /\ r.op = "write" /\ r.event.type = e.event.type
          /\ r.phase = e.phase /\ r.req = e.req /\ r.unsent = e.unsent /\ r.want = e.want
          /\ r.listener = e.listener /\ r.inbox = e.inbox /\ r.outbox = e.outbox
          /\ r.codec = e.codec /\ r.pkt = e.pkt /\ r.send_len = e.send_len /\ r.error = e.error
          /\ r.res = e.res
      BY <2>3, <2>4, SubmitIs
    <2>6. Counts(r) /\ Writing(r)
      BY <1>4, <2>1, <2>2, <2>5, EncodedWrites
    <2>7. Bare(r)
      BY <1>3, <2>2, <2>4, <2>5 DEF Bare
    <2>8. QED
      BY <2>5, <2>6, <2>7, WriteFine
  <1>8. CASE ~ OneMessage(s)
    <2>1. r = Submit(s, t, "read")
      BY <1>2, <1>8
    <2>2. Decoding(s.codec, Body(s.req)) /\ Asked(s, s.codec.pkt.use_len)
      BY <1>6, <1>8 DEF Got, Decoded, OneMessage
    <2>3. /\ IsConn(r) /\ r.op = "read" /\ r.event.type = s.event.type
          /\ r.phase = s.phase /\ r.req = s.req /\ r.unsent = s.unsent /\ r.want = s.want
          /\ r.listener = s.listener /\ r.inbox = s.inbox /\ r.outbox = s.outbox
          /\ r.codec = s.codec /\ r.pkt = s.pkt /\ r.send_len = s.send_len /\ r.error = s.error
          /\ r.res = s.res
      BY <1>3, <2>1, SubmitIs
    <2>4. Counts(r) /\ Bare(r)
      BY <1>3, <1>4, <2>3 DEF Counts, Bare
    <2>5. Asked(r, r.codec.pkt.use_len)
      BY <2>2, <2>3 DEF Asked, Message
    <2>6. QED
      BY <1>3, <1>5, <2>2, <2>3, <2>4, <2>5, ReadFine
  <1>9. QED
    BY <1>7, <1>8

(* A write that has ended. *)
LEMMA AfterWriteGives ==
  ASSUME NEW k, Bare(k), Counts(k), Writing(k), k.op = "written", server.name \in OnRing,
         NEW t, NEW r \in AfterWrite(k, t)
  PROVE  Fine(r)
  <1> DEFINE sum == k.send_len + k.res
             w == [k EXCEPT !.send_len = sum, !.res = 0]
  <1>1. r = IF FinishWrite(w) THEN Submit(ConnReset(w), t, "read") ELSE Submit(w, t, "write")
    BY DEF AfterWrite, Bare
  <1>2. sum \in Nat /\ sum = Written(k)
    BY DEF Counts, Written
  <1> HIDE DEF sum
  <1>3. /\ IsConn(w) /\ w.phase = k.phase /\ w.req = k.req /\ w.unsent = k.unsent /\ w.want = k.want
        /\ w.listener = k.listener /\ w.inbox = k.inbox /\ w.outbox = k.outbox
        /\ w.codec = k.codec /\ w.pkt = k.pkt /\ w.send_len = sum /\ w.error = k.error
        /\ w.res = 0 /\ w.op = k.op /\ w.event = k.event
    BY DEF Bare, IsConn, Fields
  <1> HIDE DEF w
  <1>4. Counts(w)
    BY <1>2, <1>3 DEF Counts
  <1>5. CASE FinishWrite(w)
    <2> DEFINE s == ConnReset(w)
               p == PacketReset(w.pkt)
               x == Reset(w.codec)
    <2>1. Asked(k, 0)
      BY <1>2, <1>3, <1>4, <1>5 DEF FinishWrite, Writing, Counts
    <2>2. Finished(w)
      BY <1>3, <1>4, <2>1 DEF Finished, Asked, Message, Writing, Decoded
    <2>3. s = [w EXCEPT !.codec = x, !.send_len = 0, !.pkt = p]
      BY DEF ConnReset
    <2>4. r = Submit(s, t, "read")
      BY <1>1, <1>5
    <2> HIDE DEF s, p, x
    <2>5. /\ IsConn(s) /\ s.phase = w.phase /\ s.listener = w.listener /\ s.event = w.event
          /\ s.error = w.error /\ s.req = w.req /\ s.unsent = w.unsent /\ s.want = w.want
          /\ s.inbox = w.inbox /\ s.outbox = w.outbox /\ s.res = w.res /\ s.send_len = 0 /\ s.pkt = p
          /\ s.codec = x
      BY ONLY <1>3, <2>3 DEF IsConn, Fields
    <2>6. /\ IsConn(r) /\ r.op = "read" /\ r.event.type = s.event.type
          /\ r.phase = s.phase /\ r.req = s.req /\ r.unsent = s.unsent /\ r.want = s.want
          /\ r.listener = s.listener /\ r.inbox = s.inbox /\ r.outbox = s.outbox
          /\ r.codec = s.codec /\ r.pkt = s.pkt /\ r.send_len = s.send_len /\ r.error = s.error
          /\ r.res = s.res
      BY <2>4, <2>5, SubmitIs
    <2>7. Reading(r) /\ Staged(r)
      BY <2>2, <2>5, <2>6, AnewGives DEF p, x
    <2>8. Bare(r)
      BY <1>3, <2>5, <2>6 DEF Bare
    <2>9. QED
      BY <2>6, <2>7, <2>8, BareFine DEF Staged
  <1>6. CASE ~ FinishWrite(w)
    <2>1. r = Submit(w, t, "write")
      BY <1>1, <1>6
    <2>2. /\ IsConn(r) /\ r.op = "write" /\ r.event.type = w.event.type
          /\ r.phase = w.phase /\ r.req = w.req /\ r.unsent = w.unsent /\ r.want = w.want
          /\ r.listener = w.listener /\ r.inbox = w.inbox /\ r.outbox = w.outbox
          /\ r.codec = w.codec /\ r.pkt = w.pkt /\ r.send_len = w.send_len /\ r.error = w.error
          /\ r.res = w.res
      BY <1>3, <2>1, SubmitIs
    <2>3. Counts(r) /\ Bare(r)
      BY <1>3, <1>4, <2>2 DEF Counts, Bare
    <2>4. Written(r) = Written(k)
      BY <1>2, <1>3, <2>2 DEF Written
    <2>5. Written(k) # k.pkt.use_len
      BY <1>2, <1>3, <1>6 DEF FinishWrite
    <2>6. Writing(r)
      BY <1>3, <2>2, <2>4, <2>5 DEF Writing
    <2>7. QED
      BY <2>2, <2>3, <2>6, BareFine
  <1>7. QED
    BY <1>5, <1>6

LEMMA AfterLives ==
  ASSUME NEW k, IsConn(k), NEW t, NEW r \in AfterRead(k, t) \cup AfterWrite(k, t)
  PROVE  r.phase = k.phase
  <1>1. CASE r \in AfterRead(k, t)
    <2> DEFINE s == [k EXCEPT !.codec = DeCode(@, k.res, Body(k.req)), !.res = 0]
    <2>1. \/ r = ReleaseConn(k, t)
          \/ r = Submit(Encoded(s), t, "write")
          \/ r = Submit(s, t, "read")
      BY <1>1 DEF AfterRead
    <2>2. IsConn(s) /\ s.phase = k.phase
      BY DEF IsConn, Fields
    <2> HIDE DEF s
    <2>3. IsConn(Encoded(s)) /\ Encoded(s).phase = k.phase
      BY <2>2, EncodedHolds DEF SameHold
    <2>4. QED
      BY <2>1, <2>2, <2>3, SubmitIs, ReleaseLives DEF SameLife
  <1>2. CASE r \in AfterWrite(k, t)
    <2> DEFINE s == [k EXCEPT !.send_len = @ + k.res, !.res = 0]
    <2>1. \/ r = ReleaseConn(k, t)
          \/ r = Submit(ConnReset(s), t, "read")
          \/ r = Submit(s, t, "write")
      BY <1>2 DEF AfterWrite
    <2>2. IsConn(s) /\ s.phase = k.phase
      BY DEF IsConn, Fields
    <2> HIDE DEF s
    <2>3. IsConn(ConnReset(s)) /\ ConnReset(s).phase = k.phase
      BY <2>2, ResetHolds DEF SameHold
    <2>4. QED
      BY <2>1, <2>2, <2>3, SubmitIs, ReleaseLives DEF SameLife
  <1>3. QED
    BY <1>1, <1>2

(* The kernel reads for the connection, or writes. *)
LEMMA CompleteReadGives ==
  ASSUME NEW k, Bare(k), Counts(k), Reading(k), k.op = "read", k.inbox > 0, server.name \in OnRing,
         NEW r \in Read(k, FALSE),
         NEW s, s = [r EXCEPT !.codec = k.codec, !.op = "was read", !.res = k.inbox - r.inbox]
  PROVE  Fine(s)
  <1> DEFINE used == k.codec.pkt.use_len
             op == "was read"
  <1>1. IsConn(k) /\ r = ReadOnce(k) /\ k.inbox # 0
    BY DEF Bare, Read
  <1>2. k.op # op
    BY Zenon DEF op
  <1>3. s = [r EXCEPT !.codec = k.codec, !.op = op, !.res = k.inbox - r.inbox]
    BY Zenon DEF op
  <1>4. Decoding(k.codec, Body(k.req)) /\ k.pkt.use_len = 0 /\ k.send_len = 0 /\ Asked(k, used)
    BY <1>2, ReadIs DEF op
  <1>5. used \in Nat
    BY <1>4 DEF Decoding, IsCodec
  <1> HIDE DEF op, used
  <1>6. PICK len \in Nat :
          /\ len > 0 /\ len <= k.inbox /\ used + len <= k.codec.pkt.len
          /\ r = [k EXCEPT !.inbox = @ - len, !.codec = DeCode(@, len, Body(k.req))]
    BY <1>1, ReadOnceIs DEF used
  <1>7. /\ IsConn(r) /\ r.phase = k.phase /\ r.req = k.req /\ r.unsent = k.unsent /\ r.want = k.want
        /\ r.listener = k.listener /\ r.inbox = k.inbox - len /\ r.outbox = k.outbox /\ r.fds = k.fds
        /\ r.pkt = k.pkt /\ r.send_len = k.send_len /\ r.error = k.error /\ r.event = k.event
    <2> DEFINE i == k.inbox - len
               x == DeCode(k.codec, len, Body(k.req))
    <2>1. r = [k EXCEPT !.inbox = i, !.codec = x]
      BY <1>6
    <2> HIDE DEF i, x
    <2>2. /\ IsConn(r) /\ r.phase = k.phase /\ r.req = k.req /\ r.unsent = k.unsent /\ r.want = k.want
          /\ r.listener = k.listener /\ r.inbox = i /\ r.outbox = k.outbox /\ r.fds = k.fds
          /\ r.pkt = k.pkt /\ r.send_len = k.send_len /\ r.error = k.error /\ r.event = k.event
      BY ONLY <1>1, <2>1 DEF IsConn, Fields
    <2>3. QED
      BY <2>2 DEF i
  <1>8. k.inbox \in Nat /\ k.inbox - r.inbox = len /\ r.inbox \in Nat
    BY <1>6, <1>7 DEF Counts
  <1>9. s = [r EXCEPT !.codec = k.codec, !.op = op, !.res = len]
    BY <1>3, <1>8
  <1>10. /\ IsConn(s) /\ s.phase = r.phase /\ s.req = r.req /\ s.unsent = r.unsent /\ s.want = r.want
         /\ s.listener = r.listener /\ s.inbox = r.inbox /\ s.outbox = r.outbox /\ s.fds = r.fds
         /\ s.pkt = r.pkt /\ s.send_len = r.send_len /\ s.error = r.error /\ s.event = r.event
         /\ s.codec = k.codec /\ s.op = op /\ s.res = len
    BY ONLY <1>7, <1>9 DEF IsConn, Fields
  <1>11. Counts(s) /\ Bare(s)
    BY <1>7, <1>8, <1>10 DEF Counts, Bare
  <1>12. k.outbox = 0 /\ k.want = Message(k) /\ k.unsent + k.inbox + used <= Message(k)
    BY <1>8, <1>4, <1>6 DEF Asked
  <1>13. Message(s) = Message(k) /\ Message(k) \in Nat
    <2>1. s.req = k.req /\ k.req \in Nat
      BY <1>7, <1>10 DEF Counts
    <2>2. Body(k.req) \in Nat /\ HeadLen \in Nat
      BY <2>1, BodyIs, CodecAssumption
    <2>3. QED
      BY ONLY <2>1, <2>2 DEF Message
  <1>14. Asked(s, used + len)
    <2>1. k.unsent \in Nat
      BY DEF Counts
    <2>2. k.unsent + (k.inbox - len) + (used + len) = k.unsent + k.inbox + used
      BY ONLY <1>5, <1>6, <1>8, <2>1, len \in Nat
    <2>3. s.unsent + s.inbox + (used + len) = k.unsent + k.inbox + used
      BY ONLY <1>7, <1>10, <2>2
    <2>4. s.outbox = 0 /\ s.want = Message(s) /\ s.unsent + s.inbox + (used + len) <= Message(s)
      BY <1>7, <1>10, <1>12, <1>13, <2>3
    <2>5. QED
      BY <2>4 DEF Asked
  <1>15. Undecoded(s) = len
    BY <1>10, Zenon DEF Undecoded, op
  <1>16. s.codec.pkt.use_len = used
    BY <1>10 DEF used
  <1>17. Asked(s, s.codec.pkt.use_len + Undecoded(s))
    BY <1>14, <1>15, <1>16
  <1>18. Decoding(s.codec, Body(s.req)) /\ s.pkt.use_len = 0 /\ s.send_len = 0
    BY <1>4, <1>7, <1>10
  <1>19. s.res > 0 /\ s.codec.pkt.use_len + s.res <= s.codec.pkt.len
    BY <1>6, <1>10, <1>16
  <1>20. Reading(s)
    BY <1>10, <1>17, <1>18, <1>19, Zenon DEF Reading, op
  <1>21. QED
    BY <1>10, <1>11, <1>20, BareFine, Zenon DEF op

LEMMA CompleteWriteGives ==
  ASSUME NEW k, Bare(k), Counts(k), Writing(k), k.op = "write", k.outbox < SendBuf, server.name \in OnRing,
         k.phase # "down", NEW w \in WriteResults(k),
         NEW s, s = [w EXCEPT !.send_len = k.send_len, !.op = "written", !.res = w.send_len - k.send_len]
  PROVE  Fine(s)
  <1> USE EchoConnAssumption
  <1> DEFINE rest == k.pkt.use_len - k.send_len
             room == SendBuf - k.outbox
             len == MinOf(room, rest)
  <1>1. w = [k EXCEPT !.send_len = @ + len, !.outbox = @ + len]
    BY DEF WriteResults, Write
  <1>2. /\ k.outbox \in Nat /\ SendBuf \in Nat /\ k.pkt.use_len \in Nat /\ k.send_len \in Nat
        /\ k.want \in Nat
    BY DEF Counts
  <1>3. /\ k.send_len < k.pkt.use_len /\ k.unsent = 0 /\ k.inbox = 0
        /\ k.outbox + k.pkt.use_len - k.send_len = k.want
        /\ Decoded(k.codec) /\ ~ k.codec.msg
    <2>1. Written(k) = k.send_len
      BY <1>2 DEF Written
    <2>2. QED
      BY <2>1 DEF Writing
  <1>4. room \in Nat /\ rest \in Nat /\ room > 0 /\ rest > 0
    BY ONLY <1>2, <1>3, k.outbox < SendBuf
  <1>5. len \in {room, rest} /\ len <= room /\ len <= rest
    BY <1>4 DEF MinOf
  <1> HIDE DEF len
  <1>6. /\ len \in Nat /\ len <= SendBuf - k.outbox /\ len <= k.pkt.use_len - k.send_len
    BY <1>4, <1>5
  <1> HIDE DEF room, rest
  <1> DEFINE sum == k.send_len + len
             out == k.outbox + len
  <1>7. sum \in Nat /\ out \in Nat /\ out <= SendBuf /\ sum <= k.pkt.use_len /\ sum - k.send_len = len
    BY ONLY <1>2, <1>6
  <1>8. out + k.pkt.use_len - sum = k.want
    BY ONLY <1>2, <1>3, <1>6
  <1>9. w = [k EXCEPT !.send_len = sum, !.outbox = out]
    BY <1>1
  <1> HIDE DEF sum, out
  <1>10. /\ IsConn(w) /\ w.phase = k.phase /\ w.req = k.req /\ w.unsent = k.unsent /\ w.want = k.want
         /\ w.listener = k.listener /\ w.inbox = k.inbox /\ w.outbox = out /\ w.codec = k.codec
         /\ w.pkt = k.pkt /\ w.send_len = sum /\ w.error = k.error /\ w.event = k.event
    BY <1>9 DEF Bare, IsConn, Fields
  <1>11. s = [w EXCEPT !.send_len = k.send_len, !.op = "written", !.res = len]
    BY <1>7, <1>10
  <1>12. /\ IsConn(s) /\ s.phase = w.phase /\ s.req = w.req /\ s.unsent = w.unsent /\ s.want = w.want
         /\ s.listener = w.listener /\ s.inbox = w.inbox /\ s.outbox = w.outbox /\ s.codec = w.codec
         /\ s.pkt = w.pkt /\ s.send_len = k.send_len /\ s.error = w.error /\ s.event = w.event
         /\ s.op = "written" /\ s.res = len
    BY ONLY <1>10, <1>11 DEF IsConn, Fields
  <1>13. Counts(s) /\ Bare(s)
    BY <1>6, <1>7, <1>10, <1>12 DEF Counts, Bare
  <1>14. Written(s) = sum
    BY <1>12 DEF Written, sum
  <1>15. Writing(s)
    <2>1. CASE sum = k.pkt.use_len
      <3>1. out = k.want
        BY <1>2, <1>7, <1>8, <2>1
      <3>2. Asked(s, 0)
        BY <1>3, <1>10, <1>12, <3>1 DEF Asked
      <3>3. QED
        BY <1>3, <1>10, <1>12, <1>14, <2>1, <3>2 DEF Writing
    <2>2. CASE sum # k.pkt.use_len
      <3>1. sum < k.pkt.use_len
        BY <1>2, <1>7, <2>2
      <3>2. QED
        BY <1>3, <1>8, <1>10, <1>12, <1>14, <3>1 DEF Writing
    <2>3. QED
      BY <2>1, <2>2
  <1>16. QED
    BY <1>12, <1>13, <1>15, WriteFine

(* No thread has a connection of its own: what a step has to keep is the
   stage of the connection it is about. *)
LEMMA RingAnswers ==
  ASSUME OwnInv, OwnInv', AnswerInv, server.name \in OnRing, UNCHANGED server,
         NEW c \in Client, NEW k, Update(c, k),
         k.phase # "down" => conn[c].phase # "down" /\ (Fine(conn[c]) => Fine(k))
  PROVE  AnswerInv'
  <1>1. \A d \in Client : conn'[d] = IF d = c THEN k ELSE conn[d]
    BY DEF OwnInv, Connections, Update
  <1>2. \A t \in Thread : thread[t].cur = 0 /\ thread'[t].cur = 0
    BY DEF OwnInv, NeverHave
  <1>3. Aside(c) /\ Queues(c)
    BY <1>2, RingModes DEF Aside, Queues
  <1>4. \A d \in Client \ {c} : Follows(conn[d], conn'[d])
    BY <1>1, FollowsSelf
  <1>5. conn'[c].phase # "down" => Fine(conn'[c]) /\ Stays(c, conn'[c])
    <2>1. conn'[c] = k
      BY <1>1
    <2>2. k.phase # "down" => Fine(k)
      BY DEF AnswerInv
    <2>3. Stays(c, k)
      BY <1>2, RingModes, NoClientZero DEF Stays, CoNames
    <2>4. QED
      BY <2>1, <2>2, <2>3
  <1>6. QED
    BY <1>3, <1>4, <1>5, StepKeeps

LEMMA RingQuiet ==
  ASSUME OwnInv, OwnInv', AnswerInv, server.name \in OnRing, UNCHANGED <<conn, queue, server>>
  PROVE  AnswerInv'
  <1>1. Aside(0)
    BY DEF OwnInv, NeverHave, Aside
  <1>2. QED
    BY <1>1, FollowsSelf, QuietAnswers

(* A handler of a connection that is held. *)
LEMMA RingHeld ==
  ASSUME OwnInv, OwnInv', AnswerInv, server.name \in OnRing, UNCHANGED server,
         NEW c \in Client, Held(conn[c]), NEW k, Update(c, k), k.phase = conn[c].phase,
         Bare(conn[c]) /\ Counts(conn[c]) /\ Fine(conn[c]) => Fine(k)
  PROVE  AnswerInv'
  <1>1. Fine(conn[c]) => Fine(k)
    BY FineBare
  <1>2. QED
    BY <1>1, RingAnswers

(* Where nothing but what is submitted changes, and the coroutine. *)
LEMMA Submitted ==
  ASSUME NEW k, IsConn(k), NEW t, NEW r,
         \/ r = Submit(k, t, "read")
         \/ r = [Submit(k, t, "read") EXCEPT !.cid = "handler"]
  PROVE  /\ IsConn(r) /\ r.op = "read" /\ r.event.type = k.event.type
         /\ r.phase = k.phase /\ r.req = k.req /\ r.unsent = k.unsent /\ r.want = k.want
         /\ r.listener = k.listener /\ r.inbox = k.inbox /\ r.outbox = k.outbox
         /\ r.codec = k.codec /\ r.pkt = k.pkt /\ r.send_len = k.send_len /\ r.error = k.error
         /\ r.res = k.res
  <1> DEFINE s == Submit(k, t, "read")
  <1>1. /\ IsConn(s) /\ s.op = "read" /\ s.event.type = k.event.type
        /\ s.phase = k.phase /\ s.req = k.req /\ s.unsent = k.unsent /\ s.want = k.want
        /\ s.listener = k.listener /\ s.inbox = k.inbox /\ s.outbox = k.outbox
        /\ s.codec = k.codec /\ s.pkt = k.pkt /\ s.send_len = k.send_len /\ s.error = k.error
        /\ s.res = k.res
    BY SubmitIs
  <1>2. r = s \/ r = [s EXCEPT !.cid = "handler"]
    OBVIOUS
  <1> HIDE DEF s
  <1>3. CASE r = s
    BY <1>1, <1>3
  <1>4. CASE r = [s EXCEPT !.cid = "handler"]
    BY ONLY <1>1, <1>4 DEF IsConn, Fields
  <1>5. QED
    BY <1>2, <1>3, <1>4

LEMMA SubmitFine ==
  ASSUME NEW k, Held(k), Fine(k), server.name \in OnRing, k.op \in {"none", "was accepted"},
         NEW t, NEW r,
         \/ r = Submit(k, t, "read")
         \/ r = [Submit(k, t, "read") EXCEPT !.cid = "handler"]
  PROVE  Fine(r)
  <1>1. Bare(k) /\ Counts(k) /\ Reading(k) /\ k.op # "was read"
    BY FineBare, Zenon
  <1>2. IsConn(k)
    BY <1>1, Zenon DEF Bare
  <1>3. /\ IsConn(r) /\ r.op = "read" /\ r.event.type = k.event.type
        /\ r.phase = k.phase /\ r.req = k.req /\ r.unsent = k.unsent /\ r.want = k.want
        /\ r.listener = k.listener /\ r.inbox = k.inbox /\ r.outbox = k.outbox
        /\ r.codec = k.codec /\ r.pkt = k.pkt /\ r.send_len = k.send_len /\ r.error = k.error
        /\ r.res = k.res
    <2>1. r = Submit(k, t, "read") \/ r = [Submit(k, t, "read") EXCEPT !.cid = "handler"]
      OBVIOUS
    <2>2. QED
      BY <1>2, <2>1, Submitted, ZenonT(30)
  <1>4. r.op \in {"none", "read"}
    BY <1>3, Zenon
  <1>5. QED
    BY <1>1, <1>3, <1>4, ReadSubmitted, Zenon

(* The accept is submitted again, and a read for the new connection. *)
LEMMA AcceptAgainAnswers ==
  ASSUME OwnInv, OwnInv', AnswerInv, server.name \in OnRing, UNCHANGED server,
         NEW t \in Thread, NEW c \in Client, AcceptAgain(t, c),
         \/ Update(c, Submit(conn[c], t, "read"))
         \/ Update(c, [Submit(conn[c], t, "read") EXCEPT !.cid = "handler"])
  PROVE  AnswerInv'
  <1>1. Held(conn[c]) /\ IsConn(conn[c])
    BY AcceptAgainSteps, BatchHeld, HeldFacts
  <1>2. conn[c].op \in {"none", "was accepted"}
    BY Zenon DEF AcceptAgain
  <1>3. PICK k : /\ Update(c, k)
                 /\ \/ k = Submit(conn[c], t, "read")
                    \/ k = [Submit(conn[c], t, "read") EXCEPT !.cid = "handler"]
    OBVIOUS
  <1>4. k.phase = conn[c].phase
    BY <1>1, <1>3, Submitted
  <1>5. Fine(conn[c]) => Fine(k)
    BY <1>1, <1>2, <1>3, SubmitFine, Zenon
  <1>6. QED
    BY <1>3, <1>4, <1>5, RingAnswers

(* A completion is handled. *)
LEMMA CompletionAnswers ==
  ASSUME OwnInv, OwnInv', AnswerInv, server.name \in OnRing, UNCHANGED server,
         NEW t \in Thread, NEW c \in Client, TakeEvent(t, c), NEW k, Update(c, k),
         NEW x,
         \/ conn[c].op = "was read" /\ k \in AfterRead(conn[c], x)
         \/ conn[c].op = "written" /\ k \in AfterWrite(conn[c], x)
  PROVE  AnswerInv'
  <1>1. Held(conn[c]) /\ IsConn(conn[c])
    BY BatchHeld, HeldFacts, Zenon DEF TakeEvent
  <1>2. k \in AfterRead(conn[c], x) \cup AfterWrite(conn[c], x)
    BY Zenon
  <1>3. k.phase = conn[c].phase
    BY <1>1, <1>2, AfterLives, Zenon
  <1>4. ASSUME Fine(conn[c]), conn[c].op = "was read", k \in AfterRead(conn[c], x)
        PROVE  Fine(k)
    <2>1. Bare(conn[c]) /\ Counts(conn[c]) /\ Reading(conn[c])
      BY <1>1, <1>4, FineBare, Zenon
    <2>2. /\ Decoding(conn[c].codec, Body(conn[c].req)) /\ conn[c].pkt.use_len = 0 /\ conn[c].send_len = 0
          /\ conn[c].res > 0 /\ conn[c].codec.pkt.use_len + conn[c].res <= conn[c].codec.pkt.len
          /\ Asked(conn[c], conn[c].codec.pkt.use_len + conn[c].res)
      BY <1>4, <2>1, WasReadIs, Zenon
    <2>3. conn[c].op \notin {"write", "written"}
      BY <1>4, Zenon
    <2>4. QED
      BY <1>4, <2>1, <2>2, <2>3, AfterReadGives, Zenon
  <1>5. ASSUME Fine(conn[c]), conn[c].op = "written", k \in AfterWrite(conn[c], x)
        PROVE  Fine(k)
    <2>1. Bare(conn[c]) /\ Counts(conn[c]) /\ Writing(conn[c])
      BY <1>1, <1>5, FineBare, Zenon
    <2>2. QED
      BY <1>5, <2>1, AfterWriteGives, Zenon
  <1>6. Fine(conn[c]) => Fine(k)
    BY <1>4, <1>5, Zenon
  <1>7. QED
    BY <1>3, <1>6, RingAnswers, Zenon

(* A Producer puts the connection into the queue, and a Consumer takes it. *)
LEMMA ProducesAnswers ==
  ASSUME OwnInv, OwnInv', AnswerInv, server.name \in OnRing, UNCHANGED server,
         NEW c \in Client, NEW notify, AcceptProduces(c, notify)
  PROVE  AnswerInv'
  <1> DEFINE k == [conn[c] EXCEPT !.cid = "producer", !.op = "none"]
  <1>1. AcceptAgain(1, c) /\ Update(c, k)
    BY DEF AcceptProduces
  <1>2. Held(conn[c]) /\ IsConn(conn[c])
    BY <1>1, One, AcceptAgainSteps, BatchHeld, HeldFacts
  <1>3. conn[c].op \in {"none", "was accepted"} /\ conn[c].op # "was read"
    BY <1>1, Zenon DEF AcceptAgain
  <1>4. /\ IsConn(k) /\ k.op = "none" /\ k.event.type = conn[c].event.type
        /\ k.phase = conn[c].phase /\ k.req = conn[c].req /\ k.unsent = conn[c].unsent
        /\ k.want = conn[c].want
        /\ k.listener = conn[c].listener /\ k.inbox = conn[c].inbox /\ k.outbox = conn[c].outbox
        /\ k.codec = conn[c].codec /\ k.pkt = conn[c].pkt /\ k.send_len = conn[c].send_len
        /\ k.error = conn[c].error /\ k.res = conn[c].res
    BY ONLY <1>2 DEF IsConn, Fields
  <1> HIDE DEF k
  <1>5. k.op \in {"none", "read"}
    BY <1>4, Zenon
  <1>6. ASSUME Fine(conn[c]) PROVE Fine(k)
    <2>1. Bare(conn[c]) /\ Counts(conn[c]) /\ Reading(conn[c])
      BY <1>2, <1>3, <1>6, FineBare, Zenon
    <2>2. QED
      BY <1>3, <1>4, <1>5, <2>1, ReadSubmitted, Zenon
  <1>7. k.phase = conn[c].phase
    BY <1>4, Zenon
  <1>8. QED
    BY <1>1, <1>6, <1>7, RingAnswers, Zenon

LEMMA ConsumesAnswers ==
  ASSUME OwnInv, OwnInv', AnswerInv, server.name \in OnRing, UNCHANGED server, queue # <<>>,
         NEW notify, ConsumeRequest(notify)
  PROVE  AnswerInv'
  <1> DEFINE c == Head(queue)
             k == [Submit(conn[c], 1, "read") EXCEPT !.cid = "handler"]
  <1>1. queue \in Seq(Client) /\ c = queue[1] /\ 1 \in 1 .. Len(queue) /\ c \in Client
    BY DEF OwnInv, InQueue
  <1>2. Held(conn[c]) /\ IsConn(conn[c]) /\ conn[c].op = "none"
    <2>1. conn[c].fds # {} /\ conn[c].op = "none"
      BY <1>1 DEF OwnInv, InQueue
    <2>2. Held(conn[c])
      BY <1>1, <2>1 DEF Held, OwnInv, Connections
    <2>3. QED
      BY <2>1, <2>2, HeldFacts
  <1>3. Update(c, k)
    BY DEF ConsumeRequest
  <1>4. k.phase = conn[c].phase
    BY <1>2, Submitted
  <1>5. Fine(conn[c]) => Fine(k)
    <2>1. conn[c].op \in {"none", "was accepted"}
      BY <1>2, Zenon
    <2>2. QED
      BY <1>2, <2>1, SubmitFine, Zenon
  <1> HIDE DEF c, k
  <1>6. QED
    BY <1>1, <1>3, <1>4, <1>5, RingAnswers

LEMMA WaitCqeAnswers ==
  ASSUME OwnInv, OwnInv', AnswerInv, server.name \in OnRing, UNCHANGED server,
         NEW t, WaitCqe(t)
  PROVE  AnswerInv'
  BY RingQuiet, Zenon DEF WaitCqe

LEMMA UringAnswers ==
  ASSUME OwnInv, OwnInv', Notified, AnswerInv, UNCHANGED server,
         \/ On("IoUringProactorSingleProcess") /\ IoUringProactorSingleProcess
         \/ On("IoUringProactorThreadPool") /\ \E t \in Thread : IoUringProactorThreadPool(t)
         \/ On("IoUringProactorSingleProcessCoroutine") /\ IoUringProactorSingleProcessCoroutine
         \/ /\ On("IoUringProactorSingleProcessCoroutineHSHA1")
            /\ IoUringProactorSingleProcessCoroutineHSHA1
         \/ /\ On("IoUringProactorSingleProcessCoroutineHSHA2")
            /\ IoUringProactorSingleProcessCoroutineHSHA2
  PROVE  AnswerInv'
  <1>0. server.name \in OnRing
    BY DEF On, OnRing
  <1>1. CASE \E t \in Thread : WaitCqe(t)
    BY <1>0, <1>1, WaitCqeAnswers
  <1>2. ASSUME NEW t \in Thread, NEW c \in Client, OnReadEvent(t, c) \/ OnWriteEvent(t, c)
        PROVE  AnswerInv'
    <2>1. CASE OnReadEvent(t, c)
      <3>1. PICK k \in AfterRead(conn[c], t) : Update(c, k)
        BY <2>1, Zenon DEF OnReadEvent, Becomes
      <3>2. TakeEvent(t, c) /\ conn[c].op = "was read"
        BY <2>1, Zenon DEF OnReadEvent, Cqe
      <3>3. QED
        BY <1>0, <3>1, <3>2, CompletionAnswers, Zenon
    <2>2. CASE OnWriteEvent(t, c)
      <3>1. PICK k \in AfterWrite(conn[c], t) : Update(c, k)
        BY <2>2, Zenon DEF OnWriteEvent, Becomes
      <3>2. TakeEvent(t, c) /\ conn[c].op = "written"
        BY <2>2, Zenon DEF OnWriteEvent, Cqe
      <3>3. QED
        BY <1>0, <3>1, <3>2, CompletionAnswers, Zenon
    <2>3. QED
      BY <1>2, <2>1, <2>2
  <1>3. ASSUME NEW t \in Thread, Proactor(t) PROVE AnswerInv'
    <2>1. CASE \E c \in Client : OnAcceptEvent(t, c)
      BY <1>0, <2>1, AcceptAgainAnswers DEF OnAcceptEvent
    <2>2. CASE \E c \in Client : OnReadEvent(t, c) \/ OnWriteEvent(t, c)
      BY <1>2, <2>2
    <2>3. QED
      BY <1>1, <1>3, <2>1, <2>2 DEF Proactor
  <1>4. CASE \E c \in Client : AcceptCreates(c)
    BY <1>0, <1>4, One, AcceptAgainAnswers DEF AcceptCreates
  <1>5. ASSUME NEW c \in Client, AcceptFails(c) PROVE AnswerInv'
    <2>1. CreateFails(1, c)
      BY <1>5, Zenon DEF AcceptFails
    <2>2. QED
      BY <2>1, One, CreateFailsAnswers
  <1>6. ASSUME NEW c \in Client, HandlerClient(c) PROVE AnswerInv'
    <2>1. TakeEvent(1, c)
      BY <1>6, Zenon DEF HandlerClient
    <2>2. CASE conn[c].op = "was read"
      <3>1. PICK k \in AfterRead(conn[c], 1) : Update(c, k)
        BY <1>6, <2>2, Zenon DEF HandlerClient
      <3>2. QED
        BY <1>0, <2>1, <2>2, <3>1, One, CompletionAnswers, Zenon
    <2>3. CASE ~ (conn[c].op = "was read")
      <3>1. conn[c].op = "written"
        BY <1>6, <2>3, Zenon DEF HandlerClient
      <3>2. PICK k \in AfterWrite(conn[c], 1) : Update(c, k)
        BY <1>6, <2>3, Zenon DEF HandlerClient
      <3>3. QED
        BY <1>0, <2>1, <3>1, <3>2, One, CompletionAnswers, Zenon
    <2>4. QED
      BY <2>2, <2>3, Zenon
  <1>7. ASSUME NEW c \in Client, NEW notify, AcceptProduces(c, notify) PROVE AnswerInv'
    BY <1>0, <1>7, ProducesAnswers
  <1>8. CASE RoundOver /\ SemaphoreDue /\ ConsumeRequest(0)
    BY <1>0, <1>8, ConsumesAnswers DEF SemaphoreDue
  <1>9. CASE On("IoUringProactorSingleProcessCoroutineHSHA2") /\ CondResumeRequest
    <2>1. queue # <<>>
      BY <1>9 DEF CondResumeRequest, CondDue, Notified, On, Condition
    <2>2. CASE ConsumeRequest(1)
      BY <1>0, <2>1, <2>2, ConsumesAnswers
    <2>3. CASE Abort(1) /\ UNCHANGED <<conn, queue>>
      BY <1>0, <2>3, RingQuiet
    <2>4. QED
      BY <1>9, <2>2, <2>3 DEF CondResumeRequest
  <1>10. ASSUME NEW due, NEW notify, ProactorHSHA(due, notify) PROVE AnswerInv'
    BY <1>1, <1>5, <1>6, <1>7, <1>10, One DEF ProactorHSHA
  <1>11. CASE IoUringProactorSingleProcessCoroutine
    BY <1>1, <1>4, <1>5, <1>6, <1>11, One DEF IoUringProactorSingleProcessCoroutine
  <1>12. QED
    BY <1>3, <1>8, <1>9, <1>10, <1>11, One
       DEF IoUringProactorSingleProcess, IoUringProactorThreadPool,
           IoUringProactorSingleProcessCoroutineHSHA1, IoUringProactorSingleProcessCoroutineHSHA2

LEMMA DecodingUsed == ASSUME NEW x, NEW body, Decoding(x, body) PROVE x.pkt.use_len \in Nat
  BY DEF Decoding, IsCodec

(* accept: nothing of the connection's request has been read. *)
LEMMA AcceptedFine ==
  ASSUME NEW k, Bare(k), Counts(k), server.name \in OnRing, k.op = "was accepted",
         Decoding(k.codec, Body(k.req)), k.pkt.use_len = 0, k.send_len = 0,
         Asked(k, k.codec.pkt.use_len)
  PROVE  Fine(k)
  <1>1. k.op # "was read" /\ k.op \in {"none", "was accepted", "read", "was read"}
    BY Zenon
  <1>2. Undecoded(k) = 0
    BY <1>1, Zenon DEF Undecoded
  <1>3. k.codec.pkt.use_len + 0 = k.codec.pkt.use_len
    <2>1. k.codec.pkt.use_len \in Nat
      BY DecodingUsed, Zenon
    <2>2. QED
      BY ONLY <2>1
  <1>4. Asked(k, k.codec.pkt.use_len + Undecoded(k))
    BY <1>2, <1>3, Zenon
  <1>5. Reading(k)
    BY <1>1, <1>4, Zenon DEF Reading
  <1>6. QED
    BY <1>1, <1>5, BareFine, Zenon

LEMMA CompleteAcceptAnswers ==
  ASSUME OwnInv, OwnInv', AnswerInv, server.name \in OnRing, UNCHANGED server,
         NEW t \in Thread, NEW c \in Client, CompleteAccept(t, c)
  PROVE  AnswerInv'
  <1> DEFINE a == Accepted(conn[c], t)
             e == [NoEvent EXCEPT !.epoll = t]
             op == "was accepted"
             k == [a EXCEPT !.op = op, !.event.epoll = t]
  <1>1. c \in InBacklog(t) /\ Update(c, k)
    BY Zenon DEF CompleteAccept
  <1> HIDE DEF op
  <1>2. Held(a) /\ a.event = NoEvent
    BY <1>1, BacklogOK, AcceptedOK
  <1>3. IsConn(a) /\ a.phase # "new" /\ a.listener = 0
    BY <1>2, HeldFacts
  <1>4. IsConn(conn[c]) /\ conn[c].phase # "new" /\ conn[c].listener # 0
    BY <1>1, BacklogOK DEF InBacklog, ConnOK
  <1>5. /\ a.phase = conn[c].phase /\ a.req = conn[c].req /\ a.unsent = conn[c].unsent
        /\ a.want = conn[c].want
        /\ a.inbox = conn[c].inbox /\ a.outbox = conn[c].outbox
        /\ a.codec = conn[c].codec /\ a.pkt = conn[c].pkt /\ a.send_len = conn[c].send_len
        /\ a.error = conn[c].error /\ a.res = conn[c].res
    BY <1>4 DEF Accepted, IsConn, Fields
  <1>6. k = [a EXCEPT !.op = op, !.event = e] /\ IsEvent(e) /\ e.type = "none"
    BY <1>2, <1>3 DEF NoEvent, IsEvent, EventFields
  <1> HIDE DEF a, e
  <1>7. /\ IsConn(k) /\ k.op = op /\ k.event = e /\ k.phase = a.phase /\ k.listener = a.listener
        /\ k.req = a.req /\ k.unsent = a.unsent /\ k.want = a.want
        /\ k.inbox = a.inbox /\ k.outbox = a.outbox /\ k.codec = a.codec /\ k.pkt = a.pkt
        /\ k.send_len = a.send_len /\ k.error = a.error /\ k.res = a.res
    BY ONLY <1>3, <1>6 DEF IsConn, Fields
  <1> HIDE DEF k
  <1>8. k.op = "was accepted"
    BY <1>7, Zenon DEF op
  <1>9. ASSUME Fine(conn[c]) PROVE Fine(k)
    <2>1. Reading(conn[c]) /\ conn[c].op = "none" /\ ~ conn[c].error /\ Counts(conn[c])
      BY <1>4, <1>9, Zenon DEF Fine, Fits, Clean, Staged
    <2>2. conn[c].op # "was read"
      BY <2>1, Zenon
    <2>3. /\ Decoding(conn[c].codec, Body(conn[c].req)) /\ conn[c].pkt.use_len = 0 /\ conn[c].send_len = 0
          /\ Asked(conn[c], conn[c].codec.pkt.use_len)
      BY <2>1, <2>2, ReadIs, Zenon
    <2>4. Counts(k) /\ Bare(k)
      BY <1>3, <1>5, <1>6, <1>7, <2>1 DEF Counts, Bare
    <2>5. Asked(k, k.codec.pkt.use_len)
      BY <1>5, <1>7, <2>3 DEF Asked, Message
    <2>6. Decoding(k.codec, Body(k.req)) /\ k.pkt.use_len = 0 /\ k.send_len = 0
      BY <1>5, <1>7, <2>3
    <2>7. QED
      BY <1>8, <2>4, <2>5, <2>6, AcceptedFine, Zenon
  <1>10. k.phase = conn[c].phase
    BY <1>5, <1>7
  <1>11. QED
    BY <1>1, <1>9, <1>10, RingAnswers

(* A request in flight is of a connection that the server has, and of what
   its stage is about. *)
LEMMA FlightIs ==
  ASSUME NEW k, IsConn(k), Fine(k), k.op \in InFlight
  PROVE  /\ server.name \in OnRing /\ Bare(k) /\ Counts(k)
         /\ k.op = "read" => Reading(k)
         /\ k.op = "write" => Writing(k)
  <1>1. k.op # "none"
    BY DEF InFlight
  <1>2. server.name \in OnRing /\ k.event.type = "none"
    BY <1>1, Zenon DEF Fine, Fits
  <1>3. k.listener = 0 /\ k.phase # "new"
    BY <1>1, Zenon DEF Fine, Fits
  <1>4. ~ k.error
    BY <1>2, Zenon DEF Fine, Clean
  <1>5. Counts(k) /\ (k.op = "read" => Reading(k)) /\ (k.op = "write" => Writing(k))
    BY Zenon DEF Fine, Fits, Staged
  <1>6. QED
    BY <1>2, <1>3, <1>4, <1>5, Zenon DEF Bare

(* What the kernel does for a connection, which a server that submits nothing
   has none of. *)
LEMMA CompleteIs ==
  ASSUME NEW c \in Client, IsConn(conn[c]), Complete(c)
  PROVE  \E k : /\ Update(c, k) /\ UNCHANGED <<thread, queue>>
                /\ SameHold(conn[c], k) /\ conn[c].op \in InFlight
                /\ conn[c].phase # "down" /\ Fine(conn[c]) => Fine(k)
  <1> DEFINE k == conn[c]
  <1>1. CASE /\ k.op = "read" /\ (k.inbox > 0 \/ k.phase = "down")
             /\ \E r \in Read(k, FALSE) :
                  Update(c, [r EXCEPT !.codec = k.codec, !.op = "was read", !.res = k.inbox - r.inbox])
    <2>1. PICK r \in Read(k, FALSE) :
            Update(c, [r EXCEPT !.codec = k.codec, !.op = "was read", !.res = k.inbox - r.inbox])
      BY <1>1, Zenon
    <2> DEFINE s == [r EXCEPT !.codec = k.codec, !.op = "was read", !.res = k.inbox - r.inbox]
               op == "was read"
    <2>2. s = [r EXCEPT !.codec = k.codec, !.op = op, !.res = k.inbox - r.inbox]
      OBVIOUS
    <2>3. SameHold(k, r)
      BY ReadHolds, Zenon
    <2>4. SameHold(k, s)
      <3> HIDE DEF s, op, k
      <3>1. QED
        BY ONLY <2>2, <2>3 DEF SameHold, IsConn, Fields
    <2>5. ASSUME k.phase # "down", Fine(k) PROVE Fine(s)
      <3>1. server.name \in OnRing /\ Bare(k) /\ Counts(k) /\ Reading(k) /\ k.op = "read" /\ k.inbox > 0
        BY <1>1, <2>5, FlightIs, Zenon DEF InFlight
      <3>2. QED
        BY <3>1, CompleteReadGives, Zenon
    <2>6. Update(c, s) /\ conn[c].op \in InFlight /\ UNCHANGED <<thread, queue>>
      BY <1>1, <2>1, Zenon DEF InFlight, Complete
    <2> HIDE DEF s
    <2>7. QED
      BY <2>4, <2>5, <2>6, Zenon
  <1>2. CASE /\ k.op = "write" /\ (k.outbox < SendBuf \/ k.phase = "down")
             /\ \E w \in WriteResults(k) :
                  Update(c, [w EXCEPT !.send_len = k.send_len, !.op = "written",
                                      !.res = w.send_len - k.send_len])
    <2>1. PICK w \in WriteResults(k) :
            Update(c, [w EXCEPT !.send_len = k.send_len, !.op = "written",
                                !.res = w.send_len - k.send_len])
      BY <1>2
    <2> DEFINE s == [w EXCEPT !.send_len = k.send_len, !.op = "written",
                              !.res = w.send_len - k.send_len]
    <2>2. SameHold(k, w)
      BY WriteHolds
    <2>3. SameHold(k, s)
      BY <2>2 DEF SameHold, IsConn, Fields
    <2>4. ASSUME k.phase # "down", Fine(k) PROVE Fine(s)
      <3>1. server.name \in OnRing /\ Bare(k) /\ Counts(k) /\ Writing(k) /\ k.op = "write" /\ k.outbox < SendBuf
        BY <1>2, <2>4, FlightIs, Zenon DEF InFlight
      <3>2. QED
        BY <2>4, <3>1, CompleteWriteGives, Zenon
    <2>5. Update(c, s) /\ conn[c].op \in InFlight /\ UNCHANGED <<thread, queue>>
      BY <1>2, <2>1, Zenon DEF InFlight, Complete
    <2> HIDE DEF s
    <2>6. QED
      BY <2>3, <2>4, <2>5, Zenon
  <1>3. QED
    BY <1>1, <1>2, Zenon DEF Complete

LEMMA CompleteAnswers ==
  ASSUME AnswerInv, conn = [d \in Client |-> conn[d]], NEW c \in Client, IsConn(conn[c]),
         server.name \in OnRing => \A t \in Thread : thread[t].cur = 0,
         Complete(c), UNCHANGED server
  PROVE  AnswerInv'
  <1>1. PICK k : /\ Update(c, k) /\ UNCHANGED <<thread, queue>>
                 /\ k.phase = conn[c].phase /\ conn[c].op \in InFlight
                 /\ conn[c].phase # "down" /\ Fine(conn[c]) => Fine(k)
    BY CompleteIs DEF SameHold
  <1>2. \A d \in Client : conn'[d] = IF d = c THEN k ELSE conn[d]
    BY <1>1 DEF Update
  <1>3. Aside(c) /\ Queues(c)
    BY <1>1 DEF Aside, Queues
  <1>4. \A d \in Client \ {c} : Follows(conn[d], conn'[d])
    BY <1>2, FollowsSelf
  <1>5. conn'[c].phase # "down" => Fine(conn'[c]) /\ Stays(c, conn'[c])
    <2> SUFFICES ASSUME k.phase # "down" PROVE Fine(k) /\ Stays(c, k)
      BY <1>2
    <2>1. Fine(conn[c])
      BY <1>1 DEF AnswerInv
    <2>2. server.name \in OnRing
      BY <1>1, <2>1, FlightIs
    <2>3. Stays(c, k)
      BY <1>1, <2>2, RingModes, NoClientZero DEF Stays, CoNames
    <2>4. QED
      BY <1>1, <2>1, <2>3
  <1>6. QED
    BY <1>3, <1>4, <1>5, StepKeeps
-----------------------------------------------------------------------------
(***************************************************************************)
(* The servers in which two processes may have a connection.               *)
(***************************************************************************)
Typed ==
  /\ conn = [c \in Client |-> conn[c]] /\ \A c \in Client : IsConn(conn[c])
  /\ ThreadsOK

(* It has been accepted. *)
Entered(k) == k.listener = 0 /\ k.phase # "new"

(* MultiProcess: the parent is at fork or at accept; its child handles the
   one connection it has been made for, and closes it. *)
MainOK(main) == main.batch = {} /\ main.pc \notin ToWrite \cup ToPush \cup {"close"}

ChildOK(t, child) ==
  /\ child.batch = {} /\ child.pc \in {"top", "recv", "send", "close"}
  /\ child.cur \in {0, t - 1}

(* The child has its copy of the descriptor until it closes it; a connection
   that the parent is to close for good has no child. *)
ForkOK(c, k, main, child) ==
  /\ k.phase = "new" => k.listener = 0
  /\ k.fds # {} => Entered(k)
  /\ child.cur = c => Of(c) \in k.fds
  /\ main.cur = c => Entered(k) /\ (main.pc # "forked" => child.cur = 0)

ForkInv ==
  /\ MainOK(thread[1]) /\ \A t \in Thread \ {1} : ChildOK(t, thread[t])
  /\ \A c \in Client : ForkOK(c, conn[c], thread[1], thread[Of(c)])

LEMMA ChildIs ==
  ASSUME NEW c \in Client
  PROVE  Of(c) \in Thread \ {1} /\ Of(c) - 1 = c
  BY EchoConnAssumption DEF Of, Thread, Client

LEMMA MultiFacts ==
  ASSUME On("MultiProcess")
  PROVE  /\ server.name \in OneByOne /\ server.name \notin HandOver /\ server.name \notin CoNames
         /\ server.name \notin OnRing \cup {"EpollReactorProcessPoolMS"}
  BY DEF On, OneByOne, HandOver, CoNames, WithCoroutines, WithConsumers, OnRing

(* A step about c, of its child, of the parent, or of both. *)
LEMMA ForkStep ==
  ASSUME Typed, ForkInv, AnswerInv, On("MultiProcess"), UNCHANGED server,
         NEW c \in Client, NEW k, Update(c, k), IsConn(k),
         thread' = [t \in Thread |-> thread'[t]],
         \A t \in Thread \ {1, Of(c)} : thread'[t] = thread[t],
         IsThread(thread'[1]), IsThread(thread'[Of(c)]),
         MainOK(thread'[1]), ChildOK(Of(c), thread'[Of(c)]),
         \/ thread'[1] = thread[1]
         \/ thread[1].cur \in {0, c} /\ thread'[1].cur \in {0, c},
         ForkOK(c, k, thread'[1], thread'[Of(c)]),
         k.phase # "down" =>
           /\ conn[c].phase # "down"
           /\ Fine(conn[c]) /\ Placed(c) =>
                Fine(k) /\ (thread'[Of(c)].cur = c => Stands(thread'[Of(c)].pc, k))
  PROVE  Typed' /\ ForkInv' /\ AnswerInv'
  <1> DEFINE o == Of(c)
  <1>1. o \in Thread /\ o # 1 /\ o - 1 = c /\ 1 \in Thread
    BY ChildIs, One
  <1>2. \A d \in Client \ {c} : Of(d) \in Thread /\ Of(d) # 1 /\ Of(d) # o
    BY <1>1, ChildIs
  <1>3. conn' = [d \in Client |-> conn'[d]] /\ \A d \in Client : conn'[d] = IF d = c THEN k ELSE conn[d]
    BY DEF Typed, Update
  <1>4. \A t \in Thread : t = 1 \/ t = o \/ thread'[t] = thread[t]
    OBVIOUS
  <1>5. Typed'
    <2>1. \A t \in Thread : IsThread(thread'[t])
      BY <1>4 DEF Typed, ThreadsOK
    <2>2. ThreadsOK'
      BY <2>1 DEF ThreadsOK, IsThread
    <2>3. QED
      BY <1>3, <2>2 DEF Typed, IsConn
  <1>6. ForkInv'
    <2>1. \A t \in Thread \ {1} : ChildOK(t, thread'[t])
      BY <1>4 DEF ForkInv
    <2>2. ASSUME NEW d \in Client PROVE ForkOK(d, conn'[d], thread'[1], thread'[Of(d)])
      <3>1. CASE d = c
        BY <1>3, <3>1
      <3>2. CASE d # c
        <4>1. ForkOK(d, conn[d], thread[1], thread[Of(d)])
          BY DEF ForkInv
        <4>2. conn'[d] = conn[d] /\ thread'[Of(d)] = thread[Of(d)]
          BY <1>2, <1>3, <1>4, <3>2
        <4>3. thread'[1].cur = d => thread'[1] = thread[1]
          BY <3>2, NoClientZero
        <4>4. QED
          BY <4>1, <4>2, <4>3 DEF ForkOK
      <3>3. QED
        BY <3>1, <3>2
    <2>3. QED
      BY <2>1, <2>2 DEF ForkInv, MainOK, ChildOK, ForkOK, Entered
  <1>7. AnswerInv'
    <2>1. thread[o].cur \in {0, c} /\ thread'[o].cur \in {0, c}
      BY <1>1 DEF ForkInv, ChildOK
    <2>2. Aside(c) /\ Queues(c)
      BY <1>4, <2>1, MultiFacts DEF Aside, Queues
    <2>3. \A d \in Client \ {c} : Follows(conn[d], conn'[d])
      BY <1>3, FollowsSelf
    <2>4. ASSUME conn'[c].phase # "down" PROVE Fine(conn'[c]) /\ Stays(c, conn'[c])
      <3>1. conn'[c] = k /\ conn[c].phase # "down" /\ Fine(conn[c]) /\ Placed(c)
        BY <1>3, <2>4 DEF AnswerInv
      <3>2. Fine(k) /\ (thread'[o].cur = c => Stands(thread'[o].pc, k))
        BY <2>4, <3>1
      <3>3. ASSUME NEW t \in Thread, thread'[t].cur = c PROVE Stands(thread'[t].pc, k)
        <4>1. CASE t = 1
          BY <4>1 DEF MainOK, Stands
        <4>2. CASE t = o
          BY <3>2, <3>3, <4>2
        <4>3. CASE t # 1 /\ t # o
          <5>1. thread[t].cur = c /\ thread[t].cur \in {0, t - 1} /\ t \in Int
            BY <1>4, <3>3, <4>3 DEF ForkInv, ChildOK, Thread
          <5>2. QED
            BY <1>1, <4>3, <5>1, NoClientZero DEF Thread
        <4>4. QED
          BY <4>1, <4>2, <4>3
      <3>4. QED
        BY <3>1, <3>2, <3>3, MultiFacts DEF Stays
    <2>5. QED
      BY <2>2, <2>3, <2>4, StepKeeps
  <1>8. QED
    BY <1>5, <1>6, <1>7

(* Thread t turns to c, or away from it. *)
LEMMA GotoIs ==
  ASSUME ThreadsOK, NEW t \in Thread, NEW place \in Places, NEW x \in Client \cup {0},
         Goto(t, place, x), thread[t].batch = {}, place \in Unbusy \cup {"aborted"} <=> x = 0
  PROVE  /\ thread' = [u \in Thread |-> thread'[u]]
         /\ \A u \in Thread \ {t} : thread'[u] = thread[u]
         /\ IsThread(thread'[t]) /\ thread'[t].batch = {} /\ thread'[t].cur = x /\ thread'[t].pc = place
  <1>1. ThreadStep(t, thread[t].batch, x)
    BY GotoSteps
  <1>2. thread'[t].pc = place
    BY GotoPc
  <1>3. QED
    BY <1>1, <1>2 DEF ThreadStep

LEMMA ChildHandles ==
  ASSUME Typed, ForkInv, AnswerInv, On("MultiProcess"), UNCHANGED server,
         NEW c \in Client, handlerClient(Of(c))
  PROVE  Typed' /\ ForkInv' /\ AnswerInv'
  <1> DEFINE t == Of(c)
  <1>1. t \in Thread /\ t # 1 /\ t - 1 = c /\ 1 \in Thread /\ ThreadsOK
    BY ChildIs, One DEF Typed
  <1>2. ForkOK(c, conn[c], thread[1], thread[t]) /\ ChildOK(t, thread[t]) /\ MainOK(thread[1])
    BY <1>1 DEF ForkInv
  <1>3. thread[t].cur = c
    <2>1. thread[t].pc \notin Unbusy \cup {"aborted"}
      BY DEF handlerClient, RecvMsg, SendMsg, At, Unbusy, Resting
    <2>2. thread[t].cur # 0
      BY <1>1, <2>1, Thread0
    <2>3. QED
      BY <1>1, <1>2, <2>2 DEF ChildOK
  <1>4. Known(conn[c])
    <2>1. IsConn(conn[c]) /\ conn[c].fds # {} /\ Entered(conn[c])
      BY <1>2, <1>3 DEF ForkOK, Typed
    <2>2. conn[c].phase # "down" => Fine(conn[c])
      BY DEF AnswerInv
    <2>3. QED
      BY <2>1, <2>2, FineSteady, MultiFacts DEF Known, Entered
  <1> HIDE DEF t
  <1>5. PICK k : /\ conn' = [conn EXCEPT ![c] = k] /\ SameHold(conn[c], k)
                 /\ ThreadStep(t, thread[t].batch, c) /\ Fit(c, k, thread'[t].pc, c)
                 /\ thread'[t].pc \in {"recv", "send", "close"} /\ UNCHANGED queue
    BY <1>1, <1>3, <1>4, HandlerFits, MultiFacts DEF t
  <1>6. /\ thread' = [u \in Thread |-> thread'[u]] /\ \A u \in Thread \ {t} : thread'[u] = thread[u]
        /\ thread'[t].batch = {} /\ thread'[t].cur = c /\ IsThread(thread'[t])
    BY <1>2, <1>5 DEF ThreadStep, ChildOK
  <1>7. thread'[1] = thread[1] /\ IsThread(thread'[1]) /\ MainOK(thread'[1])
    BY <1>1, <1>2, <1>6 DEF ThreadsOK
  <1>8. ChildOK(t, thread'[t])
    BY <1>1, <1>5, <1>6 DEF ChildOK
  <1>9. ForkOK(c, k, thread'[1], thread'[t])
    BY <1>2, <1>3, <1>5, <1>6, <1>7, NoClientZero DEF ForkOK, SameHold, Entered, t
  <1>10. Update(c, k) /\ IsConn(k)
    BY <1>5 DEF Update, SameHold
  <1>11. k.phase # "down" =>
           /\ conn[c].phase # "down"
           /\ Fine(conn[c]) /\ Placed(c) =>
                Fine(k) /\ (thread'[t].cur = c => Stands(thread'[t].pc, k))
    BY <1>5, <1>6 DEF Fit
  <1>12. QED
    BY <1>6, <1>7, <1>8, <1>9, <1>10, <1>11, ForkStep DEF t

(* What closing a copy of the descriptor does. *)
LEMMA CloseIs ==
  ASSUME NEW k, IsConn(k), NEW p, NEW r \in {Close(k, p), Deleted(Close(k, p))}
  PROVE  /\ IsConn(r) /\ r.phase = k.phase /\ r.listener = k.listener /\ r.fds = k.fds \ {p}
         /\ r.event = k.event
  <1>1. \A x : IsConn(x) => /\ IsConn(Deleted(x)) /\ Deleted(x).phase = x.phase
                            /\ Deleted(x).listener = x.listener /\ Deleted(x).fds = x.fds
                            /\ Deleted(x).event = x.event
    BY DeletedGives
  <1> DEFINE s == Close(k, p)
  <1>2. /\ IsConn(s) /\ s.phase = k.phase /\ s.listener = k.listener /\ s.fds = k.fds \ {p}
        /\ s.event = k.event
    BY ClosedGives
  <1> HIDE DEF s
  <1>3. r = s \/ r = Deleted(s)
    BY DEF s
  <1>4. QED
    BY <1>1, <1>2, <1>3

LEMMA ChildCloses ==
  ASSUME Typed, ForkInv, AnswerInv, On("MultiProcess"), UNCHANGED server,
         NEW c \in Client, CloseClient(Of(c), Of(c))
  PROVE  Typed' /\ ForkInv' /\ AnswerInv'
  <1> DEFINE t == Of(c)
             k == Deleted(Close(conn[c], t))
  <1>1. t \in Thread /\ t # 1 /\ t - 1 = c /\ 1 \in Thread /\ ThreadsOK
    BY ChildIs, One DEF Typed
  <1>2. ForkOK(c, conn[c], thread[1], thread[t]) /\ ChildOK(t, thread[t]) /\ MainOK(thread[1])
    BY <1>1 DEF ForkInv
  <1>3. thread[t].pc = "close" /\ thread[t].cur = c
    <2>1. thread[t].pc = "close" /\ thread[t].pc \notin Unbusy \cup {"aborted"}
      BY DEF CloseClient, At, Unbusy, Resting
    <2>2. thread[t].cur # 0
      BY <1>1, <2>1, Thread0
    <2>3. QED
      BY <1>1, <1>2, <2>1, <2>2 DEF ChildOK
  <1>4. Update(c, k) /\ Goto(t, "top", 0)
    BY <1>3 DEF CloseClient
  <1>5. IsConn(k) /\ k.phase = conn[c].phase /\ k.listener = conn[c].listener /\ k.fds = conn[c].fds \ {t}
    BY CloseIs DEF Typed
  <1> HIDE DEF t, k
  <1>6. /\ thread' = [u \in Thread |-> thread'[u]] /\ \A u \in Thread \ {t} : thread'[u] = thread[u]
        /\ IsThread(thread'[t]) /\ thread'[t].batch = {} /\ thread'[t].cur = 0 /\ thread'[t].pc = "top"
    <2>1. "top" \in Places /\ "top" \in Unbusy
      BY DEF Places, Unbusy, Resting
    <2>2. QED
      BY <1>1, <1>2, <1>4, <2>1, GotoIs DEF ChildOK
  <1>7. thread'[1] = thread[1] /\ IsThread(thread'[1]) /\ MainOK(thread'[1])
    BY <1>1, <1>2, <1>6 DEF ThreadsOK
  <1>8. ChildOK(t, thread'[t])
    BY <1>6 DEF ChildOK
  <1>9. ForkOK(c, k, thread'[1], thread'[t])
    BY <1>2, <1>5, <1>6, <1>7, NoClientZero DEF ForkOK, Entered
  <1>10. ~ Placed(c)
    BY <1>1, <1>3 DEF Placed, Stands
  <1>11. QED
    BY <1>4, <1>5, <1>6, <1>7, <1>8, <1>9, <1>10, ForkStep DEF t

(* The parent's places. *)
LEMMA ParentPlaces ==
  /\ "forked" \in Places \ (Unbusy \cup {"aborted"}) /\ "not forked" \in Places \ (Unbusy \cup {"aborted"})
  /\ "recv" \in Places \ (Unbusy \cup {"aborted"}) /\ "top" \in Places \cap Unbusy
  /\ {"top", "forked", "not forked"} \cap (ToWrite \cup ToPush \cup {"close"}) = {}
  BY Zenon DEF Places, Unbusy, Resting, ToWrite, ToPush

(* Who waits for its first process. *)
LEMMA WaitsFor ==
  ASSUME Typed, ForkInv, NEW c \in Client, c \in InBacklog(1)
  PROVE  /\ IsConn(conn[c]) /\ conn[c].phase # "new" /\ conn[c].listener # 0 /\ conn[c].fds = {}
         /\ thread[Of(c)].cur # c
  BY DEF Typed, ForkInv, ForkOK, Entered, InBacklog

LEMMA AcceptedIs ==
  ASSUME NEW k, IsConn(k), NEW p, NEW F, NEW r \in {Accepted(k, p), [Accepted(k, p) EXCEPT !.fds = F]}
  PROVE  /\ IsConn(r) /\ r.phase = k.phase /\ r.listener = 0
         /\ r.fds = IF r = Accepted(k, p) THEN {p} ELSE F
  <1>1. /\ IsConn(Accepted(k, p)) /\ Accepted(k, p).phase = k.phase /\ Accepted(k, p).listener = 0
        /\ Accepted(k, p).fds = {p}
    BY DEF Accepted, IsConn, Fields
  <1>2. \A x : IsConn(x) => LET y == [x EXCEPT !.fds = F]
                            IN  IsConn(y) /\ y.phase = x.phase /\ y.listener = x.listener /\ y.fds = F
    BY DEF IsConn, Fields
  <1>3. QED
    BY <1>1, <1>2

(* fork: parent and child both have the descriptor. *)
LEMMA ForkAnswers ==
  ASSUME Typed, ForkInv, AnswerInv, On("MultiProcess"), UNCHANGED server,
         NEW c \in Client, c \in InBacklog(1), At(1, "top"),
         Update(c, [Accepted(conn[c], 1) EXCEPT !.fds = {1, Of(c)}]),
         thread' = [thread EXCEPT ![1].pc = "forked", ![1].cur = c,
                                  ![Of(c)].pc = "recv", ![Of(c)].cur = c]
  PROVE  Typed' /\ ForkInv' /\ AnswerInv'
  <1> DEFINE t == Of(c)
             F == {1, t}
             a == Accepted(conn[c], 1)
             k == [a EXCEPT !.fds = F]
             main == [thread[1] EXCEPT !.pc = "forked", !.cur = c]
             child == [thread[t] EXCEPT !.pc = "recv", !.cur = c]
  <1>1. t \in Thread /\ t # 1 /\ t - 1 = c /\ 1 \in Thread /\ ThreadsOK
    BY ChildIs, One DEF Typed
  <1>2. ForkOK(c, conn[c], thread[1], thread[t]) /\ ChildOK(t, thread[t]) /\ MainOK(thread[1])
    BY <1>1 DEF ForkInv
  <1>3. /\ IsConn(conn[c]) /\ conn[c].phase # "new" /\ conn[c].listener # 0
    BY WaitsFor
  <1>4. thread[1].cur = 0
    BY <1>1, Thread0 DEF At, Unbusy, Resting
  <1>5. Update(c, k) /\ t \in F
    OBVIOUS
  <1>6. thread = [u \in Thread |-> thread[u]] /\ IsThread(thread[1]) /\ IsThread(thread[t])
    BY <1>1 DEF ThreadsOK
  <1>7. thread' = [thread EXCEPT ![1] = main, ![t] = child]
    BY <1>1, <1>6
  <1>8. IsThread(main) /\ main.batch = {} /\ main.cur = c /\ main.pc = "forked"
    <2>1. "forked" \in Places /\ "forked" \notin Unbusy \cup {"aborted"} /\ "forked" \notin Resting
      BY ParentPlaces, Zenon DEF Unbusy
    <2>2. QED
      BY <1>2, <1>6, <2>1, NoClientZero DEF IsThread, MainOK
  <1>9. IsThread(child) /\ child.batch = {} /\ child.cur = c /\ child.pc = "recv"
    <2>1. "recv" \in Places /\ "recv" \notin Unbusy \cup {"aborted"} /\ "recv" \notin Resting
      BY ParentPlaces, Zenon DEF Unbusy
    <2>2. QED
      BY <1>2, <1>6, <2>1, NoClientZero DEF IsThread, ChildOK
  <1>10. IsConn(a) /\ a.phase = conn[c].phase /\ a.listener = 0 /\ a.fds = {1}
    BY <1>3, AcceptedIs
  <1>11. IsConn(k) /\ k.phase = conn[c].phase /\ k.listener = 0 /\ k.fds = F
    <2> HIDE DEF a, F
    <2>1. QED
      BY <1>10 DEF IsConn, Fields
  <1>12. Follows(conn[c], k)
    <2>1. Follows(conn[c], a)
      BY <1>3, EnterFollows, MultiFacts
    <2>2. k = [a EXCEPT !.fds = F, !.inbox = a.inbox]
      <3> HIDE DEF a, F
      <3>1. QED
        BY <1>10 DEF IsConn, Fields
    <2>3. a.error => F = {} \/ a.phase = "down" \/ ~ Fine(a)
      BY <1>10 DEF Fine, Clean
    <2> HIDE DEF a, F, k
    <2>4. Follows(a, k)
      BY <1>10, <2>2, <2>3, FdsFollow
    <2>5. QED
      BY <2>1, <2>4, FollowsTwice
  <1> HIDE DEF F, a, k, main, child, t
  <1>13. /\ thread' = [u \in Thread |-> thread'[u]] /\ \A u \in Thread \ {1, t} : thread'[u] = thread[u]
         /\ thread'[1] = main /\ thread'[t] = child
    BY <1>1, <1>6, <1>7
  <1>14. MainOK(thread'[1]) /\ ChildOK(t, thread'[t])
    <2>1. "forked" \notin ToWrite \cup ToPush \cup {"close"}
      BY DEF ToWrite, ToPush
    <2>2. QED
      BY <1>1, <1>8, <1>9, <1>13, <2>1 DEF MainOK, ChildOK
  <1>15. ForkOK(c, k, thread'[1], thread'[t])
    BY <1>3, <1>5, <1>8, <1>9, <1>11, <1>13 DEF ForkOK, Entered, t
  <1>16. k.phase # "down" => conn[c].phase # "down" /\ (Fine(conn[c]) => Fine(k))
    BY <1>12 DEF Follows
  <1>17. Stands(thread'[t].pc, k)
    BY <1>9, <1>13 DEF Stands, ToWrite, ToPush
  <1>18. QED
    BY <1>4, <1>5, <1>8, <1>9, <1>11, <1>13, <1>14, <1>15, <1>16, <1>17, ForkStep DEF t

(* The parent alone: it goes to `place', with the connection or without. *)
LEMMA ParentStep ==
  ASSUME Typed, ForkInv, AnswerInv, On("MultiProcess"), UNCHANGED server,
         NEW c \in Client, NEW k, Update(c, k), IsConn(k), Follows(conn[c], k),
         NEW place \in Places, NEW x \in {0, c}, Goto(1, place, x), thread[1].cur \in {0, c},
         place \in Unbusy \cup {"aborted"} <=> x = 0,
         place \notin ToWrite \cup ToPush \cup {"close"},
         k.phase = "new" => k.listener = 0,
         k.fds # {} => Entered(k),
         thread[Of(c)].cur = c => Of(c) \in k.fds,
         x = c => Entered(k) /\ (place # "forked" => thread[Of(c)].cur = 0)
  PROVE  Typed' /\ ForkInv' /\ AnswerInv'
  <1> DEFINE t == Of(c)
  <1>1. t \in Thread /\ t # 1 /\ t - 1 = c /\ 1 \in Thread /\ ThreadsOK
    BY ChildIs, One DEF Typed
  <1>2. ForkOK(c, conn[c], thread[1], thread[t]) /\ ChildOK(t, thread[t]) /\ MainOK(thread[1])
    BY <1>1 DEF ForkInv
  <1> HIDE DEF t
  <1>3. /\ thread' = [u \in Thread |-> thread'[u]] /\ \A u \in Thread \ {1} : thread'[u] = thread[u]
        /\ IsThread(thread'[1]) /\ thread'[1].batch = {} /\ thread'[1].cur = x /\ thread'[1].pc = place
    BY <1>1, <1>2, GotoIs DEF MainOK
  <1>4. thread'[t] = thread[t] /\ IsThread(thread'[t]) /\ ChildOK(t, thread'[t])
    BY <1>1, <1>2, <1>3 DEF ThreadsOK
  <1>5. MainOK(thread'[1])
    BY <1>3 DEF MainOK
  <1>6. ForkOK(c, k, thread'[1], thread'[t])
    BY <1>3, <1>4, NoClientZero DEF ForkOK, t
  <1>7. ASSUME k.phase # "down", Fine(conn[c]), Placed(c), thread'[t].cur = c
        PROVE  Stands(thread'[t].pc, k)
    <2>1. Stands(thread[t].pc, conn[c])
      BY <1>1, <1>4, <1>7 DEF Placed
    <2>2. SameStage(conn[c], k)
      BY <1>7 DEF Follows
    <2>3. QED
      BY <1>4, <2>1, <2>2 DEF Stands, SameStage
  <1>8. k.phase # "down" =>
          /\ conn[c].phase # "down"
          /\ Fine(conn[c]) /\ Placed(c) =>
               Fine(k) /\ (thread'[t].cur = c => Stands(thread'[t].pc, k))
    BY <1>7 DEF Follows
  <1>9. QED
    BY <1>3, <1>4, <1>5, <1>6, <1>8, ForkStep DEF t

LEMMA MultiProcessAnswers ==
  ASSUME Typed, ForkInv, AnswerInv, On("MultiProcess"), UNCHANGED server, MultiProcess
  PROVE  Typed' /\ ForkInv' /\ AnswerInv'
  <1>1. PICK c \in Client :
          Fork(c) \/ ParentCloses(c) \/ handlerClient(Of(c)) \/ CloseClient(Of(c), Of(c))
    BY DEF MultiProcess
  <1>2. CASE Fork(c)
    <2>1. c \in InBacklog(1) /\ At(1, "top")
      BY <1>2, Zenon DEF Fork
    <2>2. CASE /\ Update(c, [Accepted(conn[c], 1) EXCEPT !.fds = {1, Of(c)}])
               /\ thread' = [thread EXCEPT ![1].pc = "forked", ![1].cur = c,
                                           ![Of(c)].pc = "recv", ![Of(c)].cur = c]
      BY <2>1, <2>2, ForkAnswers
    <2>3. CASE Update(c, Accepted(conn[c], 1)) /\ Goto(1, "not forked", c)
      <3> DEFINE place == "not forked"
                 k == Accepted(conn[c], 1)
      <3>1. place \in Places /\ place \notin Unbusy \cup {"aborted"}
            /\ place \notin ToWrite \cup ToPush \cup {"close"} /\ Goto(1, place, c)
        BY <2>3, ParentPlaces, Zenon
      <3> HIDE DEF place
      <3>2. /\ IsConn(conn[c]) /\ conn[c].phase # "new" /\ conn[c].listener # 0
            /\ thread[Of(c)].cur # c
        BY <2>1, WaitsFor
      <3>3. IsConn(k) /\ k.phase = conn[c].phase /\ k.listener = 0
        BY <3>2, AcceptedIs
      <3>4. Follows(conn[c], k)
        BY <3>2, EnterFollows, MultiFacts
      <3>5. thread[1].cur = 0
        BY <2>1, One, Thread0 DEF At, Unbusy, Resting, Typed
      <3>6. thread[Of(c)].cur = 0
        BY <3>2, ChildIs DEF ForkInv, ChildOK
      <3>7. Entered(k) /\ Update(c, k) /\ (k.phase = "new" => k.listener = 0)
        BY <2>3, <3>2, <3>3, Zenon DEF Entered
      <3>8. place \in Unbusy \cup {"aborted"} <=> c = 0
        BY <3>1, NoClientZero, Zenon
      <3> HIDE DEF k
      <3>9. QED
        BY <3>1, <3>2, <3>3, <3>4, <3>5, <3>6, <3>7, <3>8, ParentStep, Zenon
    <2>4. QED
      BY <1>2, <2>2, <2>3, Zenon DEF Fork
  <1>3. CASE ParentCloses(c)
    <2>1. thread[1].cur = c /\ Goto(1, "top", 0)
      BY <1>3, Zenon DEF ParentCloses
    <2>2. ForkOK(c, conn[c], thread[1], thread[Of(c)]) /\ IsConn(conn[c]) /\ Of(c) # 1
      BY ChildIs DEF ForkInv, Typed
    <2>3. ASSUME NEW k, Update(c, k), IsConn(k), Follows(conn[c], k), k.phase = conn[c].phase,
                 k.listener = 0, thread[Of(c)].cur = c => Of(c) \in k.fds
          PROVE  Typed' /\ ForkInv' /\ AnswerInv'
      <3>1. "top" \in Places /\ "top" \in Unbusy /\ "top" \notin ToWrite \cup ToPush \cup {"close"}
        BY DEF ToWrite, ToPush, Unbusy, Resting, Places
      <3>2. Entered(k)
        BY <2>1, <2>2, <2>3 DEF ForkOK, Entered
      <3>3. QED
        BY <2>1, <2>3, <3>1, <3>2, NoClientZero, ParentStep DEF Entered
    <2>4. CASE At(1, "forked") /\ Update(c, Close(conn[c], 1))
      <3> DEFINE k == Close(conn[c], 1)
      <3>1. IsConn(k) /\ k.phase = conn[c].phase /\ k.listener = conn[c].listener /\ k.fds = conn[c].fds \ {1}
        BY <2>2, CloseIs
      <3>2. Follows(conn[c], k)
        BY <2>2, CloseFollows
      <3> HIDE DEF k
      <3>3. QED
        BY <2>1, <2>2, <2>3, <2>4, <3>1, <3>2 DEF ForkOK, Entered, k
    <2>5. CASE At(1, "not forked") /\ Update(c, Refused(conn[c]))
      <3> DEFINE k == Refused(conn[c])
      <3>1. thread[1].pc # "forked"
        BY <2>5, Zenon DEF At
      <3>2. Update(c, k)
        BY <2>5, Zenon
      <3>3. thread[Of(c)].cur = 0 /\ Entered(conn[c])
        BY <2>1, <2>2, <3>1, Zenon DEF ForkOK
      <3>4. IsConn(k) /\ k.phase = conn[c].phase /\ k.listener = 0
        BY ONLY <2>2 DEF Refused, IsConn, Fields
      <3>5. Follows(conn[c], k)
        BY <2>2, <3>3, RefusedFollows, MultiFacts, Zenon DEF Entered
      <3>6. c # 0
        BY ONLY NoClientZero, c \in Client
      <3> HIDE DEF k
      <3>7. QED
        BY <2>3, <3>2, <3>3, <3>4, <3>5, <3>6, Zenon
    <2>6. QED
      BY <1>3, <2>4, <2>5, Zenon DEF ParentCloses
  <1>4. CASE handlerClient(Of(c))
    BY <1>4, ChildHandles
  <1>5. CASE CloseClient(Of(c), Of(c))
    BY <1>5, ChildCloses
  <1>6. QED
    BY <1>1, <1>2, <1>3, <1>4, <1>5
-----------------------------------------------------------------------------
(* EpollReactorProcessPoolMS: what has come to a process, or is on its way to
   one, has been accepted. *)
Advances(k, r) ==
  /\ IsConn(r)
  /\ r.phase = "new" => r.listener = 0
  /\ r.event.epoll # 0 => Entered(r)
  /\ Entered(k) => Entered(r)
  /\ r.phase # "down" => k.phase # "down" /\ (Fine(k) => Fine(r))

(* Connection d is in the hands of thread t. *)
Has(th, d) == d \in th.batch \/ th.cur = d

MasterPlaces == {"top", "events", "sent"}

MasterInv ==
  /\ queue \in [Subs -> Seq(Client)]
  /\ \A t \in Thread : thread[t].pc \in MasterPlaces
  /\ \A t \in Subs : Sock \in thread[t].batch => queue[t] # <<>>
  /\ \A c \in Client : /\ conn[c].phase = "new" => conn[c].listener = 0
                       /\ conn[c].event.epoll # 0 => Entered(conn[c])
  /\ \A c \in Client, t \in Thread : Has(thread[t], c) => Entered(conn[c])
  /\ \A t \in Subs : \A i \in 1 .. Len(queue[t]) : Entered(conn[queue[t][i]])

MasterFacts ==
  server.name \notin OneByOne \cup OnRing \cup CoNames \cup HandOver

LEMMA MasterIs == ASSUME On("EpollReactorProcessPoolMS") PROVE MasterFacts
  BY DEF On, MasterFacts, OneByOne, BlockingNames, HandOver, CoNames, WithCoroutines, WithConsumers, OnRing

LEMMA MasterStep ==
  ASSUME Typed, MasterInv, AnswerInv, On("EpollReactorProcessPoolMS"), UNCHANGED server,
         conn' = [c \in Client |-> conn'[c]], \A c \in Client : Advances(conn[c], conn'[c]),
         ThreadsOK', queue' \in [Subs -> Seq(Client)],
         \A t \in Thread : thread'[t].pc \in MasterPlaces,
         \A t \in Subs : Sock \in thread'[t].batch => queue'[t] # <<>>,
         \A c \in Client, t \in Thread :
           Has(thread'[t], c) => Has(thread[t], c) \/ Entered(conn'[c]),
         \A t \in Subs : \A i \in 1 .. Len(queue'[t]) :
           \/ Entered(conn'[queue'[t][i]])
           \/ \E j \in 1 .. Len(queue[t]) : queue[t][j] = queue'[t][i]
  PROVE  Typed' /\ MasterInv' /\ AnswerInv'
  <1>1. \A c \in Client : IsConn(conn'[c])
    BY DEF Advances
  <1>2. Typed'
    BY <1>1 DEF Typed, IsConn
  <1>3. MasterInv'
    <2>1. \A c \in Client : /\ conn'[c].phase = "new" => conn'[c].listener = 0
                            /\ conn'[c].event.epoll # 0 => Entered(conn'[c])
      BY DEF Advances
    <2>2. \A c \in Client, t \in Thread : Has(thread'[t], c) => Entered(conn'[c])
      BY DEF MasterInv, Advances
    <2>3. ASSUME NEW t \in Subs, NEW i \in 1 .. Len(queue'[t]) PROVE Entered(conn'[queue'[t][i]])
      <3>1. CASE \E j \in 1 .. Len(queue[t]) : queue[t][j] = queue'[t][i]
        <4>1. PICK j \in 1 .. Len(queue[t]) : queue[t][j] = queue'[t][i]
          BY <3>1
        <4>2. queue[t] \in Seq(Client) /\ Entered(conn[queue[t][j]])
          BY DEF MasterInv
        <4>3. queue[t][j] \in Client
          BY <4>2
        <4>4. QED
          BY <4>1, <4>2, <4>3 DEF Advances
      <3>2. QED
        BY <3>1
    <2>4. QED
      BY <2>1, <2>2, <2>3 DEF MasterInv, Has, Entered
  <1>4. ASSUME NEW c \in Client, conn'[c].phase # "down"
        PROVE  Fine(conn'[c]) /\ Stays(c, conn'[c])
    <2>1. Fine(conn'[c])
      BY <1>4 DEF Advances, AnswerInv
    <2>2. \A t \in Thread : Stands(thread'[t].pc, conn'[c])
      <3>1. MasterPlaces \cap (ToWrite \cup ToPush \cup {"close"}) = {}
        BY DEF MasterPlaces, ToWrite, ToPush
      <3>2. QED
        BY <3>1 DEF Stands
    <2>3. QED
      BY <2>1, <2>2, MasterIs DEF Stays, MasterFacts
  <1>5. AnswerInv'
    BY <1>4, InPlace DEF AnswerInv
  <1>6. QED
    BY <1>2, <1>3, <1>5

LEMMA AdvancesSelf ==
  ASSUME Typed, MasterInv, NEW c \in Client
  PROVE  Advances(conn[c], conn[c])
  BY DEF Typed, MasterInv, Advances

(* Thread t goes on, and does something to c. *)
LEMMA MasterOne ==
  ASSUME Typed, MasterInv, AnswerInv, On("EpollReactorProcessPoolMS"), UNCHANGED server,
         NEW t \in Thread, NEW c \in Client, NEW k, Update(c, k), Advances(conn[c], k),
         NEW B \in SUBSET thread[t].batch, NEW x \in {0, c}, ThreadStep(t, B, x), x = c => Entered(k),
         thread'[t].pc \in MasterPlaces, queue' \in [Subs -> Seq(Client)],
         \A u \in Subs : Sock \in thread'[u].batch => queue'[u] # <<>>,
         \A u \in Subs : \A i \in 1 .. Len(queue'[u]) :
           \/ queue'[u][i] = c /\ Entered(k)
           \/ \E j \in 1 .. Len(queue[u]) : queue[u][j] = queue'[u][i]
  PROVE  Typed' /\ MasterInv' /\ AnswerInv'
  <1>1. conn' = [d \in Client |-> conn'[d]] /\ \A d \in Client : conn'[d] = IF d = c THEN k ELSE conn[d]
    BY DEF Typed, Update
  <1>2. \A d \in Client : Advances(conn[d], conn'[d])
    BY <1>1, AdvancesSelf
  <1>3. \A u \in Thread \ {t} : thread'[u] = thread[u]
    BY DEF ThreadStep
  <1>4. ThreadsOK'
    <2>1. \A u \in Thread : IsThread(thread'[u])
      BY <1>3 DEF ThreadStep, Typed, ThreadsOK
    <2>2. QED
      BY <2>1 DEF ThreadsOK, IsThread, ThreadStep
  <1>5. \A u \in Thread : thread'[u].pc \in MasterPlaces
    BY <1>3 DEF MasterInv
  <1>6. ASSUME NEW d \in Client, NEW u \in Thread, Has(thread'[u], d)
        PROVE  Has(thread[u], d) \/ Entered(conn'[d])
    <2>1. CASE u = t
      <3>1. d \in B \/ d = x
        BY <1>6, <2>1 DEF Has, ThreadStep
      <3>2. QED
        BY <1>1, <2>1, <3>1, NoClientZero DEF Has
    <2>2. CASE u # t
      BY <1>3, <1>6, <2>2
    <2>3. QED
      BY <2>1, <2>2
  <1>7. \A u \in Subs : \A i \in 1 .. Len(queue'[u]) :
           \/ Entered(conn'[queue'[u][i]])
           \/ \E j \in 1 .. Len(queue[u]) : queue[u][j] = queue'[u][i]
    BY <1>1
  <1>8. QED
    BY <1>1, <1>2, <1>4, <1>5, <1>6, <1>7, MasterStep

(* The queues are as they were. *)
LEMMA MasterSame ==
  ASSUME Typed, MasterInv, AnswerInv, On("EpollReactorProcessPoolMS"), UNCHANGED <<queue, server>>,
         NEW t \in Thread, NEW c \in Client, NEW k, Update(c, k), Advances(conn[c], k),
         NEW B \in SUBSET thread[t].batch, ThreadStep(t, B, 0), thread'[t].pc \in MasterPlaces
  PROVE  Typed' /\ MasterInv' /\ AnswerInv'
  <1>1. queue' \in [Subs -> Seq(Client)]
    BY DEF MasterInv
  <1>2. \A u \in Thread : thread'[u].batch \subseteq thread[u].batch
    BY DEF ThreadStep
  <1>3. \A u \in Subs : Sock \in thread'[u].batch => queue'[u] # <<>>
    BY <1>2, SubsThreads DEF MasterInv
  <1>4. QED
    BY <1>1, <1>3, NoClientZero, MasterOne

(* What thread t is busy with at its events, or at the others of its places. *)
LEMMA AtEvents ==
  ASSUME Typed, NEW t \in Thread, thread[t].pc = "events"
  PROVE  thread[t].cur = 0
  BY Thread0 DEF Typed, Unbusy

LEMMA TakePlace ==
  ASSUME Typed, NEW t \in Thread, NEW s, TakeEvent(t, s)
  PROVE  /\ s \in thread[t].batch /\ ThreadStep(t, thread[t].batch \ {s}, 0)
         /\ thread'[t].pc \in MasterPlaces
  <1>1. s \in thread[t].batch /\ ThreadStep(t, thread[t].batch \ {s}, 0)
    BY TakeSteps DEF Typed
  <1> DEFINE pc == IF thread[t].batch = {s} THEN "top" ELSE "events"
             B == thread[t].batch \ {s}
             th == [thread[t] EXCEPT !.batch = B, !.pc = pc]
  <1>2. thread = [u \in Thread |-> thread[u]] /\ IsThread(thread[t])
    BY DEF Typed, ThreadsOK
  <1>3. thread' = [thread EXCEPT ![t].batch = B, ![t].pc = pc] /\ pc \in {"top", "events"}
    BY Zenon DEF TakeEvent
  <1> HIDE DEF pc, B
  <1>4. thread' = [thread EXCEPT ![t] = th]
    BY <1>2, <1>3
  <1>5. th.pc = pc
    BY <1>2 DEF IsThread
  <1> HIDE DEF th
  <1>6. thread'[t] = th
    BY <1>2, <1>4
  <1>7. QED
    BY <1>1, <1>3, <1>5, <1>6 DEF MasterPlaces

LEMMA MasterWaits ==
  ASSUME Typed, MasterInv, AnswerInv, On("EpollReactorProcessPoolMS"), UNCHANGED server,
         NEW t \in Thread, NEW is_readable, EpollWait(t, t, is_readable),
         t \in Subs => (is_readable => queue[t] # <<>>)
  PROVE  Typed' /\ MasterInv' /\ AnswerInv'
  <1> DEFINE E == Ready(t) \cup {s \in {Sock} : is_readable}
             th == [thread[t] EXCEPT !.pc = "events", !.batch = E]
  <1>1. /\ thread[t].pc = "top" /\ thread' = [thread EXCEPT ![t].pc = "events", ![t].batch = E]
        /\ conn' = [c \in Client |-> IF c \in Ready(t) THEN Reported(conn[c]) ELSE conn[c]]
        /\ UNCHANGED queue
    BY DEF EpollWait
  <1>2. E \in SUBSET (Client \cup {Sock}) /\ \A c \in Client : c \in E => conn[c].event.epoll = t
    BY NoClientZero DEF Ready
  <1>3. Sock \in E => is_readable
    BY NoClientZero DEF Ready
  <1> HIDE DEF E
  <1>4. IsThread(th) /\ th.pc = "events" /\ th.batch = E /\ th.cur = 0
    <2>1. IsThread(thread[t]) /\ thread[t].cur = 0
      BY <1>1, Thread0 DEF Typed, ThreadsOK, Resting, Unbusy
    <2>2. "events" \in Places /\ "events" \in Unbusy /\ "events" \notin Resting
      BY Zenon DEF Places, Unbusy, Resting
    <2>3. QED
      BY <1>2, <2>1, <2>2 DEF IsThread
  <1>5. /\ thread' = [u \in Thread |-> thread'[u]] /\ thread'[t] = th
        /\ \A u \in Thread \ {t} : thread'[u] = thread[u]
    <2>1. thread' = [thread EXCEPT ![t] = th]
      BY <1>1
    <2> HIDE DEF th
    <2>2. QED
      BY <2>1 DEF Typed, ThreadsOK
  <1> HIDE DEF th
  <1>6. ThreadsOK'
    <2>1. \A u \in Thread : IsThread(thread'[u])
      BY <1>4, <1>5 DEF Typed, ThreadsOK
    <2>2. QED
      BY <1>5, <2>1 DEF ThreadsOK, IsThread
  <1>7. \A c \in Client : Advances(conn[c], Reported(conn[c]))
    <2> TAKE c \in Client
    <2> DEFINE e == [conn[c].event EXCEPT !.armed = conn[c].event.mode = "lt"]
               r == Reported(conn[c])
    <2>1. IsConn(conn[c]) /\ IsEvent(e) /\ e.epoll = conn[c].event.epoll
      BY DEF Typed, IsConn, Fields, IsEvent, EventFields
    <2>2. r = [conn[c] EXCEPT !.event = e]
      BY DEF Reported
    <2>3. Follows(conn[c], r)
      BY <2>1, EdgeFollows
    <2> HIDE DEF e, r
    <2>4. /\ IsConn(r) /\ r.phase = conn[c].phase /\ r.listener = conn[c].listener /\ r.event = e
      BY <2>1, <2>2, EventChanges
    <2>5. QED
      BY <2>1, <2>3, <2>4 DEF Advances, MasterInv, Entered, Follows, r
  <1>8. \A c \in Client : Advances(conn[c], conn'[c])
    BY <1>1, <1>7, AdvancesSelf
  <1>9. \A u \in Thread : thread'[u].pc \in MasterPlaces
    BY <1>4, <1>5 DEF MasterInv, MasterPlaces
  <1>10. \A u \in Subs : Sock \in thread'[u].batch => queue'[u] # <<>>
    BY <1>1, <1>3, <1>4, <1>5, SubsThreads DEF MasterInv
  <1>11. ASSUME NEW c \in Client, NEW u \in Thread, Has(thread'[u], c)
         PROVE  Has(thread[u], c) \/ Entered(conn'[c])
    <2>1. CASE u = t
      <3>1. conn[c].event.epoll = t /\ t # 0
        BY <1>2, <1>4, <1>5, <1>11, <2>1, NoClientZero DEF Has, Thread
      <3>2. QED
        BY <1>8, <3>1 DEF MasterInv, Advances
    <2>2. CASE u # t
      BY <1>5, <1>11, <2>2
    <2>3. QED
      BY <2>1, <2>2
  <1>12. queue' \in [Subs -> Seq(Client)] /\ conn' = [c \in Client |-> conn'[c]]
    BY <1>1 DEF MasterInv
  <1>13. \A u \in Subs : \A i \in 1 .. Len(queue'[u]) :
           \/ Entered(conn'[queue'[u][i]])
           \/ \E j \in 1 .. Len(queue[u]) : queue[u][j] = queue'[u][i]
    BY <1>1
  <1>14. QED
    BY <1>6, <1>8, <1>9, <1>10, <1>11, <1>12, <1>13, MasterStep

(* The connection is known to a process that has it. *)
LEMMA MasterKnown ==
  ASSUME Typed, AnswerInv, On("EpollReactorProcessPoolMS"), NEW c \in Client, Entered(conn[c])
  PROVE  Known(conn[c])
  <1>1. conn[c].phase # "down" => Fine(conn[c])
    BY DEF AnswerInv
  <1>2. server.name = "EpollReactorProcessPoolMS" /\ server.name \notin OnRing
    BY MasterIs DEF On, MasterFacts
  <1>3. QED
    BY <1>1, <1>2, FineSteady DEF Known, Typed, Entered

LEMMA MasterReadWrites ==
  ASSUME Typed, MasterInv, AnswerInv, On("EpollReactorProcessPoolMS"), UNCHANGED server,
         NEW t \in Thread, NEW c \in Client, NEW p, ReadWrite(t, c, p, TRUE, "lt")
  PROVE  Typed' /\ MasterInv' /\ AnswerInv'
  <1> DEFINE results == IF conn[c].event.type = "read" THEN ReadEvent(conn[c], p, TRUE, "lt")
                        ELSE WriteEvent(conn[c], p, "lt")
  <1>1. TakeEvent(t, c) /\ UNCHANGED queue /\ \E k \in results : Update(c, k)
    BY DEF ReadWrite, Handle
  <1>2. PICK k \in results : Update(c, k)
    BY <1>1
  <1>3. /\ c \in thread[t].batch /\ ThreadStep(t, thread[t].batch \ {c}, 0)
        /\ thread'[t].pc \in MasterPlaces
    BY <1>1, TakePlace
  <1>4. Entered(conn[c])
    BY <1>3 DEF MasterInv, Has
  <1>5. Handled(conn[c], k)
    <2>1. Known(conn[c]) /\ server.name \notin OneByOne
      BY <1>4, MasterKnown, MasterIs DEF MasterFacts
    <2>2. QED
      BY <2>1, ReadEventGives, WriteEventGives DEF Known
  <1> HIDE DEF results
  <1>6. Advances(conn[c], k)
    <2>1. /\ IsConn(k) /\ k.phase = conn[c].phase /\ k.listener = conn[c].listener
      BY <1>5 DEF Handled, SameLife
    <2>2. k.phase # "down" => Fine(k)
      BY <1>5, <2>1, SteadyFine, MasterIs DEF Handled, MasterFacts
    <2>3. QED
      BY <1>4, <2>1, <2>2 DEF Advances, Entered
  <1>7. QED
    BY <1>1, <1>2, <1>3, <1>6, MasterSame

(* A connection is accepted. *)
LEMMA AcceptAdvances ==
  ASSUME Typed, On("EpollReactorProcessPoolMS"), NEW c \in Client, c \in InBacklog(1),
         conn[c].phase # "new", NEW k,
         \/ k = Accepted(conn[c], 1)
         \/ \E epoll, mode : k = NewRead(conn[c], 1, epoll, mode)
  PROVE  IsConn(k) /\ Entered(k) /\ k.phase = conn[c].phase /\ Follows(conn[c], k)
  <1> DEFINE a == Accepted(conn[c], 1)
  <1>1. IsConn(conn[c]) /\ conn[c].listener # 0
    BY DEF Typed, InBacklog
  <1>2. IsConn(a) /\ a.phase = conn[c].phase /\ a.listener = 0
    BY <1>1, AcceptedIs
  <1>3. Follows(conn[c], k)
    BY <1>1, EnterFollows, MasterIs DEF MasterFacts
  <1>4. CASE k = a
    BY <1>2, <1>3, <1>4 DEF Entered
  <1>5. ASSUME NEW epoll, NEW mode, k = NewRead(conn[c], 1, epoll, mode)
        PROVE  IsConn(k) /\ Entered(k) /\ k.phase = conn[c].phase
    <2>1. k = [a EXCEPT !.event = Event(epoll, "read", mode)]
      BY <1>5 DEF NewRead, AddReadEvent
    <2> HIDE DEF a
    <2>2. k.phase = a.phase /\ k.listener = a.listener
      BY <1>2, <2>1, EventChanges
    <2>3. IsConn(k)
      BY <1>2, <2>1, EventChanges, EventIs
    <2>4. QED
      BY <1>2, <2>2, <2>3 DEF Entered
  <1>6. QED
    BY <1>3, <1>4, <1>5

(* Other processes have it. *)
LEMMA FdsAdvance ==
  ASSUME On("EpollReactorProcessPoolMS"), NEW k, IsConn(k), Entered(k), NEW F,
         NEW r, r = [k EXCEPT !.fds = F]
  PROVE  /\ IsConn(r) /\ Entered(r) /\ r.phase = k.phase /\ r.event = k.event /\ Follows(k, r)
  <1>1. IsConn(r) /\ r.phase = k.phase /\ r.event = k.event /\ r.listener = k.listener
    BY DEF IsConn, Fields
  <1>2. k.error => F = {} \/ k.phase = "down" \/ ~ Fine(k)
    BY DEF On, Fine, Clean
  <1>3. r = [k EXCEPT !.fds = F, !.inbox = k.inbox]
    BY DEF IsConn, Fields
  <1>4. Follows(k, r)
    BY <1>2, <1>3, k.inbox \in {0, k.inbox}, FdsFollow, Zenon
  <1>5. QED
    BY <1>1, <1>4 DEF Entered

(* It is registered with an epoll instance, or with none. *)
LEMMA EventAdvance ==
  ASSUME On("EpollReactorProcessPoolMS"), NEW k, Known(k), Entered(k), NEW epoll,
         NEW r \in {ClearEvent(k), AddReadEvent(k, epoll, "lt")}
  PROVE  /\ IsConn(r) /\ Entered(r) /\ r.phase = k.phase /\ (k.phase # "down" => Fine(r))
  <1>1. PICK e \in {NoEvent, Event(epoll, "read", "lt")} : r = [k EXCEPT !.event = e]
    BY DEF ClearEvent, AddReadEvent
  <1>2. IsConn(k) /\ IsEvent(e)
    BY EventIs DEF Known
  <1>3. IsConn(r) /\ r.phase = k.phase /\ r.listener = k.listener
    BY <1>1, <1>2, EventChanges
  <1>4. ASSUME k.phase # "down" PROVE Fine(r)
    <2>1. Open(k) /\ Staged(k)
      BY <1>4 DEF Known, Steady
    <2>2. Steady(r)
      BY <2>1, SteadyMod
    <2>3. QED
      BY <2>2, SteadyFine, MasterIs DEF MasterFacts
  <1>5. QED
    BY <1>3, <1>4 DEF Entered

LEMMA MasterCloses ==
  ASSUME Typed, MasterInv, AnswerInv, On("EpollReactorProcessPoolMS"), UNCHANGED server,
         NEW c \in Client, CloseSent(c)
  PROVE  Typed' /\ MasterInv' /\ AnswerInv'
  <1> DEFINE k == Close(conn[c], 1)
             place == IF thread[1].batch = {} THEN "top" ELSE "events"
  <1>1. thread[1].cur = c /\ Update(c, k) /\ Goto(1, place, 0) /\ UNCHANGED queue
    BY DEF CloseSent
  <1>2. 1 \in Thread /\ ThreadStep(1, thread[1].batch, 0)
    BY <1>1, One, OnwardSteps DEF Typed
  <1>3. thread'[1].pc = place /\ place \in MasterPlaces
    <2>1. ThreadsOK /\ place \in MasterPlaces
      BY DEF Typed, MasterPlaces
    <2> HIDE DEF place
    <2>2. QED
      BY <1>1, <1>2, <2>1, GotoPc
  <1>4. IsConn(conn[c]) /\ Entered(conn[c])
    BY <1>1, <1>2 DEF Typed, MasterInv, Has
  <1>5. /\ IsConn(k) /\ k.phase = conn[c].phase /\ k.listener = conn[c].listener
        /\ Follows(conn[c], k)
    BY <1>4, CloseIs, CloseFollows
  <1> HIDE DEF k
  <1>6. Advances(conn[c], k)
    BY <1>4, <1>5 DEF Advances, Entered, Follows
  <1>7. QED
    BY <1>1, <1>2, <1>3, <1>6, MasterSame

LEMMA MasterAccepts ==
  ASSUME Typed, MasterInv, AnswerInv, On("EpollReactorProcessPoolMS"), UNCHANGED server,
         NEW c \in Client, AcceptToMain(c)
  PROVE  Typed' /\ MasterInv' /\ AnswerInv'
  <1> DEFINE k == NewRead(conn[c], 1, 1, "lt")
  <1>1. /\ thread[1].pc = "events" /\ c \in InBacklog(1) /\ Update(c, k) /\ UNCHANGED <<thread, queue>>
    BY DEF AcceptToMain, Accepting, At
  <1>2. 1 \in Thread /\ ThreadStep(1, thread[1].batch, 0)
    BY <1>1, One, AtEvents, StaySteps DEF Typed
  <1>3. thread'[1].pc \in MasterPlaces
    BY <1>1, <1>2 DEF MasterInv
  <1>4. conn[c].phase # "new"
    BY <1>1 DEF InBacklog, MasterInv
  <1>5. IsConn(k) /\ Entered(k) /\ k.phase = conn[c].phase /\ Follows(conn[c], k)
    BY <1>1, <1>4, AcceptAdvances
  <1> HIDE DEF k
  <1>6. Advances(conn[c], k)
    BY <1>5 DEF Advances, Entered, Follows
  <1>7. QED
    BY <1>1, <1>2, <1>3, <1>6, MasterSame

(* The main process sends c, of state k so far, to one of the others. *)
LEMMA SendSteps ==
  ASSUME Typed, NEW c \in Client, NEW on, on = [u \in Thread |-> on[u]],
         \A u \in Thread \ {1} : on[u] = thread[u], IsThread(on[1]), Sending(on, c)
  PROVE  ThreadStep(1, on[1].batch, c) /\ thread'[1].pc = "sent"
  <1> DEFINE th == [on[1] EXCEPT !.pc = "sent", !.cur = c]
             go == [on EXCEPT ![1] = th]
  <1>1. 1 \in Thread /\ IsThread(on[1])
    BY One
  <1>2. Turn(go)
    BY <1>1 DEF Sending
  <1>3. IsThread(th) /\ th.batch = on[1].batch /\ th.cur = c /\ th.pc = "sent"
    <2>1. "sent" \in Places /\ "sent" \notin Unbusy \cup {"aborted"} /\ "sent" \notin Resting
      BY Zenon DEF Places, Unbusy, Resting
    <2>2. QED
      BY <1>1, <2>1, NoClientZero DEF IsThread
  <1> HIDE DEF th
  <1>4. go = [u \in Thread |-> go[u]] /\ (\A u \in Thread \ {1} : go[u] = thread[u]) /\ go[1] = th
    BY <1>1
  <1> HIDE DEF go
  <1>5. ThreadStep(1, on[1].batch, c)
    BY <1>2, <1>3, <1>4, TurnSteps
  <1>6. thread'[1].pc = "sent"
    BY <1>1, <1>2, <1>3, <1>4 DEF Turn, IsThread
  <1>7. QED
    BY <1>5, <1>6

LEMMA MasterSends ==
  ASSUME Typed, MasterInv, AnswerInv, On("EpollReactorProcessPoolMS"), UNCHANGED server,
         NEW c \in Client, NEW k, SendFd(c, k), IsConn(k), Entered(k), k.phase = conn[c].phase,
         k.phase # "down" => (Fine(conn[c]) => Fine(k)),
         NEW on, on = [u \in Thread |-> on[u]], \A u \in Thread \ {1} : on[u] = thread[u],
         IsThread(on[1]), on[1].batch \subseteq thread[1].batch, Sending(on, c)
  PROVE  Typed' /\ MasterInv' /\ AnswerInv'
  <1> DEFINE F == k.fds \cup {Transit}
             r == [k EXCEPT !.fds = F]
  <1>1. Update(c, r) /\ queue' = [queue EXCEPT ![NextSub] = Append(@, c)]
    BY DEF SendFd
  <1>2. 1 \in Thread /\ ThreadStep(1, on[1].batch, c) /\ thread'[1].pc \in MasterPlaces
    BY One, SendSteps DEF MasterPlaces
  <1>3. IsConn(r) /\ Entered(r) /\ r.phase = k.phase /\ Follows(k, r)
    <2> HIDE DEF F, r
    <2>1. QED
      BY FdsAdvance DEF r
  <1> HIDE DEF F, r
  <1>4. Advances(conn[c], r)
    BY <1>3 DEF Advances, Entered, Follows
  <1> DEFINE n == NextSub
  <1>5. queue \in [Subs -> Seq(Client)] /\ queue' = [queue EXCEPT ![n] = Append(@, c)]
    BY <1>1 DEF MasterInv
  <1> HIDE DEF n
  <1>6. /\ queue' \in [Subs -> Seq(Client)]
        /\ \A u \in Subs : queue[u] \in Seq(Client) /\ queue'[u] \in {queue[u], Append(queue[u], c)}
    <2>1. \A u \in Subs : queue[u] \in Seq(Client) /\ Append(queue[u], c) \in Seq(Client)
      BY <1>5
    <2>2. /\ queue' = [u \in Subs |-> queue'[u]]
          /\ \A u \in Subs : queue'[u] = IF u = n THEN Append(queue[u], c) ELSE queue[u]
      BY ONLY <1>5
    <2>3. QED
      BY <2>1, <2>2
  <1>7. \A u \in Subs : Sock \in thread'[u].batch => queue'[u] # <<>>
    <2>1. \A u \in Subs : thread'[u].batch \subseteq thread[u].batch
      BY <1>2, SubsThreads DEF ThreadStep
    <2>2. \A u \in Subs : queue[u] # <<>> => queue'[u] # <<>>
      BY <1>6
    <2>3. \A u \in Subs : Sock \in thread[u].batch => queue[u] # <<>>
      BY DEF MasterInv
    <2>4. QED
      BY <2>1, <2>2, <2>3
  <1>8. ASSUME NEW u \in Subs, NEW i \in 1 .. Len(queue'[u])
        PROVE  queue'[u][i] = c \/ \E j \in 1 .. Len(queue[u]) : queue[u][j] = queue'[u][i]
    <2> DEFINE q == queue[u]
    <2>1. CASE queue'[u] = q
      BY <2>1
    <2>2. CASE queue'[u] = Append(q, c)
      <3>1. q \in Seq(Client) /\ i \in 1 .. Len(Append(q, c))
        BY <1>6, <2>2
      <3> HIDE DEF q
      <3>2. Append(q, c)[i] = c \/ (i \in 1 .. Len(q) /\ Append(q, c)[i] = q[i])
        BY <3>1
      <3>3. QED
        BY <2>2, <3>2 DEF q
    <2>3. QED
      BY <1>6, <2>1, <2>2
  <1>9. QED
    BY <1>1, <1>2, <1>3, <1>4, <1>6, <1>7, <1>8, MasterOne

LEMMA RestIs ==
  ASSUME Typed, NEW c \in Client, Leaving(c)
  PROVE  /\ Rest(c) = [u \in Thread |-> Rest(c)[u]]
         /\ \A u \in Thread \ {1} : Rest(c)[u] = thread[u]
         /\ IsThread(Rest(c)[1]) /\ Rest(c)[1].batch \subseteq thread[1].batch
  <1> DEFINE pc == IF thread[1].batch = {c} THEN "top" ELSE "events"
             B == thread[1].batch \ {c}
             th == [thread[1] EXCEPT !.batch = B, !.pc = pc]
  <1>1. 1 \in Thread /\ thread = [u \in Thread |-> thread[u]] /\ IsThread(thread[1])
    BY One DEF Typed, ThreadsOK
  <1>2. thread[1].cur = 0
    BY <1>1, AtEvents DEF Leaving, At
  <1>3. Rest(c) = [thread EXCEPT ![1].batch = B, ![1].pc = pc] /\ (pc = "top" => B = {})
    BY DEF Rest
  <1>4. pc \in Places /\ pc \in Unbusy \cup {"aborted"} /\ (pc \in Resting => pc = "top")
    BY Zenon DEF Places, Unbusy, Resting
  <1>5. B \in SUBSET (Client \cup {Sock}) /\ B \subseteq thread[1].batch
    BY <1>1 DEF IsThread
  <1> HIDE DEF pc, B
  <1>6. IsThread(th) /\ th.batch = B
    BY <1>1, <1>2, <1>3, <1>4, <1>5 DEF IsThread
  <1>7. Rest(c) = [thread EXCEPT ![1] = th]
    BY <1>1, <1>3
  <1> HIDE DEF th
  <1>8. QED
    BY <1>1, <1>5, <1>6, <1>7

LEMMA MasterMain ==
  ASSUME Typed, MasterInv, AnswerInv, On("EpollReactorProcessPoolMS"), UNCHANGED server,
         NEW c \in Client, NEW main, mainReactorProcess(c, main)
  PROVE  Typed' /\ MasterInv' /\ AnswerInv'
  <1>1. CASE AcceptToMain(c)
    BY <1>1, MasterAccepts
  <1>2. CASE Accepting(c) /\ SendFd(c, Accepted(conn[c], 1)) /\ Sending(thread, c)
    <2> DEFINE k == Accepted(conn[c], 1)
    <2>1. c \in InBacklog(1) /\ conn[c].phase # "new"
      BY <1>2 DEF Accepting, InBacklog, MasterInv
    <2>2. IsConn(k) /\ Entered(k) /\ k.phase = conn[c].phase /\ Follows(conn[c], k)
      BY <2>1, AcceptAdvances
    <2> HIDE DEF k
    <2>3. k.phase # "down" => (Fine(conn[c]) => Fine(k))
      BY <2>2 DEF Follows
    <2>4. thread = [u \in Thread |-> thread[u]] /\ IsThread(thread[1])
      BY One DEF Typed, ThreadsOK
    <2>5. QED
      BY <1>2, <2>2, <2>3, <2>4, MasterSends DEF k
  <1>3. CASE Leaving(c) /\ SendFd(c, ClearEvent(conn[c])) /\ Sending(Rest(c), c)
    <2> DEFINE k == ClearEvent(conn[c])
    <2>1. Entered(conn[c])
      BY <1>3, One DEF Leaving, MasterInv, Has
    <2>2. IsConn(k) /\ Entered(k) /\ k.phase = conn[c].phase /\ (conn[c].phase # "down" => Fine(k))
      BY <2>1, MasterKnown, EventAdvance
    <2> HIDE DEF k
    <2>3. k.phase # "down" => (Fine(conn[c]) => Fine(k))
      BY <2>2
    <2>4. /\ Rest(c) = [u \in Thread |-> Rest(c)[u]]
          /\ \A u \in Thread \ {1} : Rest(c)[u] = thread[u]
          /\ IsThread(Rest(c)[1]) /\ Rest(c)[1].batch \subseteq thread[1].batch
      BY <1>3, RestIs
    <2>5. QED
      BY <1>3, <2>2, <2>3, <2>4, MasterSends DEF k
  <1>4. CASE CloseSent(c)
    BY <1>4, MasterCloses
  <1>5. QED
    BY <1>1, <1>2, <1>3, <1>4 DEF mainReactorProcess

LEMMA MasterReceives ==
  ASSUME Typed, MasterInv, AnswerInv, On("EpollReactorProcessPoolMS"), UNCHANGED server,
         NEW t \in Subs, RecvFd(t)
  PROVE  Typed' /\ MasterInv' /\ AnswerInv'
  <1> DEFINE q == queue[t]
             c == Head(q)
             F == (conn[c].fds \ {Transit}) \cup {t}
             m == [conn[c] EXCEPT !.fds = F]
             k == AddReadEvent(m, t, "lt")
  <1>1. /\ TakeEvent(t, Sock) /\ queue' = [queue EXCEPT ![t] = Tail(q)] /\ Update(c, k)
    BY DEF RecvFd, MasterInv
  <1>2. /\ t \in Thread /\ Sock \in thread[t].batch /\ ThreadStep(t, thread[t].batch \ {Sock}, 0)
        /\ thread'[t].pc \in MasterPlaces
    BY <1>1, SubsThreads, TakePlace
  <1>3. q \in Seq(Client) /\ q # <<>> /\ queue \in [Subs -> Seq(Client)]
    BY <1>2 DEF MasterInv
  <1> HIDE DEF q
  <1>4. /\ c \in Client /\ c = q[1] /\ 1 \in 1 .. Len(q) /\ Tail(q) \in Seq(Client)
        /\ \A i \in 1 .. Len(Tail(q)) : i + 1 \in 1 .. Len(q) /\ Tail(q)[i] = q[i + 1]
    BY <1>3
  <1>5. Entered(conn[c]) /\ IsConn(conn[c])
    BY <1>4 DEF MasterInv, Typed, q
  <1> HIDE DEF c, F
  <1>6. IsConn(m) /\ Entered(m) /\ m.phase = conn[c].phase /\ Follows(conn[c], m)
    BY <1>5, FdsAdvance
  <1> HIDE DEF m
  <1>7. Known(m)
    <2>1. m.phase # "down" => Fine(m)
      BY <1>4, <1>6 DEF AnswerInv, Follows
    <2>2. server.name = "EpollReactorProcessPoolMS" /\ server.name \notin OnRing
      BY MasterIs DEF On, MasterFacts
    <2>3. QED
      BY <1>6, <2>1, <2>2, FineSteady DEF Known, Entered
  <1>8. IsConn(k) /\ Entered(k) /\ k.phase = m.phase /\ (m.phase # "down" => Fine(k))
    BY <1>6, <1>7, EventAdvance
  <1> HIDE DEF k
  <1>9. Advances(conn[c], k)
    BY <1>6, <1>8 DEF Advances, Entered
  <1>10. /\ queue' \in [Subs -> Seq(Client)]
         /\ \A u \in Subs : queue'[u] = IF u = t THEN Tail(q) ELSE queue[u]
    BY <1>1, <1>3, <1>4
  <1>11. \A u \in Subs : Sock \in thread'[u].batch => queue'[u] # <<>>
    <2>1. Sock \notin thread'[t].batch /\ \A u \in Subs \ {t} : thread'[u] = thread[u]
      BY <1>2, SubsThreads DEF ThreadStep
    <2>2. QED
      BY <1>10, <2>1 DEF MasterInv
  <1>12. ASSUME NEW u \in Subs, NEW i \in 1 .. Len(queue'[u])
         PROVE  \E j \in 1 .. Len(queue[u]) : queue[u][j] = queue'[u][i]
    <2>1. CASE u = t
      <3>1. i + 1 \in 1 .. Len(q) /\ queue'[u][i] = q[i + 1]
        BY <1>4, <1>10, <2>1
      <3>2. QED
        BY <2>1, <3>1 DEF q
    <2>2. CASE u # t
      BY <1>10, <2>2
    <2>3. QED
      BY <2>1, <2>2
  <1>13. \A u \in Subs : \A i \in 1 .. Len(queue'[u]) :
           \/ queue'[u][i] = c /\ Entered(k)
           \/ \E j \in 1 .. Len(queue[u]) : queue[u][j] = queue'[u][i]
    BY <1>12
  <1>14. thread[t].batch \ {Sock} \in SUBSET thread[t].batch /\ 0 \in {0, c} /\ 0 # c /\ c \in Client
    BY <1>4, NoClientZero
  <1>15. Update(c, k) /\ ThreadStep(t, thread[t].batch \ {Sock}, 0) /\ t \in Thread
    BY <1>1, <1>2 DEF c, k, m, F
  <1>16. QED
    BY <1>2, <1>9, <1>10, <1>11, <1>13, <1>14, <1>15, MasterOne

LEMMA MasterEnds ==
  ASSUME Typed, MasterInv, AnswerInv, On("EpollReactorProcessPoolMS"), UNCHANGED server, AcceptEnds
  PROVE  Typed' /\ MasterInv' /\ AnswerInv'
  <1>1. TakeEvent(1, Sock) /\ 1 \in Thread /\ UNCHANGED <<conn, queue>>
    BY One DEF AcceptEnds
  <1>2. ThreadStep(1, thread[1].batch \ {Sock}, 0) /\ thread'[1].pc \in MasterPlaces
    BY <1>1, TakePlace
  <1>3. 1 \in Client
    BY EchoConnAssumption DEF Client
  <1>4. Update(1, conn[1])
    BY <1>1, <1>3 DEF Update, Typed
  <1>5. QED
    BY <1>1, <1>2, <1>3, <1>4, AdvancesSelf, MasterSame

LEMMA ProcessPoolAnswers ==
  ASSUME Typed, MasterInv, AnswerInv, On("EpollReactorProcessPoolMS"), UNCHANGED server,
         NEW main, EpollReactorProcessPoolMS(main)
  PROVE  Typed' /\ MasterInv' /\ AnswerInv'
  <1>1. CASE ListenWait(1)
    <2>1. 1 \in Thread /\ 1 \notin Subs
      BY One DEF Subs
    <2>2. QED
      BY <1>1, <2>1, MasterWaits DEF ListenWait
  <1>2. CASE AcceptEnds
    BY <1>2, MasterEnds
  <1>3. CASE \E c \in Client : mainReactorProcess(c, main)
    BY <1>3, MasterMain
  <1>4. ASSUME NEW t \in Subs, subReactorProcess(t) PROVE Typed' /\ MasterInv' /\ AnswerInv'
    <2>1. t \in Thread
      BY SubsThreads
    <2>2. CASE EpollWait(t, t, queue[t] # <<>>)
      BY <2>1, <2>2, MasterWaits
    <2>3. CASE RecvFd(t)
      BY <2>3, MasterReceives
    <2>4. CASE \E c \in Client : ReadWrite(t, c, t, TRUE, "lt")
      BY <2>1, <2>4, MasterReadWrites
    <2>5. QED
      BY <1>4, <2>2, <2>3, <2>4 DEF subReactorProcess
  <1>5. QED
    BY <1>1, <1>2, <1>3, <1>4 DEF EpollReactorProcessPoolMS
-----------------------------------------------------------------------------
(***************************************************************************)
(* The clients, the start, and all servers.                                *)
(***************************************************************************)
(* Who has the connection, and where, stays; a new client may arrive. *)
Touches(k, r) ==
  /\ IsConn(r) /\ r.fds = k.fds /\ r.event.epoll = k.event.epoll
  /\ r.phase = "new" => r.listener = k.listener /\ k.phase = "new"
  /\ Entered(k) => Entered(r)

LEMMA EdgeTouches ==
  ASSUME NEW k, IsConn(k), NEW types
  PROVE  Touches(k, Edge(k, types))
  <1> DEFINE e == [k.event EXCEPT !.armed = @ \/ (k.event.mode = "et" /\ k.event.type \in types)]
             r == Edge(k, types)
  <1>1. IsEvent(e) /\ e.epoll = k.event.epoll
    BY DEF IsConn, IsEvent, EventFields
  <1>2. r = [k EXCEPT !.event = e]
    BY DEF Edge
  <1> HIDE DEF e, r
  <1>3. IsConn(r) /\ r.phase = k.phase /\ r.listener = k.listener /\ r.fds = k.fds /\ r.event = e
    BY <1>1, <1>2, EventChanges
  <1>4. QED
    BY <1>1, <1>3 DEF Touches, Entered, r

LEMMA ClientTouches ==
  ASSUME NEW c \in Client, IsConn(conn[c]),
         (\E l \in Listeners : Connect(c, l)) \/ Ask(c) \/ Send(c) \/ Take(c) \/ Hangup(c)
  PROVE  \E k : Update(c, k) /\ Touches(conn[c], k)
  <1> DEFINE k == conn[c]
  <1>1. ASSUME NEW m, Touches(k, m), NEW types, Update(c, Edge(m, types))
        PROVE  \E r : Update(c, r) /\ Touches(k, r)
    <2>1. Touches(m, Edge(m, types))
      BY <1>1, EdgeTouches DEF Touches
    <2>2. Touches(k, Edge(m, types))
      BY <1>1, <2>1 DEF Touches
    <2>3. QED
      BY <1>1, <2>2
  <1>2. ASSUME NEW m, IsConn(m), m.fds = k.fds, m.event = k.event, m.listener = k.listener,
               m.phase = k.phase \/ m.phase = "down"
        PROVE  Touches(k, m)
    BY <1>2 DEF Touches, Entered
  <1>3. CASE \E l \in Listeners : Connect(c, l)
    <2>1. PICK l : k.phase = "new" /\ Update(c, [k EXCEPT !.phase = "up", !.listener = l])
      BY <1>3, Zenon DEF Connect
    <2> DEFINE m == [k EXCEPT !.phase = "up", !.listener = l]
    <2>2. IsConn(m) /\ m.fds = k.fds /\ m.event = k.event /\ m.phase = "up"
      BY DEF IsConn, Fields
    <2>3. Update(c, m)
      BY <2>1
    <2> HIDE DEF m
    <2>4. QED
      BY <2>1, <2>2, <2>3 DEF Touches, Entered
  <1>4. CASE Ask(c)
    <2> DEFINE len == HeadLen + Body(k.req + 1)
               n == k.req + 1
               m == [k EXCEPT !.req = n, !.unsent = len, !.want = len]
    <2>1. Update(c, m)
      BY <1>4 DEF Ask
    <2> HIDE DEF len, n
    <2>2. /\ IsConn(m) /\ m.fds = k.fds /\ m.event = k.event /\ m.listener = k.listener
          /\ m.phase = k.phase
      BY DEF IsConn, Fields
    <2> HIDE DEF m
    <2>3. QED
      BY <1>2, <2>1, <2>2
  <1>5. CASE Send(c)
    <2>1. PICK n \in {1, k.unsent} :
            Update(c, Edge([k EXCEPT !.unsent = @ - n,
                                     !.inbox = IF k.fds = {} /\ k.listener = 0 THEN 0 ELSE @ + n], {"read"}))
      BY <1>5 DEF Send
    <2> DEFINE in == IF k.fds = {} /\ k.listener = 0 THEN 0 ELSE k.inbox + n
               rest == k.unsent - n
               m == [k EXCEPT !.unsent = rest, !.inbox = in]
    <2>2. Update(c, Edge(m, {"read"}))
      BY <2>1
    <2> HIDE DEF in, rest
    <2>3. /\ IsConn(m) /\ m.fds = k.fds /\ m.event = k.event /\ m.listener = k.listener
          /\ m.phase = k.phase
      BY DEF IsConn, Fields
    <2> HIDE DEF m
    <2>4. QED
      BY <1>1, <1>2, <2>2, <2>3
  <1>6. CASE Take(c)
    <2> DEFINE want == k.want - k.outbox
               m == [k EXCEPT !.want = want, !.outbox = 0]
    <2>1. Update(c, Edge(m, {"write"}))
      BY <1>6 DEF Take
    <2> HIDE DEF want
    <2>2. /\ IsConn(m) /\ m.fds = k.fds /\ m.event = k.event /\ m.listener = k.listener
          /\ m.phase = k.phase
      BY DEF IsConn, Fields
    <2> HIDE DEF m
    <2>3. QED
      BY <1>1, <1>2, <2>1, <2>2
  <1>7. CASE Hangup(c)
    <2>1. PICK n : Update(c, Edge([k EXCEPT !.phase = "down", !.unsent = 0, !.want = 0,
                                            !.inbox = n, !.outbox = 0], {"read", "write"}))
      BY <1>7, Zenon DEF Hangup
    <2> DEFINE m == [k EXCEPT !.phase = "down", !.unsent = 0, !.want = 0, !.inbox = n, !.outbox = 0]
    <2>2. /\ IsConn(m) /\ m.fds = k.fds /\ m.event = k.event /\ m.listener = k.listener
          /\ m.phase = "down"
      BY DEF IsConn, Fields
    <2>3. Update(c, Edge(m, {"read", "write"}))
      BY <2>1
    <2> HIDE DEF m
    <2>4. QED
      BY <1>1, <1>2, <2>2, <2>3
  <1>8. QED
    BY <1>3, <1>4, <1>5, <1>6, <1>7

(* Nobody turns to another connection. *)
LEMMA TouchStays ==
  ASSUME Typed, UNCHANGED <<thread, queue>>, NEW c \in Client, NEW k, Update(c, k),
         Touches(conn[c], k)
  PROVE  /\ Typed'
         /\ ForkInv => ForkInv'
         /\ MasterInv => MasterInv'
  <1>1. conn' = [d \in Client |-> conn'[d]] /\ \A d \in Client : conn'[d] = IF d = c THEN k ELSE conn[d]
    BY DEF Typed, Update
  <1>2. \A d \in Client : conn'[d] = conn[d] \/ Touches(conn[d], conn'[d])
    BY <1>1
  <1>3. Typed'
    <2>1. \A d \in Client : IsConn(conn'[d])
      BY <1>2 DEF Touches, Typed
    <2>2. ThreadsOK'
      BY DEF Typed, ThreadsOK, IsThread
    <2>3. QED
      BY <1>1, <2>1, <2>2 DEF Typed, IsConn
  <1>4. ASSUME ForkInv PROVE ForkInv'
    <2>1. ASSUME NEW d \in Client PROVE ForkOK(d, conn'[d], thread[1], thread[Of(d)])
      <3>1. ForkOK(d, conn[d], thread[1], thread[Of(d)])
        BY <1>4 DEF ForkInv
      <3>2. QED
        BY <1>2, <3>1 DEF ForkOK, Touches
    <2>2. QED
      BY <1>4, <2>1 DEF ForkInv, MainOK, ChildOK, ForkOK, Entered
  <1>5. ASSUME MasterInv PROVE MasterInv'
    <2>1. \A d \in Client : Entered(conn[d]) => Entered(conn'[d])
      BY <1>2 DEF Touches
    <2>2. \A d \in Client : /\ conn'[d].phase = "new" => conn'[d].listener = 0
                            /\ conn'[d].event.epoll # 0 => Entered(conn'[d])
      BY <1>2, <1>5 DEF Touches, MasterInv
    <2>3. \A d \in Client, t \in Thread : Has(thread[t], d) => Entered(conn'[d])
      BY <1>5, <2>1 DEF MasterInv
    <2>4. ASSUME NEW t \in Subs, NEW i \in 1 .. Len(queue[t]) PROVE Entered(conn'[queue[t][i]])
      <3>1. queue[t] \in Seq(Client) /\ Entered(conn[queue[t][i]])
        BY <1>5 DEF MasterInv
      <3>2. queue[t][i] \in Client
        BY <3>1
      <3>3. QED
        BY <2>1, <3>1, <3>2
    <2>5. QED
      BY <1>5, <2>2, <2>3, <2>4 DEF MasterInv, Has, Entered
  <1>6. QED
    BY <1>3, <1>4, <1>5

LEMMA ClientAnswers ==
  ASSUME AnswerInv, conn = [d \in Client |-> conn[d]], NEW c \in Client, IsConn(conn[c]),
         UNCHANGED <<thread, queue, server>>,
         (\E l \in Listeners : Connect(c, l)) \/ Ask(c) \/ Send(c) \/ Take(c) \/ Hangup(c)
  PROVE  AnswerInv'
  <1>1. PICK k : Update(c, k) /\ Touches(conn[c], k)
    BY ClientTouches
  <1>2. conn' = [conn EXCEPT ![c] = conn'[c]] /\ \A d \in Client \ {c} : conn'[d] = conn[d]
    BY <1>1 DEF Update
  <1>3. \A d \in Client : Follows(conn[d], conn'[d])
    BY <1>2, ClientFollows, FollowsSelf
  <1>4. Aside(0)
    BY DEF Aside
  <1>5. QED
    BY <1>3, <1>4, QuietAnswers

(* At the start nothing has been asked for. *)
LEMMA NewFine == Fine(NewConn)
  <1> DEFINE k == NewConn
  <1>1. /\ k.phase = "new" /\ k.req = 0 /\ k.unsent = 0 /\ k.want = 0
        /\ k.listener = 0 /\ k.inbox = 0 /\ k.outbox = 0 /\ k.fds = {}
        /\ k.codec = NewCodec /\ k.pkt = Alloc(0) /\ k.send_len = 0 /\ k.error = FALSE
        /\ k.event = NoEvent /\ k.cid = "none" /\ k.op = "none" /\ k.res = 0
    BY DEF NewConn
  <1> HIDE DEF k
  <1>2. IsPacket(Alloc(0)) /\ Alloc(0).use_len = 0
    BY DEF Alloc, IsPacket
  <1>3. Counts(k)
    BY <1>1, <1>2, EchoConnAssumption DEF Counts
  <1>4. Decoding(NewCodec, Body(k.req)) /\ NewCodec.pkt.use_len = 0
    BY CodecAssumption DEF Decoding, IsCodec, NewCodec, Alloc
  <1>5. k.op # "was read" /\ k.op \in {"none", "was accepted", "read", "was read"}
        /\ k.op \notin {"was accepted", "read", "was read", "write", "written"}
    BY <1>1, Zenon
  <1>6. Undecoded(k) = 0
    BY <1>5, Zenon DEF Undecoded
  <1>7. Asked(k, k.codec.pkt.use_len + Undecoded(k))
    <2>1. k.codec.pkt.use_len = 0
      BY <1>1, <1>4
    <2>2. k.codec.pkt.use_len + Undecoded(k) = 0
      BY <1>6, <2>1
    <2> HIDE DEF Undecoded
    <2>3. QED
      BY <1>1, <2>2 DEF Asked
  <1>8. Reading(k)
    BY <1>1, <1>2, <1>4, <1>5, <1>7, Zenon DEF Reading
  <1>9. k.event.type = "none"
    BY <1>1 DEF NoEvent
  <1>10. k.event.type # "write"
    BY <1>9
  <1>11. Fits(k)
    BY <1>1, <1>5, <1>8, <1>9, <1>10, Zenon DEF Fits
  <1>12. Fine(k)
    BY <1>1, <1>3, <1>8, <1>11, Zenon DEF Fine, Staged, Clean
  <1>13. QED
    BY <1>12, Zenon DEF k

(* What all steps keep, whichever the server. *)
Answering ==
  /\ AnswerInv /\ Owned
  /\ On("MultiProcess") => Typed /\ ForkInv
  /\ On("EpollReactorProcessPoolMS") => Typed /\ MasterInv

LEMMA AnswerInit == ServersInit => Answering
  <1> SUFFICES ASSUME ServersInit PROVE Answering
    OBVIOUS
  <1>1. /\ conn = [c \in Client |-> NewConn] /\ thread = [t \in Thread |-> Idler]
        /\ queue = IF On("EpollReactorProcessPoolMS") THEN [t \in Subs |-> <<>>] ELSE <<>>
    BY DEF ServersInit, ClientInit
  <1>2. \A c \in Client : conn[c] = NewConn
    BY <1>1
  <1>3. /\ NewConn.phase = "new" /\ NewConn.listener = 0 /\ NewConn.fds = {} /\ NewConn.cid = "none"
        /\ NewConn.event = NoEvent /\ NoEvent.epoll = 0
    BY DEF NewConn, NoEvent
  <1>4. \A t \in Thread : /\ thread[t].batch = {} /\ thread[t].cur = 0 /\ thread[t].pc = "top"
                          /\ IsThread(thread[t])
    BY <1>1 DEF Idler, IsThread, Places, Unbusy, Resting
  <1>5. ASSUME NEW c \in Client PROVE Fine(conn[c]) /\ Placed(c)
    <2>1. server.name \in HandOver => queue = <<>>
      BY <1>1 DEF On, HandOver
    <2>2. server.name \in HandOver => \A i \in 1 .. Len(queue) : FALSE
      BY <2>1
    <2>3. conn[c].cid # "writing" /\ \A t \in Thread : thread[t].cur # c
      BY <1>2, <1>3, <1>4, NoClientZero
    <2>4. QED
      BY <1>2, <2>2, <2>3, NewFine DEF Placed
  <1>6. Typed
    BY <1>1, <1>2, <1>4, NewIsConn DEF Typed, ThreadsOK
  <1>7. ForkInv
    <2>1. MainOK(thread[1]) /\ \A t \in Thread : ChildOK(t, thread[t])
      BY <1>4, One DEF MainOK, ChildOK, ToWrite, ToPush
    <2>2. ASSUME NEW c \in Client PROVE ForkOK(c, conn[c], thread[1], thread[Of(c)])
      BY <1>2, <1>3, <1>4, One, ChildIs, NoClientZero DEF ForkOK
    <2>3. QED
      BY <2>1, <2>2 DEF ForkInv
  <1>8. ASSUME On("EpollReactorProcessPoolMS") PROVE MasterInv
    <2>1. queue = [t \in Subs |-> <<>>]
      BY <1>1, <1>8
    <2>2. queue \in [Subs -> Seq(Client)] /\ \A t \in Subs : queue[t] = <<>>
      BY <2>1
    <2>3. \A t \in Subs : \A i \in 1 .. Len(queue[t]) : FALSE
      BY <2>2
    <2>4. \A t \in Thread : thread[t].pc \in MasterPlaces
      BY <1>4 DEF MasterPlaces
    <2>5. \A c \in Client, t \in Thread : ~ Has(thread[t], c)
      BY <1>4, NoClientZero DEF Has
    <2>6. \A t \in Subs : Sock \notin thread[t].batch
      BY <1>4, SubsThreads
    <2>7. QED
      BY <1>2, <1>3, <2>2, <2>3, <2>4, <2>5, <2>6 DEF MasterInv
  <1>9. QED
    BY <1>5, <1>6, <1>7, <1>8, OwnInit DEF Answering, AnswerInv

(* A step of a server of one process. *)
LEMMA OneProcessAnswers ==
  ASSUME OneProcess, OwnInv, OwnInv', Notified, AnswerInv, Serve
  PROVE  AnswerInv'
  <1>0. UNCHANGED server
    BY DEF Serve, Plain, Scheduled, Pooled
  <1>1. CASE \/ On("SingleProcess") /\ SingleProcess
             \/ On("MultiThread") /\ MultiThread
             \/ On("ProcessPool1") /\ \E t \in Workers : ProcessPool1(t)
             \/ On("ProcessPool2") /\ \E t \in Workers : ProcessPool2(t)
             \/ On("ThreadPool") /\ \E t \in Workers : ThreadPool(t)
             \/ On("LeaderAndFollower") /\ \E t \in Workers : LeaderAndFollower(t)
    <2>1. \/ On("SingleProcess") /\ SingleProcess
          \/ On("MultiThread") /\ MultiThread
          \/ On("ProcessPool1") /\ \E t \in Thread : ProcessPool1(t)
          \/ On("ProcessPool2") /\ \E t \in Thread : ProcessPool2(t)
          \/ On("ThreadPool") /\ \E t \in Thread : ThreadPool(t)
          \/ On("LeaderAndFollower") /\ \E t \in Thread : LeaderAndFollower(t)
      BY <1>1, SubsThreads
    <2>2. QED
      BY <1>0, <2>1, BlockingAnswers
  <1>2. CASE \/ On("Epoll") /\ Epoll(With("la"))
             \/ On("Poll") /\ Poll
             \/ On("Select") /\ Select
    <2>1. server.name \in LevelNames /\ server.name \in OneByOne
      BY <1>2 DEF On, LevelNames, OneByOne
    <2>2. QED
      BY <1>0, <1>2, <2>1, EpollPollSelectAnswers
  <1>3. CASE \/ On("PollReactorSingleProcess") /\ PollReactorSingleProcess
             \/ On("SelectReactorSingleProcess") /\ SelectReactorSingleProcess
             \/ /\ On("EpollReactorSingleProcess")
                /\ EpollReactorSingleProcess(With("multiio"), With("la"), With("writefirst"))
             \/ On("EpollReactorSingleProcessET") /\ EpollReactorSingleProcessET
             \/ On("EpollReactorThreadPool") /\ \E t \in Workers : EpollReactorThreadPool(t)
    <2>1. server.name \in LevelNames /\ server.name \notin OneByOne
      BY <1>3 DEF On, LevelNames, OneByOne, BlockingNames
    <2>2. \/ \E multi, la, wf : EpollReactorSingleProcess(multi, la, wf)
          \/ EpollReactorSingleProcessET
          \/ \E t \in Thread : EpollReactorThreadPool(t)
          \/ PollReactorSingleProcess \/ SelectReactorSingleProcess
      BY <1>3, SubsThreads
    <2>3. QED
      BY <1>0, <2>1, <2>2, ReactorAnswers
  <1>4. CASE On("EpollReactorThreadPoolMS") /\ EpollReactorThreadPoolMS(With("main read"))
    BY <1>0, <1>4, MasterSubAnswers
  <1>5. CASE \/ On("EpollReactorThreadPoolHSHA1") /\ HSHA1(Io, Takers, With("direct"))
             \/ On("EpollReactorThreadPoolHSHA2") /\ HSHA2(Io, Takers, With("direct"))
    <2>1. server.name \in HandOver
      BY <1>5 DEF On, HandOver
    <2>2. QED
      BY <1>0, <1>5, <2>1, HandOverAnswers
  <1>6. CASE \/ On("EpollReactorSingleProcessCoroutine") /\ EpollReactorSingleProcessCoroutine
             \/ /\ On("EpollReactorProcessPoolCoroutine")
                /\ \E t \in Workers : EpollReactorProcessPoolCoroutine(t)
             \/ /\ On("EpollReactorSingleProcessCoroutineHSHA1")
                /\ EpollReactorSingleProcessCoroutineHSHA1
             \/ /\ On("EpollReactorSingleProcessCoroutineHSHA2")
                /\ EpollReactorSingleProcessCoroutineHSHA2
    <2>1. \/ On("EpollReactorSingleProcessCoroutine") /\ EpollReactorSingleProcessCoroutine
          \/ /\ On("EpollReactorProcessPoolCoroutine")
             /\ \E t \in Thread : EpollReactorProcessPoolCoroutine(t)
          \/ On("EpollReactorSingleProcessCoroutineHSHA1") /\ EpollReactorSingleProcessCoroutineHSHA1
          \/ On("EpollReactorSingleProcessCoroutineHSHA2") /\ EpollReactorSingleProcessCoroutineHSHA2
      BY <1>6, SubsThreads
    <2>2. QED
      BY <1>0, <2>1, CoServerAnswers
  <1>7. CASE \/ On("IoUringProactorSingleProcess") /\ IoUringProactorSingleProcess
             \/ On("IoUringProactorThreadPool") /\ \E t \in Workers : IoUringProactorThreadPool(t)
             \/ /\ On("IoUringProactorSingleProcessCoroutine")
                /\ IoUringProactorSingleProcessCoroutine
             \/ /\ On("IoUringProactorSingleProcessCoroutineHSHA1")
                /\ IoUringProactorSingleProcessCoroutineHSHA1
             \/ /\ On("IoUringProactorSingleProcessCoroutineHSHA2")
                /\ IoUringProactorSingleProcessCoroutineHSHA2
    <2>1. \/ On("IoUringProactorSingleProcess") /\ IoUringProactorSingleProcess
          \/ On("IoUringProactorThreadPool") /\ \E t \in Thread : IoUringProactorThreadPool(t)
          \/ On("IoUringProactorSingleProcessCoroutine") /\ IoUringProactorSingleProcessCoroutine
          \/ /\ On("IoUringProactorSingleProcessCoroutineHSHA1")
             /\ IoUringProactorSingleProcessCoroutineHSHA1
          \/ /\ On("IoUringProactorSingleProcessCoroutineHSHA2")
             /\ IoUringProactorSingleProcessCoroutineHSHA2
      BY <1>7, SubsThreads
    <2>2. QED
      BY <1>0, <2>1, UringAnswers
  <1>8. CASE \E c \in Client : Complete(c)
    <2>1. conn = [d \in Client |-> conn[d]] /\ \A d \in Client : IsConn(conn[d])
      BY DEF OwnInv, Connections, ConnOK
    <2>2. server.name \in OnRing => \A t \in Thread : thread[t].cur = 0
      BY DEF OwnInv, NeverHave
    <2>3. QED
      BY <1>0, <1>8, <2>1, <2>2, CompleteAnswers
  <1>9. CASE \E t \in Workers, c \in Client : server.name \in OnRing /\ CompleteAccept(t, c)
    BY <1>0, <1>9, SubsThreads, CompleteAcceptAnswers
  <1>10. ~ On("MultiProcess") /\ ~ On("EpollReactorProcessPoolMS")
    BY DEF On, OneProcess
  <1>11. QED
    BY <1>1, <1>2, <1>3, <1>4, <1>5, <1>6, <1>7, <1>8, <1>9, <1>10 DEF Serve

(* A step of the server that forks, and of the one that sends descriptors. *)
LEMMA CompleteStays ==
  ASSUME AnswerInv, Typed, NEW c \in Client, Complete(c), UNCHANGED server,
         server.name \notin OnRing
  PROVE  /\ AnswerInv' /\ Typed'
         /\ ForkInv => ForkInv'
         /\ MasterInv => MasterInv'
  <1>1. IsConn(conn[c]) /\ conn = [d \in Client |-> conn[d]]
    BY DEF Typed
  <1>2. AnswerInv'
    BY <1>1, CompleteAnswers
  <1>3. PICK k : Update(c, k) /\ UNCHANGED <<thread, queue>> /\ SameHold(conn[c], k)
    BY <1>1, CompleteIs
  <1>4. Touches(conn[c], k)
    BY <1>3 DEF SameHold, Touches, Entered
  <1>5. QED
    BY <1>2, <1>3, <1>4, TouchStays

LEMMA TwoProcessesServe ==
  ASSUME Serve, ~ OneProcess
  PROVE  \/ On("MultiProcess") /\ MultiProcess
         \/ On("EpollReactorProcessPoolMS") /\ \E main : EpollReactorProcessPoolMS(main)
         \/ \E c \in Client : Complete(c)
  <1>1. \/ server.name = "MultiProcess"
        \/ server.name = "EpollReactorProcessPoolMS"
    BY DEF OneProcess
  <1>2. server.name \notin OnRing
    BY <1>1 DEF OnRing
  <1>3. QED
    BY <1>1, <1>2, Zenon DEF Serve, On

LEMMA TwoProcessesAnswer ==
  ASSUME Answering, ~ OneProcess, Serve, UNCHANGED server
  PROVE  Answering'
  <1>1. On("MultiProcess") \/ On("EpollReactorProcessPoolMS")
    BY DEF OneProcess, On
  <1>2. Owned' /\ (On("MultiProcess")' <=> On("MultiProcess"))
        /\ (On("EpollReactorProcessPoolMS")' <=> On("EpollReactorProcessPoolMS"))
    BY DEF Owned, OneProcess, On
  <1>3. AnswerInv
    BY DEF Answering
  <1>4. CASE On("MultiProcess") /\ MultiProcess
    <2>1. Typed /\ ForkInv /\ ~ On("EpollReactorProcessPoolMS")
      BY <1>4 DEF Answering, On
    <2>2. Typed' /\ ForkInv' /\ AnswerInv'
      BY <1>3, <1>4, <2>1, MultiProcessAnswers
    <2>3. QED
      BY <1>2, <2>1, <2>2 DEF Answering
  <1>5. CASE On("EpollReactorProcessPoolMS") /\ \E main : EpollReactorProcessPoolMS(main)
    <2>1. Typed /\ MasterInv /\ ~ On("MultiProcess")
      BY <1>5 DEF Answering, On
    <2>2. Typed' /\ MasterInv' /\ AnswerInv'
      BY <1>3, <1>5, <2>1, ProcessPoolAnswers
    <2>3. QED
      BY <1>2, <2>1, <2>2 DEF Answering
  <1>6. CASE \E c \in Client : Complete(c)
    <2>1. Typed
      BY <1>1 DEF Answering
    <2>2. server.name \notin OnRing
      BY <1>1 DEF On, OnRing
    <2>3. AnswerInv' /\ Typed' /\ (ForkInv => ForkInv') /\ (MasterInv => MasterInv')
      BY <1>3, <1>6, <2>1, <2>2, CompleteStays
    <2>4. QED
      BY <1>2, <2>3 DEF Answering
  <1>7. QED
    BY <1>4, <1>5, <1>6, TwoProcessesServe

(* A step of a client, whichever the server. *)
LEMMA ClientsAnswer ==
  ASSUME Answering, Owned', UNCHANGED server, ClientStep \/ HangupStep
  PROVE  Answering'
  <1>1. PICK c \in Client :
          /\ UNCHANGED <<thread, queue>>
          /\ (\E l \in Listeners : Connect(c, l)) \/ Ask(c) \/ Send(c) \/ Take(c) \/ Hangup(c)
    BY DEF ClientStep, HangupStep, Leave
  <1>2. IsConn(conn[c]) /\ conn = [d \in Client |-> conn[d]]
    <2>1. OwnInv \/ Typed
      BY DEF Answering, Owned, OneProcess, On
    <2>2. QED
      BY <2>1 DEF Typed, OwnInv, Connections, ConnOK
  <1>3. AnswerInv'
    BY <1>1, <1>2, ClientAnswers DEF Answering
  <1>4. PICK k : Update(c, k) /\ Touches(conn[c], k)
    BY <1>1, <1>2, ClientTouches
  <1>5. Typed => Typed' /\ (ForkInv => ForkInv') /\ (MasterInv => MasterInv')
    BY <1>1, <1>4, TouchStays
  <1>6. QED
    BY <1>3, <1>5 DEF Answering, On

LEMMA AnswerStep ==
  ASSUME Answering, [ServersNext]_serverVars
  PROVE  Answering'
  <1>1. Owned' /\ UNCHANGED server
    BY OwnStep DEF Answering
  <1>2. CASE Serve /\ OneProcess
    <2>1. OwnInv /\ Notified /\ OwnInv'
      BY <1>1, <1>2 DEF Answering, Owned, OneProcess
    <2>2. AnswerInv'
      BY <1>2, <2>1, OneProcessAnswers DEF Answering
    <2>3. ~ On("MultiProcess")' /\ ~ On("EpollReactorProcessPoolMS")'
      BY <1>1, <1>2 DEF OneProcess, On
    <2>4. QED
      BY <1>1, <2>2, <2>3 DEF Answering
  <1>3. CASE Serve /\ ~ OneProcess
    BY <1>1, <1>3, TwoProcessesAnswer
  <1>4. CASE ClientStep \/ HangupStep
    BY <1>1, <1>4, ClientsAnswer
  <1>5. CASE UNCHANGED serverVars
    <2>1. UNCHANGED <<conn, thread, queue, server>>
      BY <1>5 DEF serverVars, echoVars
    <2>2. AnswerInv'
      <3>1. \A c \in Client : Follows(conn[c], conn'[c])
        BY <2>1, FollowsSelf
      <3>2. Aside(0)
        BY <2>1 DEF Aside
      <3>3. QED
        BY <2>1, <3>1, <3>2, QuietAnswers DEF Answering
    <2>3. Typed => Typed'
      BY <2>1 DEF Typed, ThreadsOK, IsThread, IsConn, IsEvent
    <2>4. (ForkInv => ForkInv') /\ (MasterInv => MasterInv')
      BY <2>1 DEF ForkInv, MasterInv, MainOK, ChildOK, ForkOK, Has, Entered
    <2>5. QED
      BY <1>1, <2>2, <2>3, <2>4 DEF Answering, On
  <1>6. QED
    BY <1>2, <1>3, <1>4, <1>5 DEF ServersNext

(* What has been encoded and not yet been written, and what has been written
   and not yet been read, are together what the client still waits for: no
   byte of an answer is lost, sent twice or mixed with the next answer,
   however often the server is interrupted while it reads and writes. *)
THEOREM AnswersExact == ServersSpec => []AnswerExact
  <1>1. ServersInit => Answering
    BY AnswerInit
  <1>2. Answering /\ [ServersNext]_serverVars => Answering'
    BY AnswerStep
  <1>3. Answering => AnswerExact
    <2> SUFFICES ASSUME Answering, NEW c \in Client, conn[c].phase = "up"
                 PROVE  conn[c].outbox + (conn[c].pkt.use_len - Written(conn[c])) \in {0, conn[c].want}
      BY DEF AnswerExact, Written
    <2>1. Staged(conn[c])
      BY DEF Answering, AnswerInv, Fine
    <2>2. QED
      BY <2>1, StageHolds
  <1>4. QED
    BY <1>1, <1>2, <1>3, PTL DEF ServersSpec
=============================================================================
