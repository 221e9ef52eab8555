------------------------------- MODULE Codec -------------------------------
(***************************************************************************)
(* The echo protocol of src/common: a message is a head that says how long *)
(* the body is, and the body.  A Packet is a buffer, a Codec decodes what  *)
(* has been read into one; of both only lengths are kept, in units of      *)
(* which the head has HeadLen.                                             *)
(***************************************************************************)
EXTENDS Integers

CONSTANT HeadLen   \* TINY_ECHO_HEAD_LEN

ASSUME CodecAssumption == HeadLen \in Nat \ {0}
-----------------------------------------------------------------------------
(* Packet; what Packet::Reset leaves is the buffer's length. *)
Alloc(len) == [len |-> len, use_len |-> 0, parse_len |-> 0]

PacketReset(p) == [p EXCEPT !.use_len = 0, !.parse_len = 0]

(* The buffer never shrinks. *)
ReAlloc(p, len) == IF len < p.len THEN p ELSE [p EXCEPT !.len = len]

CanWriteLen(p)  == p.len - p.use_len
NeedParseLen(p) == p.use_len - p.parse_len

UpdateUseLen(p, add)   == [p EXCEPT !.use_len = @ + add]
UpdateParseLen(p, add) == [p EXCEPT !.parse_len = @ + add]
-----------------------------------------------------------------------------
(* Codec. *)
NewCodec == [decode_status |-> "HEAD", body_len |-> 0, msg |-> FALSE, pkt |-> Alloc(HeadLen)]

Reset(k) ==
  [k EXCEPT !.decode_status = "HEAD", !.body_len = 0, !.msg = FALSE, !.pkt = PacketReset(@)]

EnCode(body) == UpdateUseLen(Alloc(HeadLen + body), HeadLen + body)

(* The head, if all of it is there, says that `body' follows. *)
decodeHead(k, body) ==
  IF k.decode_status # "HEAD" \/ NeedParseLen(k.pkt) < HeadLen THEN k
  ELSE [k EXCEPT !.decode_status = "BODY", !.body_len = body,
                 !.pkt = ReAlloc(UpdateParseLen(@, HeadLen), HeadLen + body)]

decodeBody(k) ==
  IF k.decode_status # "BODY" \/ NeedParseLen(k.pkt) < k.body_len THEN k
  ELSE [k EXCEPT !.decode_status = "FINISH", !.msg = TRUE,
                 !.pkt = UpdateParseLen(@, k.body_len)]

(* The loop makes one round: a second one would find that the message has
   been decoded and something is left, and would never end. *)
DeCode(k, len, body) == decodeBody(decodeHead([k EXCEPT !.pkt = UpdateUseLen(@, len)], body))
=============================================================================
