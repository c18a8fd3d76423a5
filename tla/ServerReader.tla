----------------------------- MODULE ServerReader ----------------------------
(***************************************************************************)
(* The server's side of mccp reading a client's packets field by field.    *)
(* The caller of mcsread passes the bytes it happens to hold, any number   *)
(* of them, and the session remembers how far the packet has been read.    *)
(* pkt and pos are the client's: the packet it is sending and how many of  *)
(* its bytes mcsread has taken.                                            *)
(***************************************************************************)
EXTENDS ClientPackets

CONSTANT MaxQty     \* bound: most bytes a caller passes in one call

(* The versions are those the library supports: what a larger one does is  *)
(* shown by Session.                                                       *)
ASSUME ReaderAssumption ==
    /\ VersionBytes \subseteq 0 .. MCPVMAX \cup 32 .. 255
    /\ MaxQty \in Nat

VARIABLES
    ctx,    \* the session, a member of Sessions
    pkt,    \* the packet being sent: its number, and version if a greeting
    pos     \* how many of its bytes have been taken

vars == <<ctx, pkt, pos>>

(* What the next byte of the packet can be. *)
NextByte ==
    IF pos = 0 THEN {pkt.no}
    ELSE IF pos = 1 /\ cedecode(pkt.no) = "GREETING" THEN {pkt.ver}
    ELSE PacketNos \cup VersionBytes

Init ==
    /\ ctx = ResetSession
    /\ pkt \in Packets
    /\ pos = 0

(* The client sends its next packet. *)
NextPacket ==
    /\ pos = PacketLen(pkt)
    /\ pkt' \in Packets
    /\ pos' = 0
    /\ UNCHANGED ctx

(* mcsread takes its bytes from the packet. *)
Take(qty) ==
    /\ pos < PacketLen(pkt)
    /\ pos' = pos + Taken(ctx, qty)
    /\ UNCHANGED pkt

ReadEventNumber ==
    /\ ctx.type = "EVTNO"
    /\ \E qty \in 0 .. MaxQty, b \in NextByte :
          ctx' = rctEventNumber(ctx, qty, b) /\ Take(qty)

ReadVersion ==
    /\ ctx.type = "VERSION"
    /\ \E qty \in 0 .. MaxQty, b \in NextByte :
          ctx' = rctVersion(ctx, qty, b) /\ Take(qty)

ReadName ==
    /\ ctx.type = "NAME"
    /\ \E qty \in 0 .. MaxQty : ctx' = rctName(ctx, qty) /\ Take(qty)

ReadPassword ==
    /\ ctx.type = "PASS"
    /\ \E qty \in 0 .. MaxQty : ctx' = rctPassword(ctx, qty) /\ Take(qty)

ReadMessage ==
    /\ ctx.type = "MSG"
    /\ \E qty \in 0 .. MaxQty : ctx' = rctMessage(ctx, qty) /\ Take(qty)

ReadActorNumber ==
    /\ ctx.type = "ACTRNO"
    /\ \E qty \in 0 .. MaxQty : ctx' = rctActorNumber(ctx, qty) /\ Take(qty)

ReadFixed ==
    /\ ctx.type \in {"BLKCH", "ACTRSTAT", "CFLGS"}
    /\ \E qty \in 0 .. MaxQty : ctx' = rctFixed(ctx, qty) /\ Take(qty)

Next ==
    \/ NextPacket
    \/ ReadEventNumber \/ ReadVersion \/ ReadName \/ ReadPassword
    \/ ReadMessage \/ ReadActorNumber \/ ReadFixed

Spec == Init /\ [][Next]_vars

-----------------------------------------------------------------------------
(* The session and the client's packet keep their types. *)
TypeOK == ctx \in Sessions /\ pkt \in Packets /\ pos \in Nat

(* Reading in any pieces never loses the packet boundary: the session      *)
(* never takes a byte beyond the packet, and expects a packet number only  *)
(* when nothing or all of the packet has been taken.                       *)
Framing ==
    /\ pos <= PacketLen(pkt)
    /\ ctx.type = "EVTNO" => pos \in {0, PacketLen(pkt)}

(* The types through which each packet is read. *)
TypesOf(evt) ==
    CASE evt = "GREETING" -> {"VERSION", "NAME", "PASS", "CFLGS"}
      [] evt = "BLKEDIT"  -> {"BLKCH"}
      [] evt = "PLYRSTAT" -> {"ACTRNO", "ACTRSTAT"}
      [] evt = "CHATMSG"  -> {"ACTRNO", "MSG"}
      [] OTHER            -> {"INVALID"}

(* In the middle of a packet the session is reading a field of that very   *)
(* packet, and what a greeting's later fields are read by is the version   *)
(* that the same greeting announced.                                       *)
FieldOfPacket ==
    /\ ctx.type # "EVTNO" => ctx.type \in TypesOf(cedecode(pkt.no))
    /\ cedecode(pkt.no) = "GREETING" /\ pos > 1
         => ctx.curpv = Announced(pkt.ver)

(* The place of each field, from which Framing follows. *)
Offset ==
    CASE ctx.type = "EVTNO"    -> pos \in {0, PacketLen(pkt)}
      [] ctx.type = "NAME"     -> pos = NameEnd(pkt.ver) - ctx.rem
      [] ctx.type = "PASS"     -> pos = NameEnd(pkt.ver) + StrLen - ctx.rem
      [] ctx.type = "CFLGS"    -> pos = NameEnd(pkt.ver) + StrLen
      [] ctx.type = "MSG"      -> pos = 2 + StrLen - ctx.rem
      [] ctx.type = "ACTRSTAT" -> pos = 2
      [] OTHER                 -> pos = 1

(* The inductive invariant: besides Offset, the session's event is the     *)
(* packet's, a string in progress has something left, and the optional     *)
(* fields of a greeting are read only for the versions that have them.     *)
ReaderInv ==
    /\ TypeOK
    /\ FieldOfPacket
    /\ Offset
    /\ ctx.evt = (IF ctx.type = "EVTNO" THEN "NOTHING" ELSE cedecode(pkt.no))
    /\ ctx.type \in StringTypes => ctx.rem > 0
    /\ ctx.type = "NAME" => pos > 1
    /\ ctx.type = "PASS" => ctx.curpv >= 3
    /\ ctx.type = "CFLGS" => ctx.curpv >= 6
    /\ ctx.curpv <= MCPVMAX

(* The reader implements a stream of packets. *)
Stream == INSTANCE PacketStream WITH
    Sizes <- {PacketLen(p) : p \in Packets},
    size <- PacketLen(pkt),
    done <- pos,
    idle <- ctx.type = "EVTNO"

StreamSpec == Stream!Spec
=============================================================================
