-------------------------------- MODULE Mccp --------------------------------
(***************************************************************************)
(* The vocabulary of the mccp library: protocol limits, client and server  *)
(* events, client field types, and the tables of api.c and mccp.c that     *)
(* relate them (packet numbers and field lengths).                         *)
(***************************************************************************)
EXTENDS Integers

CONSTANTS
    StrLen,     \* MCSTRLEN, the size in bytes of a string field (64)
    ArrayLen    \* MCARRAYLEN, the size in bytes of an array field (1024)

ASSUME LengthAssumption ==
    /\ StrLen \in Nat /\ StrLen > 1
    /\ ArrayLen \in Nat /\ ArrayLen > 0

(* Max supported protocol version. *)
MCPVMAX == 7

Bytes == 0 .. 255

Min2(a, b) == IF a < b THEN a ELSE b

-----------------------------------------------------------------------------
(* What the client sends. *)

ClientEvents == {"NOTHING", "GREETING", "BLKEDIT", "PLYRSTAT", "CHATMSG"}

(* A packet of the client is read field by field; "EVTNO" is the packet    *)
(* number that opens it and "INVALID" what a bad number leaves behind.     *)
ClientTypes == {"EVTNO", "VERSION", "NAME", "BLKCH", "ACTRNO", "ACTRSTAT",
                "MSG", "PASS", "CFLGS", "INVALID"}

(* The client event a packet number stands for. *)
cedecode(no) ==
    CASE no = 0  -> "GREETING"
      [] no = 5  -> "BLKEDIT"
      [] no = 8  -> "PLYRSTAT"
      [] no = 13 -> "CHATMSG"
      [] OTHER   -> "NOTHING"

(* Faulty: a block edit has no actor number.                               *)
FirstTypeActor(evt) ==
    CASE evt = "NOTHING"  -> "INVALID"
      [] evt = "GREETING" -> "VERSION"
      [] OTHER            -> "ACTRNO"

(* The type that follows the packet number of each client event. *)
FirstType(evt) ==
    CASE evt = "NOTHING"  -> "INVALID"
      [] evt = "GREETING" -> "VERSION"
      [] evt = "BLKEDIT"  -> "BLKCH"
      [] OTHER            -> "ACTRNO"

(* Faulty: forgets that the name may be one byte short.                    *)
mcctlenFullName(ctx, type) ==
    IF ctx.curpv > MCPVMAX
      THEN 0
      ELSE CASE type \in {"BLKCH", "ACTRSTAT"} -> 8
             [] type \in {"MSG", "PASS", "NAME"} -> StrLen
             [] OTHER -> 1

(* The length in bytes of a client type, for the session ctx. The name of  *)
(* a version 0 client is one byte short: its first byte came as "VERSION". *)
mcctlen(ctx, type) ==
    IF ctx.curpv > MCPVMAX
      THEN 0
      ELSE CASE type \in {"BLKCH", "ACTRSTAT"} -> 8
             [] type \in {"MSG", "PASS"} -> StrLen
             [] type = "NAME" -> IF ctx.curpv = 0 /\ ctx.evt = "GREETING"
                                   THEN StrLen - 1 ELSE StrLen
             [] OTHER -> 1

-----------------------------------------------------------------------------
(* What the server sends. *)

ServerEvents == {"PGREETING", "PING", "LNEW", "LDATA", "LDIM", "BUPDATE",
                 "ENEW", "ESTATE", "EDIFF", "ESLIDE", "EHEAD", "EDIED",
                 "CMSG", "PBYE", "CFLAGS"}

(* The packet number of a server event. Number 5 is the client's own       *)
(* block edit, so the numbers are not those of enum mcsevt.                *)
seencode(evt) ==
    CASE evt = "PGREETING" -> 0
      [] evt = "PING"      -> 1
      [] evt = "LNEW"      -> 2
      [] evt = "LDATA"     -> 3
      [] evt = "LDIM"      -> 4
      [] evt = "BUPDATE"   -> 6
      [] evt = "ENEW"      -> 7
      [] evt = "ESTATE"    -> 8
      [] evt = "EDIFF"     -> 9
      [] evt = "ESLIDE"    -> 10
      [] evt = "EHEAD"     -> 11
      [] evt = "EDIED"     -> 12
      [] evt = "CMSG"      -> 13
      [] evt = "PBYE"      -> 14
      [] evt = "CFLAGS"    -> 15

(* The length in bytes of each server type, for a supported version.       *)
mcstlen ==
    [EVTNO |-> 1, VERSION |-> 1, NAME |-> StrLen, DATALEN |-> 2,
     DATACHUNK |-> ArrayLen, PERCENT |-> 1, LVLSIZE |-> 6, BLKCH |-> 7,
     ACTRNO |-> 1, ACTRSTAT |-> 8, ACTRSLID |-> 3, ACTRHEAD |-> 2,
     MSG |-> StrLen, PLYRFLGS |-> 1]
=============================================================================
