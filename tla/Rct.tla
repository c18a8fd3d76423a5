-------------------------------- MODULE Rct ---------------------------------
(***************************************************************************)
(* rct.c: the reader of each client type, and mcsread, which dispatches on *)
(* the type the session expects. A session ctx is the part of struct mcx   *)
(* that reading uses: the protocol version curpv and r = (rem, evt, type). *)
(* Every reader gets the qty bytes its caller holds; readers that look at  *)
(* a byte get it as b. A reader that has too few bytes (MCENOTENOUGH)      *)
(* leaves the session alone.                                               *)
(***************************************************************************)
EXTENDS Mccp

Sessions == [curpv : 0 .. 31, rem : 0 .. StrLen,
             evt : ClientEvents, type : ClientTypes]

(* mcreset(&session, 1, 0) *)
ResetSession == [curpv |-> 0, rem |-> 0, evt |-> "NOTHING", type |-> "EVTNO"]

(* Change the type of the serialized; type 0 also forgets the event. *)
tchng(ctx, next) ==
    [ctx EXCEPT !.type = next,
                !.evt = IF next = "EVTNO" THEN "NOTHING" ELSE @]

(* Change the type and size to a string. *)
tchngs(ctx, next) == tchng([ctx EXCEPT !.rem = StrLen], next)

(* Faulty: forgets the event and leaves the type, as the writers do.       *)
finishEventOnly(ctx) == [ctx EXCEPT !.evt = "NOTHING"]

(* treset and the assignment of type 0 that follows it. *)
finish(ctx) == [ctx EXCEPT !.evt = "NOTHING", !.type = "EVTNO"]

(* Faulty: takes more than the string has left.                            *)
readsAll(ctx, qty) == [ctx EXCEPT !.rem = @ - qty]

(* readz, the copy of reads: as much of the string as there is. *)
reads(ctx, qty) == [ctx EXCEPT !.rem = @ - Min2(qty, @)]

rctEventNumber(ctx, qty, b) ==
    IF mcctlen(ctx, "EVTNO") > qty
      THEN ctx
      ELSE [ctx EXCEPT !.evt = cedecode(b),
                       !.type = FirstType(cedecode(b))]

(* Faulty: counts the first byte of the name among those to come.          *)
rctVersionTwice(ctx, qty, b) ==
    IF mcctlen(ctx, "VERSION") > qty
      THEN ctx
      ELSE tchngs([ctx EXCEPT !.curpv = IF b < 32 THEN b ELSE 0], "NAME")

(* A printable byte is no version: it is the first byte of the name of a   *)
(* version 0 client.                                                       *)
rctVersion(ctx, qty, b) ==
    IF mcctlen(ctx, "VERSION") > qty
      THEN ctx
      ELSE IF b < 32
             THEN tchngs([ctx EXCEPT !.curpv = b], "NAME")
             ELSE tchng([ctx EXCEPT !.curpv = 0, !.rem = StrLen - 1], "NAME")

(* Faulty: expects a password of clients that send none.                   *)
rctNamePassword(ctx, qty) ==
    LET read == reads(ctx, qty)
    IN  IF read.rem # 0 THEN read ELSE tchngs(read, "PASS")

rctName(ctx, qty) ==
    LET read == reads(ctx, qty)
    IN  IF read.rem # 0 THEN read
        ELSE IF read.curpv < 3 THEN finish(read)
        ELSE tchngs(read, "PASS")

rctPassword(ctx, qty) ==
    LET read == reads(ctx, qty)
    IN  IF read.rem # 0 THEN read
        ELSE IF read.curpv < 6 THEN finish(read)
        ELSE tchng(read, "CFLGS")

rctMessage(ctx, qty) ==
    LET read == reads(ctx, qty)
    IN  IF read.rem # 0 THEN read ELSE finish(read)

(* rctBlockChange, rctActorState and rctClientFlags: all bytes or none. *)
rctFixed(ctx, qty) ==
    IF mcctlen(ctx, ctx.type) > qty THEN ctx ELSE finish(ctx)

(* Faulty: the same field follows in every packet.                         *)
rctActorNumberState(ctx, qty) ==
    IF mcctlen(ctx, "ACTRNO") > qty THEN ctx ELSE tchng(ctx, "ACTRSTAT")

rctActorNumber(ctx, qty) ==
    IF mcctlen(ctx, "ACTRNO") > qty THEN ctx
    ELSE IF ctx.evt = "CHATMSG" THEN tchngs(ctx, "MSG")
    ELSE tchng(ctx, "ACTRSTAT")

StringTypes == {"NAME", "PASS", "MSG"}

(* The bytes a reader takes, its result when that is not an error. *)
Taken(ctx, qty) ==
    IF ctx.type \in StringTypes THEN Min2(qty, ctx.rem)
    ELSE IF mcctlen(ctx, ctx.type) > qty THEN 0
    ELSE mcctlen(ctx, ctx.type)

(* mcsread drops the count and returns the type expected next. *)
mcsread(ctx, qty, b) ==
    CASE ctx.type = "EVTNO"   -> rctEventNumber(ctx, qty, b)
      [] ctx.type = "VERSION" -> rctVersion(ctx, qty, b)
      [] ctx.type = "NAME"    -> rctName(ctx, qty)
      [] ctx.type = "PASS"    -> rctPassword(ctx, qty)
      [] ctx.type = "MSG"     -> rctMessage(ctx, qty)
      [] ctx.type = "ACTRNO"  -> rctActorNumber(ctx, qty)
      [] ctx.type \in {"BLKCH", "ACTRSTAT", "CFLGS"} -> rctFixed(ctx, qty)
=============================================================================
