--------------------------------- MODULE Wse ---------------------------------
(***************************************************************************)
(* wse.c: the fields of each server event and the function that writes     *)
(* each field. A serializer w is struct mcseri: the event under way, the   *)
(* index type of its next field and rem, what a string or array has left.  *)
(***************************************************************************)
EXTENDS Mccp

NOTENOUGH == -123       \* MCENOTENOUGH

Serializers == [evt : ServerEvents \cup {"NOTHING"}, type : 0 .. 5,
                rem : 0 .. StrLen \cup 0 .. ArrayLen]

(* mcreset(&session, 1, 0) *)
ResetSerializer == [evt |-> "NOTHING", type |-> 0, rem |-> 0]

(* A writer of len bytes, which returns short when there is less room; rem *)
(* is what it sets rem to for the field that comes next, and last tells    *)
(* that none does. A writer of data writes what there is, and room for, of *)
(* the rem bytes of a string or array.                                     *)
Fixed(len, short, rem) ==
    [data |-> FALSE, len |-> len, short |-> short, rem |-> rem, last |-> FALSE]
Data(rem) ==
    [data |-> TRUE, len |-> 0, short |-> 0, rem |-> rem, last |-> FALSE]
Last_(writer) == [writer EXCEPT !.last = TRUE]

bwti0  == Fixed(1, 0, 0)
bwtis  == Fixed(1, 0, StrLen)
bwtr   == Last_(Fixed(1, 0, 0))
d3wti0 == Fixed(3, 0, 0)
d3wtr  == Last_(Fixed(3, 0, 0))
estwtr == Last_(Fixed(8, NOTENOUGH, 0))
i3wti0 == Fixed(6, NOTENOUGH, 0)
i3wtr  == Last_(Fixed(6, NOTENOUGH, 0))
iwtia  == Fixed(2, 0, ArrayLen)
swti0  == Data(0)
swtis  == Data(StrLen)
swtr   == Last_(Data(0))
uwtr   == Last_(Fixed(1, 0, 0))
u2wtr  == Last_(Fixed(2, 0, 0))
awti0  == Data(0)       \* the body of ldw2

(* The fields that the writer of each event puts after the packet number,  *)
(* those of the greeting by the client's version.                          *)
sepgw(version) ==
    <<bwtis, IF version < 3 THEN swtr ELSE swtis,
      IF version < 6 THEN swtr ELSE swti0, uwtr>>
seldtw == <<iwtia, awti0, bwtr>>
seldmw == <<i3wtr>>
sebuw  == <<i3wti0, bwtr>>
seenw  == <<bwtis, swti0, estwtr>>
seestw == <<bwti0, estwtr>>
seedw  == <<bwti0, d3wti0, u2wtr>>
seesdw == <<bwti0, d3wtr>>
seehw  == <<bwti0, u2wtr>>
seexw  == <<bwtr>>
secmw  == <<bwtis, swtr>>
sepbw  == <<swtr>>
secfw  == <<uwtr>>

Fields(evt, version) ==
    CASE evt = "PGREETING" -> sepgw(version)
      [] evt = "LDATA"   -> seldtw
      [] evt = "LDIM"    -> seldmw
      [] evt = "BUPDATE" -> sebuw
      [] evt = "ENEW"    -> seenw
      [] evt = "ESTATE"  -> seestw
      [] evt = "EDIFF"   -> seedw
      [] evt = "ESLIDE"  -> seesdw
      [] evt = "EHEAD"   -> seehw
      [] evt = "EDIED"   -> seexw
      [] evt = "CMSG"    -> secmw
      [] evt = "PBYE"    -> sepbw
      [] evt = "CFLAGS"  -> secfw

(* The writers of these call one field writer, the others one after the    *)
(* other as long as they write, there is room and the event goes on.       *)
OneField == {"LDIM", "EDIED", "PBYE", "CFLAGS"}

(* What a writer returns, given room and how much of the data is left; a   *)
(* null pointer stands for zeros without end.                              *)
Null == -2

(* Faulty: data goes on beyond the end of the string or array,             *)
ResultUnended(field, w, room, left) ==
    IF field.data
      THEN IF left = Null THEN room ELSE Min2(room, left)
      ELSE IF field.len > room THEN field.short ELSE field.len

(* or of the buffer.                                                       *)
ResultUnbounded(field, w, room, left) ==
    IF field.data
      THEN IF left = Null THEN w.rem ELSE Min2(left, w.rem)
      ELSE IF field.len > room THEN field.short ELSE field.len

Result(field, w, room, left) ==
    IF field.data
      THEN IF left = Null THEN Min2(room, w.rem)
                          ELSE Min2(Min2(room, left), w.rem)
      ELSE IF field.len > room THEN field.short ELSE field.len

(* Faulty: the field that comes next has as much left as the last one.     *)
tincrOnly(w, rem) == [w EXCEPT !.type = @ + 1]

(* tincr, treset, tixz and trz: how a writer leaves w.                     *)
tincr(w, rem) == [w EXCEPT !.type = @ + 1, !.rem = rem]

treset(w) == [w EXCEPT !.evt = "NOTHING"]

Written(field, w, room, left) ==
    LET r == Result(field, w, room, left)
        rest == w.rem - r
    IN  IF field.data
          THEN IF rest > 0 THEN [w EXCEPT !.rem = rest]
               ELSE IF field.last THEN treset(tincr(w, rest))
               ELSE tincr(w, field.rem)
          ELSE IF r # field.len THEN w
               ELSE IF field.last THEN treset(w)
               ELSE tincr(w, field.rem)

(* Faulty: sends a version 0 client the version.                           *)
OpenedVersion(w, evt, version) == [tincr(w, StrLen) EXCEPT !.evt = evt]

(* senw writes the number of the event and awaits field 1; version 0 has   *)
(* no version in its greeting and goes on with the name.                   *)
Opened(w, evt, version) ==
    LET first == [tincr(w, StrLen) EXCEPT !.evt = evt]
    IN  IF evt = "PGREETING" /\ version = 0 THEN tincr(first, StrLen)
                                            ELSE first

(* The length of a whole packet, by the lengths of its types.              *)
ServerPacketLen(evt, version) ==
    mcstlen.EVTNO +
    CASE evt = "PGREETING" ->
            (IF version = 0 THEN 0 ELSE mcstlen.VERSION) + mcstlen.NAME
            + (IF version < 3 THEN 0 ELSE mcstlen.MSG)
            + (IF version < 6 THEN 0 ELSE mcstlen.PLYRFLGS)
      [] evt \in {"PING", "LNEW"} -> 0
      [] evt = "LDATA"   -> mcstlen.DATALEN + mcstlen.DATACHUNK
                            + mcstlen.PERCENT
      [] evt = "LDIM"    -> mcstlen.LVLSIZE
      [] evt = "BUPDATE" -> mcstlen.BLKCH
      [] evt = "ENEW"    -> mcstlen.ACTRNO + mcstlen.NAME + mcstlen.ACTRSTAT
      [] evt = "ESTATE"  -> mcstlen.ACTRNO + mcstlen.ACTRSTAT
      [] evt = "EDIFF"   -> mcstlen.ACTRNO + mcstlen.ACTRSLID
                            + mcstlen.ACTRHEAD
      [] evt = "ESLIDE"  -> mcstlen.ACTRNO + mcstlen.ACTRSLID
      [] evt = "EHEAD"   -> mcstlen.ACTRNO + mcstlen.ACTRHEAD
      [] evt = "EDIED"   -> mcstlen.ACTRNO
      [] evt = "CMSG"    -> mcstlen.ACTRNO + mcstlen.MSG
      [] evt = "PBYE"    -> mcstlen.MSG
      [] evt = "CFLAGS"  -> mcstlen.PLYRFLGS
=============================================================================
