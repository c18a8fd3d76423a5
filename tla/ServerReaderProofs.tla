-------------------------- MODULE ServerReaderProofs -------------------------
(***************************************************************************)
(* ServerReader keeps a client's packets apart, for strings of any length  *)
(* and any pieces the bytes come in: TypeOK, Framing and FieldOfPacket,    *)
(* from the inductive invariant ReaderInv.                                 *)
(***************************************************************************)
EXTENDS ServerReader, TLAPS

(* The facts about the constants that the steps use. *)
LEMMA ConstantFacts ==
    /\ StrLen \in Nat /\ StrLen > 1
    /\ PacketNos \subseteq 0 .. 255
    /\ VersionBytes \subseteq 0 .. 255
    /\ \A v \in VersionBytes : v < 32 => v <= 7
    /\ MaxQty \in Nat
BY LengthAssumption, PacketAssumption, ReaderAssumption
   DEF Bytes, MCPVMAX

(* A packet is at least two bytes long, and a greeting as long as the      *)
(* fields its version has.                                                 *)
LEMMA PacketLenFacts ==
    ASSUME NEW p \in Packets
    PROVE  /\ PacketLen(p) \in Nat /\ PacketLen(p) >= 2
           /\ p.ver \in 0 .. 255 /\ (p.ver < 32 => p.ver <= 7)
           /\ Announced(p.ver) \in 0 .. 7
           /\ NameEnd(p.ver) \in Nat /\ NameEnd(p.ver) >= StrLen + 1
           /\ cedecode(p.no) \in ClientEvents
           /\ cedecode(p.no) = "GREETING" => PacketLen(p) = GreetingLen(p.ver)
           /\ cedecode(p.no) = "BLKEDIT" => PacketLen(p) = 9
           /\ cedecode(p.no) = "PLYRSTAT" => PacketLen(p) = 10
           /\ cedecode(p.no) = "CHATMSG" => PacketLen(p) = 2 + StrLen
           /\ cedecode(p.no) = "NOTHING" => PacketLen(p) = 2
<1>1. p.ver \in 0 .. 255 /\ (p.ver < 32 => p.ver <= 7)
  <2>1. p \in [no : PacketNos, ver : VersionBytes \cup {0}]
    BY DEF Packets
  <2>2. CASE p.ver \in VersionBytes
    <3>1. p.ver \in 0 .. 255
      BY <2>2, ConstantFacts
    <3> QED
      BY <2>2, <3>1, ConstantFacts
  <2>3. CASE p.ver = 0
    BY <2>3
  <2> QED
    BY <2>1, <2>2, <2>3
<1>2. Announced(p.ver) \in 0 .. 7
  BY <1>1 DEF Announced
<1>3. NameEnd(p.ver) \in Nat /\ NameEnd(p.ver) >= StrLen + 1
  BY <1>1, ConstantFacts DEF NameEnd
<1>4. cedecode(p.no) \in ClientEvents
  BY DEF cedecode, ClientEvents
<1>5. GreetingLen(p.ver) \in Nat /\ GreetingLen(p.ver) >= 2
  BY <1>2, <1>3, ConstantFacts DEF GreetingLen
<1> QED
  BY <1>1, <1>2, <1>3, <1>4, <1>5, ConstantFacts DEF PacketLen, ClientEvents

(* A session that was reset awaits the first packet's number.              *)
LEMMA InitInv == Init => ReaderInv
<1> SUFFICES ASSUME Init PROVE ReaderInv
  OBVIOUS
<1> USE DEF Init, ResetSession
<1>1. TypeOK
  BY ConstantFacts
     DEF TypeOK, Sessions, ClientEvents, ClientTypes
<1>2. FieldOfPacket
  BY DEF FieldOfPacket
<1>3. Offset
  BY DEF Offset
<1> QED
  BY <1>1, <1>2, <1>3 DEF ReaderInv, StringTypes, MCPVMAX

(* A string reader takes at most what is left of the string.               *)
LEMMA ReadsFacts ==
    ASSUME NEW c \in Sessions, NEW qty \in Nat
    PROVE  /\ Min2(qty, c.rem) \in 0 .. c.rem
           /\ reads(c, qty) = [c EXCEPT !.rem = c.rem - Min2(qty, c.rem)]
           /\ reads(c, qty) \in Sessions
<1>1. c.rem \in 0 .. StrLen /\ StrLen \in Nat
  BY ConstantFacts DEF Sessions
<1>2. Min2(qty, c.rem) \in 0 .. c.rem
  BY <1>1 DEF Min2
<1>3. reads(c, qty) = [c EXCEPT !.rem = c.rem - Min2(qty, c.rem)]
  BY DEF reads
<1>4. c.rem - Min2(qty, c.rem) \in 0 .. StrLen
  BY <1>1, <1>2
<1> QED
  BY <1>2, <1>3, <1>4 DEF Sessions

(* Changing the type keeps the event, unless the type is a packet number.  *)
LEMMA TchngFacts ==
    ASSUME NEW c \in Sessions, NEW t \in ClientTypes, t # "EVTNO"
    PROVE  /\ tchng(c, t) \in Sessions
           /\ tchng(c, t).type = t /\ tchng(c, t).evt = c.evt
           /\ tchng(c, t).rem = c.rem /\ tchng(c, t).curpv = c.curpv
           /\ tchngs(c, t) \in Sessions
           /\ tchngs(c, t).type = t /\ tchngs(c, t).evt = c.evt
           /\ tchngs(c, t).rem = StrLen /\ tchngs(c, t).curpv = c.curpv
<1> DEFINE d == [c EXCEPT !.rem = StrLen]
<1>1. /\ d \in Sessions /\ d.type = c.type /\ d.evt = c.evt
      /\ d.rem = StrLen /\ d.curpv = c.curpv
  BY ConstantFacts DEF Sessions
<1>2. ASSUME NEW e \in Sessions
      PROVE  /\ tchng(e, t) \in Sessions
             /\ tchng(e, t).type = t /\ tchng(e, t).evt = e.evt
             /\ tchng(e, t).rem = e.rem /\ tchng(e, t).curpv = e.curpv
  BY DEF tchng, Sessions
<1>3. tchngs(c, t) = tchng(d, t)
  BY DEF tchngs
<1> QED
  BY <1>1, <1>2, <1>3

(* A finished packet leaves the session expecting a packet number.         *)
LEMMA FinishFacts ==
    ASSUME NEW c \in Sessions
    PROVE  /\ finish(c) \in Sessions
           /\ finish(c).type = "EVTNO" /\ finish(c).evt = "NOTHING"
           /\ finish(c).rem = c.rem /\ finish(c).curpv = c.curpv
BY DEF finish, Sessions, ClientTypes, ClientEvents

(* What the invariant says of the packet being read.                       *)
LEMMA InvFacts ==
    ASSUME ReaderInv
    PROVE  /\ ctx \in Sessions /\ pkt \in Packets /\ pos \in Nat
           /\ ctx.curpv \in 0 .. 7 /\ ctx.rem \in 0 .. StrLen
           /\ cedecode(pkt.no) \in ClientEvents
           /\ ctx.type \in {"VERSION", "NAME", "PASS", "CFLGS"}
                => cedecode(pkt.no) = "GREETING"
           /\ ctx.type = "BLKCH" => cedecode(pkt.no) = "BLKEDIT"
           /\ ctx.type = "ACTRSTAT" => cedecode(pkt.no) = "PLYRSTAT"
           /\ ctx.type = "MSG" => cedecode(pkt.no) = "CHATMSG"
           /\ ctx.type = "ACTRNO" => cedecode(pkt.no) \in {"PLYRSTAT", "CHATMSG"}
           /\ ctx.type \in {"NAME", "PASS", "CFLGS"}
                => ctx.curpv = Announced(pkt.ver)
<1>1. ctx \in Sessions /\ pkt \in Packets /\ pos \in Nat
  BY DEF ReaderInv, TypeOK
<1>2. ctx.curpv \in 0 .. 7 /\ ctx.rem \in 0 .. StrLen
  BY <1>1 DEF ReaderInv, Sessions, MCPVMAX
<1>3. cedecode(pkt.no) \in ClientEvents
  BY <1>1, PacketLenFacts
<1>4. ctx.type # "EVTNO" => ctx.type \in TypesOf(cedecode(pkt.no))
  BY DEF ReaderInv, FieldOfPacket
<1>5. /\ ctx.type \in {"VERSION", "NAME", "PASS", "CFLGS"}
           => cedecode(pkt.no) = "GREETING"
      /\ ctx.type = "BLKCH" => cedecode(pkt.no) = "BLKEDIT"
      /\ ctx.type = "ACTRSTAT" => cedecode(pkt.no) = "PLYRSTAT"
      /\ ctx.type = "MSG" => cedecode(pkt.no) = "CHATMSG"
      /\ ctx.type = "ACTRNO" => cedecode(pkt.no) \in {"PLYRSTAT", "CHATMSG"}
  BY <1>3, <1>4 DEF TypesOf, ClientEvents
<1>6. ctx.type \in {"NAME", "PASS", "CFLGS"} => pos > 1
  BY <1>1, <1>2, PacketLenFacts, ConstantFacts DEF ReaderInv, Offset
<1>7. ctx.type \in {"NAME", "PASS", "CFLGS"}
        => ctx.curpv = Announced(pkt.ver)
  BY <1>5, <1>6 DEF ReaderInv, FieldOfPacket
<1> QED
  BY <1>1, <1>2, <1>3, <1>5, <1>7

(* The session expects a packet number exactly at the packet boundaries,   *)
(* and never takes a byte beyond the packet.                               *)
Boundary ==
    /\ pos \in 0 .. PacketLen(pkt)
    /\ PacketLen(pkt) \in Nat /\ PacketLen(pkt) >= 2
    /\ (ctx.type = "EVTNO") <=> (pos \in {0, PacketLen(pkt)})

(* The session expects a packet number exactly between packets.            *)
LEMMA BoundaryFacts == ReaderInv => Boundary
<1> SUFFICES ASSUME ReaderInv PROVE Boundary
  OBVIOUS
<1> USE DEF Boundary
<1>1. PacketLen(pkt) \in Nat /\ PacketLen(pkt) >= 2
  BY InvFacts, PacketLenFacts
<1>2. ctx.type \in ClientTypes /\ StrLen \in Nat /\ ctx.rem \in 0 .. StrLen
  BY InvFacts, ConstantFacts DEF Sessions
<1>3. CASE ctx.type = "EVTNO"
  BY <1>1, <1>3 DEF ReaderInv, Offset
<1>4. CASE ctx.type \in {"NAME", "PASS", "CFLGS"}
  <2>1. PacketLen(pkt) = GreetingLen(pkt.ver)
    BY <1>4, InvFacts, PacketLenFacts
  <2>2. pos \in 1 .. PacketLen(pkt) - 1
    BY <1>1, <1>2, <1>4, <2>1, InvFacts, PacketLenFacts, ConstantFacts
       DEF ReaderInv, Offset, StringTypes, GreetingLen
  <2> QED
    BY <1>1, <1>4, <2>2
<1>5. CASE ctx.type \in {"MSG", "ACTRSTAT"}
  BY <1>1, <1>2, <1>5, InvFacts, PacketLenFacts
     DEF ReaderInv, Offset, StringTypes
<1>6. CASE ctx.type \in {"VERSION", "BLKCH", "ACTRNO", "INVALID"}
  BY <1>1, <1>6 DEF ReaderInv, Offset
<1> QED
  BY <1>2, <1>3, <1>4, <1>5, <1>6 DEF ClientTypes

(* The client starts a packet only when the last one was taken whole.      *)
LEMMA NextPacketInv == ReaderInv /\ NextPacket => ReaderInv'
<1> SUFFICES ASSUME ReaderInv, NextPacket PROVE ReaderInv'
  OBVIOUS
<1>1. ctx' = ctx /\ pkt' \in Packets /\ pos' = 0 /\ pos = PacketLen(pkt)
  BY DEF NextPacket
<1>2. ctx.type = "EVTNO"
  BY <1>1, BoundaryFacts DEF Boundary
<1> QED
  BY <1>1, <1>2
     DEF ReaderInv, TypeOK, FieldOfPacket, Offset, StringTypes

(* A reader that takes nothing keeps the invariant.                        *)
LEMMA StutterInv ==
    ASSUME ReaderInv, UNCHANGED vars PROVE ReaderInv'
BY DEF ReaderInv, vars, TypeOK, FieldOfPacket, Offset

(* rctEventNumber keeps the invariant: it enters the packet's first field. *)
LEMMA ReadEventNumberInv == ReaderInv /\ ReadEventNumber => ReaderInv'
<1> SUFFICES ASSUME ReaderInv, ReadEventNumber PROVE ReaderInv'
  OBVIOUS
<1>1. PICK qty \in 0 .. MaxQty, b \in NextByte :
        ctx' = rctEventNumber(ctx, qty, b) /\ Take(qty)
  BY DEF ReadEventNumber
<1>2. ctx.type = "EVTNO" /\ pos = 0 /\ b = pkt.no
  BY <1>1, InvFacts, PacketLenFacts
     DEF ReadEventNumber, ReaderInv, Offset, Take, NextByte
<1>3. qty \in Nat /\ mcctlen(ctx, "EVTNO") = 1
  BY ConstantFacts, InvFacts DEF mcctlen, MCPVMAX
<1>4. CASE qty = 0
  <2>1. UNCHANGED vars
    BY <1>1, <1>2, <1>3, <1>4, InvFacts
       DEF rctEventNumber, Take, Taken, StringTypes, vars
  <2> QED
    BY <2>1, StutterInv
<1>5. CASE qty >= 1
  <2>1. /\ ctx' = [ctx EXCEPT !.evt = cedecode(pkt.no),
                              !.type = FirstType(cedecode(pkt.no))]
        /\ pos' = 1 /\ pkt' = pkt
    BY <1>1, <1>2, <1>3, <1>5 DEF rctEventNumber, Take, Taken, StringTypes
  <2>2. /\ ctx' \in Sessions
        /\ ctx'.type = FirstType(cedecode(pkt.no))
        /\ ctx'.evt = cedecode(pkt.no)
        /\ ctx'.curpv = ctx.curpv
    BY <2>1, InvFacts DEF Sessions, FirstType, ClientTypes, ClientEvents
  <2>3. ctx'.type \in {"INVALID", "VERSION", "BLKCH", "ACTRNO"}
    BY <2>2 DEF FirstType
  <2>4. FieldOfPacket'
    BY <2>1, <2>2, InvFacts
       DEF FieldOfPacket, FirstType, TypesOf, ClientEvents
  <2>5. Offset'
    BY <2>1, <2>3 DEF Offset
  <2> QED
    BY <2>1, <2>2, <2>3, <2>4, <2>5, InvFacts
       DEF ReaderInv, TypeOK, StringTypes, MCPVMAX
<1> QED
  BY <1>3, <1>4, <1>5

(* rctVersion keeps it: what it keeps of the name is the rest of it.       *)
LEMMA ReadVersionInv == ReaderInv /\ ReadVersion => ReaderInv'
<1> SUFFICES ASSUME ReaderInv, ReadVersion PROVE ReaderInv'
  OBVIOUS
<1>1. PICK qty \in 0 .. MaxQty, b \in NextByte :
        ctx' = rctVersion(ctx, qty, b) /\ Take(qty)
  BY DEF ReadVersion
<1>2. /\ ctx.type = "VERSION" /\ pos = 1
      /\ cedecode(pkt.no) = "GREETING" /\ b = pkt.ver
  BY <1>1, InvFacts DEF ReadVersion, ReaderInv, Offset, NextByte
<1>3. qty \in Nat /\ mcctlen(ctx, "VERSION") = 1
  BY ConstantFacts, InvFacts DEF mcctlen, MCPVMAX
<1>4. CASE qty = 0
  <2>1. UNCHANGED vars
    BY <1>1, <1>2, <1>3, <1>4, InvFacts
       DEF rctVersion, Take, Taken, StringTypes, vars
  <2> QED
    BY <2>1, StutterInv
<1>5. CASE qty >= 1
  <2>1. pos' = 2 /\ pkt' = pkt
    BY <1>1, <1>2, <1>3, <1>5 DEF Take, Taken, StringTypes
  <2>2. NameEnd(pkt.ver) - 2 \in 1 .. StrLen /\ Announced(pkt.ver) \in 0 .. 7
    BY InvFacts, PacketLenFacts, ConstantFacts DEF NameEnd
  <2>3. \E c \in Sessions :
           /\ c.curpv = Announced(pkt.ver) /\ c.evt = ctx.evt
           /\ \/ c.rem = NameEnd(pkt.ver) - 2 /\ ctx' = tchng(c, "NAME")
              \/ StrLen = NameEnd(pkt.ver) - 2 /\ ctx' = tchngs(c, "NAME")
    <3>1. CASE b < 32
      <4>1. [ctx EXCEPT !.curpv = b] \in Sessions
        BY <1>2, <3>1, InvFacts, PacketLenFacts DEF Sessions
      <4>2. ctx' = tchngs([ctx EXCEPT !.curpv = b], "NAME")
        BY <1>1, <1>3, <1>5, <3>1 DEF rctVersion
      <4> QED
        BY <1>2, <3>1, <4>1, <4>2, InvFacts, ConstantFacts
           DEF Announced, NameEnd, Sessions
    <3>2. CASE ~(b < 32)
      <4> DEFINE c == [ctx EXCEPT !.curpv = 0]
                 d == [c EXCEPT !.rem = StrLen - 1]
      <4>1. c \in Sessions /\ c.evt = ctx.evt /\ c.curpv = 0
        BY InvFacts DEF Sessions
      <4>2. /\ d \in Sessions /\ d.evt = ctx.evt
            /\ d.curpv = 0 /\ d.rem = StrLen - 1
        <5> HIDE DEF c
        <5>1. StrLen - 1 \in 0 .. StrLen
          BY ConstantFacts
        <5> QED
          BY <4>1, <5>1 DEF Sessions
      <4>3. d = [ctx EXCEPT !.curpv = 0, !.rem = StrLen - 1]
        BY InvFacts DEF Sessions
      <4>4. ctx' = tchng(d, "NAME")
        BY <1>1, <1>3, <1>5, <3>2, <4>3 DEF rctVersion
      <4>5. Announced(pkt.ver) = 0 /\ NameEnd(pkt.ver) - 2 = StrLen - 1
        BY <1>2, <3>2, ConstantFacts DEF Announced, NameEnd
      <4> HIDE DEF d
      <4> QED
        BY <4>2, <4>4, <4>5
    <3> QED
      BY <3>1, <3>2
  <2>4. /\ ctx' \in Sessions
        /\ ctx'.type = "NAME" /\ ctx'.evt = ctx.evt
        /\ ctx'.rem = NameEnd(pkt.ver) - 2
        /\ ctx'.curpv = Announced(pkt.ver)
    BY <2>3, TchngFacts DEF ClientTypes
  <2>5. FieldOfPacket'
    BY <1>2, <2>1, <2>4 DEF FieldOfPacket, TypesOf
  <2>6. Offset'
    BY <2>1, <2>2, <2>4, InvFacts, PacketLenFacts DEF Offset
  <2> QED
    BY <1>2, <2>1, <2>2, <2>4, <2>5, <2>6, InvFacts
       DEF ReaderInv, TypeOK, StringTypes, MCPVMAX
<1> QED
  BY <1>3, <1>4, <1>5

(* The three string readers start alike: k bytes of the string are taken,  *)
(* and read is the session before it decides what follows the string.      *)
LEMMA StringStep ==
    ASSUME ReaderInv, ctx.type \in StringTypes,
           NEW qty \in 0 .. MaxQty, Take(qty)
    PROVE  LET read == reads(ctx, qty)
               k == Min2(qty, ctx.rem)
           IN  /\ k \in 0 .. ctx.rem
               /\ pos' = pos + k /\ pkt' = pkt
               /\ read \in Sessions
               /\ read.rem = ctx.rem - k
               /\ read.curpv = ctx.curpv
               /\ read.evt = ctx.evt /\ read.type = ctx.type
<1>1. ctx \in Sessions /\ qty \in Nat
  BY InvFacts, ConstantFacts
<1>2. /\ Min2(qty, ctx.rem) \in 0 .. ctx.rem
      /\ reads(ctx, qty) \in Sessions
      /\ reads(ctx, qty) = [ctx EXCEPT !.rem = ctx.rem - Min2(qty, ctx.rem)]
  BY <1>1, ReadsFacts
<1>3. pos' = pos + Min2(qty, ctx.rem) /\ pkt' = pkt
  BY DEF Take, Taken
<1> QED
  BY <1>1, <1>2, <1>3 DEF Sessions

(* Some of the string is still to come: its type stays.                    *)
LEMMA PartOfString ==
    ASSUME ReaderInv, ctx.type \in StringTypes,
           NEW qty \in 0 .. MaxQty, Take(qty),
           reads(ctx, qty).rem # 0, ctx' = reads(ctx, qty)
    PROVE  ReaderInv'
<1> DEFINE k == Min2(qty, ctx.rem)
<1>1. /\ k \in 0 .. ctx.rem /\ pos' = pos + k /\ pkt' = pkt
      /\ ctx' \in Sessions /\ ctx'.rem = ctx.rem - k
      /\ ctx'.curpv = ctx.curpv
      /\ ctx'.evt = ctx.evt /\ ctx'.type = ctx.type
  BY StringStep
<1>2. ctx'.rem > 0 /\ ctx.rem \in Nat
  BY <1>1, InvFacts
<1> HIDE DEF k
<1>3. pos' \in Nat /\ pos' >= pos
  BY <1>1, <1>2, InvFacts
<1>4. FieldOfPacket'
  BY <1>1, <1>2, InvFacts DEF ReaderInv, FieldOfPacket, StringTypes, TypesOf
<1>5. Offset'
  BY <1>1, <1>2, InvFacts, PacketLenFacts, ConstantFacts
     DEF ReaderInv, Offset, StringTypes
<1> QED
  BY <1>1, <1>2, <1>3, <1>4, <1>5, InvFacts
     DEF ReaderInv, TypeOK, StringTypes, MCPVMAX

(* The packet ends: the session is idle with all of it taken.              *)
LEMMA EndOfPacket ==
    ASSUME ReaderInv, ctx.type \notin {"EVTNO", "VERSION"},
           pos' = PacketLen(pkt), pkt' = pkt,
           NEW c \in Sessions, c.curpv = ctx.curpv, ctx' = finish(c)
    PROVE  ReaderInv'
<1>1. /\ ctx' \in Sessions /\ ctx'.type = "EVTNO" /\ ctx'.evt = "NOTHING"
      /\ ctx'.curpv = ctx.curpv
  BY FinishFacts
<1>2. pkt \in Packets /\ PacketLen(pkt) \in Nat
  BY InvFacts, PacketLenFacts
<1>3. cedecode(pkt.no) = "GREETING" => ctx.curpv = Announced(pkt.ver)
  BY InvFacts, <1>2 DEF ReaderInv, FieldOfPacket, TypesOf
<1>4. FieldOfPacket'
  BY <1>1, <1>3 DEF FieldOfPacket
<1>5. Offset'
  BY <1>1 DEF Offset
<1> QED
  BY <1>1, <1>2, <1>4, <1>5, InvFacts
     DEF ReaderInv, TypeOK, StringTypes, MCPVMAX

(* A string ends and the next field of the same greeting begins.           *)
LEMMA NextField ==
    ASSUME ReaderInv, ctx.type \in {"NAME", "PASS"}, pkt' = pkt,
           pos' \in Nat, pos' > 1, ctx' \in Sessions,
           ctx'.curpv = ctx.curpv, ctx'.evt = ctx.evt,
           \/ /\ ctx'.type = "PASS" /\ ctx'.rem = StrLen
              /\ ctx.curpv >= 3 /\ pos' = NameEnd(pkt.ver)
           \/ /\ ctx'.type = "CFLGS"
              /\ ctx.curpv >= 6 /\ pos' = NameEnd(pkt.ver) + StrLen
    PROVE  ReaderInv'
<1>1. FieldOfPacket'
  BY InvFacts DEF FieldOfPacket, TypesOf
<1>2. Offset'
  BY InvFacts, PacketLenFacts, ConstantFacts DEF Offset
<1> QED
  BY <1>1, <1>2, InvFacts, ConstantFacts
     DEF ReaderInv, TypeOK, StringTypes, MCPVMAX

(* rctName keeps it: it ends the greeting, or is followed by a password.   *)
LEMMA ReadNameInv == ReaderInv /\ ReadName => ReaderInv'
<1> SUFFICES ASSUME ReaderInv, ReadName PROVE ReaderInv'
  OBVIOUS
<1>1. PICK qty \in 0 .. MaxQty : ctx' = rctName(ctx, qty) /\ Take(qty)
  BY DEF ReadName
<1>2. ctx.type = "NAME" /\ ctx.type \in StringTypes
  BY DEF ReadName, StringTypes
<1> DEFINE read == reads(ctx, qty)
           k == Min2(qty, ctx.rem)
<1>3. /\ k \in 0 .. ctx.rem /\ pos' = pos + k /\ pkt' = pkt
      /\ read \in Sessions /\ read.rem = ctx.rem - k
      /\ read.curpv = ctx.curpv /\ read.evt = ctx.evt
  BY <1>1, <1>2, StringStep
<1>4. CASE read.rem # 0
  BY <1>1, <1>2, <1>4, PartOfString DEF rctName
<1>5. CASE read.rem = 0
  <2>1. pos' = NameEnd(pkt.ver)
    BY <1>2, <1>3, <1>5, InvFacts, PacketLenFacts DEF ReaderInv, Offset
  <2>2. CASE read.curpv < 3
    <3>1. PacketLen(pkt) = NameEnd(pkt.ver)
      BY <1>2, <1>3, <2>2, InvFacts, PacketLenFacts, ConstantFacts
         DEF GreetingLen
    <3>2. ctx' = finish(read)
      BY <1>1, <1>5, <2>2 DEF rctName
    <3> QED
      BY <1>2, <1>3, <2>1, <3>1, <3>2, EndOfPacket
  <2>3. CASE read.curpv >= 3
    <3>1. ctx' = tchngs(read, "PASS")
      BY <1>1, <1>3, <1>5, <2>3, InvFacts DEF rctName
    <3>2. /\ ctx' \in Sessions /\ ctx'.type = "PASS" /\ ctx'.rem = StrLen
          /\ ctx'.evt = read.evt /\ ctx'.curpv = read.curpv
      BY <1>3, <3>1, TchngFacts DEF ClientTypes
    <3> QED
      BY <1>2, <1>3, <2>1, <2>3, <3>2, NextField, InvFacts,
         PacketLenFacts, ConstantFacts
  <2> QED
    BY <1>3, <2>2, <2>3, InvFacts
<1> QED
  BY <1>4, <1>5

(* rctPassword keeps it: it ends the greeting, or is followed by flags.    *)
LEMMA ReadPasswordInv == ReaderInv /\ ReadPassword => ReaderInv'
<1> SUFFICES ASSUME ReaderInv, ReadPassword PROVE ReaderInv'
  OBVIOUS
<1>1. PICK qty \in 0 .. MaxQty : ctx' = rctPassword(ctx, qty) /\ Take(qty)
  BY DEF ReadPassword
<1>2. ctx.type = "PASS" /\ ctx.type \in StringTypes
  BY DEF ReadPassword, StringTypes
<1> DEFINE read == reads(ctx, qty)
           k == Min2(qty, ctx.rem)
<1>3. /\ k \in 0 .. ctx.rem /\ pos' = pos + k /\ pkt' = pkt
      /\ read \in Sessions /\ read.rem = ctx.rem - k
      /\ read.curpv = ctx.curpv /\ read.evt = ctx.evt
  BY <1>1, <1>2, StringStep
<1>4. CASE read.rem # 0
  BY <1>1, <1>2, <1>4, PartOfString DEF rctPassword
<1>5. CASE read.rem = 0
  <2>1. pos' = NameEnd(pkt.ver) + StrLen
    BY <1>2, <1>3, <1>5, InvFacts, PacketLenFacts, ConstantFacts
       DEF ReaderInv, Offset
  <2>2. CASE read.curpv < 6
    <3>1. PacketLen(pkt) = NameEnd(pkt.ver) + StrLen
      BY <1>2, <1>3, <2>2, InvFacts, PacketLenFacts, ConstantFacts
         DEF GreetingLen, ReaderInv
    <3>2. ctx' = finish(read)
      BY <1>1, <1>5, <2>2 DEF rctPassword
    <3> QED
      BY <1>2, <1>3, <2>1, <3>1, <3>2, EndOfPacket
  <2>3. CASE read.curpv >= 6
    <3>1. ctx' = tchng(read, "CFLGS")
      BY <1>1, <1>3, <1>5, <2>3, InvFacts DEF rctPassword
    <3>2. /\ ctx' \in Sessions /\ ctx'.type = "CFLGS"
          /\ ctx'.evt = read.evt /\ ctx'.curpv = read.curpv
      BY <1>3, <3>1, TchngFacts DEF ClientTypes
    <3> QED
      BY <1>2, <1>3, <2>1, <2>3, <3>2, NextField, InvFacts,
         PacketLenFacts, ConstantFacts
  <2> QED
    BY <1>3, <2>2, <2>3, InvFacts
<1> QED
  BY <1>4, <1>5

(* rctMessage keeps it: a message ends the packet.                         *)
LEMMA ReadMessageInv == ReaderInv /\ ReadMessage => ReaderInv'
<1> SUFFICES ASSUME ReaderInv, ReadMessage PROVE ReaderInv'
  OBVIOUS
<1>1. PICK qty \in 0 .. MaxQty : ctx' = rctMessage(ctx, qty) /\ Take(qty)
  BY DEF ReadMessage
<1>2. ctx.type = "MSG" /\ ctx.type \in StringTypes
  BY DEF ReadMessage, StringTypes
<1> DEFINE read == reads(ctx, qty)
           k == Min2(qty, ctx.rem)
<1>3. /\ k \in 0 .. ctx.rem /\ pos' = pos + k /\ pkt' = pkt
      /\ read \in Sessions /\ read.rem = ctx.rem - k
      /\ read.curpv = ctx.curpv
  BY <1>1, <1>2, StringStep
<1>4. CASE read.rem # 0
  BY <1>1, <1>2, <1>4, PartOfString DEF rctMessage
<1>5. CASE read.rem = 0
  <2>1. pos' = PacketLen(pkt)
    BY <1>2, <1>3, <1>5, InvFacts, PacketLenFacts, ConstantFacts
       DEF ReaderInv, Offset
  <2>2. ctx' = finish(read)
    BY <1>1, <1>5 DEF rctMessage
  <2> QED
    BY <1>2, <1>3, <2>1, <2>2, EndOfPacket
<1> QED
  BY <1>4, <1>5

(* rctActorNumber keeps it: the field that follows is the packet's.        *)
LEMMA ReadActorNumberInv == ReaderInv /\ ReadActorNumber => ReaderInv'
<1> SUFFICES ASSUME ReaderInv, ReadActorNumber PROVE ReaderInv'
  OBVIOUS
<1>1. PICK qty \in 0 .. MaxQty : ctx' = rctActorNumber(ctx, qty) /\ Take(qty)
  BY DEF ReadActorNumber
<1>2. /\ ctx.type = "ACTRNO" /\ pos = 1 /\ ctx.evt = cedecode(pkt.no)
      /\ cedecode(pkt.no) \in {"PLYRSTAT", "CHATMSG"} /\ ctx \in Sessions
  BY InvFacts DEF ReadActorNumber, ReaderInv, Offset
<1>3. qty \in Nat /\ mcctlen(ctx, "ACTRNO") = 1
  BY ConstantFacts, InvFacts DEF mcctlen, MCPVMAX
<1>4. CASE qty = 0
  <2>1. UNCHANGED vars
    BY <1>1, <1>2, <1>3, <1>4, InvFacts
       DEF rctActorNumber, Take, Taken, StringTypes, vars
  <2> QED
    BY <2>1, StutterInv
<1>5. CASE qty >= 1
  <2>1. pos' = 2 /\ pkt' = pkt
    BY <1>1, <1>2, <1>3, <1>5 DEF Take, Taken, StringTypes
  <2>2. CASE cedecode(pkt.no) = "CHATMSG"
    <3>1. ctx' = tchngs(ctx, "MSG")
      BY <1>1, <1>2, <1>3, <1>5, <2>2 DEF rctActorNumber
    <3>2. /\ ctx' \in Sessions /\ ctx'.type = "MSG" /\ ctx'.rem = StrLen
          /\ ctx'.evt = ctx.evt /\ ctx'.curpv = ctx.curpv
      BY <1>2, <3>1, TchngFacts DEF ClientTypes
    <3> QED
      BY <1>2, <2>1, <2>2, <3>2, InvFacts, ConstantFacts
         DEF ReaderInv, TypeOK, FieldOfPacket, TypesOf, Offset, StringTypes
  <2>3. CASE cedecode(pkt.no) = "PLYRSTAT"
    <3>1. ctx' = tchng(ctx, "ACTRSTAT")
      BY <1>1, <1>2, <1>3, <1>5, <2>3 DEF rctActorNumber
    <3>2. /\ ctx' \in Sessions /\ ctx'.type = "ACTRSTAT"
          /\ ctx'.evt = ctx.evt /\ ctx'.curpv = ctx.curpv
      BY <1>2, <3>1, TchngFacts DEF ClientTypes
    <3> QED
      BY <1>2, <2>1, <2>3, <3>2, InvFacts, ConstantFacts
         DEF ReaderInv, TypeOK, FieldOfPacket, TypesOf, Offset, StringTypes
  <2> QED
    BY <1>2, <2>2, <2>3
<1> QED
  BY <1>3, <1>4, <1>5

(* The readers of whole fields keep it: such a field ends the packet.      *)
LEMMA ReadFixedInv == ReaderInv /\ ReadFixed => ReaderInv'
<1> SUFFICES ASSUME ReaderInv, ReadFixed PROVE ReaderInv'
  OBVIOUS
<1>1. PICK qty \in 0 .. MaxQty : ctx' = rctFixed(ctx, qty) /\ Take(qty)
  BY DEF ReadFixed
<1>2. /\ ctx.type \in {"BLKCH", "ACTRSTAT", "CFLGS"}
      /\ ctx \in Sessions /\ pos \in Nat
  BY InvFacts DEF ReadFixed
<1>3. PacketLen(pkt) = pos + mcctlen(ctx, ctx.type)
  <2>1. CASE ctx.type = "BLKCH"
    BY <2>1, InvFacts, PacketLenFacts DEF mcctlen, MCPVMAX, ReaderInv, Offset
  <2>2. CASE ctx.type = "ACTRSTAT"
    BY <2>2, InvFacts, PacketLenFacts DEF mcctlen, MCPVMAX, ReaderInv, Offset
  <2>3. CASE ctx.type = "CFLGS"
    <3>1. PacketLen(pkt) = GreetingLen(pkt.ver) /\ ctx.curpv >= 6
      BY <2>3, InvFacts, PacketLenFacts DEF ReaderInv
    <3>2. mcctlen(ctx, "CFLGS") = 1
      BY InvFacts DEF mcctlen, MCPVMAX
    <3> QED
      BY <2>3, <3>1, <3>2, InvFacts, PacketLenFacts, ConstantFacts
         DEF ReaderInv, Offset, GreetingLen
  <2> QED
    BY <1>2, <2>1, <2>2, <2>3
<1>4. ctx.type \notin StringTypes /\ qty \in Nat
  BY <1>2, ConstantFacts DEF StringTypes
<1>5. CASE mcctlen(ctx, ctx.type) > qty
  <2>1. UNCHANGED vars
    BY <1>1, <1>2, <1>4, <1>5 DEF rctFixed, Take, Taken, vars
  <2> QED
    BY <2>1, StutterInv
<1>6. CASE ~(mcctlen(ctx, ctx.type) > qty)
  <2>1. pos' = PacketLen(pkt) /\ pkt' = pkt /\ ctx' = finish(ctx)
    BY <1>1, <1>3, <1>4, <1>6 DEF rctFixed, Take, Taken
  <2> QED
    BY <1>2, <2>1, EndOfPacket
<1> QED
  BY <1>5, <1>6

(* Every step keeps the invariant.                                         *)
LEMMA NextInv == ReaderInv /\ [Next]_vars => ReaderInv'
BY StutterInv, NextPacketInv, ReadEventNumberInv, ReadVersionInv,
   ReadNameInv, ReadPasswordInv, ReadMessageInv, ReadActorNumberInv,
   ReadFixedInv DEF Next

(* The invariant holds of every execution.                                 *)
THEOREM Invariance == Spec => []ReaderInv
BY InitInv, NextInv, PTL DEF Spec

(* The session and the packet keep their types.                            *)
THEOREM TypeCorrect == Spec => []TypeOK
<1>1. ReaderInv => TypeOK
  BY DEF ReaderInv
<1> QED
  BY <1>1, Invariance, PTL

(* However the bytes are cut up, mcsread never takes a byte of the next    *)
(* packet and expects a packet number only between packets.                *)
THEOREM FramingCorrect == Spec => []Framing
<1>1. ReaderInv => Framing
  BY BoundaryFacts DEF Boundary, Framing
<1> QED
  BY <1>1, Invariance, PTL

(* The field being read is one of the packet's, and the rest of a greeting *)
(* is read by the version it announced.                                    *)
THEOREM FieldsCorrect == Spec => []FieldOfPacket
<1>1. ReaderInv => FieldOfPacket
  BY DEF ReaderInv
<1> QED
  BY <1>1, Invariance, PTL

-----------------------------------------------------------------------------
(* Taking bytes never moves backwards in the packet.                       *)
LEMMA TakeForward ==
    ASSUME ReaderInv, NEW qty \in 0 .. MaxQty, Take(qty)
    PROVE  pos' >= pos /\ pkt' = pkt
<1>1. qty \in Nat /\ ctx \in Sessions /\ pos \in Nat
  BY InvFacts, ConstantFacts
<1>2. Min2(qty, ctx.rem) \in 0 .. ctx.rem
  BY <1>1, ReadsFacts
<1>3. ctx.rem \in Nat
  BY InvFacts, ConstantFacts
<1>4. mcctlen(ctx, ctx.type) \in Nat
  BY ConstantFacts DEF mcctlen
<1> QED
  BY <1>1, <1>2, <1>3, <1>4 DEF Take, Taken

(* Each step of the reader is a step of the stream of packets.             *)
LEMMA StreamStep ==
    ASSUME ReaderInv, ReaderInv', [Next]_vars
    PROVE  [Stream!Next]_(Stream!vars)
<1>1. pkt \in Packets /\ pkt' \in Packets
  BY DEF ReaderInv, TypeOK
<1>2. /\ pos \in 0 .. PacketLen(pkt) /\ PacketLen(pkt) \in Nat
      /\ (ctx.type = "EVTNO") <=> (pos \in {0, PacketLen(pkt)})
      /\ PacketLen(pkt) >= 2
  BY BoundaryFacts DEF Boundary
<1>3. /\ pos' \in 0 .. PacketLen(pkt')
      /\ (ctx'.type = "EVTNO") <=> (pos' \in {0, PacketLen(pkt')})
  <2>1. Boundary'
    BY BoundaryFacts, PTL
  <2> QED
    BY <2>1 DEF Boundary
<1>4. CASE NextPacket
  <2>1. Stream!Begin
    BY <1>1, <1>4 DEF NextPacket, Stream!Begin
  <2> QED
    BY <2>1 DEF Stream!Next
<1>5. ASSUME pkt' = pkt, pos' >= pos PROVE [Stream!Next]_(Stream!vars)
  <2>1. CASE pos' = pos
    BY <1>2, <1>3, <1>5, <2>1 DEF Stream!vars
  <2>2. CASE pos' # pos
    <3>1. pos < PacketLen(pkt) /\ pos' \in pos + 1 .. PacketLen(pkt)
      BY <1>2, <1>3, <1>5, <2>2
    <3>2. (ctx'.type = "EVTNO") = (pos' = PacketLen(pkt))
      BY <1>2, <1>3, <1>5, <3>1
    <3>3. Stream!Advance
      BY <1>5, <3>1, <3>2 DEF Stream!Advance
    <3> QED
      BY <3>3 DEF Stream!Next
  <2> QED
    BY <2>1, <2>2
<1>6. CASE UNCHANGED vars
  BY <1>2, <1>5, <1>6 DEF vars
<1>7. CASE Next /\ ~NextPacket
  <2>1. PICK qty \in 0 .. MaxQty : Take(qty)
    BY <1>7 DEF Next, ReadEventNumber, ReadVersion, ReadName, ReadPassword,
                ReadMessage, ReadActorNumber, ReadFixed
  <2> QED
    BY <2>1, <1>5, TakeForward
<1> QED
  BY <1>4, <1>6, <1>7

(* The reader implements the abstract stream: packets one after the other, *)
(* no byte skipped or handled twice, and the session idle between packets. *)
THEOREM Refinement == Spec => StreamSpec
<1>1. Init => Stream!Init
  BY DEF Init, Stream!Init, ResetSession
<1>2. ReaderInv /\ ReaderInv' /\ [Next]_vars => [Stream!Next]_(Stream!vars)
  BY StreamStep
<1> QED
  BY <1>1, <1>2, Invariance, PTL DEF Spec, StreamSpec, Stream!Spec
=============================================================================
