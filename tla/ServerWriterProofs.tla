-------------------------- MODULE ServerWriterProofs --------------------------
(***************************************************************************)
(* Proofs about ServerWriter, for strings and arrays of any length and any *)
(* buffer that suits the packets (WriterAssumption).                       *)
(***************************************************************************)
EXTENDS ServerWriter, TLAPS

(* The events client.c sends, and those that have fields.                  *)
Sends == {"PGREETING", "LDATA", "ENEW", "CMSG", "PBYE"} \cup Generic

Fielded == Sends \ {"PING", "LNEW"}

(* The numbers of an event's fields that a client of version v is sent.    *)
Numbers(e, v) ==
    CASE e = "PGREETING" ->
            {i \in 1 .. 4 : /\ i = 1 => v # 0
                            /\ i = 3 => v >= 3
                            /\ i = 4 => v >= 6}
      [] e \in {"LDATA", "ENEW", "EDIFF"} -> 1 .. 3
      [] e \in {"BUPDATE", "ESTATE", "ESLIDE", "EHEAD", "CMSG"} -> 1 .. 2
      [] OTHER -> {1}

(* The fields that hold data, and their size.                              *)
IsData(e, i) ==
    \/ e = "PGREETING" /\ i \in {2, 3}
    \/ e \in {"LDATA", "ENEW", "CMSG"} /\ i = 2
    \/ e = "PBYE" /\ i = 1

Size(e) == IF e = "LDATA" THEN ArrayLen ELSE StrLen

(* Where a field begins in its packet.                                     *)
Offset(e, v, i) ==
    CASE i = 1 -> 1
      [] i = 2 -> CASE e = "PGREETING" -> IF v = 0 THEN 1 ELSE 2
                    [] e = "LDATA" -> 3
                    [] e = "BUPDATE" -> 7
                    [] OTHER -> 2
      [] i = 3 -> IF e = "EDIFF" THEN 5
                  ELSE IF e = "LDATA" THEN 3 + ArrayLen ELSE 2 + StrLen
      [] i = 4 -> 2 + StrLen + StrLen

Width(e, v, i) ==
    IF IsData(e, i) THEN Size(e) ELSE Fields(e, v)[i].len

(* The properties of the writers of fields.                                *)
IsFixed(f, len, rem, last) ==
    ~f.data /\ f.len = len /\ f.rem = rem /\ (f.last <=> last)

HoldsData(f, rem, last) == f.data /\ f.rem = rem /\ (f.last <=> last)

(* What the writers of wse.c write.                                        *)
LEMMA WriterFacts ==
    /\ IsFixed(bwti0, 1, 0, FALSE) /\ IsFixed(bwtis, 1, StrLen, FALSE)
    /\ IsFixed(bwtr, 1, 0, TRUE) /\ IsFixed(d3wti0, 3, 0, FALSE)
    /\ IsFixed(d3wtr, 3, 0, TRUE) /\ IsFixed(estwtr, 8, 0, TRUE)
    /\ IsFixed(i3wti0, 6, 0, FALSE) /\ IsFixed(i3wtr, 6, 0, TRUE)
    /\ IsFixed(iwtia, 2, ArrayLen, FALSE) /\ IsFixed(uwtr, 1, 0, TRUE)
    /\ IsFixed(u2wtr, 2, 0, TRUE)
    /\ HoldsData(swti0, 0, FALSE) /\ HoldsData(swtis, StrLen, FALSE)
    /\ HoldsData(swtr, 0, TRUE) /\ HoldsData(awti0, 0, FALSE)
BY DEF IsFixed, HoldsData, bwti0, bwtis, bwtr, d3wti0, d3wtr, estwtr, i3wti0,
       i3wtr, iwtia, uwtr, u2wtr, swti0, swtis, swtr, awti0, Fixed, Data, Last_

(* The lengths of types and packets are numbers.                           *)
LEMMA SizeFacts ==
    /\ StrLen \in Nat /\ StrLen > 1 /\ ArrayLen \in Nat /\ ArrayLen > 0
    /\ OutLen \in Nat /\ OutLen >= 10
    /\ Versions \subseteq 0 .. 7
BY LengthAssumption, WriterAssumption DEF MCPVMAX

(* Every field leads to the next one of the packet, or to the packet's end.*)
FieldFits(f, e, v, i) ==
    /\ f.data <=> IsData(e, i)
    /\ ~f.data => f.len \in 1 .. 8
    /\ f.rem \in {0, StrLen, ArrayLen}
    /\ Offset(e, v, i) \in Nat
    /\ Offset(e, v, i) + Width(e, v, i) <= ServerPacketLen(e, v)
    /\ f.last => /\ Offset(e, v, i) + Width(e, v, i) = ServerPacketLen(e, v)
                 /\ \A j \in Numbers(e, v) : j <= i
    /\ ~f.last => /\ i + 1 \in Numbers(e, v)
                  /\ Offset(e, v, i + 1) = Offset(e, v, i) + Width(e, v, i)
                  /\ Offset(e, v, i + 1) < ServerPacketLen(e, v)
                  /\ IsData(e, i + 1) => f.rem = Size(e)
    /\ e \in Generic => ServerPacketLen(e, v) <= 10
    /\ e \notin Generic /\ ~f.data =>
          \/ f.len = 1
          \/ f.len = 2 /\ Offset(e, v, i) = 1
          \/ f.len = 8 /\ Offset(e, v, i) = 2 + StrLen
    /\ e \in OneField => f.last

(* The fields of each event by number, *)
LEMMA FieldList ==
    ASSUME NEW e \in Fielded, NEW v \in 0 .. 7
    PROVE  /\ e = "PGREETING" =>
                /\ Fields(e, v)[1] = bwtis
                /\ Fields(e, v)[2] = IF v < 3 THEN swtr ELSE swtis
                /\ Fields(e, v)[3] = IF v < 6 THEN swtr ELSE swti0
                /\ Fields(e, v)[4] = uwtr
           /\ e = "LDATA" => /\ Fields(e, v)[1] = iwtia
                             /\ Fields(e, v)[2] = awti0
                             /\ Fields(e, v)[3] = bwtr
           /\ e = "LDIM" => Fields(e, v)[1] = i3wtr
           /\ e = "BUPDATE" => Fields(e, v)[1] = i3wti0 /\ Fields(e, v)[2] = bwtr
           /\ e = "ENEW" => /\ Fields(e, v)[1] = bwtis
                            /\ Fields(e, v)[2] = swti0
                            /\ Fields(e, v)[3] = estwtr
           /\ e = "ESTATE" => Fields(e, v)[1] = bwti0 /\ Fields(e, v)[2] = estwtr
           /\ e = "EDIFF" => /\ Fields(e, v)[1] = bwti0
                             /\ Fields(e, v)[2] = d3wti0
                             /\ Fields(e, v)[3] = u2wtr
           /\ e = "ESLIDE" => Fields(e, v)[1] = bwti0 /\ Fields(e, v)[2] = d3wtr
           /\ e = "EHEAD" => Fields(e, v)[1] = bwti0 /\ Fields(e, v)[2] = u2wtr
           /\ e = "EDIED" => Fields(e, v)[1] = bwtr
           /\ e = "CMSG" => Fields(e, v)[1] = bwtis /\ Fields(e, v)[2] = swtr
           /\ e = "PBYE" => Fields(e, v)[1] = swtr
BY DEF Fields, sepgw, seldtw, seldmw, sebuw, seenw, seestw, seedw, seesdw, seehw,
       seexw, secmw, sepbw

(* and its length. *)
LEMMA LengthList ==
    ASSUME NEW e \in Sends, NEW v \in 0 .. 7
    PROVE  /\ e = "PGREETING" =>
                ServerPacketLen(e, v) =
                   1 + (IF v = 0 THEN 0 ELSE 1) + StrLen
                     + (IF v < 3 THEN 0 ELSE StrLen) + (IF v < 6 THEN 0 ELSE 1)
           /\ e \in {"PING", "LNEW"} => ServerPacketLen(e, v) = 1
           /\ e = "LDATA" => ServerPacketLen(e, v) = 4 + ArrayLen
           /\ e = "LDIM" => ServerPacketLen(e, v) = 7
           /\ e = "BUPDATE" => ServerPacketLen(e, v) = 8
           /\ e = "ENEW" => ServerPacketLen(e, v) = 10 + StrLen
           /\ e = "ESTATE" => ServerPacketLen(e, v) = 10
           /\ e = "EDIFF" => ServerPacketLen(e, v) = 7
           /\ e = "ESLIDE" => ServerPacketLen(e, v) = 5
           /\ e = "EHEAD" => ServerPacketLen(e, v) = 4
           /\ e = "EDIED" => ServerPacketLen(e, v) = 2
           /\ e = "CMSG" => ServerPacketLen(e, v) = 2 + StrLen
           /\ e = "PBYE" => ServerPacketLen(e, v) = 1 + StrLen
<1>1. /\ mcstlen.EVTNO = 1 /\ mcstlen.VERSION = 1 /\ mcstlen.NAME = StrLen
      /\ mcstlen.DATALEN = 2 /\ mcstlen.DATACHUNK = ArrayLen /\ mcstlen.PERCENT = 1
      /\ mcstlen.LVLSIZE = 6 /\ mcstlen.BLKCH = 7 /\ mcstlen.ACTRNO = 1
      /\ mcstlen.ACTRSTAT = 8 /\ mcstlen.ACTRSLID = 3 /\ mcstlen.ACTRHEAD = 2
      /\ mcstlen.MSG = StrLen /\ mcstlen.PLYRFLGS = 1
  BY DEF mcstlen
<1> QED BY <1>1, SizeFacts DEF ServerPacketLen

(* One field leads to the next, or is the packet's last and ends it. *)
LEMMA FieldFacts ==
    ASSUME NEW e \in Fielded, NEW v \in 0 .. 7, NEW i \in Numbers(e, v)
    PROVE  FieldFits(Fields(e, v)[i], e, v, i)
<1>0. e \in Sends
  BY DEF Fielded
<1>1. CASE e = "PGREETING"
  <2>1. i \in 1 .. 4 /\ (i = 1 => v # 0) /\ (i = 3 => v >= 3) /\ (i = 4 => v >= 6)
    BY <1>1 DEF Numbers
  <2>2. CASE i = 1
    BY <1>0, <1>1, <2>1, <2>2, FieldList, LengthList, WriterFacts, SizeFacts
       DEF FieldFits, IsFixed, IsData, Size, Width, Offset, Numbers, Generic, OneField
  <2>3. CASE i = 2
    BY <1>0, <1>1, <2>1, <2>3, FieldList, LengthList, WriterFacts, SizeFacts
       DEF FieldFits, HoldsData, IsData, Size, Width, Offset, Numbers, Generic, OneField
  <2>4. CASE i = 3
    BY <1>0, <1>1, <2>1, <2>4, FieldList, LengthList, WriterFacts, SizeFacts
       DEF FieldFits, HoldsData, IsData, Size, Width, Offset, Numbers, Generic, OneField
  <2>5. CASE i = 4
    BY <1>0, <1>1, <2>1, <2>5, FieldList, LengthList, WriterFacts, SizeFacts
       DEF FieldFits, IsFixed, IsData, Size, Width, Offset, Numbers, Generic, OneField
  <2> QED BY <2>1, <2>2, <2>3, <2>4, <2>5
<1>2. CASE e \in {"LDATA", "ENEW", "CMSG"}
  <2>1. i \in 1 .. 3 /\ (i = 3 => e # "CMSG")
    BY <1>2 DEF Numbers
  <2>2. CASE i = 1
    BY <1>0, <1>2, <2>1, <2>2, FieldList, LengthList, WriterFacts, SizeFacts
       DEF FieldFits, IsFixed, IsData, Size, Width, Offset, Numbers, Generic, OneField
  <2>3. CASE i = 2
    BY <1>0, <1>2, <2>1, <2>3, FieldList, LengthList, WriterFacts, SizeFacts
       DEF FieldFits, HoldsData, IsData, Size, Width, Offset, Numbers, Generic, OneField
  <2>4. CASE i = 3
    BY <1>0, <1>2, <2>1, <2>4, FieldList, LengthList, WriterFacts, SizeFacts
       DEF FieldFits, IsFixed, IsData, Size, Width, Offset, Numbers, Generic, OneField
  <2> QED BY <2>1, <2>2, <2>3, <2>4
<1>3. CASE e = "PBYE"
  BY <1>0, <1>3, FieldList, LengthList, WriterFacts, SizeFacts
     DEF FieldFits, HoldsData, IsData, Size, Width, Offset, Numbers, Generic, OneField
<1>4. CASE e \in {"LDIM", "EDIED"}
  BY <1>0, <1>4, FieldList, LengthList, WriterFacts, SizeFacts
     DEF FieldFits, IsFixed, IsData, Size, Width, Offset, Numbers, Generic, OneField
<1>5. CASE e = "EDIFF"
  BY <1>0, <1>5, FieldList, LengthList, WriterFacts, SizeFacts
     DEF FieldFits, IsFixed, IsData, Size, Width, Offset, Numbers, Generic, OneField
<1>6. CASE e \in {"BUPDATE", "ESTATE"}
  BY <1>0, <1>6, FieldList, LengthList, WriterFacts, SizeFacts
     DEF FieldFits, IsFixed, IsData, Size, Width, Offset, Numbers, Generic, OneField
<1>7. CASE e \in {"ESLIDE", "EHEAD"}
  BY <1>0, <1>7, FieldList, LengthList, WriterFacts, SizeFacts
     DEF FieldFits, IsFixed, IsData, Size, Width, Offset, Numbers, Generic, OneField
<1> QED
  BY <1>1, <1>2, <1>3, <1>4, <1>5, <1>6, <1>7 DEF Fielded, Sends, Generic

(* The lengths of the data of an event: a new entity may have a refused    *)
(* name, too.                                                              *)
Given(e, n) == n \in 1 .. Size(e) \/ (e = "ENEW" /\ n = Refused)

(* The data that the senders are called with.                              *)
LEMMA CallFacts ==
    ASSUME NEW call \in Calls
    PROVE  /\ call.evt \in Sends
           /\ call.data \in [1 .. 3 -> Null .. StrLen \cup 0 .. ArrayLen]
           /\ \A i \in 1 .. 3 :
                /\ IsData(call.evt, i) => Given(call.evt, call.data[i])
                /\ ~IsData(call.evt, i) => call.data[i] = Null
<1>1. /\ \A n \in Lens : n \in 1 .. StrLen
      /\ \A n \in ChunkLens : n \in 1 .. ArrayLen
  BY WriterAssumption
<1>2. NoData \in [1 .. 3 -> Null .. StrLen \cup 0 .. ArrayLen]
  BY SizeFacts DEF NoData, Null
<1>3. ASSUME NEW e, NEW j \in {1, 2}, NEW n,
             n \in 1 .. StrLen \/ n \in 1 .. ArrayLen \/ n = Refused,
             call = Packet(e, [NoData EXCEPT ![j] = n])
      PROVE  /\ call.evt = e
             /\ call.data \in [1 .. 3 -> Null .. StrLen \cup 0 .. ArrayLen]
             /\ \A i \in 1 .. 3 : call.data[i] = IF i = j THEN n ELSE Null
  <2>1. call.evt = e /\ call.data = [NoData EXCEPT ![j] = n]
    BY <1>3 DEF Packet
  <2>2. n \in Null .. StrLen \cup 0 .. ArrayLen
    BY <1>3, SizeFacts DEF Null, Refused
  <2> QED BY <1>2, <2>1, <2>2 DEF NoData
<1>4. CASE call \in segreeting
  <2>1. PICK title \in Lens, msg \in Lens :
            call = Packet("PGREETING", [NoData EXCEPT ![2] = title, ![3] = msg])
    BY <1>4 DEF segreeting
  <2>2. /\ call.evt = "PGREETING"
        /\ call.data = [NoData EXCEPT ![2] = title, ![3] = msg]
    BY <2>1 DEF Packet
  <2>3. title \in 1 .. StrLen /\ msg \in 1 .. StrLen
    BY <1>1
  <2>4. {title, msg} \subseteq Null .. StrLen \cup 0 .. ArrayLen
    BY <2>3, SizeFacts DEF Null
  <2>5. /\ call.data[1] = Null /\ call.data[2] = title /\ call.data[3] = msg
        /\ call.data \in [1 .. 3 -> Null .. StrLen \cup 0 .. ArrayLen]
    BY <1>2, <2>2, <2>4 DEF NoData
  <2> QED BY <2>2, <2>3, <2>5 DEF Sends, IsData, Size, Given
<1>5. CASE call \in selvldata
  <2>1. PICK n \in ChunkLens : call = Packet("LDATA", [NoData EXCEPT ![2] = n])
    BY <1>5 DEF selvldata
  <2>2. n \in 1 .. ArrayLen
    BY <1>1
  <2>3. /\ call.evt = "LDATA"
        /\ call.data \in [1 .. 3 -> Null .. StrLen \cup 0 .. ArrayLen]
        /\ \A i \in 1 .. 3 : call.data[i] = IF i = 2 THEN n ELSE Null
    BY <1>3, <2>1, <2>2, Zenon
  <2> QED BY <2>2, <2>3 DEF Sends, IsData, Size, Given
<1>6. CASE call \in senewactr \/ call \in sechatmsg
  <2>1. PICK e \in {"ENEW", "CMSG"}, n \in Lens \cup {Refused} :
            /\ call = Packet(e, [NoData EXCEPT ![2] = n])
            /\ e = "CMSG" => n \in Lens
    BY <1>6 DEF senewactr, sechatmsg
  <2>2. n \in 1 .. StrLen \/ (e = "ENEW" /\ n = Refused)
    BY <1>1, <2>1
  <2>3. /\ call.evt = e
        /\ call.data \in [1 .. 3 -> Null .. StrLen \cup 0 .. ArrayLen]
        /\ \A i \in 1 .. 3 : call.data[i] = IF i = 2 THEN n ELSE Null
    BY <1>3, <2>1, <2>2, Zenon
  <2> QED BY <2>2, <2>3 DEF Sends, IsData, Size, Given
<1>7. CASE call \in sebye
  <2>1. PICK n \in Lens : call = Packet("PBYE", [NoData EXCEPT ![1] = n])
    BY <1>7 DEF sebye
  <2>2. n \in 1 .. StrLen
    BY <1>1
  <2>3. /\ call.evt = "PBYE"
        /\ call.data \in [1 .. 3 -> Null .. StrLen \cup 0 .. ArrayLen]
        /\ \A i \in 1 .. 3 : call.data[i] = IF i = 1 THEN n ELSE Null
    BY <1>3, <2>1, <2>2, Zenon
  <2> QED BY <2>2, <2>3 DEF Sends, IsData, Size, Given
<1>8. CASE call \in segeneric
  <2>1. PICK e \in Generic : call = Packet(e, NoData)
    BY <1>8 DEF segeneric
  <2>2. call.evt = e /\ call.data = NoData
    BY <2>1 DEF Packet
  <2>3. \A i \in 1 .. 3 : ~IsData(e, i) /\ NoData[i] = Null
    BY DEF IsData, Generic, NoData
  <2> QED BY <1>2, <2>2, <2>3 DEF Sends
<1> QED BY <1>4, <1>5, <1>6, <1>7, <1>8 DEF Calls

(* A number is what is left of a multiple of another and a bit more.       *)
LEMMA Remainder ==
    ASSUME NEW n \in Nat, n > 0, NEW k \in Nat, NEW r \in 0 .. n - 1
    PROVE  (k * n + r) % n = r
<1>1. PICK q \in Int, m \in 0 .. n - 1 : k * n + r = n * q + m /\ (k * n + r) % n = m
  <2> DEFINE x == k * n + r
  <2>1. x \in Int
    OBVIOUS
  <2>2. x % n \in 0 .. n - 1 /\ x = n * (x \div n) + (x % n) /\ x \div n \in Int
    BY <2>1
  <2> QED BY <2>2
<1>2. (k - q) * n = m - r
  BY <1>1
<1>3. ASSUME k - q >= 1 PROVE FALSE
  <2>1. (k - q) * n >= n
    BY <1>3
  <2> QED BY <1>2, <2>1
<1>4. ASSUME k - q <= -1 PROVE FALSE
  <2>1. (k - q) * n <= -n
    BY <1>4
  <2> QED BY <1>2, <2>1
<1> QED BY <1>1, <1>2, <1>3, <1>4

-----------------------------------------------------------------------------
(* The data of a field that is still to come, and of one that is written.  *)
Ahead(i)  == IsData(evt, i) => Given(evt, left[i])
Behind(i) == left[i] \in {Null, 0}

(* A field is being written: what has been written are the fields before   *)
(* it and the part of its data that rem does not count.                    *)
UnderWay ==
    /\ w.evt = evt /\ evt \in Fielded /\ w.type \in Numbers(evt, ver)
    /\ ~IsData(evt, w.type) => Position = Offset(evt, ver, w.type)
    /\ IsData(evt, w.type) =>
          /\ w.rem \in 1 .. Size(evt)
          /\ left[w.type] \in Null .. w.rem
          /\ left[w.type] = Refused => evt = "ENEW"
          /\ Position = Offset(evt, ver, w.type) + Size(evt) - w.rem
    /\ \A i \in 1 .. 3 : /\ i > w.type => Ahead(i)
                         /\ i < w.type => Behind(i)

(* All fields are written. *)
AllWritten ==
    /\ w.evt = "NOTHING" /\ Position = ServerPacketLen(evt, ver)
    /\ \A i \in Numbers(evt, ver) : IsData(evt, i) => Behind(i)

(* An event that has no fields is open. *)
NoFields ==
    /\ evt \in {"PING", "LNEW"} /\ w.evt = evt /\ Position = 1

Stage ==
    /\ pc = "number" => /\ wire = 0 /\ idx = 0 /\ acc = 0
                        /\ w.evt = "NOTHING" /\ w.type = 0
                        /\ \A i \in 1 .. 3 : Ahead(i)
    /\ pc = "fields" => /\ UnderWay \/ (acc = 0 /\ (AllWritten \/ NoFields))
                        /\ acc = 0 => \A i \in 1 .. 3 : left[i] # 0
                        /\ evt \notin Generic /\ UnderWay => idx + acc < OutLen
    /\ pc = "return" => (UnderWay \/ AllWritten) /\ acc > 0
    /\ pc = "overrun" => UnderWay
    /\ pc = "done" => /\ AllWritten /\ w.type = 0 /\ idx = 0 /\ acc = 0
                      /\ \A i \in 1 .. 3 : left[i] # 0

(* The senders of data output full buffers only, until the last; the       *)
(* others nothing before the packet is written.                            *)
Flushed ==
    pc # "done" => /\ evt \in Generic => wire = 0
                   /\ \E k \in Nat : wire = k * OutLen

WriterInv ==
    /\ TypeOK
    /\ BufferBounds
    /\ \A i \in 1 .. 3 : ~IsData(evt, i) => left[i] = Null
    /\ Stage
    /\ Flushed

(* How writers leave the serializer, field by field.                       *)
Rems == 0 .. StrLen \cup 0 .. ArrayLen

(* The writer's step to the next field. *)
LEMMA IncrFacts ==
    ASSUME NEW s \in Serializers, NEW rem \in Rems, s.type \in 0 .. 4
    PROVE  /\ tincr(s, rem) \in Serializers
           /\ tincr(s, rem).evt = s.evt /\ tincr(s, rem).type = s.type + 1
           /\ tincr(s, rem).rem = rem
<1>1. s.type + 1 \in 0 .. 5
  OBVIOUS
<1>2. [s EXCEPT !.type = s.type + 1] \in Serializers
  BY <1>1 DEF Serializers
<1>3. tincr(s, rem) = [[s EXCEPT !.type = s.type + 1] EXCEPT !.rem = rem]
  BY DEF tincr
<1>4. ASSUME NEW q \in Serializers PROVE [q EXCEPT !.rem = rem] \in Serializers
  BY DEF Serializers, Rems
<1>5. /\ tincr(s, rem).evt = s.evt /\ tincr(s, rem).type = s.type + 1
      /\ tincr(s, rem).rem = rem
  BY DEF tincr, Serializers
<1> QED BY <1>2, <1>3, <1>4, <1>5

(* The writer's reset at a packet's end. *)
LEMMA ResetFacts ==
    ASSUME NEW s \in Serializers
    PROVE  /\ treset(s) \in Serializers
           /\ treset(s).evt = "NOTHING" /\ treset(s).type = s.type
           /\ \A n \in 0 .. 5 : [s EXCEPT !.type = n] \in Serializers
           /\ \A n \in Rems : [s EXCEPT !.rem = n] \in Serializers
           /\ \A e \in ServerEvents : [s EXCEPT !.evt = e] \in Serializers
BY DEF treset, Serializers, Rems

(* What the events of the calls are.                                       *)
LEMMA EventFacts ==
    ASSUME TypeOK
    PROVE  /\ evt \in Sends /\ evt \in ServerEvents /\ evt # "NOTHING"
           /\ ver \in 0 .. 7
           /\ evt \in Fielded \/ evt \in {"PING", "LNEW"}
           /\ Size(evt) \in Nat /\ 0 < Size(evt) /\ Size(evt) \in Rems
<1>1. evt \in Sends
  BY CallFacts DEF TypeOK
<1>2. ver \in 0 .. 7
  BY SizeFacts DEF TypeOK
<1>3. Size(evt) \in Nat /\ 0 < Size(evt) /\ Size(evt) \in Rems
  BY SizeFacts DEF Size, Rems
<1> QED BY <1>1, <1>2, <1>3 DEF Sends, Generic, ServerEvents, Fielded

(* Every packet has a length, and those with fields more than 1. *)
LEMMA LengthPositive ==
    ASSUME TypeOK
    PROVE  /\ ServerPacketLen(evt, ver) \in Nat /\ ServerPacketLen(evt, ver) >= 1
           /\ evt \in Fielded => ServerPacketLen(evt, ver) > 1
           /\ evt \in {"PING", "LNEW"} => ServerPacketLen(evt, ver) = 1
<1>1. CASE evt \in {"PING", "LNEW"}
  BY <1>1, EventFacts, LengthList DEF Fielded
<1>2. CASE evt \in Fielded
  BY <1>2, EventFacts, LengthList, SizeFacts DEF Fielded, Sends, Generic
<1> QED BY <1>1, <1>2, EventFacts

(* A sender that has just been called keeps the invariant.                 *)
Called ==
    /\ \E call \in Calls : evt = call.evt /\ left = call.data
    /\ ver \in Versions
    /\ w \in Serializers /\ w.evt = "NOTHING" /\ w.type = 0
    /\ idx = 0 /\ acc = 0 /\ wire = 0 /\ pc = "number"

(* What a call of a sender establishes. *)
LEMMA CalledInv == Called => WriterInv
<1> SUFFICES ASSUME Called PROVE WriterInv
  OBVIOUS
<1>0. PICK call \in Calls : evt = call.evt /\ left = call.data
  BY DEF Called
<1>1. TypeOK
  BY <1>0, CallFacts DEF Called, TypeOK
<1>2. 0 = 0 * OutLen
  BY SizeFacts
<1>3. Stage
  BY <1>0, CallFacts DEF Called, Stage, Ahead
<1>4. Flushed
  BY <1>2 DEF Called, Flushed
<1>5. BufferBounds /\ \A i \in 1 .. 3 : ~IsData(evt, i) => left[i] = Null
  BY <1>0, CallFacts, SizeFacts DEF Called, BufferBounds
<1> QED BY <1>1, <1>3, <1>4, <1>5 DEF WriterInv

(* The first call. *)
LEMMA InitInv == Init => WriterInv
<1> SUFFICES ASSUME Init PROVE WriterInv
  OBVIOUS
<1>1. w \in Serializers /\ w.evt = "NOTHING" /\ w.type = 0
  BY SizeFacts DEF Init, ResetSerializer, Serializers
<1> QED BY <1>1, CalledInv DEF Init, Called

(* A further call, after a sender has returned. *)
LEMMA SendInv == WriterInv /\ Send => WriterInv'
<1> SUFFICES ASSUME WriterInv, Send PROVE WriterInv'
  OBVIOUS
<1>1. w' \in Serializers /\ w'.evt = "NOTHING" /\ w'.type = 0
  BY DEF Send, WriterInv, TypeOK, Stage, AllWritten
<1>2. Called'
  BY <1>1 DEF Send, Called
<1>3. (Called => WriterInv)'
  BY CalledInv, PTL
<1> QED BY <1>2, <1>3

(* The packet number, after which the fields follow or none does. *)
LEMMA NumberInv == WriterInv /\ WriteNumber => WriterInv'
<1> SUFFICES ASSUME WriterInv, WriteNumber PROVE WriterInv'
  OBVIOUS
<1>1. /\ TypeOK /\ w \in Serializers /\ w.type = 0 /\ w.evt = "NOTHING"
      /\ wire = 0 /\ idx = 0 /\ acc = 0
      /\ \A i \in 1 .. 3 : Ahead(i)
      /\ \A i \in 1 .. 3 : ~IsData(evt, i) => left[i] = Null
  BY DEF WriterInv, WriteNumber, Stage, TypeOK
<1>2. /\ w' = Opened(w, evt, ver) /\ idx' = 1 /\ pc' = "fields"
      /\ evt' = evt /\ ver' = ver /\ left' = left /\ acc' = 0 /\ wire' = 0
  BY <1>1 DEF WriteNumber
<1>3. StrLen \in Rems
  BY SizeFacts DEF Rems
<1>4. /\ w' \in Serializers /\ w'.evt = evt /\ w'.rem = StrLen
      /\ w'.type = IF evt = "PGREETING" /\ ver = 0 THEN 2 ELSE 1
  <2> DEFINE first == [tincr(w, StrLen) EXCEPT !.evt = evt]
  <2>1. /\ tincr(w, StrLen) \in Serializers /\ tincr(w, StrLen).type = 1
        /\ tincr(w, StrLen).rem = StrLen
    BY <1>1, <1>3, IncrFacts
  <2>2. /\ first \in Serializers /\ first.type = 1 /\ first.rem = StrLen
        /\ first.evt = evt
    BY <1>1, <2>1, EventFacts, ResetFacts DEF Serializers
  <2> HIDE DEF first
  <2>3. /\ tincr(first, StrLen) \in Serializers /\ tincr(first, StrLen).type = 2
        /\ tincr(first, StrLen).rem = StrLen /\ tincr(first, StrLen).evt = evt
    BY <1>3, <2>2, IncrFacts
  <2> QED BY <1>2, <2>2, <2>3 DEF Opened, first
<1>5. TypeOK' /\ BufferBounds' /\ Flushed'
  <2>1. 0 = 0 * OutLen
    BY SizeFacts
  <2> QED BY <1>1, <1>2, <1>4, <2>1, SizeFacts DEF TypeOK, BufferBounds, Flushed
<1>6. \A i \in 1 .. 3 : left[i] # 0
  BY <1>1 DEF Ahead, Given, Null, Refused
<1>7. CASE evt \in {"PING", "LNEW"}
  <2>1. NoFields'
    BY <1>1, <1>2, <1>4, <1>7 DEF NoFields, Position
  <2>2. evt \in Generic
    BY <1>7 DEF Generic
  <2> QED BY <1>1, <1>2, <1>5, <1>6, <2>1, <2>2
          DEF WriterInv, Stage
<1>8. CASE evt \in Fielded
  <2>1. /\ w'.type \in Numbers(evt, ver) /\ Offset(evt, ver, w'.type) = 1
        /\ IsData(evt, w'.type) => Size(evt) = StrLen
        /\ \A i \in 1 .. 3 : i < w'.type => ~IsData(evt, i)
    BY <1>1, <1>4, <1>8, EventFacts
       DEF Numbers, Offset, IsData, Size, Fielded, Sends, Generic
  <2>2. IsData(evt, w'.type) =>
          /\ left[w'.type] \in 1 .. StrLen \cup {Refused}
          /\ left[w'.type] = Refused => evt = "ENEW"
    <3>1. IsData(evt, w'.type) => w'.type \in 1 .. 3
      BY <1>4
    <3> QED BY <1>1, <2>1, <3>1, SizeFacts DEF Ahead, Given, Refused
  <2>3. UnderWay'
    <3>1. Position' = 1
      BY <1>2 DEF Position
    <3>2. IsData(evt, w'.type) =>
            /\ w'.rem \in 1 .. Size(evt)
            /\ left[w'.type] \in Null .. w'.rem
            /\ left[w'.type] = Refused => evt = "ENEW"
            /\ 1 = 1 + Size(evt) - w'.rem
      BY <1>4, <2>1, <2>2, SizeFacts DEF Null, Refused
    <3>3. \A i \in 1 .. 3 : /\ i > w'.type => Ahead(i)'
                            /\ i < w'.type => Behind(i)'
      BY <1>1, <1>2, <2>1 DEF Ahead, Behind
    <3> QED BY <1>2, <1>4, <1>8, <2>1, <3>1, <3>2, <3>3 DEF UnderWay
  <2> QED BY <1>1, <1>2, <1>5, <1>6, <2>3, SizeFacts DEF WriterInv, Stage
<1> QED BY <1>1, <1>7, <1>8, EventFacts

(* A field is written from its place, and there is room for all of it if   *)
(* it holds no data, or for a part of the data.                            *)
LEMMA RoomFacts ==
    ASSUME WriterInv, pc = "fields", UnderWay
    PROVE  /\ Room \in Nat /\ Position \in Nat
           /\ evt \notin Generic => Room >= 1
           /\ ~IsData(evt, w.type) => Fields(evt, ver)[w.type].len <= Room
<1> DEFINE f == Fields(evt, ver)[w.type]
<1>1. /\ TypeOK /\ BufferBounds /\ Stage /\ Flushed
      /\ idx \in Nat /\ acc \in Int /\ wire \in Nat
      /\ OutLen \in Nat /\ OutLen >= 10
  BY SizeFacts DEF WriterInv, TypeOK
<1>2. Room \in Nat /\ Position \in Nat /\ acc >= 0 /\ idx + acc <= OutLen
  BY <1>1 DEF BufferBounds, Room, Position
<1>3. evt \notin Generic => Room >= 1
  BY <1>1, <1>2 DEF Stage, Room
<1>4. FieldFits(f, evt, ver, w.type)
  BY <1>1, EventFacts, FieldFacts DEF UnderWay
<1> HIDE DEF f
<1>5. SUFFICES ASSUME ~IsData(evt, w.type) PROVE f.len <= Room
  BY <1>2, <1>3 DEF f
<1>6. /\ Position = Offset(evt, ver, w.type) /\ ~f.data /\ f.len \in 1 .. 8
      /\ Width(evt, ver, w.type) = f.len
  BY <1>4, <1>5 DEF UnderWay, FieldFits, Width, f
<1>7. CASE evt \in Generic
  <2>1. wire = 0
    BY <1>1, <1>7 DEF Flushed
  <2>2. Position + f.len <= 10
    BY <1>2, <1>1, <1>4, <1>6, <1>7, LengthPositive DEF FieldFits
  <2> QED BY <1>1, <1>6, <2>1, <2>2 DEF Position, Room
<1>8. CASE evt \notin Generic
  <2>1. PICK k \in Nat : wire = k * OutLen
    BY <1>1 DEF Flushed
  <2>2. idx + acc \in 0 .. OutLen - 1 /\ Position = k * OutLen + (idx + acc)
    BY <1>1, <1>2, <1>3, <1>8, <2>1 DEF Room, Position
  <2>3. CASE f.len = 1
    BY <1>3, <1>8, <2>3
  <2>4. CASE f.len = 2 /\ Position = 1
    <3>1. idx + acc <= 1
      BY <1>1, <2>4 DEF Position
    <3> QED BY <1>1, <2>4, <3>1 DEF Room
  <2>5. CASE f.len = 8 /\ Position = 2 + StrLen
    <3>1. (k * OutLen + (idx + acc)) % OutLen = idx + acc
      BY <1>1, <2>2, Remainder
    <3>2. idx + acc \notin OutLen - 7 .. OutLen - 1
      BY <2>2, <2>5, <3>1, WriterAssumption
    <3> QED BY <1>1, <2>2, <2>5, <3>2 DEF Room
  <2> QED BY <1>4, <1>6, <1>8, <2>3, <2>4, <2>5 DEF FieldFits
<1> QED BY <1>7, <1>8

(* A field without data: what is written, and how the serializer is left.  *)
LEMMA FixedWritten ==
    ASSUME WriterInv, pc = "fields", UnderWay, ~IsData(evt, w.type), WriteField
    PROVE  LET f == Fields(evt, ver)[w.type]
           IN  /\ acc' = acc + f.len /\ left' = left
               /\ w' = IF f.last THEN treset(w) ELSE tincr(w, f.rem)
               /\ pc' = "fields" => Room # f.len /\ w'.evt # "NOTHING"
<1> DEFINE f == Fields(evt, ver)[w.type]
<1>1. w.evt = evt /\ FieldFits(f, evt, ver, w.type)
  BY EventFacts, FieldFacts DEF UnderWay, WriterInv
<1>2. ~f.data /\ f.len \in 1 .. 8
  BY <1>1 DEF FieldFits
<1>3. f.len <= Room /\ Room \in Nat
  BY RoomFacts
<1>4. /\ w' = Written(f, w, Room, Null)
      /\ left' = left
      /\ acc' = acc + Result(f, w, Room, Null)
      /\ pc' = "fields" => Room # Result(f, w, Room, Null) /\ w'.evt # "NOTHING"
  BY <1>1, <1>2 DEF WriteField, Field, DataLeft
<1> HIDE DEF f
<1>5. Result(f, w, Room, Null) = f.len
  BY <1>2, <1>3 DEF Result
<1>6. Written(f, w, Room, Null) = IF f.last THEN treset(w) ELSE tincr(w, f.rem)
  BY <1>2, <1>5 DEF Written
<1> QED BY <1>4, <1>5, <1>6 DEF f

(* Of data, r bytes are written, all that is left of it or all there is    *)
(* room for.                                                               *)
LEMMA DataWritten ==
    ASSUME WriterInv, pc = "fields", UnderWay, IsData(evt, w.type), WriteField
    PROVE  LET f == Fields(evt, ver)[w.type]
           IN  \E r \in 0 .. w.rem :
                 /\ r <= Room /\ acc' = acc + r
                 /\ (left[w.type] # 0 => r > 0)
                 /\ left[w.type] # Null => r <= left[w.type]
                 /\ left[w.type] # Refused
                 /\ left' = IF left[w.type] = Null THEN left
                            ELSE [left EXCEPT ![w.type] = @ - r]
                 /\ w' = IF w.rem - r > 0 THEN [w EXCEPT !.rem = w.rem - r]
                         ELSE IF f.last THEN treset(tincr(w, w.rem - r))
                         ELSE tincr(w, f.rem)
                 /\ pc' = "fields" => r # 0 /\ Room # r /\ w'.evt # "NOTHING"
<1> DEFINE f == Fields(evt, ver)[w.type]
           data == left[w.type]
           r == Result(f, w, Room, data)
<1>1. w.evt = evt /\ FieldFits(f, evt, ver, w.type)
  BY EventFacts, FieldFacts DEF UnderWay, WriterInv
<1>2. f.data
  BY <1>1 DEF FieldFits
<1>3. /\ w.rem \in Nat /\ w.rem >= 1
      /\ data \in Null .. w.rem /\ data # Refused
      /\ Room \in Nat /\ Room >= 1
  <2>1. evt \notin Generic
    BY DEF IsData, Generic
  <2>2. w.rem \in 1 .. Size(evt) /\ data \in Null .. w.rem
    BY DEF UnderWay
  <2>3. Size(evt) \in Nat
    BY EventFacts DEF WriterInv
  <2>4. data # Refused
    BY <1>1, <1>2 DEF WriteField, Field, DataLeft
  <2> QED BY <2>1, <2>2, <2>3, <2>4, RoomFacts
<1>4. /\ w' = Written(f, w, Room, data)
      /\ left' = IF data = Null THEN left ELSE [left EXCEPT ![w.type] = @ - r]
      /\ acc' = acc + r
      /\ pc' = "fields" => r # 0 /\ Room # r /\ w'.evt # "NOTHING"
  BY <1>1, <1>2 DEF WriteField, Field, DataLeft
<1> HIDE DEF f, data
<1>5. r = IF data = Null THEN Min2(Room, w.rem) ELSE Min2(Min2(Room, data), w.rem)
  BY <1>2 DEF Result
<1>6. /\ r \in 0 .. w.rem /\ r <= Room /\ (data # 0 => r > 0)
      /\ data # Null => r <= data
  BY <1>3, <1>5 DEF Min2, Null, Refused
<1>7. Written(f, w, Room, data) =
        IF w.rem - r > 0 THEN [w EXCEPT !.rem = w.rem - r]
        ELSE IF f.last THEN treset(tincr(w, w.rem - r)) ELSE tincr(w, f.rem)
  BY <1>2 DEF Written
<1> HIDE DEF r
<1> QED BY <1>3, <1>4, <1>6, <1>7 DEF f, data

(* The field that follows is begun, or the event is finished.              *)
LEMMA FollowUp ==
    ASSUME WriterInv, UnderWay, evt' = evt, ver' = ver,
           NEW f, f = Fields(evt, ver)[w.type],
           Position' = Offset(evt, ver, w.type) + Width(evt, ver, w.type),
           \A i \in 1 .. 3 : i # w.type => left'[i] = left[i],
           w.type \in 1 .. 3 => left'[w.type] \in {Null, 0},
           NEW rem \in Rems,
           \/ f.last /\ w' \in {treset(w), treset(tincr(w, rem))}
           \/ ~f.last /\ w' = tincr(w, f.rem)
    PROVE  w' \in Serializers /\ (UnderWay' \/ AllWritten')
<1>1. /\ FieldFits(f, evt, ver, w.type) /\ TypeOK /\ w \in Serializers
      /\ w.evt = evt /\ w.type \in 1 .. 4 /\ w.type \in Numbers(evt, ver)
      /\ evt \in Fielded
  <2>1. TypeOK /\ w.evt = evt /\ w.type \in Numbers(evt, ver) /\ evt \in Fielded
    BY DEF WriterInv, UnderWay
  <2>2. w.type \in 1 .. 4
    BY <2>1 DEF Numbers
  <2> QED BY <2>1, <2>2, EventFacts, FieldFacts DEF TypeOK
<1>2. \A i \in 1 .. 3 : i < w.type => left'[i] \in {Null, 0}
  BY <1>1 DEF UnderWay, Behind
<1>3. \A i \in 1 .. 3 : i > w.type /\ IsData(evt, i) => Given(evt, left'[i])
  <2>1. SUFFICES ASSUME NEW i \in 1 .. 3, i > w.type, IsData(evt, i)
                 PROVE  Given(evt, left'[i])
    OBVIOUS
  <2>2. left'[i] = left[i]
    BY <1>1, <2>1
  <2>3. Given(evt, left[i])
    BY <2>1, Zenon DEF UnderWay, Ahead
  <2> QED BY <2>2, <2>3
<1>4. CASE f.last
  <2>1. w' \in Serializers /\ w'.evt = "NOTHING"
    <3>1. tincr(w, rem) \in Serializers
      BY <1>1, IncrFacts
    <3> QED BY <1>1, <1>4, <3>1, ResetFacts
  <2>2. Position' = ServerPacketLen(evt, ver) /\ \A j \in Numbers(evt, ver) : j <= w.type
    BY <1>1, <1>4 DEF FieldFits
  <2>3. \A i \in Numbers(evt, ver) : IsData(evt, i) => left'[i] \in {Null, 0}
    <3>1. SUFFICES ASSUME NEW i \in Numbers(evt, ver), IsData(evt, i)
                   PROVE  left'[i] \in {Null, 0}
      OBVIOUS
    <3>2. i \in 1 .. 3
      BY <3>1 DEF IsData
    <3>3. i <= w.type
      BY <2>2
    <3> QED BY <1>1, <1>2, <3>2, <3>3
  <2>4. AllWritten'
    BY <2>1, <2>2, <2>3 DEF AllWritten, Behind
  <2> QED BY <2>1, <2>4
<1>5. CASE ~f.last
  <2>1. w' = tincr(w, f.rem) /\ f.rem \in Rems
    BY <1>1, <1>5, SizeFacts DEF FieldFits, Rems
  <2>2. /\ w' \in Serializers /\ w'.evt = evt /\ w'.type = w.type + 1
        /\ w'.rem = f.rem
    BY <1>1, <2>1, IncrFacts
  <2>3. /\ w.type + 1 \in Numbers(evt, ver)
        /\ Position' = Offset(evt, ver, w.type + 1)
        /\ IsData(evt, w.type + 1) => f.rem = Size(evt)
    BY <1>1, <1>5 DEF FieldFits
  <2>4. IsData(evt, w.type + 1) =>
          /\ f.rem \in 1 .. Size(evt)
          /\ left'[w.type + 1] \in Null .. f.rem
          /\ left'[w.type + 1] = Refused => evt = "ENEW"
          /\ Position' = Offset(evt, ver, w.type + 1) + Size(evt) - f.rem
    <3>1. SUFFICES ASSUME IsData(evt, w.type + 1)
                   PROVE  /\ f.rem \in 1 .. Size(evt)
                          /\ left'[w.type + 1] \in Null .. f.rem
                          /\ left'[w.type + 1] = Refused => evt = "ENEW"
                          /\ Position' = Offset(evt, ver, w.type + 1) + Size(evt) - f.rem
      OBVIOUS
    <3>2. w.type + 1 \in 1 .. 3
      BY <1>1, <3>1 DEF IsData
    <3>4. Size(evt) \in Nat /\ 0 < Size(evt)
      BY <1>1, EventFacts
    <3>3. /\ left'[w.type + 1] \in 1 .. Size(evt) \cup {Refused}
          /\ left'[w.type + 1] = Refused => evt = "ENEW"
      BY <1>1, <1>3, <3>1, <3>2, <3>4 DEF Given, Refused
    <3>5. Position' \in Nat
      BY <1>1, <3>4, <1>5 DEF FieldFits, Width
    <3> QED BY <2>3, <3>1, <3>3, <3>4, <3>5 DEF Null, Refused
  <2>5. \A i \in 1 .. 3 : /\ i > w.type + 1 => Ahead(i)'
                          /\ i < w.type + 1 => Behind(i)'
    <3>1. SUFFICES ASSUME NEW i \in 1 .. 3
                   PROVE  /\ i > w.type + 1 => Ahead(i)'
                          /\ i < w.type + 1 => Behind(i)'
      OBVIOUS
    <3>2. CASE i > w.type + 1
      BY <1>1, <1>3, <3>2 DEF Ahead
    <3>3. CASE i < w.type + 1
      BY <1>1, <1>2, <3>3 DEF Behind
    <3> QED BY <1>1, <3>2, <3>3
  <2>6. UnderWay'
    BY <1>1, <2>2, <2>3, <2>4, <2>5 DEF UnderWay
  <2> QED BY <2>2, <2>6
<1> QED BY <1>4, <1>5

(* What goes with any field.                                               *)
LEMMA AfterField ==
    ASSUME WriterInv, pc = "fields", UnderWay, WriteField,
           NEW r \in Nat, acc' = acc + r, r <= Room,
           acc = 0 => r > 0,
           pc' = "fields" => r # 0 /\ Room # r /\ w'.evt # "NOTHING",
           w' \in Serializers, UnderWay' \/ AllWritten',
           left' \in [1 .. 3 -> Null .. StrLen \cup 0 .. ArrayLen],
           \A i \in 1 .. 3 : ~IsData(evt, i) => left'[i] = left[i]
    PROVE  WriterInv'
<1>1. /\ TypeOK /\ BufferBounds /\ Flushed /\ acc >= 0
      /\ idx \in Nat /\ acc \in Int /\ wire \in Nat /\ OutLen \in Nat
      /\ \A i \in 1 .. 3 : ~IsData(evt, i) => left[i] = Null
  BY SizeFacts DEF WriterInv, TypeOK, BufferBounds
<1>2. /\ evt' = evt /\ ver' = ver /\ idx' = idx /\ wire' = wire
      /\ pc' \in {"fields", "return"}
  BY DEF WriteField
<1>3. TypeOK'
  BY <1>1, <1>2 DEF TypeOK
<1>4. /\ acc' >= 0 /\ acc' > 0 /\ idx + acc' <= OutLen
      /\ Room # r => idx + acc' < OutLen
  BY <1>1 DEF Room
<1>5. BufferBounds'
  BY <1>2, <1>4 DEF BufferBounds
<1>6. Flushed'
  BY <1>1, <1>2 DEF Flushed
<1>7. Stage'
  <2>1. pc' = "fields" => UnderWay'
    BY DEF AllWritten
  <2> QED BY <1>1, <1>2, <1>4, <2>1 DEF Stage
<1> QED BY <1>1, <1>2, <1>3, <1>5, <1>6, <1>7 DEF WriterInv

(* A field without data: it fits in the buffer, or nothing is written. *)
LEMMA FixedInv ==
    ASSUME WriterInv, pc = "fields", UnderWay, ~IsData(evt, w.type), WriteField
    PROVE  WriterInv' /\ acc' > acc /\ (UnderWay' \/ AllWritten')
<1> DEFINE f == Fields(evt, ver)[w.type]
<1>1. /\ acc' = acc + f.len /\ left' = left
      /\ w' = IF f.last THEN treset(w) ELSE tincr(w, f.rem)
      /\ pc' = "fields" => Room # f.len /\ w'.evt # "NOTHING"
  BY FixedWritten
<1>2. /\ evt \in Fielded /\ ver \in 0 .. 7 /\ w.type \in Numbers(evt, ver)
      /\ f.len \in 1 .. 8
  <2>1. FieldFits(f, evt, ver, w.type)
    BY EventFacts, FieldFacts DEF UnderWay, WriterInv
  <2> QED BY <2>1, EventFacts DEF UnderWay, WriterInv, FieldFits
<1>3. evt' = evt /\ ver' = ver /\ idx' = idx /\ wire' = wire
  BY DEF WriteField
<1>4. /\ f.len <= Room /\ acc \in Int /\ acc >= 0 /\ idx \in Nat /\ wire \in Nat
  BY RoomFacts DEF WriterInv, TypeOK, BufferBounds
<1>5. \A i \in 1 .. 3 : ~IsData(evt, i) => left[i] = Null
  BY DEF WriterInv
<1> HIDE DEF f
<1>6. Position' = Offset(evt, ver, w.type) + Width(evt, ver, w.type)
  <2>1. Width(evt, ver, w.type) = f.len /\ Position = Offset(evt, ver, w.type)
    BY DEF Width, UnderWay, f
  <2> QED BY <1>1, <1>2, <1>3, <1>4, <2>1 DEF Position
<1>7. w' \in Serializers /\ (UnderWay' \/ AllWritten')
  <2>1. 0 \in Rems
    BY SizeFacts DEF Rems
  <2>2. w.type \in 1 .. 3 => left'[w.type] \in {Null, 0}
    BY <1>1, <1>5
  <2>3. \/ f.last /\ w' \in {treset(w), treset(tincr(w, 0))}
        \/ ~f.last /\ w' = tincr(w, f.rem)
    BY <1>1
  <2>4. \A i \in 1 .. 3 : i # w.type => left'[i] = left[i]
    BY <1>1
  <2>5. f = Fields(evt, ver)[w.type]
    BY DEF f
  <2> QED BY <1>3, <1>6, <2>1, <2>2, <2>3, <2>4, <2>5, FollowUp
<1>8. WriterInv'
  <2>1. left' \in [1 .. 3 -> Null .. StrLen \cup 0 .. ArrayLen]
    BY <1>1 DEF WriterInv, TypeOK
  <2>2. /\ f.len \in Nat /\ f.len > 0
    BY <1>2
  <2> QED BY <1>1, <1>4, <1>7, <2>1, <2>2, AfterField
<1> QED BY <1>1, <1>2, <1>4, <1>7, <1>8

(* A field of data: as much of it as fits is written. *)
LEMMA DataInv ==
    ASSUME WriterInv, pc = "fields", UnderWay, IsData(evt, w.type), WriteField
    PROVE  /\ WriterInv' /\ (UnderWay' \/ AllWritten')
           /\ acc' >= acc /\ (acc' = acc => w'.evt = w.evt)
<1> DEFINE f == Fields(evt, ver)[w.type]
<1>1. PICK r \in 0 .. w.rem :
         /\ r <= Room /\ acc' = acc + r
         /\ (left[w.type] # 0 => r > 0)
         /\ left[w.type] # Null => r <= left[w.type]
         /\ left[w.type] # Refused
         /\ left' = IF left[w.type] = Null THEN left
                    ELSE [left EXCEPT ![w.type] = @ - r]
         /\ w' = IF w.rem - r > 0 THEN [w EXCEPT !.rem = w.rem - r]
                 ELSE IF f.last THEN treset(tincr(w, w.rem - r))
                 ELSE tincr(w, f.rem)
         /\ pc' = "fields" => r # 0 /\ Room # r /\ w'.evt # "NOTHING"
  BY DataWritten
<1>2. /\ evt \in Fielded /\ ver \in 0 .. 7 /\ w.type \in Numbers(evt, ver)
      /\ w \in Serializers /\ w.evt = evt
      /\ FieldFits(f, evt, ver, w.type)
      /\ Size(evt) \in Nat /\ Size(evt) \in Rems
      /\ left \in [1 .. 3 -> Null .. StrLen \cup 0 .. ArrayLen]
      /\ acc \in Int /\ acc >= 0 /\ idx \in Nat /\ wire \in Nat
      /\ Stage
  BY EventFacts, FieldFacts DEF UnderWay, WriterInv, TypeOK, BufferBounds
<1>3. evt' = evt /\ ver' = ver /\ idx' = idx /\ wire' = wire
  BY DEF WriteField
<1>4. /\ w.rem \in 1 .. Size(evt) /\ left[w.type] \in Null .. w.rem
      /\ Position = Offset(evt, ver, w.type) + Size(evt) - w.rem
      /\ w.type \in 1 .. 3
      /\ Offset(evt, ver, w.type) \in Nat
  BY <1>2 DEF UnderWay, IsData, FieldFits
<1> HIDE DEF f
<1>5. /\ w.rem - r \in Rems /\ r \in Nat
      /\ Position' = Offset(evt, ver, w.type) + Size(evt) - (w.rem - r)
  <2>1. w.rem - r \in 0 .. Size(evt)
    BY <1>2, <1>4
  <2>2. \A n \in 0 .. Size(evt) : n \in Rems
    BY SizeFacts DEF Size, Rems
  <2> QED BY <1>1, <1>2, <1>3, <1>4, <2>1, <2>2 DEF Position
<1>6. /\ left' \in [1 .. 3 -> Null .. StrLen \cup 0 .. ArrayLen]
      /\ \A i \in 1 .. 3 : i # w.type => left'[i] = left[i]
      /\ left'[w.type] \in {Null} \cup 0 .. (w.rem - r)
  <2>1. CASE left[w.type] = Null
    BY <1>1, <1>2, <1>4, <2>1 DEF Null
  <2>2. CASE left[w.type] # Null
    <3>0. left[w.type] >= 0
      BY <1>1, <1>4, <2>2 DEF Null, Refused
    <3>1. left[w.type] - r \in 0 .. (w.rem - r) /\ left[w.type] - r <= left[w.type]
      BY <1>1, <1>4, <2>2, <3>0 DEF Null
    <3>2. left[w.type] \in 0 .. StrLen \/ left[w.type] \in 0 .. ArrayLen
      BY <1>2, <1>4, <3>0, SizeFacts DEF Null
    <3>3. left[w.type] - r \in Null .. StrLen \cup 0 .. ArrayLen
      BY <3>1, <3>2, <1>4, <1>5, SizeFacts DEF Null
    <3>4. left' = [left EXCEPT ![w.type] = left[w.type] - r]
      BY <1>1, <2>2
    <3> QED BY <1>2, <1>4, <3>1, <3>3, <3>4 DEF Null
  <2> QED BY <2>1, <2>2
<1>7. ASSUME w.rem - r > 0
      PROVE  w' \in Serializers /\ (UnderWay' \/ AllWritten')
  <2>1. w' = [w EXCEPT !.rem = w.rem - r]
    BY <1>1, <1>7
  <2>2. /\ w' \in Serializers /\ w'.evt = w.evt /\ w'.type = w.type
        /\ w'.rem = w.rem - r
    BY <1>2, <1>5, <2>1, ResetFacts DEF Serializers
  <2>3. w'.rem \in 1 .. Size(evt)
    BY <1>2, <1>4, <1>7, <2>2
  <2>4. \A i \in 1 .. 3 : /\ i > w.type => Ahead(i)'
                          /\ i < w.type => Behind(i)'
    BY <1>3, <1>4, <1>6 DEF UnderWay, Ahead, Behind
  <2>5. UnderWay'
    <3>1. left'[w.type] \in Null .. w'.rem /\ left'[w.type] # Refused
      BY <1>4, <1>6, <1>7, <2>2 DEF Null, Refused
    <3> QED BY <1>2, <1>3, <1>5, <2>2, <2>3, <2>4, <3>1 DEF UnderWay
  <2> QED BY <2>2, <2>5
<1>8. ASSUME ~(w.rem - r > 0)
      PROVE  w' \in Serializers /\ (UnderWay' \/ AllWritten')
  <2>1. w.rem - r = 0
    BY <1>4, <1>8
  <2>2. Position' = Offset(evt, ver, w.type) + Width(evt, ver, w.type)
    BY <1>2, <1>4, <1>5, <2>1 DEF Width
  <2>3. left'[w.type] \in {Null, 0}
    BY <1>6, <2>1 DEF Null
  <2>4. \/ f.last /\ w' \in {treset(w), treset(tincr(w, w.rem - r))}
        \/ ~f.last /\ w' = tincr(w, f.rem)
    BY <1>1, <1>8
  <2>5. f = Fields(evt, ver)[w.type]
    BY DEF f
  <2>6. w' \in Serializers /\ (UnderWay' \/ AllWritten')
    BY <1>3, <1>5, <1>6, <2>2, <2>3, <2>4, <2>5, FollowUp
  <2> QED BY <2>6
<1>9. w' \in Serializers /\ (UnderWay' \/ AllWritten')
  BY <1>7, <1>8
<1>10. r > 0 \/ acc > 0
  <2>1. acc = 0 => left[w.type] # 0
    BY <1>2, <1>4 DEF Stage
  <2> QED BY <1>1, <1>2, <2>1
<1>11. acc' >= acc /\ (acc' = acc => w'.evt = w.evt)
  <2>1. r = 0 => w.rem - r > 0
    BY <1>4
  <2>2. r = 0 => w'.evt = w.evt
    BY <1>1, <1>2, <2>1 DEF Serializers
  <2> QED BY <1>1, <1>2, <1>5, <2>2
<1>12. WriterInv'
  <2>1. \A i \in 1 .. 3 : ~IsData(evt, i) => left'[i] = left[i]
    BY <1>6
  <2>2. acc = 0 => r > 0
    BY <1>10, <1>2
  <2> QED BY <1>1, <1>5, <1>6, <1>9, <2>1, <2>2, AfterField
<1> QED BY <1>9, <1>11, <1>12

(* Any field, and what it tells the sender. *)
LEMMA FieldInv ==
    ASSUME WriterInv, WriteField
    PROVE  /\ WriterInv' /\ pc = "fields" /\ UnderWay /\ (UnderWay' \/ AllWritten')
           /\ acc' >= acc /\ (acc' = acc => w'.evt = w.evt)
<1>1. pc = "fields" /\ UnderWay
  BY DEF WriteField, WriterInv, Stage, AllWritten, NoFields
<1>2. acc \in Int
  BY DEF WriterInv, TypeOK
<1>3. CASE IsData(evt, w.type)
  BY <1>1, <1>3, DataInv
<1>4. CASE ~IsData(evt, w.type)
  <2>1. acc' > acc /\ WriterInv' /\ (UnderWay' \/ AllWritten')
    BY <1>1, <1>4, FixedInv
  <2>2. acc' \in Int
    BY <2>1 DEF WriterInv, TypeOK
  <2> QED BY <1>1, <1>2, <2>1, <2>2
<1> QED BY <1>3, <1>4

(* The name of a new entity is the only data whose length can be that of a *)
(* refused name.                                                           *)
LEMMA OverrunInv ==
    ASSUME WriterInv, Overrun
    PROVE  /\ WriterInv' /\ UnderWay /\ pc = "fields"
           /\ Position' = Position /\ w' = w
           /\ evt' = evt /\ ver' = ver
<1>1. /\ pc = "fields" /\ pc' = "overrun"
      /\ evt' = evt /\ ver' = ver /\ w' = w /\ left' = left
      /\ idx' = idx /\ acc' = acc /\ wire' = wire
  BY DEF Overrun
<1>2. UnderWay
  BY DEF Overrun, WriterInv, Stage, AllWritten, NoFields
<1>3. /\ FieldFits(Fields(evt, ver)[w.type], evt, ver, w.type)
      /\ TypeOK /\ BufferBounds /\ Flushed /\ w.evt = evt
  BY <1>2, EventFacts, FieldFacts DEF UnderWay, WriterInv
<1>4. Position' = Position
  BY <1>1 DEF Position
<1>5. TypeOK'
  BY <1>1, <1>3 DEF TypeOK
<1>6. Stage' /\ Flushed'
  <2>1. UnderWay'
    BY <1>1, <1>2, <1>4 DEF UnderWay, Ahead, Behind
  <2> QED BY <1>1, <1>3, <2>1 DEF Stage, Flushed
<1>7. BufferBounds'
  <2>1. left[w.type] = Refused /\ IsData(evt, w.type)
    <3>1. DataLeft = Refused
      BY DEF Overrun
    <3>2. Fields(evt, ver)[w.type].data <=> IsData(evt, w.type)
      BY <1>3 DEF FieldFits
    <3> QED BY <1>3, <3>1, <3>2 DEF DataLeft, Field, Null, Refused
  <2>2. evt = "ENEW" /\ w.type = 2
    <3>1. w.type \in 1 .. 3
      BY <2>1 DEF IsData
    <3>2. evt = "ENEW"
      BY <1>2, <2>1 DEF UnderWay
    <3> QED BY <2>1, <3>2 DEF IsData
  <2> QED BY <1>1, <1>3, <2>1, <2>2 DEF BufferBounds
<1>8. \A i \in 1 .. 3 : ~IsData(evt, i) => left[i] = Null
  BY DEF WriterInv
<1> QED BY <1>1, <1>2, <1>4, <1>5, <1>6, <1>7, <1>8 DEF WriterInv

(* The senders' null pointers for data that has been written. *)
LEMMA NullFacts ==
    ASSUME NEW data \in [1 .. 3 -> Null .. StrLen \cup 0 .. ArrayLen]
    PROVE  /\ NullIfEmpty(data) \in [1 .. 3 -> Null .. StrLen \cup 0 .. ArrayLen]
           /\ \A i \in 1 .. 3 : NullIfEmpty(data)[i]
                                  = IF data[i] = 0 THEN Null ELSE data[i]
<1>1. Null \in Null .. StrLen \cup 0 .. ArrayLen
  BY SizeFacts DEF Null
<1> QED BY <1>1 DEF NullIfEmpty

(* A call of mcswr returns: a full buffer is output. *)
LEMMA ReturnInv ==
    ASSUME WriterInv, Return
    PROVE  /\ WriterInv' /\ Position' = Position /\ w' = w
           /\ evt' = evt /\ ver' = ver
<1>1. /\ TypeOK /\ BufferBounds /\ Flushed /\ Stage /\ pc = "return" /\ acc > 0
      /\ UnderWay \/ AllWritten
      /\ idx \in Nat /\ acc \in Int /\ wire \in Nat
      /\ left \in [1 .. 3 -> Null .. StrLen \cup 0 .. ArrayLen]
      /\ OutLen \in Nat /\ OutLen >= 10
      /\ \A i \in 1 .. 3 : ~IsData(evt, i) => left[i] = Null
  BY SizeFacts DEF WriterInv, Return, Stage, TypeOK
<1>2. Returned = acc
  BY <1>1 DEF Returned
<1>3. /\ evt' = evt /\ ver' = ver /\ w' = w /\ acc' = 0 /\ pc' = "fields"
      /\ left' = IF evt \notin Generic THEN NullIfEmpty(left) ELSE left
      /\ IF evt \notin Generic /\ idx + acc = OutLen
         THEN wire' = wire + OutLen /\ idx' = 0
         ELSE idx' = idx + acc /\ wire' = wire
  BY <1>1, <1>2 DEF Return, Output
<1>4. Position' = Position
  BY <1>1, <1>3 DEF Position
<1>5. /\ left' \in [1 .. 3 -> Null .. StrLen \cup 0 .. ArrayLen]
      /\ \A i \in 1 .. 3 : left'[i] = IF left[i] = 0 THEN Null ELSE left[i]
  <2>1. CASE evt \notin Generic
    BY <1>1, <1>3, <2>1, NullFacts
  <2>2. CASE evt \in Generic
    <3>1. \A i \in 1 .. 3 : left[i] = Null
      BY <1>1, <2>2 DEF IsData, Generic
    <3> QED BY <1>1, <1>3, <2>2, <3>1 DEF Null
  <2> QED BY <2>1, <2>2
<1>6. TypeOK' /\ BufferBounds' /\ Flushed'
  <2>1. idx' \in Nat /\ wire' \in Nat /\ idx' <= OutLen
    BY <1>1, <1>3 DEF BufferBounds
  <2>2. \E k \in Nat : wire' = k * OutLen
    <3>1. PICK k \in Nat : wire = k * OutLen
      BY <1>1 DEF Flushed
    <3>2. k * OutLen + OutLen = (k + 1) * OutLen /\ k + 1 \in Nat
      BY <1>1
    <3> QED BY <1>3, <3>1, <3>2
  <2>3. evt \in Generic => wire' = 0
    BY <1>1, <1>3 DEF Flushed
  <2>4. TypeOK'
    BY <1>1, <1>3, <1>5, <2>1 DEF TypeOK
  <2>5. BufferBounds'
    <3>1. /\ acc' = 0 /\ pc' = "fields" /\ idx' \in Nat /\ idx' <= OutLen
      BY <1>3, <2>1
    <3>2. \A i \in Nat : i + 0 = i
      OBVIOUS
    <3>3. acc' >= 0 /\ idx' + acc' <= OutLen
      BY <3>1, <3>2
    <3> QED BY <3>1, <3>3 DEF BufferBounds
  <2> QED BY <1>1, <1>3, <2>2, <2>3, <2>4, <2>5 DEF Flushed
<1>7. UnderWay => UnderWay'
  <2>1. SUFFICES ASSUME UnderWay PROVE UnderWay'
    OBVIOUS
  <2>2. IsData(evt, w.type) => /\ left'[w.type] \in Null .. w.rem
                               /\ left'[w.type] = Refused => evt = "ENEW"
    <3>1. SUFFICES ASSUME IsData(evt, w.type)
                   PROVE  /\ left'[w.type] \in Null .. w.rem
                          /\ left'[w.type] = Refused => evt = "ENEW"
      OBVIOUS
    <3>2. /\ w.type \in 1 .. 3 /\ left[w.type] \in Null .. w.rem
          /\ left[w.type] = Refused => evt = "ENEW"
      BY <2>1, <3>1 DEF UnderWay, IsData
    <3>3. w.rem \in 1 .. Size(evt) /\ Size(evt) \in Nat
      BY <1>1, <2>1, <3>1, EventFacts DEF UnderWay
    <3>4. left'[w.type] \in {Null, left[w.type]}
      BY <1>5, <3>2
    <3>5. Null \in Null .. w.rem
      BY <3>3 DEF Null
    <3> QED BY <3>2, <3>4, <3>5 DEF Null, Refused
  <2>3. \A i \in 1 .. 3 : /\ i > w.type => Ahead(i)'
                          /\ i < w.type => Behind(i)'
    BY <1>3, <1>5, <2>1 DEF UnderWay, Ahead, Behind, Given, Refused
  <2>4. /\ w' = w /\ evt' = evt /\ Position' = Position
    BY <1>3, <1>4
  <2> QED BY <1>3, <2>1, <2>2, <2>3, <2>4 DEF UnderWay
<1>8. AllWritten => AllWritten'
  <2>1. \A i : IsData(evt, i) => i \in 1 .. 3
    BY DEF IsData
  <2> QED BY <1>3, <1>4, <1>5, <2>1 DEF AllWritten, Behind
<1>9. Stage'
  <2>1. \A i \in 1 .. 3 : left'[i] # 0
    BY <1>5 DEF Null
  <2>2. evt \notin Generic => idx' + 0 < OutLen
    BY <1>1, <1>3 DEF BufferBounds
  <2> QED BY <1>1, <1>3, <1>7, <1>8, <2>1, <2>2 DEF Stage
<1>10. \A i \in 1 .. 3 : ~IsData(evt, i) => left'[i] = Null
  BY <1>1, <1>5
<1> QED BY <1>3, <1>4, <1>6, <1>9, <1>10 DEF WriterInv

(* The packet's end. *)
LEMMA FinishInv ==
    ASSUME WriterInv, Finish
    PROVE  /\ WriterInv' /\ Position' = Position /\ w'.evt = "NOTHING"
           /\ evt' = evt /\ ver' = ver
<1>1. /\ TypeOK /\ BufferBounds /\ Stage /\ pc = "fields"
      /\ idx \in Nat /\ wire \in Nat /\ OutLen \in Nat /\ w \in Serializers
      /\ \A i \in 1 .. 3 : ~IsData(evt, i) => left[i] = Null
  BY SizeFacts DEF WriterInv, Finish, TypeOK
<1>2. acc = 0 /\ (AllWritten \/ NoFields)
  BY <1>1 DEF Finish, Stage, UnderWay, Fielded, Sends, Generic
<1>3. /\ w' = [w EXCEPT !.evt = "NOTHING", !.type = 0]
      /\ wire' = wire + idx /\ idx' = 0 /\ acc' = 0 /\ pc' = "done"
      /\ evt' = evt /\ ver' = ver /\ left' = left
  BY <1>2 DEF Finish, Output
<1>4. w' \in Serializers /\ w'.evt = "NOTHING" /\ w'.type = 0
  <2>1. w' = [treset(w) EXCEPT !.type = 0]
    BY <1>3 DEF treset
  <2>2. treset(w) \in Serializers
    BY <1>1, ResetFacts
  <2>3. ASSUME NEW q \in Serializers PROVE [q EXCEPT !.type = 0] \in Serializers
    BY DEF Serializers
  <2>4. w' \in Serializers
    BY <2>1, <2>2, <2>3
  <2> QED BY <1>1, <1>3, <2>4 DEF Serializers
<1>5. Position' = Position
  BY <1>1, <1>2, <1>3 DEF Position
<1>6. AllWritten'
  <2>1. CASE AllWritten
    BY <1>3, <1>4, <1>5, <2>1 DEF AllWritten, Behind
  <2>2. CASE NoFields
    <3>1. /\ evt \in {"PING", "LNEW"} /\ Position = 1
          /\ ServerPacketLen(evt, ver) = 1
      BY <1>1, <2>2, LengthPositive DEF NoFields
    <3>2. \A i : ~IsData(evt, i)
      BY <3>1 DEF IsData
    <3> QED BY <1>3, <1>4, <1>5, <3>1, <3>2 DEF AllWritten
  <2> QED BY <1>2, <2>1, <2>2
<1>7. TypeOK' /\ BufferBounds' /\ Flushed'
  BY <1>1, <1>3, <1>4 DEF TypeOK, BufferBounds, Flushed
<1>8. Stage'
  <2>1. \A i \in 1 .. 3 : left[i] # 0
    BY <1>1, <1>2 DEF Stage
  <2> QED BY <1>3, <1>4, <1>6, <2>1 DEF Stage
<1> QED BY <1>1, <1>3, <1>4, <1>5, <1>7, <1>8 DEF WriterInv

(* A step that changes nothing. *)
LEMMA StutterInv == WriterInv /\ UNCHANGED vars => WriterInv'
BY DEF vars, WriterInv, TypeOK, BufferBounds, Stage, Flushed, UnderWay, AllWritten,
       NoFields, Ahead, Behind, Position

-----------------------------------------------------------------------------
(* The invariant: what of the packet is written, in the buffer or beyond,  *)
(* is what the serializer says, and there is room for the next field.      *)
THEOREM Invariance == Spec => []WriterInv
<1>1. WriterInv /\ [Next]_vars => WriterInv'
  BY SendInv, NumberInv, FieldInv, OverrunInv, ReturnInv, FinishInv, StutterInv
     DEF Next, Sender
<1> QED BY <1>1, InitInv, PTL DEF Spec

(* All variables keep their types. *)
THEOREM TypeCorrect == Spec => []TypeOK
<1>1. WriterInv => TypeOK
  BY DEF WriterInv
<1> QED BY <1>1, Invariance, PTL

(* No writer of wse.c, whatever it returns for a lack of room, writes      *)
(* outside the buffer of the sender - but that of a new entity's name when *)
(* senewactr is given the length of a name that was refused.               *)
THEOREM BufferCorrect == Spec => []BufferBounds
<1>1. WriterInv => BufferBounds
  BY DEF WriterInv
<1> QED BY <1>1, Invariance, PTL

(* A sender finds nothing of the packet before its own.                    *)
THEOREM ReadyCorrect == Spec => []SessionReady
<1>1. WriterInv => SessionReady
  BY DEF WriterInv, Stage, AllWritten, SessionReady
<1> QED BY <1>1, Invariance, PTL

(* A field of data that a client is not sent comes after a packet's last.  *)
LEMMA NotSent ==
    ASSUME TypeOK, NEW i \in 1 .. 3, IsData(evt, i), i \notin Numbers(evt, ver)
    PROVE  ~InPacket(i)
<1>1. evt = "PGREETING" /\ i = 3 /\ ver < 3 /\ ver \in 0 .. 7
  BY EventFacts DEF IsData, Numbers
<1>2. Fields(evt, ver)[2].last
  BY <1>1, FieldList, WriterFacts DEF Fielded, Sends, Generic, HoldsData
<1> QED BY <1>1, <1>2 DEF InPacket

(* When a sender returns, its packet is on the wire with all its data.     *)
THEOREM WholeCorrect == Spec => []PacketWhole
<1>1. ASSUME WriterInv, pc = "done"
      PROVE  /\ wire = ServerPacketLen(evt, ver)
             /\ \A i \in 1 .. 3 : left[i] # Null => ~InPacket(i)
  <2>1. /\ AllWritten /\ idx = 0 /\ acc = 0 /\ wire \in Nat /\ TypeOK
        /\ \A i \in 1 .. 3 : left[i] # 0
        /\ \A i \in 1 .. 3 : ~IsData(evt, i) => left[i] = Null
    BY <1>1 DEF WriterInv, Stage, TypeOK
  <2>2. wire = ServerPacketLen(evt, ver)
    BY <2>1 DEF AllWritten, Position
  <2>3. ASSUME NEW i \in 1 .. 3, left[i] # Null PROVE ~InPacket(i)
    <3>1. IsData(evt, i)
      BY <2>1, <2>3
    <3>2. i \notin Numbers(evt, ver)
      BY <2>1, <2>3, <3>1 DEF AllWritten, Behind
    <3> QED BY <2>1, <3>1, <3>2, NotSent
  <2> QED BY <2>2, <2>3
<1>2. WriterInv => PacketWhole
  BY <1>1 DEF PacketWhole
<1> QED BY <1>2, Invariance, PTL

-----------------------------------------------------------------------------
(* The stream of packets. *)
(* The session is idle exactly when the packet is whole: some more of it   *)
(* is written, or nothing happens.                                         *)
LEMMA Forward ==
    ASSUME Position \in Nat, Position' \in Nat, evt' = evt, ver' = ver,
           ServerPacketLen(evt, ver) \in Nat,
           \/ Position' = Position /\ (Idle' <=> Idle)
           \/ /\ Position < Position' /\ Position' <= ServerPacketLen(evt, ver)
              /\ Idle' <=> Position' = ServerPacketLen(evt, ver)
    PROVE  [Stream!Next]_(Stream!vars)
<1>1. ServerPacketLen(evt', ver') = ServerPacketLen(evt, ver)
  OBVIOUS
<1>2. CASE Position' = Position /\ (Idle' <=> Idle)
  <2>1. Idle' = Idle
    BY <1>2 DEF Idle
  <2> QED BY <1>1, <1>2, <2>1 DEF Stream!vars
<1>3. CASE /\ Position < Position' /\ Position' <= ServerPacketLen(evt, ver)
           /\ Idle' <=> Position' = ServerPacketLen(evt, ver)
  <2>1. /\ Position < ServerPacketLen(evt, ver)
        /\ Position' \in Position + 1 .. ServerPacketLen(evt, ver)
    BY <1>3
  <2>2. Idle' = (Position' = ServerPacketLen(evt, ver))
    BY <1>3 DEF Idle
  <2>3. Stream!Advance
    BY <1>1, <2>1, <2>2, Zenon DEF Stream!Advance
  <2> QED BY <2>3 DEF Stream!Next
<1> QED BY <1>2, <1>3

(* While a field is written the packet is not at its end.                  *)
LEMMA UnderWayFacts ==
    ASSUME WriterInv, UnderWay
    PROVE  /\ ~Idle /\ Position \in Nat /\ Position < ServerPacketLen(evt, ver)
<1> DEFINE f == Fields(evt, ver)[w.type]
<1>1. /\ FieldFits(f, evt, ver, w.type) /\ evt \in Fielded /\ w.evt = evt
      /\ Size(evt) \in Nat /\ ServerPacketLen(evt, ver) \in Nat
  BY EventFacts, FieldFacts, LengthPositive DEF UnderWay, WriterInv
<1> HIDE DEF f
<1>2. ~Idle
  BY <1>1 DEF Idle, Fielded, Sends, Generic
<1>3. CASE IsData(evt, w.type)
  BY <1>1, <1>2, <1>3 DEF UnderWay, FieldFits, Width
<1>4. CASE ~IsData(evt, w.type)
  <2>1. Width(evt, ver, w.type) = f.len /\ f.len \in 1 .. 8
    BY <1>1, <1>4 DEF Width, FieldFits, f
  <2> QED BY <1>1, <1>2, <1>4, <2>1 DEF UnderWay, FieldFits
<1> QED BY <1>3, <1>4

(* What has been written is a number of bytes. *)
LEMMA PositionIsNatural == WriterInv => Position \in Nat
  BY DEF WriterInv, TypeOK, BufferBounds, Position

(* Every step of a sender is one of the stream, or none. *)
LEMMA StreamStep ==
    ASSUME WriterInv, WriterInv', [Next]_vars
    PROVE  [Stream!Next]_(Stream!vars)
<1>1. /\ Position \in Nat /\ ServerPacketLen(evt, ver) \in Nat
      /\ TypeOK /\ Stage /\ idx \in Nat /\ wire \in Nat /\ acc \in Int
  BY LengthPositive DEF WriterInv, TypeOK, BufferBounds, Position
<1>2. Position' \in Nat
  <2>1. (WriterInv => Position \in Nat)'
    BY PositionIsNatural, PTL
  <2> QED BY <2>1
<1>3. CASE Send
  <2>1. Position = ServerPacketLen(evt, ver)
    BY <1>1, <1>3 DEF Send, Stage, AllWritten
  <2>2. PICK packet \in Calls : evt' = packet.evt
    BY <1>3 DEF Send
  <2>3. ServerPacketLen(evt', ver') \in PacketLens
    BY <1>3, <2>2 DEF Send, PacketLens
  <2>4. Position' = 0 /\ w' = w
    BY <1>3 DEF Send, Position
  <2>5. Idle' = Idle
    BY <2>4, Zenon DEF Idle
  <2>6. Stream!Begin
    BY <2>1, <2>3, <2>4, <2>5, Zenon DEF Stream!Begin
  <2> QED BY <2>6 DEF Stream!Next
<1>4. CASE WriteNumber
  <2>1. /\ Position = 0 /\ Position' = 1 /\ evt' = evt /\ ver' = ver
        /\ w.type = 0 /\ pc' = "fields"
    BY <1>1, <1>4 DEF WriteNumber, Stage, Position
  <2>2. Stage' /\ TypeOK'
    BY DEF WriterInv
  <2>3. /\ evt \in {"PING", "LNEW"} => ServerPacketLen(evt, ver) = 1
        /\ evt \in Fielded => ServerPacketLen(evt, ver) > 1
        /\ evt \in Fielded \/ evt \in {"PING", "LNEW"}
    BY <1>1, EventFacts, LengthPositive
  <2>4. CASE UnderWay'
    <3>1. evt \in Fielded /\ w'.evt = evt
      BY <2>1, <2>4 DEF UnderWay
    <3>2. ~Idle'
      BY <3>1 DEF Idle, Fielded, Sends, Generic
    <3> QED BY <1>1, <1>2, <2>1, <2>3, <3>1, <3>2, Forward
  <2>5. CASE AllWritten' \/ NoFields'
    <3>1. Position' = ServerPacketLen(evt, ver)
      BY <2>1, <2>3, <2>5 DEF AllWritten, NoFields
    <3>2. Idle'
      BY <2>5 DEF AllWritten, NoFields, Idle
    <3> QED BY <1>1, <1>2, <2>1, <3>1, <3>2, Forward
  <2> QED BY <2>1, <2>2, <2>4, <2>5 DEF Stage
<1>5. CASE WriteField
  <2>1. /\ UnderWay
        /\ (UnderWay' \/ AllWritten')
        /\ acc' >= acc /\ (acc' = acc => w'.evt = w.evt)
    BY <1>5, FieldInv
  <2>2. /\ evt' = evt /\ ver' = ver /\ idx' = idx /\ wire' = wire
    BY <1>5 DEF WriteField
  <2>3. acc' \in Int
    BY DEF WriterInv, TypeOK
  <2>4. Position <= Position' /\ (acc' = acc <=> Position' = Position)
    <3>1. Position = wire + idx + acc /\ Position' = wire + idx + acc'
      BY <2>2 DEF Position
    <3>2. /\ wire + idx \in Int /\ acc \in Int /\ acc' \in Int
          /\ acc <= acc'
      BY <1>1, <2>1, <2>3
    <3>3. /\ wire + idx + acc <= wire + idx + acc'
          /\ wire + idx + acc' = wire + idx + acc <=> acc' = acc
      BY <3>2
    <3> QED BY <3>1, <3>3, Zenon
  <2>5. ~Idle
    BY <2>1, UnderWayFacts
  <2>6. UnderWay' => ~Idle' /\ Position' < ServerPacketLen(evt, ver)
    <3>1. (WriterInv /\ UnderWay => ~Idle /\ Position < ServerPacketLen(evt, ver))'
      BY UnderWayFacts, PTL
    <3> QED BY <2>2, <3>1
  <2>7. AllWritten' => Idle' /\ Position' = ServerPacketLen(evt, ver)
    BY <2>2 DEF AllWritten, Idle
  <2>8. CASE Position' = Position
    <3>1. Idle' <=> Idle
      BY <2>1, <2>4, <2>8 DEF Idle
    <3> QED BY <1>1, <1>2, <2>2, <2>8, <3>1, Forward
  <2>9. CASE Position' # Position
    <3>1. Position < Position' /\ Position' <= ServerPacketLen(evt, ver)
      BY <1>1, <1>2, <2>1, <2>4, <2>6, <2>7, <2>9
    <3>2. Idle' <=> Position' = ServerPacketLen(evt, ver)
      BY <1>1, <1>2, <2>1, <2>6, <2>7
    <3> QED BY <1>1, <1>2, <2>2, <3>1, <3>2, Forward
  <2> QED BY <2>8, <2>9
<1>6. CASE Return
  <2>1. Position' = Position /\ w' = w /\ evt' = evt /\ ver' = ver
    BY <1>6, ReturnInv
  <2>2. Idle' <=> Idle
    BY <2>1 DEF Idle
  <2> QED BY <1>1, <1>2, <2>1, <2>2, Forward
<1>7. CASE Finish
  <2>1. Position' = Position /\ w'.evt = "NOTHING" /\ evt' = evt /\ ver' = ver
    BY <1>7, FinishInv
  <2>2. Idle /\ Idle'
    BY <1>7, <2>1 DEF Finish, Idle
  <2> QED BY <1>1, <1>2, <2>1, <2>2, Forward
<1>8. CASE UNCHANGED vars
  <2>1. Position' = Position /\ evt' = evt /\ ver' = ver /\ (Idle' <=> Idle)
    BY <1>8 DEF vars, Position, Idle
  <2> QED BY <1>1, <1>2, <2>1, Forward
<1>9. CASE Overrun
  <2>1. Position' = Position /\ w' = w /\ evt' = evt /\ ver' = ver
    BY <1>9, OverrunInv
  <2>2. Idle' <=> Idle
    BY <2>1 DEF Idle
  <2> QED BY <1>1, <1>2, <2>1, <2>2, Forward
<1> QED BY <1>3, <1>4, <1>5, <1>6, <1>7, <1>8, <1>9 DEF Next, Sender

(* Whatever pieces the buffer makes of them, the senders write packets one *)
(* after the other, each byte once, and are idle exactly when one is whole.*)
THEOREM Refinement == Spec => StreamSpec
<1>1. Init => Stream!Init
  <2> SUFFICES ASSUME Init PROVE Stream!Init
    OBVIOUS
  <2>1. ServerPacketLen(evt, ver) \in PacketLens
    BY DEF Init, PacketLens
  <2>2. Position = 0 /\ w.evt = "NOTHING"
    BY DEF Init, Position, ResetSerializer
  <2>3. Idle = TRUE
    BY <2>2, Zenon DEF Idle
  <2> QED BY <2>1, <2>2, <2>3, Zenon DEF Stream!Init
<1>2. WriterInv /\ WriterInv' /\ [Next]_vars => [Stream!Next]_(Stream!vars)
  BY StreamStep
<1> QED
  BY <1>1, <1>2, Invariance, PTL DEF Spec, StreamSpec, Stream!Spec
-----------------------------------------------------------------------------
(* How many steps a sender has left at most: as many for each byte that is *)
(* not written yet as may pass without one being written. A field that     *)
(* finds no room returns to the sender, which outputs its buffer, and the  *)
(* next field has room.                                                    *)
Rank ==
    CASE pc = "fields" /\ acc # 0 -> 3
      [] pc = "return" -> 2
      [] pc = "fields" /\ acc = 0 -> 1
      [] OTHER -> 0

StepsLeft == 4 * (ServerPacketLen(evt, ver) - Position) + Rank

SenderAdvances == [][Sender => StepsLeft' \in Nat /\ StepsLeft' < StepsLeft]_vars

LEMMA RankFacts ==
    /\ Rank \in 0 .. 3
    /\ pc = "fields" /\ acc # 0 => Rank = 3
    /\ pc = "return" => Rank = 2
    /\ pc = "fields" /\ acc = 0 => Rank = 1
    /\ pc \in {"number", "done", "overrun"} => Rank = 0
BY DEF Rank

(* No more is written than the packet is long.                             *)
LEMMA PositionInPacket ==
    ASSUME WriterInv
    PROVE  /\ Position \in Nat /\ ServerPacketLen(evt, ver) \in Nat
           /\ Position <= ServerPacketLen(evt, ver)
           /\ pc = "number" => Position = 0
           /\ pc = "return" => acc # 0
<1>1. /\ Position \in Nat /\ TypeOK /\ Stage
      /\ ServerPacketLen(evt, ver) \in Nat /\ ServerPacketLen(evt, ver) >= 1
  BY PositionIsNatural, LengthPositive DEF WriterInv
<1>2. UnderWay => Position < ServerPacketLen(evt, ver)
  BY UnderWayFacts
<1>3. AllWritten => Position = ServerPacketLen(evt, ver)
  BY DEF AllWritten
<1>4. NoFields => Position = 1
  BY DEF NoFields
<1>5. pc = "number" => Position = 0
  BY <1>1 DEF Stage, Position
<1>6. /\ pc = "fields" => UnderWay \/ AllWritten \/ NoFields
      /\ pc = "return" => (UnderWay \/ AllWritten) /\ acc > 0
      /\ pc = "done" => AllWritten
      /\ pc = "overrun" => UnderWay
      /\ pc \in {"number", "fields", "return", "done", "overrun"}
  BY <1>1 DEF Stage, TypeOK
<1>7. pc = "return" => acc # 0
  BY <1>1, <1>6 DEF TypeOK
<1> QED BY <1>1, <1>2, <1>3, <1>4, <1>5, <1>6, <1>7

(* A field of which nothing is written has no room, and returns.           *)
LEMMA NoneWritten ==
    ASSUME WriterInv, WriteField, acc' = acc
    PROVE  pc' = "return"
<1>1. pc = "fields" /\ UnderWay /\ acc \in Int
  BY FieldInv DEF WriterInv, TypeOK
<1>2. CASE ~IsData(evt, w.type)
  <2>1. acc' > acc
    BY <1>1, <1>2, FixedInv
  <2> QED BY <1>1, <2>1
<1>3. CASE IsData(evt, w.type)
  <2>1. PICK r \in 0 .. w.rem : acc' = acc + r /\ (pc' = "fields" => r # 0)
    BY <1>1, <1>3, DataWritten
  <2>2. w.rem \in Int
    BY <1>1, <1>3 DEF WriterInv, TypeOK, UnderWay
  <2>3. r = 0
    BY <1>1, <2>1, <2>2
  <2>4. pc' \in {"fields", "return"}
    BY DEF WriteField
  <2> QED BY <2>1, <2>3, <2>4
<1> QED BY <1>2, <1>3

(* What is left after a step that has written d bytes.                     *)
LEMMA FewerSteps ==
    ASSUME NEW n \in Nat, NEW p \in Nat, NEW q \in Nat, NEW r \in 0 .. 3, NEW s \in 0 .. 3,
           q <= n, p < q \/ (p = q /\ s < r)
    PROVE  4 * (n - q) + s \in Nat /\ 4 * (n - q) + s < 4 * (n - p) + r
OBVIOUS

(* A sender returns, or leaves its buffer, after no more steps than it has *)
(* left: there is no lack of room that its outputs do not cure (NOTENOUGH  *)
(* in client.c's senders).                                                 *)
THEOREM SenderEnds == Spec => SenderAdvances
<1>1. ASSUME WriterInv, WriterInv', Sender
      PROVE  StepsLeft' \in Nat /\ StepsLeft' < StepsLeft
  <2>1. /\ Position \in Nat /\ ServerPacketLen(evt, ver) \in Nat
        /\ pc = "number" => Position = 0
        /\ pc = "return" => acc # 0
    BY <1>1, PositionInPacket
  <2>2. /\ Position' \in Nat /\ Position' <= ServerPacketLen(evt', ver')
        /\ pc' = "return" => acc' # 0
    <3>1. (WriterInv => /\ Position \in Nat /\ Position <= ServerPacketLen(evt, ver)
                        /\ pc = "return" => acc # 0)'
      BY PositionInPacket, PTL
    <3> QED BY <1>1, <3>1
  <2>3. /\ Rank \in 0 .. 3
        /\ pc = "fields" /\ acc # 0 => Rank = 3
        /\ pc = "return" => Rank = 2
        /\ pc = "fields" /\ acc = 0 => Rank = 1
        /\ pc \in {"number", "done", "overrun"} => Rank = 0
    BY RankFacts
  <2>4. /\ Rank' \in 0 .. 3
        /\ pc' = "fields" /\ acc' # 0 => Rank' = 3
        /\ pc' = "return" => Rank' = 2
        /\ pc' = "fields" /\ acc' = 0 => Rank' = 1
        /\ pc' \in {"number", "done", "overrun"} => Rank' = 0
    <3>1. (/\ Rank \in 0 .. 3
           /\ pc = "fields" /\ acc # 0 => Rank = 3
           /\ pc = "return" => Rank = 2
           /\ pc = "fields" /\ acc = 0 => Rank = 1
           /\ pc \in {"number", "done", "overrun"} => Rank = 0)'
      BY RankFacts, PTL
    <3> QED BY <3>1
  <2>5. evt' = evt /\ ver' = ver
    BY <1>1 DEF Sender, WriteNumber, WriteField, Overrun, Return, Finish
  <2>6. Position < Position' \/ (Position = Position' /\ Rank' < Rank)
    <3>1. CASE WriteNumber
      <4>1. Position' = 1
        BY <1>1, <3>1 DEF WriteNumber, WriterInv, Stage, Position
      <4> QED BY <2>1, <3>1, <4>1 DEF WriteNumber
    <3>2. CASE WriteField
      <4>1. pc = "fields" /\ acc' >= acc /\ acc \in Int /\ acc' \in Int
            /\ wire' = wire /\ idx' = idx /\ wire \in Nat /\ idx \in Nat
        BY <1>1, <3>2, FieldInv DEF WriteField, WriterInv, TypeOK
      <4>2. CASE acc' > acc
        <5>1. acc < acc' /\ acc \in Int /\ acc' \in Int /\ wire + idx \in Int
          BY <4>1, <4>2
        <5>2. \A n, a, b \in Int : a < b => n + a < n + b
          OBVIOUS
        <5>3. (wire + idx) + acc < (wire + idx) + acc'
          BY <5>1, <5>2
        <5> QED BY <4>1, <5>3 DEF Position
      <4>3. CASE acc' = acc
        <5>1. Position' = Position
          BY <4>1, <4>3 DEF Position
        <5>2. pc' = "return"
          BY <1>1, <3>2, <4>3, NoneWritten
        <5>3. Rank' = 2 /\ Rank = 3
          BY <2>2, <2>3, <2>4, <4>1, <4>3, <5>2
        <5> QED BY <5>1, <5>3
      <4> QED BY <4>1, <4>2, <4>3
    <3>3. CASE Return
      <4>1. Position' = Position /\ pc = "return" /\ acc' = 0 /\ pc' \in {"fields", "done"}
        BY <1>1, <3>3, ReturnInv DEF Return
      <4> QED BY <2>3, <2>4, <4>1
    <3>4. CASE Finish
      <4>1. Position' = Position /\ pc' = "done"
        BY <1>1, <3>4, FinishInv DEF Finish
      <4>2. pc = "fields"
        BY <3>4 DEF Finish
      <4>3. Rank \in {1, 3}
        BY <2>3, <4>2
      <4> QED BY <2>4, <4>1, <4>3
    <3>5. CASE Overrun
      <4>1. Position' = Position /\ pc' = "overrun" /\ pc = "fields"
        BY <1>1, <3>5, OverrunInv DEF Overrun
      <4>2. Rank \in {1, 3}
        BY <2>3, <4>1
      <4> QED BY <2>4, <4>1, <4>2
    <3> QED BY <1>1, <3>1, <3>2, <3>3, <3>4, <3>5 DEF Sender
  <2>7. /\ StepsLeft = 4 * (ServerPacketLen(evt, ver) - Position) + Rank
        /\ StepsLeft' = 4 * (ServerPacketLen(evt, ver) - Position') + Rank'
    BY <2>5 DEF StepsLeft
  <2> HIDE DEF Position, Rank, StepsLeft
  <2> QED BY <2>1, <2>2, <2>3, <2>4, <2>5, <2>6, <2>7, FewerSteps
<1>2. WriterInv /\ WriterInv' /\ [Next]_vars
        => [Sender => StepsLeft' \in Nat /\ StepsLeft' < StepsLeft]_vars
  BY <1>1
<1> QED BY <1>2, Invariance, PTL DEF Spec, SenderAdvances
=============================================================================
