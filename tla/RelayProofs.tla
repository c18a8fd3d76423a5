----------------------------- MODULE RelayProofs -----------------------------
(***************************************************************************)
(* Proofs about Relay, for all replies and clients and all ways of TCP to  *)
(* cut what they send. While nothing odd has happened the relay and the    *)
(* server are in step; that a reply comes needs less.                      *)
(***************************************************************************)
EXTENDS Relay, SequenceTheorems, TLAPS

-----------------------------------------------------------------------------
(* Types and bounds. *)

(* A read takes a part of what was said and adds it to the buffer.         *)
LEMMA ReadParts ==
    ASSUME NEW S, outbuf \in Seq(S), said \in Seq(S), NEW n \in 1 .. Len(said)
    PROVE  LET now == outbuf \o SubSeq(said, 1, n)
               rest == SubSeq(said, n + 1, Len(said))
           IN  /\ now \in Seq(S) /\ Len(now) = Len(outbuf) + n
               /\ \A i \in 1 .. Len(outbuf) + n :
                     now[i] = IF i <= Len(outbuf) THEN outbuf[i]
                                                  ELSE said[i - Len(outbuf)]
               /\ Last(now) = said[n]
               /\ rest \in Seq(S) /\ Len(rest) = Len(said) - n
               /\ \A i \in 1 .. Len(said) - n : rest[i] = said[n + i]
<1> DEFINE now == outbuf \o SubSeq(said, 1, n)
           rest == SubSeq(said, n + 1, Len(said))
<1>0. n \in Nat /\ Len(said) \in Nat /\ n <= Len(said) /\ Len(outbuf) \in Nat
  OBVIOUS
<1>1. /\ SubSeq(said, 1, n) \in Seq(S) /\ Len(SubSeq(said, 1, n)) = n
      /\ \A i \in 1 .. n : SubSeq(said, 1, n)[i] = said[i]
  BY <1>0
<1>2. /\ now \in Seq(S) /\ Len(now) = Len(outbuf) + n
      /\ \A i \in 1 .. Len(outbuf) + n :
            now[i] = IF i <= Len(outbuf) THEN outbuf[i]
                                         ELSE SubSeq(said, 1, n)[i - Len(outbuf)]
  BY <1>1, ConcatProperties
<1>3. ASSUME NEW i \in 1 .. Len(outbuf) + n
      PROVE  now[i] = IF i <= Len(outbuf) THEN outbuf[i]
                                          ELSE said[i - Len(outbuf)]
  <2>1. CASE i <= Len(outbuf)
    BY <1>2, <2>1
  <2>2. CASE ~(i <= Len(outbuf))
    <3>1. i - Len(outbuf) \in 1 .. n
      BY <1>0, <2>2
    <3> QED BY <1>1, <1>2, <2>2, <3>1
  <2> QED BY <2>1, <2>2
<1>4. /\ rest \in Seq(S) /\ Len(rest) = Len(said) - n
      /\ \A i \in 1 .. Len(said) - n : rest[i] = said[n + i]
  BY <1>0
<1> HIDE DEF now, rest
<1>5. Last(now) = said[n]
  <2>1. Last(now) = now[Len(outbuf) + n]
    BY <1>2 DEF Last
  <2>2. Len(outbuf) + n \in 1 .. Len(outbuf) + n /\ ~(Len(outbuf) + n <= Len(outbuf))
        /\ (Len(outbuf) + n) - Len(outbuf) = n
    BY <1>0
  <2> QED BY <1>3, <2>1, <2>2
<1> QED BY <1>2, <1>3, <1>4, <1>5 DEF now, rest

(* A reply is not empty. *)
LEMMA ReplyFacts ==
    ASSUME NEW r \in Replies
    PROVE  r \in Seq(Kinds) /\ Len(r) \in Nat \ {0} /\ DOMAIN r = 1 .. Len(r)
BY RelayAssumption

(* A step keeps all types, and passes on nothing that was not sent.        *)
LEMMA TypeStep ==
    ASSUME TypeOK, [Next]_vars
    PROVE  TypeOK'
<1>0. PacketBytes \in Nat /\ PacketBytes > 0 /\ Window \in Nat /\ MaxLag \in Nat
  BY RelayAssumption
<1>1. CASE ClientSends
  <2>1. /\ owed' \in 0 .. Window /\ tcp' \in Nat
        /\ tcp' + serial <= MaxLag + PacketBytes
    BY <1>0, <1>1 DEF ClientSends, TypeOK
  <2>2. odd' \subseteq Oddities
    BY <1>1 DEF ClientSends, TypeOK, Oddities
  <2> QED BY <1>1, <2>1, <2>2 DEF ClientSends, TypeOK
<1>2. CASE ClientCloses
  BY <1>2 DEF ClientCloses, TypeOK
<1>3. CASE Pass
  <2>1. PICK n \in 1 .. tcp :
            /\ tcp' = tcp - n /\ serial' = serial + n
            /\ odd' \in {odd, odd \cup {"cut"}}
    BY <1>3 DEF Pass
  <2>2. tcp' \in Nat /\ serial' \in Nat /\ tcp' + serial' = tcp + serial
    BY <2>1 DEF TypeOK
  <2>3. odd' \subseteq Oddities /\ <<>> \in Seq(Kinds)
    BY <2>1 DEF TypeOK, Oddities
  <2> QED BY <1>3, <2>2, <2>3 DEF Pass, TypeOK
<1>4. CASE Accept
  BY <1>0, <1>4 DEF Accept, TypeOK
<1>5. CASE Answer
  <2>1. serial' \in Nat /\ serial' < serial /\ part' \in 0 .. PacketBytes - 1
    BY <1>0, <1>5 DEF Answer, TypeOK
  <2>2. said' \in Seq(Kinds) /\ odd' \subseteq Oddities
    <3>1. CASE said' = said /\ odd' = odd
      BY <3>1 DEF TypeOK
    <3>2. CASE \E r \in Replies : said' = said \o r /\ odd' = odd \cup Oddness(r)
      <4>1. PICK r \in Replies : said' = said \o r /\ odd' = odd \cup Oddness(r)
        BY <3>2
      <4>2. said' \in Seq(Kinds)
        BY <4>1, ReplyFacts, ConcatProperties DEF TypeOK
      <4>3. Oddness(r) \subseteq Oddities
        BY DEF Oddness, Oddities
      <4> QED BY <4>1, <4>2, <4>3 DEF TypeOK
    <3> QED BY <1>5, <3>1, <3>2 DEF Answer
  <2>3. tcp + serial' <= MaxLag + PacketBytes
    <3>1. tcp \in Nat /\ serial \in Nat /\ tcp + serial <= MaxLag + PacketBytes
      BY DEF TypeOK
    <3>2. \A a, b, c, d, e \in Nat : b < c /\ a + c <= d + e => a + b <= d + e
      OBVIOUS
    <3> QED BY <1>0, <2>1, <3>1, <3>2
  <2> QED BY <1>5, <2>1, <2>2, <2>3 DEF Answer, TypeOK
<1>6. CASE Read
  <2>1. PICK n \in 1 .. Len(said) :
            /\ said' = SubSeq(said, n + 1, Len(said))
            /\ outbuf' = outbuf \o SubSeq(said, 1, n)
            /\ relay' \in {"recv", relay}
            /\ owed' = owed \/ owed' = IF owed > 0 THEN owed - 1 ELSE 0
    BY <1>6 DEF Read
  <2>2. said' \in Seq(Kinds) /\ outbuf' \in Seq(Kinds)
    BY <2>1, ReadParts DEF TypeOK
  <2>3. owed' \in 0 .. Window /\ relay' \in {"recv", "read"}
    BY <1>0, <2>1 DEF TypeOK
  <2> QED BY <1>6, <2>2, <2>3 DEF Read, TypeOK
<1>7. CASE UNCHANGED vars
  BY <1>7 DEF vars, TypeOK
<1> QED BY <1>1, <1>2, <1>3, <1>4, <1>5, <1>6, <1>7 DEF Next

(* All variables keep their types, and on both lines together there is     *)
(* never more than was sent, whatever is replied and however TCP cuts.     *)
THEOREM TypeCorrect == Spec => []TypeOK
<1>1. Init => TypeOK
  BY RelayAssumption DEF Init, TypeOK, Oddities
<1> QED BY <1>1, TypeStep, PTL DEF Spec

(* What has happened is not forgotten. *)
LEMMA OddGrows ==
    ASSUME [Next]_vars
    PROVE  odd \subseteq odd'
BY DEF Next, ClientSends, ClientCloses, Pass, Accept, Answer, Read, vars

(* A number below another is its own remainder. *)
LEMMA SmallRemainder ==
    ASSUME NEW n \in Nat, n > 0, NEW i \in 1 .. n, i % n = 0
    PROVE  i = n
<1>1. PICK q \in Int, m \in 0 .. n - 1 : i = n * q + m /\ i % n = m
  <2>1. i % n \in 0 .. n - 1 /\ i = n * (i \div n) + (i % n) /\ i \div n \in Int
    OBVIOUS
  <2> QED BY <2>1
<1>2. m = 0 /\ i = n * q
  BY <1>1
<1>3. q > 0 /\ (q > 1 => n * q > n)
  <2>1. CASE q <= 0
    <3>1. n * q <= 0
      BY <2>1
    <3> QED BY <1>2, <3>1
  <2>2. CASE q > 0
    <3>1. q > 1 => n * q > n
      BY <2>2
    <3> QED BY <2>2, <3>1
  <2> QED BY <2>1, <2>2
<1>4. q = 1
  BY <1>2, <1>3
<1> QED BY <1>2, <1>4

-----------------------------------------------------------------------------
(* Relay and server in step. *)

(* The client has sent a packet of which the relay knows nothing, or none, *)
Waiting ==
    /\ relay = "recv" /\ serial = 0 /\ part = 0 /\ said = <<>>
    /\ owed \in {0, 1} /\ tcp \in {0, owed * PacketBytes}

(* or the server has yet to read some of it,                               *)
Asking ==
    /\ relay = "read" /\ owed = 1 /\ outbuf = <<>> /\ said = <<>>
    /\ tcp = 0 /\ serial + part = PacketBytes

(* or it has answered: the relay has a first part of a reply, maybe        *)
(* nothing, and the rest is on the serial line.                            *)
Answering ==
    /\ relay = "read" /\ owed = 1 /\ tcp = 0 /\ serial = 0 /\ part = 0
    /\ \E r \in Replies, k \in Nat :
          /\ Oddness(r) = {} /\ k < Len(r)
          /\ outbuf = SubSeq(r, 1, k) /\ said = SubSeq(r, k + 1, Len(r))

InStep == Waiting \/ Asking \/ Answering

(* A reply that is not odd ends with its only byte 1. *)
LEMMA PlainBytes ==
    ASSUME NEW r \in Replies, Oddness(r) = {}, NEW i \in 1 .. Len(r)
    PROVE  r[i] # "one" /\ (r[i] = "ping" <=> i = Len(r))
<1>1. "one" \notin Oddness(r) /\ "silent" \notin Oddness(r) /\ "more" \notin Oddness(r)
  OBVIOUS
<1>2. r[i] # "one"
  BY <1>1, ReplyFacts DEF Oddness
<1>3. r[Len(r)] = "ping"
  BY <1>1 DEF Oddness
<1>4. r[i] = "ping" => i = Len(r)
  <2>1. i < Len(r) => i \in 1 .. Len(r) - 1
    BY ReplyFacts
  <2>2. i \in 1 .. Len(r) - 1 => r[i] # "ping"
    BY <1>1 DEF Oddness
  <2> QED BY <2>1, <2>2, ReplyFacts
<1> QED BY <1>2, <1>3, <1>4

(* What the relay collects of a reply is whole exactly at its end.         *)
LEMMA WholeAtEnd ==
    ASSUME NEW r \in Replies, Oddness(r) = {}, NEW k \in Nat, k < Len(r),
           NEW n \in 1 .. Len(r) - k
    PROVE  LET now == SubSeq(r, 1, k) \o SubSeq(SubSeq(r, k + 1, Len(r)), 1, n)
               rest == SubSeq(SubSeq(r, k + 1, Len(r)), n + 1, Len(r) - k)
           IN  /\ now = SubSeq(r, 1, k + n)
               /\ rest = SubSeq(r, k + n + 1, Len(r))
               /\ now \in Seq(Kinds) /\ rest \in Seq(Kinds)
               /\ IsWhole(now) <=> k + n = Len(r)
<1>1. r \in Seq(Kinds) /\ Len(r) \in Nat /\ n \in Nat /\ k + n \in 1 .. Len(r)
  BY RelayAssumption
<1> DEFINE tail == SubSeq(r, k + 1, Len(r))
           now == SubSeq(r, 1, k) \o SubSeq(tail, 1, n)
           rest == SubSeq(tail, n + 1, Len(r) - k)
<1>2. /\ tail \in Seq(Kinds) /\ Len(tail) = Len(r) - k
      /\ \A i \in 1 .. Len(r) - k : tail[i] = r[k + i]
  BY <1>1
<1> HIDE DEF tail
<1>3. /\ rest \in Seq(Kinds) /\ Len(rest) = Len(r) - k - n
      /\ \A i \in 1 .. Len(r) - k - n : rest[i] = tail[n + i]
  <2>1. Len(tail) = Len(r) - k /\ rest = SubSeq(tail, n + 1, Len(tail))
    BY <1>2
  <2>2. /\ SubSeq(tail, n + 1, Len(tail)) \in Seq(Kinds)
        /\ Len(SubSeq(tail, n + 1, Len(tail))) = Len(tail) - n
        /\ \A i \in 1 .. Len(tail) - n : SubSeq(tail, n + 1, Len(tail))[i] = tail[n + i]
    <3>1. n \in Nat /\ n <= Len(tail) /\ Len(tail) \in Nat /\ tail \in Seq(Kinds)
      BY <1>1, <1>2
    <3> QED BY <3>1
  <2> QED BY <2>1, <2>2
<1>4. /\ SubSeq(tail, 1, n) \in Seq(Kinds) /\ Len(SubSeq(tail, 1, n)) = n
      /\ \A i \in 1 .. n : SubSeq(tail, 1, n)[i] = tail[i]
  BY <1>1, <1>2
<1>5. /\ SubSeq(r, 1, k) \in Seq(Kinds) /\ Len(SubSeq(r, 1, k)) = k
      /\ \A i \in 1 .. k : SubSeq(r, 1, k)[i] = r[i]
  BY <1>1
<1>6. /\ now \in Seq(Kinds) /\ Len(now) = k + n
      /\ \A i \in 1 .. k + n :
            now[i] = IF i <= k THEN SubSeq(r, 1, k)[i] ELSE SubSeq(tail, 1, n)[i - k]
  BY <1>4, <1>5, ConcatProperties
<1> HIDE DEF now, rest
<1>7. ASSUME NEW i \in 1 .. k + n PROVE now[i] = r[i]
  <2>1. CASE i <= k
    BY <1>1, <1>5, <1>6, <2>1
  <2>2. CASE ~(i <= k)
    <3>1. i - k \in 1 .. n /\ i - k \in 1 .. Len(r) - k /\ k + (i - k) = i
      BY <1>1, <2>2
    <3> QED BY <1>2, <1>4, <1>6, <2>2, <3>1
  <2> QED BY <2>1, <2>2
<1>8. now = SubSeq(r, 1, k + n)
  <2>1. /\ SubSeq(r, 1, k + n) \in Seq(Kinds) /\ Len(SubSeq(r, 1, k + n)) = k + n
        /\ \A i \in 1 .. k + n : SubSeq(r, 1, k + n)[i] = r[i]
    BY <1>1
  <2> QED BY <1>6, <1>7, <2>1, SeqEqual
<1>9. rest = SubSeq(r, k + n + 1, Len(r))
  <2>1. /\ SubSeq(r, k + n + 1, Len(r)) \in Seq(Kinds)
        /\ Len(SubSeq(r, k + n + 1, Len(r))) = Len(r) - k - n
        /\ \A i \in 1 .. Len(r) - k - n :
              SubSeq(r, k + n + 1, Len(r))[i] = r[k + n + i]
    BY <1>1
  <2>2. ASSUME NEW i \in 1 .. Len(r) - k - n PROVE rest[i] = r[k + n + i]
    <3>1. n + i \in 1 .. Len(r) - k /\ k + (n + i) = k + n + i
      BY <1>1
    <3> QED BY <1>2, <1>3, <3>1
  <2> QED BY <1>3, <2>1, <2>2, SeqEqual
<1>10. IsWhole(now) <=> k + n = Len(r)
  <2>1. Last(now) = r[k + n]
    <3>1. k + n \in 1 .. k + n
      BY <1>1
    <3> QED BY <1>6, <1>7, <3>1 DEF Last
  <2>2. r[k + n] # "one" /\ (r[k + n] = "ping" <=> k + n = Len(r))
    BY <1>1, PlainBytes
  <2> QED BY <2>1, <2>2 DEF IsWhole
<1> QED BY <1>3, <1>6, <1>8, <1>9, <1>10 DEF now, rest, tail

(* A packet is passed on: all that waits for the relay is part of it.      *)
LEMMA PassStep ==
    ASSUME TypeOK, InStep, Pass, odd' = {}
    PROVE  InStep'
<1>1. Waiting
  BY DEF InStep, Pass, Asking, Answering
<1>2. PICK n \in 1 .. tcp :
          /\ tcp' = tcp - n /\ serial' = serial + n
          /\ odd' = IF n % PacketBytes = 0 THEN odd ELSE odd \cup {"cut"}
  BY DEF Pass
<1>3. owed = 1 /\ tcp = PacketBytes /\ PacketBytes \in Nat /\ PacketBytes > 0
  BY <1>1, <1>2, RelayAssumption DEF Waiting
<1>4. n % PacketBytes = 0
  BY <1>2
<1>5. n = PacketBytes
  BY <1>2, <1>3, <1>4, SmallRemainder
<1>6. tcp' = 0 /\ serial' + part = PacketBytes
  BY <1>1, <1>2, <1>3, <1>5 DEF Waiting
<1>7. Asking'
  BY <1>1, <1>3, <1>6 DEF Asking, Waiting, Pass
<1> QED BY <1>7 DEF InStep

(* The server reads a byte, and answers behind the last of a packet.       *)
LEMMA AnswerStep ==
    ASSUME TypeOK, InStep, Answer, odd' = {}
    PROVE  InStep'
<1>1. Asking
  BY DEF InStep, Answer, Waiting, Answering
<1>2. /\ relay' = relay /\ outbuf' = outbuf /\ owed' = owed /\ tcp' = tcp
      /\ serial' = serial - 1 /\ serial > 0 /\ PacketBytes \in Nat
      /\ serial \in Nat /\ part \in Nat
  BY RelayAssumption DEF Answer, TypeOK
<1>3. CASE part + 1 < PacketBytes /\ part' = part + 1 /\ said' = said
  <2>1. Asking'
    BY <1>1, <1>2, <1>3 DEF Asking
  <2> QED BY <2>1 DEF InStep
<1>4. CASE /\ part + 1 = PacketBytes /\ part' = 0
           /\ \E r \in Replies : said' = said \o r /\ odd' = odd \cup Oddness(r)
  <2>1. PICK r \in Replies : said' = said \o r /\ odd' = odd \cup Oddness(r)
    BY <1>4
  <2>2. r \in Seq(Kinds) /\ Len(r) \in Nat /\ 0 < Len(r) /\ Oddness(r) = {}
    BY <2>1, ReplyFacts
  <2>3. said' = r
    BY <1>1, <2>1, <2>2, ConcatEmptySeq DEF Asking
  <2>4. outbuf' = SubSeq(r, 1, 0) /\ said' = SubSeq(r, 0 + 1, Len(r))
    BY <1>1, <1>2, <2>2, <2>3, SubSeqEmpty, SubSeqFull DEF Asking
  <2>5. serial' = 0 /\ tcp' = 0
    BY <1>1, <1>2, <1>4 DEF Asking
  <2>6. Answering'
    BY <1>1, <1>2, <1>4, <2>2, <2>4, <2>5 DEF Answering, Asking
  <2> QED BY <2>6 DEF InStep
<1> QED BY <1>3, <1>4 DEF Answer

(* The relay reads some of a reply, and goes back to the client at its     *)
(* end, with the whole of it.                                              *)
LEMMA ReadStep ==
    ASSUME TypeOK, InStep, Read
    PROVE  /\ InStep'
           /\ relay' = "recv" => outbuf' \in Replies
<1>1. Answering
  <2>1. relay = "read" /\ said # <<>>
    <3>1. PICK n \in 1 .. Len(said) : TRUE
      BY DEF Read
    <3>2. Len(<<>>) = 0 /\ Len(said) # 0
      BY <3>1, EmptySeq
    <3> QED BY <3>2, Zenon DEF Read
  <2> QED BY <2>1 DEF InStep, Waiting, Asking
<1>2. PICK r \in Replies, k \in Nat :
          /\ Oddness(r) = {} /\ k < Len(r)
          /\ outbuf = SubSeq(r, 1, k) /\ said = SubSeq(r, k + 1, Len(r))
  BY <1>1 DEF Answering
<1>3. r \in Seq(Kinds) /\ Len(r) \in Nat /\ Len(said) = Len(r) - k
  BY <1>2, ReplyFacts
<1>4. PICK n \in 1 .. Len(said) :
          /\ said' = SubSeq(said, n + 1, Len(said))
          /\ outbuf' = outbuf \o SubSeq(said, 1, n)
          /\ \/ /\ IsWhole(outbuf') /\ relay' = "recv"
                /\ owed' = IF owed > 0 THEN owed - 1 ELSE 0
             \/ ~IsWhole(outbuf') /\ relay' = relay /\ owed' = owed
  BY DEF Read
<1>5. /\ outbuf' = SubSeq(r, 1, k + n) /\ said' = SubSeq(r, k + n + 1, Len(r))
      /\ IsWhole(outbuf') <=> k + n = Len(r)
  <2>1. n \in 1 .. Len(r) - k
    BY <1>3, <1>4
  <2>2. /\ outbuf' = SubSeq(r, 1, k) \o SubSeq(SubSeq(r, k + 1, Len(r)), 1, n)
        /\ said' = SubSeq(SubSeq(r, k + 1, Len(r)), n + 1, Len(r) - k)
    BY <1>2, <1>3, <1>4
  <2> QED BY <1>2, <2>1, <2>2, WholeAtEnd
<1>6. tcp' = tcp /\ serial' = serial /\ part' = part
  BY DEF Read
<1>7. CASE k + n = Len(r)
  <2>1. outbuf' = r /\ said' = <<>>
    BY <1>3, <1>5, <1>7, SubSeqFull, SubSeqEmpty
  <2>2. relay' = "recv" /\ owed' = 0
    BY <1>1, <1>4, <1>5, <1>7 DEF Answering
  <2>3. Waiting'
    BY <1>1, <1>6, <2>1, <2>2 DEF Waiting, Answering
  <2> QED BY <2>1, <2>3 DEF InStep
<1>8. CASE k + n # Len(r)
  <2>1. k + n \in Nat /\ k + n < Len(r)
    BY <1>3, <1>8
  <2>2. relay' = relay /\ owed' = owed
    BY <1>4, <1>5, <1>8
  <2>3. Answering'
    BY <1>1, <1>2, <1>5, <1>6, <2>1, <2>2 DEF Answering
  <2> QED BY <1>1, <2>2, <2>3 DEF InStep, Answering
<1> QED BY <1>7, <1>8

(* Clients come, send and go. *)
LEMMA ClientStep ==
    ASSUME TypeOK, InStep, odd' = {},
           ClientSends \/ ClientCloses \/ Accept \/ UNCHANGED vars
    PROVE  InStep'
<1>1. CASE ClientSends
  <2>1. owed = 0 /\ owed' = owed + 1
    BY <1>1 DEF ClientSends
  <2>2. Waiting /\ PacketBytes \in Nat
    BY <2>1, RelayAssumption DEF InStep, Asking, Answering
  <2>3. owed' = 1 /\ tcp' = PacketBytes
    BY <1>1, <2>1, <2>2 DEF ClientSends, Waiting
  <2>4. Waiting'
    BY <1>1, <2>2, <2>3 DEF ClientSends, Waiting
  <2> QED BY <2>4 DEF InStep
<1>2. CASE ClientCloses \/ UNCHANGED vars
  <2>1. /\ relay' = relay /\ outbuf' = outbuf /\ owed' = owed /\ tcp' = tcp
        /\ serial' = serial /\ part' = part /\ said' = said
    BY <1>2 DEF ClientCloses, vars
  <2> QED BY <2>1 DEF InStep, Waiting, Asking, Answering
<1>3. CASE Accept
  <2>1. Waiting
    BY <1>3 DEF Accept, InStep, Asking, Answering
  <2>2. Waiting'
    BY <1>3, <2>1 DEF Accept, Waiting
  <2> QED BY <2>2 DEF InStep
<1> QED BY <1>1, <1>2, <1>3

(* Between replies nothing is on the line, and the relay never leaves a    *)
(* reply before its end, while every reply has ended with its only byte 1, *)
(* clients have waited for them, and packets have come whole.              *)
THEOREM Invariance == Spec => [](odd = {} => InStep)
<1> DEFINE Inv == odd = {} => InStep
<1>1. Init => Inv
  BY RelayAssumption DEF Init, InStep, Waiting
<1>2. TypeOK /\ Inv /\ [Next]_vars => Inv'
  <2>1. ASSUME TypeOK, Inv, [Next]_vars, odd' = {} PROVE InStep'
    <3>1. InStep
      BY <2>1, OddGrows
    <3> QED BY <2>1, <3>1, PassStep, AnswerStep, ReadStep, ClientStep DEF Next
  <2> QED BY <2>1
<1> HIDE DEF Inv
<1>3. Spec => []Inv
  BY <1>1, <1>2, TypeCorrect, PTL DEF Spec
<1> QED BY <1>3 DEF Inv

(* The next client finds nothing left over, also when the one before it    *)
(* has left while the relay was reading its reply, unless something odd    *)
(* has happened.                                                           *)
THEOREM FreshCorrect == Spec => FreshConnection
<1>1. (odd = {} => InStep) /\ [Next]_vars
        => [~open /\ open' /\ odd = {} => said = <<>> /\ serial = 0 /\ part = 0]_vars
  <2> SUFFICES ASSUME InStep, [Next]_vars, ~open, open'
               PROVE  said = <<>> /\ serial = 0 /\ part = 0
    OBVIOUS
  <2>1. Accept
    BY DEF Next, ClientSends, ClientCloses, Pass, Answer, Read, vars
  <2> QED BY <2>1 DEF Accept, InStep, Waiting, Asking, Answering
<1> QED BY <1>1, Invariance, PTL DEF Spec, FreshConnection

(* However the serial line cuts a reply, the relay goes back to the client *)
(* with all of it, unless something odd has happened.                      *)
THEOREM WholeCorrect == Spec => WholeReply
<1>1. TypeOK /\ (odd = {} => InStep) /\ [Next]_vars
        => [relay = "read" /\ relay' = "recv" /\ odd = {} => outbuf' \in Replies]_vars
  <2> SUFFICES ASSUME TypeOK, InStep, [Next]_vars, relay = "read", relay' = "recv"
               PROVE  outbuf' \in Replies
    OBVIOUS
  <2>1. Read
    BY DEF Next, ClientSends, ClientCloses, Pass, Accept, Answer, vars
  <2> QED BY <2>1, ReadStep
<1> QED BY <1>1, TypeCorrect, Invariance, PTL DEF Spec, WholeReply

-----------------------------------------------------------------------------
(* While the relay reads from the server, the server has bytes to read or  *)
(* has said more than was read: neither waits for the other.               *)
ReplyComes == relay = "read" => serial > 0 \/ said # <<>>

(* What the server reads are whole packets, and what it says ends with a   *)
(* ping.                                                                   *)
Whole ==
    /\ \E k \in Nat : serial + part = k * PacketBytes
    /\ said # <<>> => said[Len(said)] = "ping"
    /\ ReplyComes

(* All packets passed on whole and all replies ended with a ping, the      *)
(* server has an answer to give, or has given it, while the relay waits.   *)
LEMMA WholeStep ==
    ASSUME TypeOK, Whole, [Next]_vars, odd' \cap {"cut", "silent"} = {}
    PROVE  Whole'
<1>0. PacketBytes \in Nat /\ PacketBytes > 0
  BY RelayAssumption
<1>1. PICK k \in Nat : serial + part = k * PacketBytes
  BY DEF Whole
<1>2. CASE Pass
  <2>1. PICK n \in 1 .. tcp :
            /\ serial' = serial + n
            /\ odd' = IF n % PacketBytes = 0 THEN odd ELSE odd \cup {"cut"}
    BY <1>2 DEF Pass
  <2>2. n % PacketBytes = 0 /\ n \in Nat /\ n > 0
    BY <2>1 DEF TypeOK
  <2>3. PICK q \in Nat : n = q * PacketBytes
    <3>1. n = PacketBytes * (n \div PacketBytes) + (n % PacketBytes)
          /\ n \div PacketBytes \in Nat
      BY <1>0, <2>2
    <3> QED BY <1>0, <2>2, <3>1
  <2>4. k * PacketBytes + q * PacketBytes = (k + q) * PacketBytes /\ k + q \in Nat
    BY <1>0
  <2>5. serial' + part' = (k + q) * PacketBytes /\ serial' > 0
    <3>1. serial' + part' = (serial + part) + n /\ serial' > 0
      BY <1>2, <2>1, <2>2 DEF Pass, TypeOK
    <3> QED BY <1>1, <2>3, <2>4, <3>1
  <2> QED BY <1>2, <2>4, <2>5 DEF Pass, Whole, ReplyComes
<1>3. CASE Answer
  <2>1. serial' = serial - 1 /\ serial > 0 /\ serial \in Nat /\ part \in Nat
        /\ part < PacketBytes /\ relay' = relay
    BY <1>0, <1>3 DEF Answer, TypeOK
  <2>2. CASE part + 1 < PacketBytes /\ part' = part + 1 /\ said' = said
    <3>1. serial' + part' = k * PacketBytes
      BY <1>1, <2>1, <2>2
    <3>2. serial' > 0
      <4>1. k > 0
        BY <1>0, <1>1, <2>1
      <4>2. k * PacketBytes >= PacketBytes
        BY <1>0, <4>1
      <4> QED BY <1>0, <2>1, <2>2, <3>1, <4>2
    <3> QED BY <2>2, <3>1, <3>2 DEF Whole, ReplyComes
  <2>3. CASE /\ part + 1 = PacketBytes /\ part' = 0
             /\ \E r \in Replies : said' = said \o r /\ odd' = odd \cup Oddness(r)
    <3>1. PICK r \in Replies : said' = said \o r /\ odd' = odd \cup Oddness(r)
      BY <2>3
    <3>2. r \in Seq(Kinds) /\ Len(r) \in Nat \ {0} /\ said \in Seq(Kinds)
      BY ReplyFacts DEF TypeOK
    <3>3. r[Len(r)] = "ping"
      <4>1. "silent" \notin Oddness(r)
        BY <3>1
      <4> QED BY <4>1 DEF Oddness
    <3>4. Len(said') = Len(said) + Len(r) /\ said'[Len(said')] = "ping"
      BY <3>1, <3>2, <3>3, ConcatProperties
    <3>5. said' # <<>>
      <4>1. Len(said') # 0 /\ Len(<<>>) = 0
        BY <3>2, <3>4, EmptySeq
      <4> QED BY <4>1, Zenon
    <3>6. serial' + part' = (k - 1) * PacketBytes /\ k - 1 \in Nat
      <4>1. k * PacketBytes = (serial' + part') + PacketBytes /\ k > 0
        BY <1>0, <1>1, <2>1, <2>3
      <4>2. (k - 1) * PacketBytes = k * PacketBytes - PacketBytes
        BY <1>0
      <4>3. serial' + part' \in Int /\ k * PacketBytes \in Int
        BY <1>0, <2>1, <2>3
      <4> QED BY <1>0, <4>1, <4>2, <4>3
    <3> QED BY <3>4, <3>5, <3>6 DEF Whole, ReplyComes
  <2> QED BY <1>3, <2>2, <2>3 DEF Answer
<1>4. CASE Read
  <2>1. PICK n \in 1 .. Len(said) :
            /\ said' = SubSeq(said, n + 1, Len(said))
            /\ outbuf' = outbuf \o SubSeq(said, 1, n)
            /\ IsWhole(outbuf') => relay' = "recv"
    BY <1>4 DEF Read
  <2>2. /\ said' \in Seq(Kinds) /\ Len(said') = Len(said) - n
        /\ \A i \in 1 .. Len(said) - n : said'[i] = said[n + i]
        /\ Last(outbuf') = said[n]
    BY <2>1, ReadParts DEF TypeOK
  <2>3. said # <<>> /\ said[Len(said)] = "ping"
    <3>1. Len(said) # 0 /\ Len(<<>>) = 0
      BY <2>1, EmptySeq
    <3>2. said # <<>>
      BY <3>1, Zenon
    <3> QED BY <3>2 DEF Whole
  <2>4. CASE n = Len(said)
    <3>1. relay' = "recv"
      BY <2>1, <2>2, <2>3, <2>4 DEF IsWhole
    <3>2. said' = <<>>
      BY <2>2, <2>4, EmptySeq DEF TypeOK
    <3> QED BY <1>4, <3>1, <3>2 DEF Read, Whole, ReplyComes
  <2>5. CASE n # Len(said)
    <3>1. Len(said') \in 1 .. Len(said) - n /\ n + Len(said') = Len(said)
      <4>1. n \in 1 .. Len(said) /\ Len(said) \in Nat
        BY <2>1 DEF TypeOK
      <4> QED BY <2>2, <2>5, <4>1
    <3>2. said'[Len(said')] = "ping"
      BY <2>2, <2>3, <3>1
    <3>3. said' # <<>>
      <4>1. Len(said') # 0 /\ Len(<<>>) = 0
        BY <3>1, EmptySeq
      <4> QED BY <4>1, Zenon
    <3> QED BY <1>4, <3>2, <3>3 DEF Read, Whole, ReplyComes
  <2> QED BY <2>4, <2>5
<1>5. CASE ClientSends \/ ClientCloses \/ Accept \/ UNCHANGED vars
  <2>1. /\ relay' = relay /\ serial' = serial /\ part' = part /\ said' = said
    BY <1>5 DEF ClientSends, ClientCloses, Accept, vars
  <2> QED BY <2>1 DEF Whole, ReplyComes
<1> QED BY <1>2, <1>3, <1>4, <1>5 DEF Next

(* Where TCP has delivered whole packets and all replies have ended with a *)
(* ping, the relay has passed on all of a packet when it starts to read    *)
(* the reply, also when clients do not wait, and whatever else is in the   *)
(* replies (recv and read in localsrv.py).                                 *)
THEOREM ReplyWillCome == Spec => [](odd \cap {"cut", "silent"} = {} => ReplyComes)
<1> DEFINE Inv == odd \cap {"cut", "silent"} = {} => Whole
<1>1. Init => Inv
  <2>1. 0 * PacketBytes = 0 /\ 0 \in Nat
    BY RelayAssumption
  <2> QED BY <2>1 DEF Init, Whole, ReplyComes
<1>2. TypeOK /\ Inv /\ [Next]_vars => Inv'
  BY OddGrows, WholeStep
<1>3. Inv => (odd \cap {"cut", "silent"} = {} => ReplyComes)
  BY DEF Whole
<1> HIDE DEF Inv
<1> QED BY <1>1, <1>2, <1>3, TypeCorrect, PTL DEF Spec
=============================================================================
