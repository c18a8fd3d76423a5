------------------------------ MODULE UartProofs ------------------------------
(***************************************************************************)
(* Proofs about Uart, for rings of any size up to 128 bytes, and requests  *)
(* and replies of any length: longer than the rings, too.                  *)
(***************************************************************************)
EXTENDS Uart, TLAPS

(* The types, one by one. *)
UpTo(n) == {i \in Int : 0 <= i /\ i <= n}

Typed ==
    /\ rbuf \in [Index -> UpTo(Request)] /\ wbuf \in [Index -> UpTo(Reply)]
    /\ rfrnt \in Index /\ rback \in Index /\ wfrnt \in Index /\ wback \in Index
    /\ rqty \in UpTo(255) /\ wqty \in UpTo(255)
    /\ txie \in BOOLEAN /\ asleep \in BOOLEAN
    /\ moved \in BOOLEAN /\ lost \in BOOLEAN
    /\ txbuf \in UpTo(Reply) /\ shift \in UpTo(Reply) /\ put \in UpTo(Reply)
    /\ pc \in {"get", "empty", "take", "count",
               "put", "full", "store", "more", "enable"}
    /\ got \in UpTo(Request) /\ sent \in UpTo(Request)
    /\ heard \in UpTo(Reply - 1)

(* The index k behind another one. *)
At(i, k) == IF i + k < Size THEN i + k ELSE i + k - Size

InLine == (IF shift = None THEN 0 ELSE 1) + (IF txbuf = None THEN 0 ELSE 1)

(* Bytes of the reply in the ring, the one stored and not yet counted with *)
(* them.                                                                   *)
InRing == wqty + (IF pc = "more" THEN 1 ELSE 0)

UnderWay == InLine + InRing

Getting == pc \in {"get", "empty", "take", "count"}

(* Bytes of the request that the program has not read; while the reply is  *)
(* on its way there is none.                                               *)
Waiting == IF Getting /\ UnderWay = 0 THEN sent - got ELSE 0

(* Where the program is, and what it and the peer have of request and      *)
(* reply.                                                                  *)
Phases ==
    /\ Getting /\ UnderWay = 0 =>
          /\ got <= sent /\ heard = 0
          /\ pc # "count" => got < Request
          /\ pc = "take" => got < sent
          /\ pc = "count" => got > 0
    /\ Getting /\ UnderWay > 0 =>
          /\ got = 0 /\ sent = Request /\ pc \in {"get", "empty"}
          /\ heard + UnderWay = Reply
    /\ ~Getting =>
          /\ got = Request /\ sent = Request
          /\ put = heard + UnderWay /\ put <= Reply
          /\ pc \in {"put", "full", "store"} => put < Reply

(* The byte that the program has read and not yet counted.                 *)
Taken == IF pc = "count" THEN 1 ELSE 0

(* What is in the receiving ring, until it overflows: then only its count  *)
(* is right, as far as a byte holds it.                                    *)
Held ==
    /\ Waiting <= Size
    /\ rback = At(rfrnt, Waiting)
    /\ \A k \in Index : k < Waiting => rbuf[At(rfrnt, k)] = got + k + 1

Receiving ==
    /\ rqty = (Waiting + Taken) % 256
    /\ ~lost => Held

(* What is in the other ring, and in the transmitter.                      *)
Sending ==
    /\ shift # None => shift = heard + 1
    /\ txbuf # None => shift # None /\ txbuf = heard + 2
    /\ wqty <= Size /\ (pc \in {"store", "more"} => wqty < Size)
    /\ wback = At(wfrnt, InRing)
    /\ \A k \in Index : k < InRing => wbuf[At(wfrnt, k)] = heard + InLine + k + 1

(* An interrupt that is enabled when the program counts a byte has at most *)
(* one byte to take until the program enables it again.                    *)
Armed ==
    pc = "enable" /\ txie =>
        IF moved THEN txbuf = None => shift # None /\ wqty >= 2
        ELSE txbuf # None /\ wqty >= 2

UartInv ==
    /\ Typed
    /\ InterruptArmed
    /\ Phases
    /\ Receiving
    /\ Sending
    /\ Armed

-----------------------------------------------------------------------------
(* What is known of the sizes, *)
LEMMA SizeFacts ==
    /\ Size \in Int /\ 1 <= Size /\ Size <= 128
    /\ Request \in Int /\ 1 <= Request
    /\ Reply \in Int /\ 0 < Reply
    /\ Index = {i \in Int : 0 <= i /\ i < Size}
BY UartAssumption DEF Index

(* of the types, *)
LEMMA TypesOf == Typed => TypeOK
<1>1. /\ UpTo(Request) = 0 .. Request /\ UpTo(Reply) = 0 .. Reply
      /\ UpTo(Reply - 1) = 0 .. Reply - 1
  BY SizeFacts DEF UpTo
<1>2. UpTo(255) \subseteq 0 .. 255
  BY DEF UpTo
<1> SUFFICES ASSUME Typed PROVE TypeOK
  OBVIOUS
<1>3. {rqty, wqty} \subseteq 0 .. 255
  BY <1>2 DEF Typed
<1>4. /\ {rfrnt, rback, wfrnt, wback} \subseteq Index
      /\ {txbuf, shift, put} \subseteq 0 .. Reply
      /\ {got, sent} \subseteq 0 .. Request
  BY <1>1 DEF Typed
<1>5. {txie, asleep, moved, lost} \subseteq BOOLEAN
  BY DEF Typed
<1>6. rbuf \in [Index -> 0 .. Request] /\ wbuf \in [Index -> 0 .. Reply]
  BY <1>1 DEF Typed
<1>7. /\ pc \in {"get", "empty", "take", "count",
                 "put", "full", "store", "more", "enable"}
      /\ heard \in 0 .. Reply - 1
  BY <1>1 DEF Typed
<1> QED
  BY <1>3, <1>4, <1>5, <1>6, <1>7 DEF TypeOK

(* and of indices. *)
LEMMA Wraps ==
    ASSUME NEW i \in Index
    PROVE  /\ Following(i) = At(i, 1) /\ Following(i) \in Index
<1>1. CASE i + 1 < Size
  <2>1. (i + 1) % Size = i + 1
    BY <1>1, SizeFacts
  <2> QED BY <1>1, <2>1, SizeFacts DEF Following, At
<1>2. CASE i + 1 >= Size
  <2>1. i + 1 = Size /\ Size % Size = 0
    BY <1>2, SizeFacts
  <2> QED BY <1>2, <2>1, SizeFacts DEF Following, At
<1> QED BY <1>1, <1>2, SizeFacts

LEMMA AtFacts ==
    ASSUME NEW i \in Index, NEW k \in Int, 0 <= k, k < Size
    PROVE  /\ At(i, 0) = i
           /\ At(i, k) \in Index
           /\ Following(At(i, k)) = At(i, k + 1)
           /\ At(Following(i), k) = At(i, k + 1)
           /\ \A j \in Index : At(i, j) = At(i, k) => j = k
<1>1. At(i, k) \in Index
  BY SizeFacts DEF At
<1> QED
  BY <1>1, Wraps, SizeFacts DEF At

(* How many bytes there are. *)
LEMMA CountFacts ==
    ASSUME Typed, Sending
    PROVE  /\ InLine \in Int /\ InRing \in Int /\ UnderWay = InLine + InRing
           /\ InLine = IF shift = None THEN 0 ELSE IF txbuf = None THEN 1 ELSE 2
           /\ 0 <= InRing /\ wqty <= InRing /\ InRing <= Size
           /\ Waiting \in Int
BY SizeFacts DEF Typed, Sending, InLine, InRing, UnderWay, Waiting, UpTo, None

(* A byte counts what is less than 256, and loses nothing but the rest.    *)
LEMMA ByteCounts ==
    ASSUME NEW i \in Nat
    PROVE  /\ i % 256 \in 0 .. 255 /\ (i < 256 => i % 256 = i)
           /\ ((i % 256) + 1) % 256 = (i + 1) % 256
           /\ (i > 0 => ((i % 256) - 1) % 256 = (i - 1) % 256)
OBVIOUS

LEMMA WaitingFacts ==
    ASSUME UartInv
    PROVE  /\ Waiting \in Nat /\ Waiting <= Request /\ Taken \in {0, 1}
           /\ Waiting + Taken \in Nat
           /\ ~lost => rqty = Waiting + Taken /\ Unread = Waiting
<1>1. Waiting \in Nat /\ Waiting <= Request
  BY SizeFacts, CountFacts DEF UartInv, Typed, Phases, Waiting, UpTo
<1>2. Taken \in {0, 1} /\ Waiting + Taken \in Nat
  BY <1>1 DEF Taken
<1>3. ASSUME ~lost PROVE rqty = Waiting + Taken
  <2>1. Waiting + Taken < 256
    BY <1>1, <1>2, <1>3, SizeFacts DEF UartInv, Receiving, Held
  <2> QED BY <1>2, <2>1, ByteCounts DEF UartInv, Receiving
<1> QED BY <1>1, <1>2, <1>3 DEF Unread, Taken

-----------------------------------------------------------------------------
(* A byte of the request arrives, *)
LEMMA RxdoKeeps ==
    ASSUME UartInv, _rxdo
    PROVE  UartInv'
<1>0. Typed /\ InterruptArmed /\ Phases /\ Receiving /\ Sending /\ Armed
  BY DEF UartInv
<1>a. /\ sent < Request /\ sent' = sent + 1
      /\ rbuf' = [rbuf EXCEPT ![rback] = sent + 1]
      /\ rback' = Following(rback) /\ asleep' = FALSE
      /\ lost' = (lost \/ Unread >= Size)
      /\ UNCHANGED <<pc, got, put, rfrnt, txring, line, heard, moved>>
  BY DEF _rxdo
<1>b. /\ Getting /\ UnderWay = 0 /\ got <= sent /\ heard = 0
      /\ Waiting = sent - got
  BY <1>0, <1>a, SizeFacts, CountFacts DEF Phases, Typed, UpTo, Waiting
<1>c. /\ rqty' = (Waiting + Taken + 1) % 256 /\ rqty' \in 0 .. 255
      /\ Waiting \in Nat /\ Taken \in {0, 1}
  <2>1. Waiting + Taken \in Nat /\ Waiting + Taken + 1 \in Nat
        /\ Waiting \in Nat /\ Taken \in {0, 1}
    BY WaitingFacts
  <2>2. rqty' = (rqty + 1) % 256 /\ rqty = (Waiting + Taken) % 256
    BY <1>0 DEF _rxdo, Receiving
  <2> QED BY <2>1, <2>2, ByteCounts
<1>d. InLine' = InLine /\ InRing' = InRing /\ UnderWay' = UnderWay /\ Getting' = Getting
  BY <1>a DEF InLine, InRing, UnderWay, Getting, txring, line
<1>e. Waiting' = Waiting + 1 /\ Taken' = Taken
  BY <1>0, <1>a, <1>b, <1>d, SizeFacts DEF Waiting, Taken, Typed, UpTo
<1>1. Typed'
  <2>1. rbuf' \in [Index -> UpTo(Request)]
    <3>1. sent + 1 \in UpTo(Request)
      BY <1>0, <1>a, SizeFacts DEF Typed, UpTo
    <3> QED BY <1>0, <1>a, <3>1 DEF Typed
  <2>2. rback' \in Index
    BY <1>0, <1>a, Wraps DEF Typed
  <2>3. rqty' \in UpTo(255) /\ sent' \in UpTo(Request) /\ lost' \in BOOLEAN
    BY <1>0, <1>a, <1>c, SizeFacts DEF Typed, UpTo
  <2> QED
    BY <1>0, <1>a, <2>1, <2>2, <2>3 DEF Typed, txring, line
<1>2. InterruptArmed'
  BY <1>0, <1>a DEF InterruptArmed, txring, line
<1>3. Phases'
  BY <1>0, <1>a, <1>b, <1>d, SizeFacts DEF Phases, Typed, UpTo, Getting
<1>4. Receiving'
  <2>1. rqty' = (Waiting' + Taken') % 256
    <3>1. Waiting + Taken + 1 = (Waiting + 1) + Taken
      BY <1>c
    <3> QED BY <1>c, <1>e, <3>1
  <2> SUFFICES ASSUME ~lost' PROVE Held'
    BY <2>1 DEF Receiving
  <2>2. /\ Waiting \in Int /\ 0 <= Waiting /\ Waiting < Size
        /\ rback = At(rfrnt, Waiting)
        /\ \A k \in Index : k < Waiting => rbuf[At(rfrnt, k)] = got + k + 1
    <3>1. ~lost /\ ~(Unread >= Size) /\ Unread = Waiting
      BY <1>a, WaitingFacts
    <3> QED BY <1>0, <1>c, <3>1, SizeFacts DEF Receiving, Held
  <2>3. rback' = At(rfrnt', Waiting') /\ Waiting' <= Size
    BY <1>0, <1>a, <1>e, <2>2, AtFacts, SizeFacts DEF Typed
  <2>4. ASSUME NEW k \in Index, k < Waiting'
        PROVE  rbuf'[At(rfrnt', k)] = got' + k + 1
    <3>1. At(rfrnt, k) \in Index /\ (At(rfrnt, k) = rback => k = Waiting)
      BY <1>0, <2>2, AtFacts, SizeFacts DEF Typed
    <3>2. CASE k = Waiting
      BY <1>0, <1>a, <1>b, <2>2, <3>1, <3>2, SizeFacts DEF Typed, UpTo
    <3>3. CASE k # Waiting
      BY <1>0, <1>a, <1>e, <2>2, <2>4, <3>1, <3>3, SizeFacts DEF Typed
    <3> QED BY <3>2, <3>3
  <2> QED BY <2>3, <2>4 DEF Held
<1>5. Sending'
  BY <1>0, <1>a, <1>d DEF Sending, txring, line
<1>6. Armed'
  BY <1>0, <1>a DEF Armed, txring, line
<1> QED
  BY <1>1, <1>2, <1>3, <1>4, <1>5, <1>6 DEF UartInv

(* one of the reply leaves the ring, *)
LEMMA TxdoKeeps ==
    ASSUME UartInv, _txdo
    PROVE  UartInv'
<1>0. Typed /\ InterruptArmed /\ Phases /\ Receiving /\ Sending /\ Armed
  BY DEF UartInv
<1>a. /\ txie /\ txbuf = None /\ wqty > 0
      /\ wfrnt' = Following(wfrnt) /\ asleep' = FALSE
      /\ UNCHANGED <<pc, got, put, rxring, wbuf, wback, peer, moved>>
  BY <1>0 DEF _txdo, TxPending, InterruptArmed
<1>b. wqty' = wqty - 1 /\ txie' = (wqty' # 0)
  <2>1. wqty \in Int /\ 1 <= wqty /\ wqty <= 255
    BY <1>0, <1>a DEF Typed, UpTo
  <2>2. (wqty - 1) % 256 = wqty - 1
    BY <2>1
  <2> QED BY <2>2 DEF _txdo
<1>c. wbuf[wfrnt] = heard + InLine + 1
  <2>1. At(wfrnt, 0) = wfrnt /\ 0 \in Index /\ 0 < InRing
    <3>1. 0 < InRing
      BY <1>0, <1>a, SizeFacts DEF Typed, UpTo, InRing
    <3> QED
      BY <1>0, <3>1, SizeFacts DEF Typed, At
  <2>2. wbuf[At(wfrnt, 0)] = heard + InLine + 0 + 1
    BY <1>0, <2>1 DEF Sending
  <2> QED
    BY <1>0, <2>1, <2>2, CountFacts DEF Typed, UpTo
<1>d. /\ shift = None => shift' = heard + 1 /\ txbuf' = None
      /\ shift # None => shift' = heard + 1 /\ txbuf' = heard + 2
  BY <1>0, <1>a, <1>c, CountFacts, SizeFacts DEF _txdo, Sending, Typed, UpTo
<1>e. InLine' = InLine + 1
  BY <1>0, <1>a, <1>d, SizeFacts DEF InLine, None, Typed, UpTo
<1>f. InRing' = InRing - 1
  BY <1>0, <1>a, <1>b DEF InRing, Typed, UpTo
<1>g. UnderWay' = UnderWay /\ Getting' = Getting /\ Waiting' = Waiting
  <2>1. UnderWay' = UnderWay
    BY <1>0, <1>e, <1>f, CountFacts DEF UnderWay
  <2> QED BY <1>a, <2>1 DEF Getting, Waiting, peer
<1>1. Typed'
  <2>1. UnderWay >= InLine + 1 /\ heard + UnderWay <= Reply
    BY <1>0, <1>a, CountFacts, SizeFacts DEF Phases, Typed, UpTo
  <2>2. shift' \in UpTo(Reply) /\ txbuf' \in UpTo(Reply)
    BY <1>0, <1>a, <1>d, <2>1, CountFacts, SizeFacts DEF Typed, UpTo, None
  <2>3. wqty' \in UpTo(255) /\ txie' \in BOOLEAN /\ wfrnt' \in Index
    BY <1>0, <1>a, <1>b, Wraps DEF Typed, UpTo
  <2> QED
    BY <1>0, <1>a, <2>2, <2>3 DEF Typed, rxring, peer
<1>2. InterruptArmed'
  <2>1. wqty \in Int /\ (pc = "enable" => wqty >= 2)
    BY <1>0, <1>a DEF Armed, Typed, UpTo, None
  <2>2. wqty' \in Int /\ 0 <= wqty' /\ (pc = "enable" => wqty' > 0)
    BY <1>a, <1>b, <2>1
  <2>3. (txie' => wqty' # 0) /\ (wqty' # 0 => txie')
    BY <1>b, Zenon
  <2>4. (wqty' > 0 => wqty' # 0) /\ (wqty' # 0 => wqty' > 0)
    BY <2>2
  <2> QED
    BY <1>a, <2>2, <2>3, <2>4 DEF InterruptArmed
<1>3. Phases'
  BY <1>0, <1>a, <1>g DEF Phases, rxring, peer
<1>4. Receiving'
  BY <1>0, <1>a, <1>g DEF Receiving, Held, Taken, rxring
<1>5. Sending'
  <2>1. InRing \in Int /\ 1 <= InRing /\ InRing <= Size /\ heard \in Int /\ InLine \in Int
    BY <1>0, <1>a, CountFacts DEF Typed, UpTo
  <2>2. wback' = At(wfrnt', InRing')
    <3>1. InRing - 1 \in Int /\ 0 <= InRing - 1 /\ InRing - 1 < Size
      BY <2>1, SizeFacts
    <3>2. At(Following(wfrnt), InRing - 1) = At(wfrnt, InRing - 1 + 1)
      BY <1>0, <3>1, AtFacts DEF Typed
    <3>3. InRing - 1 + 1 = InRing
      BY <2>1
    <3> QED
      BY <1>0, <1>a, <1>f, <3>2, <3>3 DEF Sending
  <2>3. ASSUME NEW k \in Index, k < InRing'
        PROVE  wbuf'[At(wfrnt', k)] = heard' + InLine' + k + 1
    <3>1. k + 1 \in Index /\ k + 1 < InRing
      BY <1>f, <2>1, <2>3, SizeFacts
    <3>2. wbuf[At(wfrnt, k + 1)] = heard + InLine + (k + 1) + 1
      BY <1>0, <3>1 DEF Sending
    <3>3. At(Following(wfrnt), k) = At(wfrnt, k + 1)
      BY <1>0, <3>1, AtFacts, SizeFacts DEF Typed
    <3> QED
      BY <1>a, <1>e, <2>1, <3>2, <3>3, SizeFacts DEF peer
  <2>4. /\ shift' # None => shift' = heard' + 1
        /\ txbuf' # None => shift' # None /\ txbuf' = heard' + 2
    BY <1>0, <1>a, <1>d DEF peer, None, Typed, UpTo
  <2>5. wqty' <= Size /\ (pc' \in {"store", "more"} => wqty' < Size)
    BY <1>0, <1>a, <1>b, SizeFacts DEF Sending, Typed, UpTo
  <2> QED BY <2>2, <2>3, <2>4, <2>5 DEF Sending
<1>6. Armed'
  BY <1>0, <1>a, <1>b, <1>d, SizeFacts DEF Armed, Typed, UpTo, None
<1> QED
  BY <1>1, <1>2, <1>3, <1>4, <1>5, <1>6 DEF UartInv

(* and the line carries one to the peer.                                   *)
LEMMA LineOutKeeps ==
    ASSUME UartInv, LineOut
    PROVE  UartInv'
<1>0. Typed /\ InterruptArmed /\ Phases /\ Receiving /\ Sending /\ Armed
  BY DEF UartInv
<1>a. /\ shift # None /\ (pc \in {"full", "enable"} => ~moved)
      /\ shift' = txbuf /\ txbuf' = None
      /\ moved' = (pc \in {"full", "enable"})
      /\ UNCHANGED <<pc, asleep, got, put, rxring, txring, txie>>
  BY DEF LineOut, Short, program
<1>b. /\ InLine >= 1 /\ UnderWay >= 1 /\ InLine' = InLine - 1
      /\ InRing' = InRing /\ UnderWay' = UnderWay - 1 /\ Getting' = Getting
  BY <1>0, <1>a, CountFacts DEF InLine, InRing, UnderWay, Getting, None, txring
<1>c. heard \in Int /\ 0 <= heard /\ heard + 1 <= Reply /\ UnderWay \in Int
  BY <1>0, CountFacts, SizeFacts DEF Typed, UpTo
<1>d. CASE heard + 1 = Reply
  <2>1. heard' = 0 /\ sent' = 0
    BY <1>d DEF LineOut
  <2>2. Getting /\ UnderWay = 1
    <3>1. CASE Getting
      BY <1>0, <1>b, <1>c, <1>d, <3>1, SizeFacts DEF Phases
    <3>2. CASE ~Getting
      <4>1. put = Reply /\ UnderWay = 1
        BY <1>0, <1>b, <1>c, <1>d, <3>2, SizeFacts DEF Phases, Typed, UpTo
      <4>2. pc \in {"more", "enable"}
        BY <1>0, <3>2, <4>1, SizeFacts DEF Phases, Typed, Getting
      <4>3. InRing = 0
        BY <1>0, <1>b, <4>1, CountFacts
      <4> QED
        BY <1>0, <4>2, <4>3 DEF InRing, InterruptArmed, Typed, UpTo
    <3> QED BY <3>1, <3>2
  <2>3. txbuf = None /\ InRing = 0 /\ UnderWay' = 0
    <3>1. InLine = 1 /\ InRing = 0
      BY <1>0, <1>b, <2>2, CountFacts
    <3>2. txbuf = None
      BY <1>0, <1>a, <3>1, CountFacts
    <3> QED BY <1>b, <2>2, <3>1, <3>2
  <2>4. Waiting = 0 /\ Waiting' = 0
    BY <1>0, <1>a, <1>b, <2>1, <2>2, <2>3 DEF Waiting, Phases
  <2>5. got = 0 /\ pc \in {"get", "empty"}
    BY <1>0, <2>2 DEF Phases
  <2>6. Typed'
    <3>1. heard' \in UpTo(Reply - 1) /\ sent' \in UpTo(Request)
      BY <2>1, SizeFacts DEF UpTo
    <3> QED
      BY <1>0, <1>a, <2>3, <3>1 DEF Typed, rxring, txring
  <2>7. InterruptArmed'
    BY <1>0, <1>a DEF InterruptArmed, txring
  <2>8. Phases'
    BY <1>a, <1>b, <2>1, <2>2, <2>3, <2>5, SizeFacts DEF Phases
  <2>9. Receiving'
    BY <1>0, <1>a, <2>4 DEF Receiving, Held, Taken, rxring
  <2>10. Sending'
    <3>1. wback' = At(wfrnt', InRing')
      BY <1>0, <1>a, <1>b DEF Sending, txring
    <3> QED
      BY <1>0, <1>a, <1>b, <2>3, <3>1, SizeFacts DEF Sending, txring
  <2>11. Armed'
    BY <1>a, <2>5 DEF Armed
  <2> QED
    BY <2>6, <2>7, <2>8, <2>9, <2>10, <2>11 DEF UartInv
<1>e. CASE heard + 1 # Reply
  <2>1. heard' = heard + 1 /\ sent' = sent
    BY <1>e DEF LineOut
  <2>2. Waiting = 0 /\ Waiting' = 0
    <3>1. Getting => UnderWay' > 0
      BY <1>0, <1>b, <1>c, <1>e, SizeFacts DEF Phases
    <3> QED
      BY <1>b, <1>c, <3>1, SizeFacts DEF Waiting
  <2>3. Typed'
    <3>1. heard' \in UpTo(Reply - 1)
      BY <1>c, <1>e, <2>1, SizeFacts DEF UpTo
    <3>2. {shift', txbuf'} \subseteq UpTo(Reply)
      BY <1>0, <1>a, SizeFacts DEF Typed, UpTo, None
    <3> QED
      BY <1>0, <1>a, <2>1, <3>1, <3>2 DEF Typed, rxring, txring
  <2>4. InterruptArmed'
    BY <1>0, <1>a DEF InterruptArmed, txring
  <2>5. Phases'
    <3>1. CASE Getting
      <4>1. UnderWay' > 0 /\ heard' + UnderWay' = Reply
        BY <1>0, <1>b, <1>c, <1>e, <2>1, <3>1, SizeFacts DEF Phases
      <4>2. got' = 0 /\ sent' = Request /\ pc' \in {"get", "empty"}
        BY <1>0, <1>a, <1>b, <1>c, <2>1, <3>1 DEF Phases
      <4> QED
        BY <1>b, <1>c, <3>1, <4>1, <4>2 DEF Phases
    <3>2. CASE ~Getting
      BY <1>0, <1>a, <1>b, <1>c, <2>1, <3>2, SizeFacts DEF Phases
    <3> QED BY <3>1, <3>2
  <2>6. Receiving'
    BY <1>0, <1>a, <2>2 DEF Receiving, Held, Taken, rxring
  <2>7. Sending'
    <3>1. wback' = At(wfrnt', InRing')
      BY <1>0, <1>a, <1>b DEF Sending, txring
    <3>2. ASSUME NEW k \in Index, k < InRing'
          PROVE  wbuf'[At(wfrnt', k)] = heard' + InLine' + k + 1
      <4>1. wbuf[At(wfrnt, k)] = heard + InLine + k + 1
        BY <1>0, <1>b, <3>2 DEF Sending
      <4>2. heard' + InLine' = heard + InLine
        BY <1>0, <1>b, <1>c, <2>1, CountFacts
      <4> QED BY <1>a, <4>1, <4>2 DEF txring
    <3>3. /\ shift' # None => shift' = heard' + 1
          /\ txbuf' # None => shift' # None /\ txbuf' = heard' + 2
      BY <1>0, <1>a, <1>c, <2>1 DEF Sending
    <3>4. wqty' <= Size /\ (pc' \in {"store", "more"} => wqty' < Size)
      BY <1>0, <1>a DEF Sending, txring
    <3> QED BY <3>1, <3>2, <3>3, <3>4 DEF Sending
  <2>8. Armed'
    BY <1>0, <1>a DEF Armed, txring
  <2> QED
    BY <2>3, <2>4, <2>5, <2>6, <2>7, <2>8 DEF UartInv
<1> QED
  BY <1>d, <1>e

-----------------------------------------------------------------------------
(* A step of the program that changes neither ring nor what was read and   *)
(* written: it has tested a count, or sleeps.                              *)
LEMMA MoveKeeps ==
    ASSUME UartInv, TestEmpty \/ SleepEmpty \/ TestFull \/ SleepFull
    PROVE  UartInv'
<1>0. Typed /\ InterruptArmed /\ Phases /\ Receiving /\ Sending /\ Armed
  BY DEF UartInv
<1>a. /\ asleep' \in BOOLEAN /\ moved' = FALSE
      /\ UNCHANGED <<got, put, rxring, txring, line, peer>>
  BY <1>0 DEF TestEmpty, SleepEmpty, TestFull, SleepFull, Runs, Typed
<1>b. \/ pc \in {"get", "empty"} /\ pc' \in {"get", "empty"}
      \/ pc = "get" /\ pc' = "take" /\ rqty # 0
      \/ pc \in {"put", "full"} /\ pc' \in {"put", "full"}
      \/ pc = "put" /\ pc' = "store" /\ wqty # Size
  BY DEF TestEmpty, SleepEmpty, TestFull, SleepFull, Runs
<1>c. InLine' = InLine /\ InRing' = InRing /\ UnderWay' = UnderWay
  BY <1>a, <1>b DEF InLine, InRing, UnderWay, txring, line
<1>d. Getting' = Getting /\ Waiting' = Waiting
  BY <1>a, <1>b, <1>c DEF Getting, Waiting, peer
<1>1. Typed'
  BY <1>0, <1>a, <1>b DEF Typed, rxring, txring, line, peer
<1>2. InterruptArmed'
  BY <1>0, <1>a, <1>b DEF InterruptArmed, txring, line
<1>3. Phases'
  <2>1. CASE Getting /\ UnderWay = 0
    <3>1. got <= sent /\ heard = 0 /\ got < Request /\ pc' # "count"
      BY <1>0, <1>b, <2>1 DEF Phases, Getting
    <3>2. pc' = "take" => got < sent
      <4>1. Waiting = sent - got /\ Waiting \in Nat
        BY <2>1, WaitingFacts DEF Waiting
      <4>2. pc' = "take" => Waiting # 0
        BY <1>0, <1>b, <4>1 DEF Receiving, Taken
      <4> QED BY <1>0, <3>1, <4>1, <4>2 DEF Typed, UpTo
    <3> QED
      BY <1>a, <1>c, <1>d, <2>1, <3>1, <3>2 DEF Phases, peer, rxring
  <2>2. CASE Getting /\ UnderWay > 0
    <3>1. /\ got = 0 /\ sent = Request /\ pc \in {"get", "empty"}
          /\ heard + UnderWay = Reply
      BY <1>0, <2>2 DEF Phases
    <3>2. rqty = 0
      BY <1>0, <2>2, <3>1 DEF Receiving, Taken, Waiting
    <3> QED
      BY <1>a, <1>b, <1>c, <1>d, <2>2, <3>1, <3>2 DEF Phases, peer
  <2>3. CASE ~Getting
    BY <1>0, <1>a, <1>b, <1>c, <1>d, <2>3 DEF Phases, Getting, peer
  <2>4. UnderWay = 0 \/ UnderWay > 0
    BY <1>0, CountFacts DEF Typed
  <2> QED BY <2>1, <2>2, <2>3, <2>4
<1>4. Receiving'
  BY <1>0, <1>a, <1>b, <1>d DEF Receiving, Held, Taken, rxring
<1>5. Sending'
  <2>1. wqty' <= Size /\ (pc' \in {"store", "more"} => wqty' < Size)
    BY <1>0, <1>a, <1>b, SizeFacts DEF Sending, Typed, UpTo, txring
  <2> QED
    BY <1>0, <1>a, <1>c, <2>1 DEF Sending, txring, line, peer
<1>6. Armed'
  BY <1>b DEF Armed
<1> QED
  BY <1>1, <1>2, <1>3, <1>4, <1>5, <1>6 DEF UartInv

(* A byte of the request is read, *)
LEMMA TakeKeeps ==
    ASSUME UartInv, Take
    PROVE  /\ UartInv'
           /\ ~lost => rbuf[rfrnt] = got + 1
<1>0. Typed /\ InterruptArmed /\ Phases /\ Receiving /\ Sending /\ Armed
  BY DEF UartInv
<1>a. /\ pc = "take" /\ pc' = "count" /\ moved' = FALSE
      /\ got' = got + 1 /\ rfrnt' = Following(rfrnt)
      /\ UNCHANGED <<asleep, put, rbuf, rback, rqty, lost, txring, line, peer>>
  BY DEF Take, Runs
<1>b. InLine' = InLine /\ InRing' = InRing /\ UnderWay' = UnderWay
  BY <1>a DEF InLine, InRing, UnderWay, txring, line
<1>c. /\ Getting /\ Getting' /\ UnderWay = 0
      /\ got < Request /\ heard = 0 /\ got < sent
  <2>1. Getting /\ Getting' /\ UnderWay = 0
    <3>1. UnderWay = 0 \/ UnderWay > 0
      BY <1>0, CountFacts
    <3> QED BY <1>0, <1>a, <3>1 DEF Phases, Getting
  <2> QED BY <1>0, <1>a, <2>1 DEF Phases
<1>d. /\ Waiting = sent - got /\ Waiting' = Waiting - 1
      /\ Waiting \in Int /\ 1 <= Waiting
      /\ got + 1 <= sent /\ Taken = 0 /\ Taken' = 1
  <2>1. got \in Int /\ sent \in Int /\ 0 <= got /\ sent <= Request
    BY <1>0, SizeFacts DEF Typed, UpTo
  <2>2. Waiting = sent - got /\ Waiting' = sent - (got + 1)
    BY <1>a, <1>b, <1>c DEF Waiting, peer
  <2>3. Taken = 0 /\ Taken' = 1
    BY <1>a DEF Taken
  <2> QED BY <1>c, <2>1, <2>2, <2>3, SizeFacts
<1>1. Typed'
  <2>1. got' \in UpTo(Request) /\ rfrnt' \in Index
    BY <1>0, <1>a, <1>c, Wraps, SizeFacts DEF Typed, UpTo
  <2> QED
    BY <1>0, <1>a, <2>1 DEF Typed, txring, line, peer
<1>2. InterruptArmed'
  BY <1>0, <1>a DEF InterruptArmed, txring, line
<1>3. Phases'
  BY <1>0, <1>a, <1>b, <1>c, <1>d, SizeFacts DEF Phases, Typed, UpTo, peer
<1>4. Receiving'
  <2>1. rqty' = (Waiting' + Taken') % 256
    <3>1. Waiting + 0 = Waiting - 1 + 1
      BY <1>d
    <3> QED BY <1>0, <1>a, <1>d, <3>1 DEF Receiving
  <2> SUFFICES ASSUME ~lost' PROVE Held'
    BY <2>1 DEF Receiving
  <2>a. /\ Waiting <= Size /\ rback = At(rfrnt, Waiting)
        /\ \A k \in Index : k < Waiting => rbuf[At(rfrnt, k)] = got + k + 1
    BY <1>0, <1>a DEF Receiving, Held
  <2>2. rback' = At(rfrnt', Waiting') /\ Waiting' <= Size
    <3>1. Waiting - 1 \in Int /\ 0 <= Waiting - 1 /\ Waiting - 1 < Size
      BY <1>d, <2>a, SizeFacts
    <3>2. At(Following(rfrnt), Waiting - 1) = At(rfrnt, Waiting - 1 + 1)
      BY <1>0, <3>1, AtFacts DEF Typed
    <3>3. Waiting - 1 + 1 = Waiting
      BY <1>d
    <3> QED
      BY <1>0, <1>a, <1>d, <2>a, <3>1, <3>2, <3>3, SizeFacts
  <2>3. ASSUME NEW k \in Index, k < Waiting'
        PROVE  rbuf'[At(rfrnt', k)] = got' + k + 1
    <3>1. k + 1 \in Index /\ k + 1 < Waiting
      BY <1>d, <2>3, <2>a, SizeFacts
    <3>2. rbuf[At(rfrnt, k + 1)] = got + (k + 1) + 1
      BY <2>a, <3>1
    <3>3. At(Following(rfrnt), k) = At(rfrnt, k + 1)
      BY <1>0, <3>1, AtFacts, SizeFacts DEF Typed
    <3>4. got + (k + 1) + 1 = (got + 1) + k + 1
      BY <1>0, SizeFacts DEF Typed, UpTo
    <3> QED BY <1>a, <3>2, <3>3, <3>4
  <2> QED BY <2>2, <2>3 DEF Held
<1>5. Sending'
  BY <1>0, <1>a, <1>b DEF Sending, txring, line, peer
<1>6. Armed'
  BY <1>a DEF Armed
<1>7. ASSUME ~lost PROVE rbuf[rfrnt] = got + 1
  <2>1. At(rfrnt, 0) = rfrnt /\ 0 \in Index /\ 0 < Waiting
    BY <1>0, <1>d, SizeFacts DEF Typed, At
  <2>2. rbuf[At(rfrnt, 0)] = got + 0 + 1
    BY <1>0, <1>7, <2>1 DEF Receiving, Held
  <2> QED BY <1>0, <2>1, <2>2 DEF Typed, UpTo
<1> QED
  BY <1>1, <1>2, <1>3, <1>4, <1>5, <1>6, <1>7 DEF UartInv

(* and counted.                                                            *)
LEMMA CountTakenKeeps ==
    ASSUME UartInv, CountTaken
    PROVE  UartInv'
<1>0. Typed /\ InterruptArmed /\ Phases /\ Receiving /\ Sending /\ Armed
  BY DEF UartInv
<1>a. /\ pc = "count" /\ pc' = (IF got = Request THEN "put" ELSE "get")
      /\ moved' = FALSE /\ put' = 0
      /\ UNCHANGED <<asleep, got, rbuf, rfrnt, rback, lost, txring, line, peer>>
  BY DEF CountTaken, Runs
<1>b. InLine' = InLine /\ InRing' = InRing /\ UnderWay' = UnderWay
  BY <1>a DEF InLine, InRing, UnderWay, txring, line
<1>c. /\ Getting /\ UnderWay = 0 /\ heard = 0 /\ got <= sent /\ got > 0
      /\ got \in Int /\ sent \in Int /\ got <= Request /\ sent <= Request
  <2>1. Getting /\ UnderWay = 0
    <3>1. UnderWay = 0 \/ UnderWay > 0
      BY <1>0, CountFacts
    <3> QED BY <1>0, <1>a, <3>1 DEF Phases, Getting
  <2> QED BY <1>0, <1>a, <2>1, SizeFacts DEF Phases, Typed, UpTo
<1>d. Waiting = sent - got /\ Waiting' = Waiting
  <2>1. Waiting = sent - got
    BY <1>c DEF Waiting
  <2>2. Getting' <=> got # Request
    BY <1>a DEF Getting
  <2>3. Waiting' = IF Getting' THEN sent - got ELSE 0
    BY <1>a, <1>b, <1>c DEF Waiting, peer
  <2> QED BY <1>c, <2>1, <2>2, <2>3
<1>e. rqty' = (Waiting' + Taken') % 256 /\ rqty' \in 0 .. 255
  <2>1. rqty = (Waiting + 1) % 256 /\ Waiting \in Nat /\ Taken' = 0
    BY <1>0, <1>a, WaitingFacts DEF Receiving, Taken
  <2>2. rqty' = (Waiting + 1 - 1) % 256 /\ Waiting + 1 - 1 = Waiting + 0
    BY <2>1, ByteCounts DEF CountTaken
  <2> QED BY <1>d, <2>1, <2>2, ByteCounts
<1>1. Typed'
  <2>1. rqty' \in UpTo(255) /\ put' \in UpTo(Reply)
    BY <1>a, <1>c, <1>d, <1>e, SizeFacts DEF UpTo
  <2> QED
    BY <1>0, <1>a, <2>1 DEF Typed, txring, line, peer
<1>2. InterruptArmed'
  BY <1>0, <1>a DEF InterruptArmed, txring, line
<1>3. Phases'
  BY <1>a, <1>b, <1>c, SizeFacts DEF Phases, Getting, peer
<1>4. Receiving'
  BY <1>0, <1>a, <1>d, <1>e DEF Receiving, Held
<1>5. Sending'
  BY <1>0, <1>a, <1>b DEF Sending, txring, line, peer
<1>6. Armed'
  BY <1>a DEF Armed
<1> QED
  BY <1>1, <1>2, <1>3, <1>4, <1>5, <1>6 DEF UartInv

(* A byte of the reply is stored, *)
LEMMA StoreKeeps ==
    ASSUME UartInv, Store
    PROVE  UartInv'
<1>0. Typed /\ InterruptArmed /\ Phases /\ Receiving /\ Sending /\ Armed
  BY DEF UartInv
<1>a. /\ pc = "store" /\ pc' = "more" /\ moved' = FALSE
      /\ put' = put + 1 /\ wback' = Following(wback)
      /\ wbuf' = [wbuf EXCEPT ![wback] = put + 1]
      /\ UNCHANGED <<asleep, got, rxring, wfrnt, wqty, line, peer>>
  BY DEF Store, Runs
<1>b. /\ InRing \in Int /\ InRing = wqty /\ 0 <= InRing /\ InRing < Size
      /\ InRing' = InRing + 1 /\ InLine' = InLine
      /\ UnderWay' = UnderWay + 1
  <2>1. InRing = wqty /\ InRing' = wqty + 1 /\ InLine' = InLine
    BY <1>0, <1>a DEF InRing, InLine, line, Typed, UpTo
  <2>2. InRing \in Int /\ 0 <= InRing /\ InRing < Size
    BY <1>0, <1>a, <2>1, CountFacts DEF Sending
  <2> QED BY <1>0, <2>1, <2>2, CountFacts DEF UnderWay
<1>c. /\ ~Getting /\ ~Getting' /\ Waiting = 0 /\ Waiting' = 0
      /\ got = Request /\ sent = Request
      /\ put = heard + UnderWay /\ put < Reply
      /\ put \in Int /\ 0 <= put /\ heard \in Int
  <2>1. ~Getting /\ ~Getting'
    BY <1>a DEF Getting
  <2> QED BY <1>0, <1>a, <2>1, SizeFacts DEF Waiting, Phases, Typed, UpTo
<1>1. Typed'
  <2>1. put + 1 \in UpTo(Reply)
    BY <1>c, SizeFacts DEF UpTo
  <2>2. wbuf' \in [Index -> UpTo(Reply)] /\ wback' \in Index
    BY <1>0, <1>a, <2>1, Wraps DEF Typed
  <2> QED
    BY <1>0, <1>a, <2>1, <2>2 DEF Typed, rxring, line, peer
<1>2. InterruptArmed'
  BY <1>0, <1>a DEF InterruptArmed, line
<1>3. Phases'
  BY <1>0, <1>a, <1>b, <1>c, CountFacts, SizeFacts DEF Phases, peer
<1>4. Receiving'
  BY <1>0, <1>a, <1>c DEF Receiving, Held, Taken, rxring
<1>5. Sending'
  <2>1. wback' = At(wfrnt', InRing')
    BY <1>0, <1>a, <1>b, AtFacts DEF Sending, Typed
  <2>2. ASSUME NEW k \in Index, k < InRing'
        PROVE  wbuf'[At(wfrnt', k)] = heard' + InLine' + k + 1
    <3>1. At(wfrnt, k) \in Index /\ (At(wfrnt, k) = wback => k = InRing)
      <4>1. InRing \in Index /\ wback = At(wfrnt, InRing) /\ wfrnt \in Index
        BY <1>0, <1>b, SizeFacts DEF Sending, Typed
      <4>2. k \in Int /\ 0 <= k /\ k < Size
        BY SizeFacts
      <4>3. /\ At(wfrnt, k) \in Index
            /\ \A j \in Index : At(wfrnt, j) = At(wfrnt, k) => j = k
        BY <4>1, <4>2, AtFacts
      <4> QED BY <4>1, <4>3
    <3>2. CASE k = InRing
      <4>1. wbuf'[At(wfrnt, k)] = put + 1
        BY <1>0, <1>a, <3>1, <3>2 DEF Sending, Typed
      <4>2. put + 1 = heard + InLine + k + 1
        BY <1>0, <1>c, <3>2, CountFacts
      <4> QED BY <1>a, <1>b, <4>1, <4>2 DEF peer
    <3>3. CASE k # InRing
      <4>1. k < InRing
        BY <1>b, <2>2, <3>3, SizeFacts
      <4>2. wbuf'[At(wfrnt, k)] = wbuf[At(wfrnt, k)]
        BY <1>0, <1>a, <3>1, <3>3 DEF Typed
      <4> QED BY <1>0, <1>a, <1>b, <4>1, <4>2 DEF Sending, peer
    <3> QED BY <3>2, <3>3
  <2>3. wqty' <= Size /\ (pc' \in {"store", "more"} => wqty' < Size)
    BY <1>0, <1>a DEF Sending
  <2> QED
    BY <1>0, <1>a, <2>1, <2>2, <2>3 DEF Sending, line, peer
<1>6. Armed'
  BY <1>a DEF Armed
<1> QED
  BY <1>1, <1>2, <1>3, <1>4, <1>5, <1>6 DEF UartInv

(* counted, *)
LEMMA CountStoredKeeps ==
    ASSUME UartInv, CountStored
    PROVE  UartInv'
<1>0. Typed /\ InterruptArmed /\ Phases /\ Receiving /\ Sending /\ Armed
  BY DEF UartInv
<1>a. /\ pc = "more" /\ pc' = "enable" /\ moved' = FALSE
      /\ (txie => txbuf # None)
      /\ UNCHANGED <<asleep, got, put, rxring, wbuf, wfrnt, wback, line, peer>>
  BY DEF CountStored, Runs, TxPending
<1>b. wqty' = wqty + 1 /\ wqty \in Int /\ 0 <= wqty /\ wqty < Size
  <2>1. wqty \in Int /\ 0 <= wqty /\ wqty < Size
    BY <1>0, <1>a DEF Sending, Typed, UpTo
  <2>2. (wqty + 1) % 256 = wqty + 1
    BY <2>1, SizeFacts
  <2> QED BY <2>1, <2>2 DEF CountStored
<1>c. /\ InLine' = InLine /\ InRing' = InRing /\ UnderWay' = UnderWay
      /\ ~Getting /\ ~Getting' /\ Waiting' = Waiting
  <2>1. InLine' = InLine /\ InRing' = InRing
    BY <1>a, <1>b DEF InLine, InRing, line
  <2> QED BY <1>a, <2>1 DEF UnderWay, Getting, Waiting
<1>1. Typed'
  <2>1. wqty' \in UpTo(255)
    BY <1>b, SizeFacts DEF UpTo
  <2> QED
    BY <1>0, <1>a, <2>1 DEF Typed, rxring, line, peer
<1>2. InterruptArmed'
  BY <1>a, <1>b DEF InterruptArmed
<1>3. Phases'
  BY <1>0, <1>a, <1>c DEF Phases, peer
<1>4. Receiving'
  BY <1>0, <1>a, <1>c DEF Receiving, Held, Taken, rxring
<1>5. Sending'
  <2>1. wqty' <= Size /\ (pc' \in {"store", "more"} => wqty' < Size)
    BY <1>a, <1>b, SizeFacts
  <2> QED
    BY <1>0, <1>a, <1>c, <2>1 DEF Sending, line, peer
<1>6. Armed'
  <2>1. ASSUME txie' PROVE txbuf' # None /\ wqty' >= 2
    <3>1. txie /\ wqty > 0
      BY <1>0, <1>a, <2>1 DEF InterruptArmed, line
    <3> QED BY <1>a, <1>b, <3>1 DEF line
  <2> QED BY <1>a, <2>1 DEF Armed
<1> QED
  BY <1>1, <1>2, <1>3, <1>4, <1>5, <1>6 DEF UartInv

(* and the interrupt is enabled for it.                                    *)
LEMMA EnableKeeps ==
    ASSUME UartInv, Enable
    PROVE  UartInv'
<1>0. Typed /\ InterruptArmed /\ Phases /\ Receiving /\ Sending /\ Armed
  BY DEF UartInv
<1>a. /\ pc = "enable" /\ pc' = (IF put = Reply THEN "get" ELSE "put")
      /\ got' = (IF put = Reply THEN 0 ELSE got)
      /\ moved' = FALSE /\ txie' = TRUE
      /\ UNCHANGED <<asleep, put, rxring, txring, txbuf, shift, peer>>
  BY DEF Enable, Runs
<1>b. InLine' = InLine /\ InRing' = InRing /\ UnderWay' = UnderWay
  BY <1>a DEF InLine, InRing, UnderWay, txring
<1>c. /\ ~Getting /\ got = Request /\ sent = Request
      /\ put = heard + UnderWay /\ put <= Reply /\ put \in Int
      /\ heard \in Int /\ UnderWay \in Int /\ UnderWay > 0 /\ wqty > 0
  <2>1. ~Getting
    BY <1>a DEF Getting
  <2>2. wqty > 0 /\ UnderWay \in Int /\ UnderWay > 0
    BY <1>0, <1>a, CountFacts DEF InterruptArmed, Typed, UpTo
  <2> QED BY <1>0, <2>1, <2>2 DEF Phases, Typed, UpTo
<1>d. Waiting = 0 /\ Waiting' = 0
  BY <1>b, <1>c DEF Waiting
<1>1. Typed'
  <2>1. got' \in UpTo(Request)
    BY <1>0, <1>a, SizeFacts DEF Typed, UpTo
  <2> QED
    BY <1>0, <1>a, <2>1 DEF Typed, rxring, txring, peer
<1>2. InterruptArmed'
  BY <1>a, <1>c DEF InterruptArmed, txring
<1>3. Phases'
  <2>1. CASE put = Reply
    BY <1>a, <1>b, <1>c, <2>1, SizeFacts DEF Phases, Getting, peer
  <2>2. CASE put # Reply
    BY <1>a, <1>b, <1>c, <2>2, SizeFacts DEF Phases, Getting, peer
  <2> QED BY <2>1, <2>2
<1>4. Receiving'
  BY <1>0, <1>a, <1>d, SizeFacts DEF Receiving, Held, Taken, rxring
<1>5. Sending'
  BY <1>0, <1>a, <1>b DEF Sending, txring, peer
<1>6. Armed'
  BY <1>a DEF Armed
<1> QED
  BY <1>1, <1>2, <1>3, <1>4, <1>5, <1>6 DEF UartInv

-----------------------------------------------------------------------------
LEMMA InitHolds == Init => UartInv
<1> SUFFICES ASSUME Init PROVE UartInv
  OBVIOUS
<1>0. /\ rbuf = [i \in Index |-> None] /\ rfrnt = 0 /\ rback = 0 /\ rqty = 0
      /\ wbuf = [i \in Index |-> None] /\ wfrnt = 0 /\ wback = 0 /\ wqty = 0
      /\ txie = FALSE /\ txbuf = None /\ shift = None
      /\ pc = "get" /\ asleep = FALSE
      /\ got = 0 /\ put = 0 /\ sent = 0 /\ heard = 0
      /\ moved = FALSE /\ lost = FALSE
  BY DEF Init
<1>1. /\ InLine = 0 /\ InRing = 0 /\ UnderWay = 0 /\ Getting /\ Waiting = 0
  <2>1. InLine = 0 /\ InRing = 0 /\ UnderWay = 0 /\ Getting
    BY <1>0 DEF InLine, InRing, UnderWay, Getting
  <2> QED BY <1>0, <2>1 DEF Waiting
<1>2. 0 \in Index /\ At(0, 0) = 0
  BY SizeFacts DEF At
<1>3. Typed
  <2>1. /\ 0 \in UpTo(Request) /\ 0 \in UpTo(Reply) /\ 0 \in UpTo(255)
        /\ 0 \in UpTo(Reply - 1)
    BY SizeFacts DEF UpTo
  <2> QED BY <1>0, <1>2, <2>1 DEF Typed, None
<1>4. InterruptArmed /\ Phases /\ Receiving /\ Sending /\ Armed
  <2>1. InterruptArmed /\ Phases /\ Armed
    BY <1>0, <1>1, SizeFacts DEF InterruptArmed, Phases, Armed
  <2>2. Receiving
    <3>1. rqty = (Waiting + Taken) % 256 /\ rback = At(rfrnt, Waiting)
      BY <1>0, <1>1, <1>2 DEF Taken
    <3> QED BY <1>1, <3>1, SizeFacts DEF Receiving, Held
  <2>3. Sending
    <3>1. wback = At(wfrnt, InRing)
      BY <1>0, <1>1, <1>2
    <3>2. \A k \in Index : ~(k < InRing)
      BY <1>1, SizeFacts
    <3>3. shift = None /\ txbuf = None /\ wqty <= Size /\ pc = "get"
      BY <1>0, SizeFacts
    <3> QED BY <3>1, <3>2, <3>3 DEF Sending
  <2> QED BY <2>1, <2>2, <2>3
<1> QED
  BY <1>3, <1>4 DEF UartInv

(* What the program reads is the request in order, what the peer hears is  *)
(* the reply in order.                                                     *)
InOrder ==
    /\ got' > got /\ ~lost => rbuf[rfrnt] = got + 1
    /\ heard' # heard => shift = heard + 1

LEMMA StepKeeps == UartInv /\ [Next]_vars => UartInv' /\ InOrder
<1> SUFFICES ASSUME UartInv, [Next]_vars
             PROVE  UartInv' /\ InOrder
  OBVIOUS
<1>0. got \in Int /\ heard \in Int /\ Sending
  BY DEF UartInv, Typed, UpTo
<1>1. CASE _rxdo
  <2>1. got' = got /\ heard' = heard
    BY <1>1 DEF _rxdo
  <2> QED BY <1>0, <1>1, <2>1, RxdoKeeps DEF InOrder
<1>2. CASE _txdo
  <2>1. got' = got /\ heard' = heard
    BY <1>2 DEF _txdo, peer
  <2> QED BY <1>0, <1>2, <2>1, TxdoKeeps DEF InOrder
<1>3. CASE LineOut
  <2>1. got' = got /\ shift = heard + 1
    BY <1>0, <1>3 DEF LineOut, Sending, program
  <2> QED BY <1>0, <1>3, <2>1, LineOutKeeps DEF InOrder
<1>4. CASE TestEmpty \/ SleepEmpty \/ TestFull \/ SleepFull
  <2>1. got' = got /\ heard' = heard
    BY <1>4 DEF TestEmpty, SleepEmpty, TestFull, SleepFull, peer
  <2> QED BY <1>0, <1>4, <2>1, MoveKeeps DEF InOrder
<1>5. CASE Take
  BY <1>5, TakeKeeps DEF InOrder, Take, peer
<1>6. CASE CountTaken
  BY <1>0, <1>6, CountTakenKeeps DEF InOrder, CountTaken, peer
<1>7. CASE Store
  BY <1>0, <1>7, StoreKeeps DEF InOrder, Store, peer
<1>8. CASE CountStored
  BY <1>0, <1>8, CountStoredKeeps DEF InOrder, CountStored, peer
<1>9. CASE Enable
  <2>1. ~(got' > got)
    BY <1>9 DEF Enable, UartInv, Typed, UpTo
  <2> QED BY <1>9, <2>1, EnableKeeps DEF InOrder, Enable, peer
<1>10. CASE UNCHANGED vars
  <2>1. UNCHANGED <<rbuf, rfrnt, rback, rqty, wbuf, wfrnt, wback, wqty,
                    txie, txbuf, shift, pc, asleep, got, put, sent, heard, moved, lost>>
    BY <1>10 DEF vars, program, rxring, txring, line, peer
  <2>2. /\ InLine' = InLine /\ InRing' = InRing /\ UnderWay' = UnderWay
        /\ Getting' = Getting /\ Waiting' = Waiting
    BY <2>1 DEF InLine, InRing, UnderWay, Getting, Waiting
  <2>3. Typed' /\ InterruptArmed' /\ Phases'
    BY <2>1, <2>2 DEF UartInv, Typed, InterruptArmed, Phases
  <2>4. Receiving' /\ Sending' /\ Armed'
    BY <2>1, <2>2 DEF UartInv, Receiving, Held, Taken, Sending, Armed
  <2> QED BY <1>0, <2>1, <2>3, <2>4 DEF UartInv, InOrder
<1> QED
  BY <1>1, <1>2, <1>3, <1>4, <1>5, <1>6, <1>7, <1>8, <1>9, <1>10
     DEF Next, _cget, _cput

(* Program, handlers and line keep the invariant.                          *)
THEOREM Invariance == Spec => []UartInv
<1>1. UartInv /\ [Next]_vars => UartInv'
  BY StepKeeps
<1> QED BY InitHolds, <1>1, PTL DEF Spec

-----------------------------------------------------------------------------
(* All variables of the port keep their types.                             *)
THEOREM TypeCorrect == Spec => []TypeOK
<1>1. UartInv => TypeOK
  BY TypesOf DEF UartInv
<1> QED BY Invariance, <1>1, PTL

(* The transmit interrupt is enabled when the ring has something for it,   *)
(* and never for an empty ring.                                            *)
THEOREM ArmedCorrect == Spec => []InterruptArmed
<1>1. UartInv => InterruptArmed
  BY DEF UartInv
<1> QED BY Invariance, <1>1, PTL

(* The distance of two indices, from the number of bytes between them.     *)
LEMMA Distance ==
    ASSUME NEW i \in Index, NEW k \in Int, 0 <= k, k <= Size
    PROVE  (At(i, k) - i) % Size = k % Size
<1>1. CASE i + k < Size
  BY <1>1 , SizeFacts DEF At
<1>2. CASE i + k >= Size
  <2>1. At(i, k) - i = k - Size
    BY <1>2, SizeFacts DEF At
  <2>2. CASE k = Size
    BY <2>1, <2>2, SizeFacts
  <2>3. CASE k < Size
    <3>1. (k - Size) % Size = k /\ k % Size = k
      BY <2>3, SizeFacts
    <3> QED BY <2>1, <3>1
  <2> QED BY <2>2, <2>3, SizeFacts
<1> QED BY <1>1, <1>2, SizeFacts

(* The counts of both rings agree with their ends: always for the sending  *)
(* ring, which never overflows, and for the receiving ring until it does.  *)
THEOREM RingsCorrect == Spec => []RingsInStep
<1>1. UartInv => RingsInStep
  <2> SUFFICES ASSUME UartInv PROVE RingsInStep
    OBVIOUS
  <2>1. Typed /\ Receiving /\ Sending
    BY DEF UartInv
  <2>2. ASSUME ~lost
        PROVE  Unread <= Size /\ (rback - rfrnt) % Size = Unread % Size
    <3>1. /\ Unread = Waiting /\ Waiting \in Int /\ 0 <= Waiting
          /\ Waiting <= Size /\ rback = At(rfrnt, Waiting)
      BY <2>1, <2>2, WaitingFacts DEF Receiving, Held
    <3>2. (rback - rfrnt) % Size = Waiting % Size
      BY <2>1, <3>1, Distance DEF Typed
    <3> QED BY <3>1, <3>2
  <2>5. (wback - wfrnt) % Size = InRing % Size
    BY <2>1, CountFacts, Distance DEF Sending, Typed
  <2> QED
    BY <2>1, <2>2, <2>5, CountFacts DEF RingsInStep, InRing
<1> QED BY Invariance, <1>1, PTL

(* The program reads the peer's bytes, each once and in order, until the   *)
(* ring has overflowed.                                                    *)
THEOREM ReadCorrect == Spec => ReadInOrder
<1>1. UartInv /\ [Next]_vars => [got' > got /\ ~lost => rbuf[rfrnt] = got + 1]_vars
  BY StepKeeps DEF InOrder
<1> QED BY Invariance, <1>1, PTL DEF Spec, ReadInOrder

(* The peer receives the program's bytes, each once and in order.          *)
THEOREM HeardCorrect == Spec => HeardInOrder
<1>1. UartInv /\ [Next]_vars => [heard' # heard => shift = heard + 1]_vars
  BY StepKeeps DEF InOrder
<1> QED BY Invariance, <1>1, PTL DEF Spec, HeardInOrder

=============================================================================
