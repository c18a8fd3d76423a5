---------------------------- MODULE SessionProofs ----------------------------
(***************************************************************************)
(* Proofs about Session, for strings of any length, any packets and any    *)
(* milestones of the counter: the types, the counter's bound, that the     *)
(* loop and the reader agree about every field, what every answer ends     *)
(* with, and what the client makes of all the answers. That is a recursive *)
(* function over sequences of any length, reasoned about by induction.     *)
(***************************************************************************)
EXTENDS Session, WellFoundedInduction, TLAPS

(* The counter is known to be in bounds of a player who has joined.        *)
CounterInv == ctr \in Nat /\ CounterBounded

(* initseq clears the counter whenever a player joins, and ctactrstat does *)
(* when it has sent the level again.                                       *)
LEMMA NextCounter ==
    ASSUME CounterInv, [Next]_vars
    PROVE  CounterInv'
<1>0. Rejoin \in Nat /\ CtrMax \in Nat /\ ctr \in Nat /\ (flg => ctr <= Rejoin)
  BY SessionAssumption DEF CounterInv, CounterBounded
<1>a. ASSUME initseq PROVE CounterInv'
  BY <1>0, <1>a DEF initseq, CounterInv, CounterBounded
<1>b. ASSUME ctr' = ctr, flg' => flg PROVE CounterInv'
  BY <1>0, <1>b DEF CounterInv, CounterBounded
<1>1. CASE ctname
  <2>1. CASE flg' = FALSE /\ ctr' = ctr
    BY <1>b, <2>1
  <2>2. CASE flg' = flg /\ ctr' = ctr
    BY <1>b, <2>2
  <2> QED BY <1>1, <1>a, <2>1, <2>2 DEF ctname
<1>2. CASE ctactrstat
  <2>1. CASE ~flg /\ ctr' = Min2(ctr + 1, CtrMax) /\ flg' = flg
    BY <1>0, <2>1 DEF CounterInv, CounterBounded, Min2
  <2>2. CASE flg /\ ctr' = IF ctr >= Rejoin THEN 1 ELSE ctr + 1
    BY <1>0, <2>2, SessionAssumption DEF CounterInv, CounterBounded
  <2> QED BY <1>2, <2>1, <2>2 DEF ctactrstat
<1>3. CASE ctmsg
  <2>1. ctr' = ctr /\ (flg' => flg)
    BY <1>3 DEF ctmsg
  <2> QED BY <1>b, <2>1
<1>4. CASE ctpass \/ ctcflg
  BY <1>4, <1>a, <1>b DEF ctpass, ctcflg, JoinAfter
<1>5. CASE \/ ClientSends \/ ClientHangsUp \/ EndOfInput \/ UNCHANGED vars
           \/ ctevtno \/ ctversion \/ ctblkch \/ ctactrno
  <2>1. ctr' = ctr /\ flg' = flg
    BY <1>5 DEF ClientSends, ClientHangsUp, EndOfInput, ctevtno, ctversion,
                ctblkch, ctactrno, player, vars
  <2> QED BY <1>b, <2>1
<1> QED
  BY <1>1, <1>2, <1>3, <1>4, <1>5 DEF Next, cloop

(* So it never runs past Rejoin. *)
THEOREM CounterCorrect == Spec => []CounterBounded
<1>1. Init => CounterInv
  BY DEF Init, CounterInv, CounterBounded
<1>2. CounterInv /\ [Next]_vars => CounterInv'
  BY NextCounter
<1>3. CounterInv => CounterBounded
  BY DEF CounterInv
<1> QED BY <1>1, <1>2, <1>3, PTL DEF Spec

-----------------------------------------------------------------------------
(* The session by its types only: the loop expects what the session does,  *)
(* except for another packet after a state of which a part is missing.     *)
Contexts == [curpv : Nat, rem : Int, evt : ClientEvents, type : ClientTypes]

Typed ==
    /\ ctx \in Contexts /\ pkt \in Packets /\ pos \in Int
    /\ left \in Nat \cup {Open}
    /\ status = "running" =>
          /\ nxt = ctx.type \/ (nxt = "EVTNO" /\ ctx.type = "ACTRSTAT")
          /\ ctx.type # "INVALID"

(* What follows a packet number. *)
LEMMA FirstTypes ==
    ASSUME NEW b
    PROVE  cedecode(b) \in ClientEvents /\ FirstType(cedecode(b)) \in ClientTypes
BY DEF cedecode, FirstType, ClientEvents, ClientTypes

(* The sizes of the fields. *)
LEMMA SizeFacts == StrLen \in Int /\ 3 <= StrLen /\ StrLen # 9
BY LengthAssumption, SessionAssumption

(* cloop asks for one of five numbers of bytes. *)
LEMMA RequestFacts ==
    ASSUME NEW c, NEW type
    PROVE  mcctlen(c, type) \in {0, 1, 8, StrLen, StrLen - 1}
BY DEF mcctlen

(* Reading keeps the types, and a field of some types is not a packet's    *)
(* last.                                                                   *)
LEMMA ReadingTyped ==
    ASSUME NEW c \in Contexts, NEW q \in Int, NEW b \in Nat, c.type # "INVALID"
    PROVE  /\ mcsread(c, q, b) \in Contexts
           /\ c.type = "VERSION" => mcsread(c, q, b).type \in {"VERSION", "NAME"}
           /\ c.type = "ACTRNO" =>
                mcsread(c, q, b).type \in {"ACTRNO", "ACTRSTAT", "MSG"}
           /\ c.type = "ACTRSTAT" => mcsread(c, q, b).type \in {"ACTRSTAT", "EVTNO"}
<1>0. StrLen \in Int /\ c.rem \in Int /\ c.curpv \in Nat
  BY SizeFacts DEF Contexts
<1>r. reads(c, q) \in Contexts
  BY <1>0 DEF reads, Min2, Contexts
<1>t. ASSUME NEW d \in Contexts, NEW type \in ClientTypes
      PROVE  /\ tchng(d, type) \in Contexts /\ tchng(d, type).type = type
             /\ tchngs(d, type) \in Contexts /\ tchngs(d, type).type = type
             /\ finish(d) \in Contexts /\ finish(d).type = "EVTNO"
  BY <1>0 DEF tchng, tchngs, finish, Contexts, ClientEvents, ClientTypes
<1>1. CASE c.type = "EVTNO"
  BY <1>1, FirstTypes DEF mcsread, rctEventNumber, Contexts
<1>2. CASE c.type = "VERSION"
  <2>1. /\ [c EXCEPT !.curpv = b] \in Contexts
        /\ [c EXCEPT !.curpv = 0, !.rem = StrLen - 1] \in Contexts
    <3>1. [c EXCEPT !.curpv = b] \in Contexts /\ [c EXCEPT !.curpv = 0] \in Contexts
      BY <1>0 DEF Contexts
    <3>2. ASSUME NEW d \in Contexts PROVE [d EXCEPT !.rem = StrLen - 1] \in Contexts
      <4>1. StrLen - 1 \in Int
        BY <1>0
      <4> QED BY <4>1 DEF Contexts
    <3>3. [c EXCEPT !.curpv = 0, !.rem = StrLen - 1]
            = [[c EXCEPT !.curpv = 0] EXCEPT !.rem = StrLen - 1]
      OBVIOUS
    <3>4. [[c EXCEPT !.curpv = 0] EXCEPT !.rem = StrLen - 1] \in Contexts
      BY <3>1, <3>2
    <3> QED BY <3>1, <3>3, <3>4
  <2>2. "NAME" \in ClientTypes
    BY DEF ClientTypes
  <2>3. /\ rctVersion(c, q, b) \in Contexts
        /\ rctVersion(c, q, b).type \in {"VERSION", "NAME"}
    BY <1>2, <1>t, <2>1, <2>2 DEF rctVersion
  <2> QED BY <1>2, <2>3 DEF mcsread
<1>3. CASE c.type \in {"NAME", "PASS", "MSG"}
  <2>1. {"PASS", "CFLGS"} \subseteq ClientTypes
    BY DEF ClientTypes
  <2> QED
    BY <1>3, <1>r, <1>t, <2>1 DEF mcsread, rctName, rctPassword, rctMessage
<1>4. CASE c.type = "ACTRNO"
  <2>1. {"ACTRSTAT", "MSG"} \subseteq ClientTypes
    BY DEF ClientTypes
  <2>2. /\ rctActorNumber(c, q) \in Contexts
        /\ rctActorNumber(c, q).type \in {"ACTRNO", "ACTRSTAT", "MSG"}
    BY <1>4, <1>t, <2>1 DEF rctActorNumber
  <2> QED BY <1>4, <2>2 DEF mcsread
<1>5. CASE c.type \in {"BLKCH", "ACTRSTAT", "CFLGS"}
  <2>1. /\ rctFixed(c, q) \in Contexts
        /\ rctFixed(c, q).type \in {c.type, "EVTNO"}
    BY <1>5, <1>t DEF rctFixed, ClientTypes
  <2> QED BY <1>5, <2>1 DEF mcsread
<1> QED
  BY <1>1, <1>2, <1>3, <1>4, <1>5 DEF Contexts, ClientTypes

(* What a call of cloop reads. *)
LEMMA ReadFacts ==
    ASSUME Typed, NEW type, NEW n \in Returned, NEW b \in Nat, Read(type, n, b)
    PROVE  /\ ctx' \in Contexts /\ pkt' \in Packets
           /\ pos' \in Int /\ left' \in Nat \cup {Open}
           /\ left' = Open => left = Open
           /\ status = "running" /\ nxt = type
           /\ type = ctx.type \/ (type = "EVTNO" /\ ctx.type = "ACTRSTAT")
           /\ type = "VERSION" => ctx'.type \in {"VERSION", "NAME"}
           /\ type = "ACTRNO" => ctx'.type \in {"ACTRNO", "ACTRSTAT", "MSG"}
           /\ type = "ACTRSTAT" => ctx'.type \in {"ACTRSTAT", "EVTNO"}
<1>1. status = "running" /\ nxt = type /\ ctx' = mcsread(ctx, n + Prefix, b)
  BY DEF Read
<1>2. Request \in Nat /\ Prefix \in {0, 1}
  BY SizeFacts, RequestFacts DEF Request, Prefix
<1>3. /\ n \in Int
      /\ left = Open => n = Request
      /\ left # Open => left \in Nat /\ n <= left
  <2>1. left \in Nat \cup {Open}
    BY DEF Typed
  <2> QED BY <1>2, <2>1 DEF Returned, Min2, Open
<1>4. n + Prefix \in Int
  BY <1>2, <1>3
<1>5. ctx \in Contexts /\ ctx.type # "INVALID"
  BY <1>1 DEF Typed
<1>6. /\ ctx' \in Contexts
      /\ ctx.type = "VERSION" => ctx'.type \in {"VERSION", "NAME"}
      /\ ctx.type = "ACTRNO" => ctx'.type \in {"ACTRNO", "ACTRSTAT", "MSG"}
      /\ ctx.type = "ACTRSTAT" => ctx'.type \in {"ACTRSTAT", "EVTNO"}
  BY <1>1, <1>4, <1>5, ReadingTyped
<1>7. /\ pkt' \in Packets /\ pos' \in Int
      /\ left' \in Nat \cup {Open} /\ (left' = Open => left = Open)
  <2>1. pkt' \in Packets /\ pos' \in Int
    BY <1>3 DEF Read, Typed, Lost
  <2>2. left' = IF left = Open THEN Open ELSE left - (IF n < 0 THEN 0 ELSE n)
    BY DEF Read
  <2>3. left # Open => left' \in Nat
    BY <1>3, <2>2
  <2> QED BY <2>1, <2>2, <2>3 DEF Open
<1>8. type = ctx.type \/ (type = "EVTNO" /\ ctx.type = "ACTRSTAT")
  BY <1>1 DEF Typed
<1> QED BY <1>1, <1>6, <1>7, <1>8

(* Numbers and versions are bytes. *)
LEMMA NextBytes ==
    ASSUME Typed, NEW b \in NextByte
    PROVE  b \in Nat
<1>1. PacketNos \subseteq Nat /\ VersionBytes \subseteq Nat
  BY PacketAssumption DEF Bytes
<1>2. pkt.no \in PacketNos /\ pkt.ver \in VersionBytes \cup {0}
  <2>1. pkt \in [no : PacketNos, ver : VersionBytes \cup {0}]
    BY DEF Typed, Packets
  <2> QED BY <2>1
<1>3. b = pkt.no \/ b = pkt.ver \/ b \in PacketNos \/ b \in VersionBytes
  BY DEF NextByte
<1>4. pkt.no \in Nat /\ pkt.ver \in Nat
  <2>1. pkt.ver \in VersionBytes \/ pkt.ver = 0
    BY <1>2
  <2>2. pkt.ver \in VersionBytes => pkt.ver \in Nat
    BY <1>1, Zenon
  <2>3. pkt.ver = 0 => pkt.ver \in Nat
    OBVIOUS
  <2>4. pkt.no \in Nat
    BY <1>1, <1>2, Zenon
  <2> QED BY <2>1, <2>2, <2>3, <2>4
<1> QED BY <1>1, <1>3, <1>4

(* The length of a packet, by its number. *)
LEMMA LengthFacts ==
    ASSUME NEW p \in Packets
    PROVE  /\ PacketLen(p) \in Nat /\ PacketLen(p) >= 2
           /\ p.ver \in Nat
           /\ cedecode(p.no) = "GREETING" => PacketLen(p) = GreetingLen(p.ver)
           /\ cedecode(p.no) = "GREETING" => p.ver \in VersionBytes
           /\ cedecode(p.no) = "BLKEDIT"  => PacketLen(p) = 9
           /\ cedecode(p.no) = "PLYRSTAT" => PacketLen(p) = 10
           /\ cedecode(p.no) = "CHATMSG"  => PacketLen(p) = 2 + StrLen
<1>1. StrLen \in Nat
  BY LengthAssumption
<1>2. /\ p.ver \in VersionBytes \/ p.ver = 0
      /\ cedecode(p.no) = "GREETING" => p.ver \in VersionBytes
  BY DEF Packets
<1>3. VersionBytes \subseteq Nat
  BY PacketAssumption DEF Bytes
<1>4. p.ver \in Nat
  <2>1. p.ver \in VersionBytes => p.ver \in Nat
    BY <1>3, Zenon
  <2>2. p.ver = 0 => p.ver \in Nat
    OBVIOUS
  <2> QED BY <1>2, <2>1, <2>2
<1>5. GreetingLen(p.ver) \in Nat /\ GreetingLen(p.ver) >= 2
  BY <1>1, <1>4, SizeFacts DEF GreetingLen, NameEnd, Announced
<1> QED BY <1>1, <1>2, <1>4, <1>5 DEF PacketLen, cedecode

-----------------------------------------------------------------------------
(* Answers that end with a ping, which the relay waits for, or a goodbye.  *)
Ends(answer) == answer # <<>> /\ Last(answer).evt \in {"PING", "PBYE"}

(* An answer ends as what it was continued with. *)
LEMMA LastOfConcat ==
    ASSUME NEW S, NEW s \in Seq(S), NEW r \in Seq(S), r # <<>>
    PROVE  s \o r \in Seq(S) /\ s \o r # <<>> /\ Last(s \o r) = Last(r)
<1>1. Len(s) \in Nat /\ Len(r) \in Nat /\ Len(r) > 0
  OBVIOUS
<1>2. s \o r \in Seq(S) /\ Len(s \o r) = Len(s) + Len(r)
  OBVIOUS
<1>3. (s \o r)[Len(s) + Len(r)] = r[Len(r)]
  BY <1>1, <1>2
<1> QED BY <1>1, <1>2, <1>3 DEF Last

(* So an answer that is continued with an ending ends.                     *)
LEMMA EndsOfConcat ==
    ASSUME NEW S, NEW s \in Seq(S), NEW r \in Seq(S), Ends(r)
    PROVE  Ends(s \o r)
BY LastOfConcat DEF Ends

-----------------------------------------------------------------------------
(* A call of cloop that reads, and what the loop goes on with. *)
Called(type, n, b) ==
    /\ Read(type, n, b)
    /\ type \in {"EVTNO", "VERSION"} => b \in NextByte
    /\ nxt' = ctx'.type \/ (nxt' = "EVTNO" /\ type = "ACTRSTAT")
    /\ status' = "running" => nxt' # "INVALID"

(* A call of cloop meets the end of the input or reads a field.            *)
LEMMA CallReads ==
    ASSUME Typed, cloop
    PROVE  \/ nxt' = "INVALID" /\ status' = "ended" /\ EndOfInput
           \/ \E type \in ClientTypes, n \in Returned, b \in Nat : Called(type, n, b)
<1>1. CASE ctevtno
  <2>1. PICK n \in Returned, b \in NextByte : Read("EVTNO", n, b)
    BY <1>1 DEF ctevtno
  <2>2. b \in Nat /\ Called("EVTNO", n, b)
    BY <1>1, <2>1, NextBytes DEF ctevtno, Continue, Called
  <2> QED BY <2>2 DEF ClientTypes
<1>2. CASE ctversion
  <2>1. PICK n \in Returned, b \in NextByte : Read("VERSION", n, b)
    BY <1>2 DEF ctversion
  <2>2. b \in Nat /\ Called("VERSION", n, b)
    BY <1>2, <2>1, NextBytes DEF ctversion, Continue, Called
  <2> QED BY <2>2 DEF ClientTypes
<1>3. CASE ctactrstat
  <2>1. PICK n \in Returned : Read("ACTRSTAT", n, 0)
    BY <1>3 DEF ctactrstat
  <2>2. Called("ACTRSTAT", n, 0)
    BY <1>3, <2>1 DEF ctactrstat, ContinueUnless, Continue, Called
  <2> QED BY <2>2 DEF ClientTypes
<1>4. CASE ctname \/ ctblkch \/ ctactrno \/ ctmsg \/ ctpass \/ ctcflg
  <2>1. nxt' = ctx'.type /\ (status' = "running" => nxt' # "INVALID")
    BY <1>4 DEF ctname, ctblkch, ctactrno, ctmsg, ctpass, ctcflg, JoinAfter,
                ContinueUnless, Continue
  <2>2. PICK type \in {"NAME", "BLKCH", "ACTRNO", "MSG", "PASS", "CFLGS"},
           n \in Returned : Read(type, n, 0)
    BY <1>4 DEF ctname, ctblkch, ctactrno, ctmsg, ctpass, ctcflg, JoinAfter
  <2>3. Called(type, n, 0)
    BY <2>1, <2>2 DEF Called
  <2> QED BY <2>2, <2>3 DEF ClientTypes
<1>5. CASE EndOfInput
  BY <1>5 DEF EndOfInput
<1> QED BY <1>1, <1>2, <1>3, <1>4, <1>5 DEF cloop

(* The types hold at the start and are kept.                               *)
LEMMA InitTyped == Init => Typed
<1> SUFFICES ASSUME Init PROVE Typed
  OBVIOUS
<1>1. ResetSession \in Contexts
  BY DEF ResetSession, Contexts, ClientEvents, ClientTypes
<1> QED BY <1>1 DEF Init, Typed, ResetSession

(* Every step keeps the types, of whatever clients.                        *)
LEMMA NextTyped ==
    ASSUME Typed, [Next]_vars
    PROVE  Typed'
<1>1. CASE cloop
  <2>1. CASE nxt' = "INVALID" /\ status' = "ended" /\ EndOfInput
    BY <2>1 DEF EndOfInput, Typed
  <2>2. CASE \E type \in ClientTypes, n \in Returned, b \in Nat : Called(type, n, b)
    <3>1. PICK type \in ClientTypes, n \in Returned, b \in Nat : Called(type, n, b)
      BY <2>2
    <3>2. /\ ctx' \in Contexts /\ pkt' \in Packets
          /\ pos' \in Int /\ left' \in Nat \cup {Open}
          /\ type = "ACTRSTAT" => ctx'.type \in {"ACTRSTAT", "EVTNO"}
      BY <3>1, ReadFacts DEF Called
    <3> QED BY <3>1, <3>2 DEF Called, Typed
  <2> QED BY <1>1, <2>1, <2>2, CallReads
<1>2. CASE ClientSends
  BY <1>2 DEF ClientSends, Typed
<1>3. CASE ClientHangsUp
  <2>1. PacketLen(pkt) - pos \in Int
    BY LengthFacts DEF Typed
  <2>2. left' \in Nat
    BY <1>3, <2>1 DEF ClientHangsUp
  <2> QED BY <1>3, <2>2 DEF ClientHangsUp, Typed
<1>4. CASE UNCHANGED vars
  BY <1>4 DEF vars, Typed
<1> QED BY <1>1, <1>2, <1>3, <1>4 DEF Next

-----------------------------------------------------------------------------
(* Where the bytes input put the loop in the client's packet: c is the     *)
(* session, p the packet and q the bytes of it that have been input. A     *)
(* version that is not supported is caught before any of the name.         *)
Place(c, p, q) ==
    \/ c.type = "EVTNO" /\ q \in {0, PacketLen(p)} /\ c.curpv <= MCPVMAX
    \/ /\ c.evt = "GREETING" /\ cedecode(p.no) = "GREETING"
       /\ \/ c.type = "VERSION" /\ q = 1 /\ c.curpv <= MCPVMAX
          \/ c.type = "NAME" /\ q = 2 /\ c.curpv = Announced(p.ver)
               /\ c.rem = NameEnd(p.ver) - 2
          \/ c.type = "PASS" /\ q = NameEnd(p.ver) /\ c.rem = StrLen
               /\ c.curpv = Announced(p.ver) /\ c.curpv \in 3 .. MCPVMAX
          \/ c.type = "CFLGS" /\ q = NameEnd(p.ver) + StrLen
               /\ c.curpv = Announced(p.ver) /\ c.curpv \in 6 .. MCPVMAX
    \/ /\ c.evt = cedecode(p.no) /\ c.curpv <= MCPVMAX
       /\ \/ c.type = "BLKCH" /\ c.evt = "BLKEDIT" /\ q = 1
          \/ c.type = "ACTRNO" /\ c.evt \in {"PLYRSTAT", "CHATMSG"} /\ q = 1
          \/ c.type = "ACTRSTAT" /\ c.evt = "PLYRSTAT" /\ q = 2
          \/ c.type = "MSG" /\ c.evt = "CHATMSG" /\ q = 2 /\ c.rem = StrLen

InStep ==
    status = "running" /\ left = Open => nxt = ctx.type /\ Place(ctx, pkt, pos)

(* What is asked for and put in front at each place: all of the next       *)
(* field, and nothing of a version that is not supported.                  *)
LEMMA AskedFacts ==
    ASSUME Typed, nxt = ctx.type
    PROVE  /\ ctx.curpv > MCPVMAX => Request = 0 /\ Prefix = 0
           /\ ctx.curpv <= MCPVMAX =>
                /\ nxt \in {"EVTNO", "VERSION", "ACTRNO", "CFLGS"}
                     => Request = 1 /\ Prefix = 0
                /\ nxt \in {"BLKCH", "ACTRSTAT"} => Request = 8 /\ Prefix = 0
                /\ nxt \in {"MSG", "PASS"} => Request = StrLen /\ Prefix = 0
                /\ nxt = "NAME" /\ ctx.evt = "GREETING" /\ ctx.curpv # 0
                     => Request = StrLen /\ Prefix = 0
                /\ nxt = "NAME" /\ ctx.evt = "GREETING" /\ ctx.curpv = 0
                     => Request = StrLen - 1 /\ Prefix = 1
<1>1. ctx.curpv \in Nat /\ StrLen \in Int /\ 3 <= StrLen /\ StrLen # 9
  BY SizeFacts DEF Typed, Contexts
<1> QED BY <1>1 DEF Request, Prefix, mcctlen, MCPVMAX

(* A call of cloop while the client is there. *)
LEMMA OpenRead ==
    ASSUME Typed, InStep, left = Open, NEW type, NEW n \in Returned, NEW b,
           Read(type, n, b)
    PROVE  /\ n = Request /\ Request \in Nat /\ nxt = type /\ ctx.type = type
           /\ ctx \in Contexts /\ pkt \in Packets
           /\ Ready /\ Place(ctx, pkt, pos)
           /\ ctx' = mcsread(ctx, n + Prefix, b) /\ pkt' = pkt
           /\ pos' = IF pos = Lost \/ pos + n > PacketLen(pkt)
                       THEN Lost ELSE pos + n
<1>1. Request \in Nat
  BY SizeFacts, RequestFacts DEF Request
<1>2. n = Request
  BY DEF Returned
<1> QED BY <1>1, <1>2 DEF Read, InStep, Typed

(* What changes of a session, field by field. *)
LEMMA ChangedFields ==
    ASSUME NEW c \in Contexts, NEW type, type # "EVTNO"
    PROVE  /\ tchng(c, type).type = type /\ tchng(c, type).evt = c.evt
           /\ tchng(c, type).curpv = c.curpv /\ tchng(c, type).rem = c.rem
           /\ tchngs(c, type).type = type /\ tchngs(c, type).evt = c.evt
           /\ tchngs(c, type).curpv = c.curpv /\ tchngs(c, type).rem = StrLen
           /\ finish(c).type = "EVTNO" /\ finish(c).curpv = c.curpv
BY DEF tchng, tchngs, finish, Contexts

(* What the version byte makes of the session. *)
LEMMA VersionFields ==
    ASSUME NEW c \in Contexts, NEW b \in Nat
    PROVE  /\ tchngs([c EXCEPT !.curpv = b], "NAME").type = "NAME"
           /\ tchngs([c EXCEPT !.curpv = b], "NAME").evt = c.evt
           /\ tchngs([c EXCEPT !.curpv = b], "NAME").curpv = b
           /\ tchngs([c EXCEPT !.curpv = b], "NAME").rem = StrLen
           /\ tchng([c EXCEPT !.curpv = 0, !.rem = StrLen - 1], "NAME").type = "NAME"
           /\ tchng([c EXCEPT !.curpv = 0, !.rem = StrLen - 1], "NAME").evt = c.evt
           /\ tchng([c EXCEPT !.curpv = 0, !.rem = StrLen - 1], "NAME").curpv = 0
           /\ tchng([c EXCEPT !.curpv = 0, !.rem = StrLen - 1], "NAME").rem
                = StrLen - 1
<1>1. [c EXCEPT !.curpv = b] \in Contexts
  BY DEF Contexts
<1>2. [c EXCEPT !.curpv = b].evt = c.evt /\ [c EXCEPT !.curpv = b].curpv = b
  BY DEF Contexts
<1>3. DEFINE d == [c EXCEPT !.curpv = 0, !.rem = StrLen - 1]
<1>4. /\ d.curpv = 0 /\ d.rem = StrLen - 1 /\ d.evt = c.evt
      /\ DOMAIN d = DOMAIN c
  BY DEF Contexts
<1>5. d \in Contexts
  <2>1. d = [[c EXCEPT !.curpv = 0] EXCEPT !.rem = StrLen - 1]
    OBVIOUS
  <2>2. [c EXCEPT !.curpv = 0] \in Contexts
    BY DEF Contexts
  <2>3. ASSUME NEW e \in Contexts PROVE [e EXCEPT !.rem = StrLen - 1] \in Contexts
    <3>1. StrLen - 1 \in Int
      BY SizeFacts
    <3> QED BY <3>1 DEF Contexts
  <2>4. [[c EXCEPT !.curpv = 0] EXCEPT !.rem = StrLen - 1] \in Contexts
    BY <2>2, <2>3
  <2> QED BY <2>1, <2>4
<1> HIDE DEF d
<1>6. /\ tchng(d, "NAME").type = "NAME" /\ tchng(d, "NAME").evt = d.evt
      /\ tchng(d, "NAME").curpv = d.curpv /\ tchng(d, "NAME").rem = d.rem
  BY <1>5, ChangedFields
<1> QED BY <1>1, <1>2, <1>4, <1>6, ChangedFields DEF d

(* Each field is read whole, and what follows it is expected next. *)
LEMMA ReadInStep ==
    ASSUME Typed, InStep, left = Open, 0 \notin VersionBytes,
           NEW type, NEW n \in Returned, NEW b, Read(type, n, b),
           type \in {"EVTNO", "VERSION"} => b \in NextByte
    PROVE  ctx'.type = "INVALID" \/ Place(ctx', pkt', pos')
<1>1. /\ n = Request /\ nxt = type /\ ctx.type = type
      /\ ctx \in Contexts /\ pkt \in Packets
      /\ Ready /\ Place(ctx, pkt, pos)
      /\ ctx' = mcsread(ctx, n + Prefix, b) /\ pkt' = pkt
      /\ pos' = IF pos = Lost \/ pos + n > PacketLen(pkt)
                  THEN Lost ELSE pos + n
  BY OpenRead
<1>2. /\ StrLen \in Int /\ 3 <= StrLen /\ StrLen # 9
      /\ PacketLen(pkt) \in Nat /\ PacketLen(pkt) >= 2
      /\ pkt.ver \in Nat
      /\ ctx.curpv \in Nat /\ ctx.rem \in Int
  BY <1>1, SizeFacts, LengthFacts DEF Contexts
<1>3. CASE type = "EVTNO"
  <2>1. n = 1 /\ Prefix = 0 /\ ctx.curpv <= MCPVMAX
    BY <1>1, <1>3, AskedFacts DEF Place
  <2>2. pos = 0
    BY <1>1, <1>2, <1>3, <2>1 DEF Place, Ready, Lost
  <2>3. b = pkt.no
    BY <1>3, <2>2 DEF NextByte
  <2>4. pos' = 1
    BY <1>1, <1>2, <2>1, <2>2 DEF Lost
  <2>5. ctx' = [ctx EXCEPT !.evt = cedecode(b), !.type = FirstType(cedecode(b))]
    BY <1>1, <1>2, <1>3, <2>1 DEF mcsread, rctEventNumber, mcctlen, MCPVMAX
  <2>6. /\ ctx'.curpv = ctx.curpv /\ ctx'.evt = cedecode(pkt.no)
        /\ ctx'.type = FirstType(cedecode(pkt.no))
    BY <1>1, <2>3, <2>5 DEF Contexts
  <2> QED BY <1>1, <2>1, <2>4, <2>6 DEF Place, FirstType, cedecode
<1>4. CASE type = "VERSION"
  <2>1. /\ n = 1 /\ Prefix = 0 /\ ctx.curpv <= MCPVMAX
        /\ pos = 1 /\ cedecode(pkt.no) = "GREETING" /\ ctx.evt = "GREETING"
    BY <1>1, <1>4, AskedFacts DEF Place
  <2>2. b = pkt.ver /\ pkt.ver \in VersionBytes /\ b # 0
    BY <1>1, <1>4, <2>1, LengthFacts DEF NextByte
  <2>3. pos' = 2
    BY <1>1, <1>2, <2>1 DEF Lost
  <2>4. ctx' = IF b < 32 THEN tchngs([ctx EXCEPT !.curpv = b], "NAME")
               ELSE tchng([ctx EXCEPT !.curpv = 0, !.rem = StrLen - 1], "NAME")
    BY <1>1, <1>2, <1>4, <2>1 DEF mcsread, rctVersion, mcctlen, MCPVMAX
  <2>5. /\ ctx'.type = "NAME" /\ ctx'.evt = "GREETING"
        /\ ctx'.curpv = Announced(pkt.ver) /\ ctx'.rem = NameEnd(pkt.ver) - 2
    <3>0. b \in Nat
      BY <1>2, <2>2
    <3>1. CASE b < 32
      <4>1. /\ ctx'.type = "NAME" /\ ctx'.evt = ctx.evt
            /\ ctx'.curpv = b /\ ctx'.rem = StrLen
        <5>1. ctx \in Contexts /\ ctx' = tchngs([ctx EXCEPT !.curpv = b], "NAME")
          BY <1>1, <2>4, <3>1
        <5> QED BY <3>0, <5>1, VersionFields, Zenon
      <4> QED BY <1>2, <2>1, <2>2, <3>1, <4>1 DEF Announced, NameEnd
    <3>2. CASE ~(b < 32)
      <4>1. /\ ctx'.type = "NAME" /\ ctx'.evt = ctx.evt
            /\ ctx'.curpv = 0 /\ ctx'.rem = StrLen - 1
        BY <1>1, <2>4, <3>0, <3>2, VersionFields
      <4> QED BY <1>2, <2>1, <2>2, <3>2, <4>1 DEF Announced, NameEnd
    <3> QED BY <3>1, <3>2
  <2> QED BY <1>1, <2>1, <2>3, <2>5 DEF Place
<1>5. CASE type = "NAME"
  <2>0. /\ pos = 2 /\ ctx.evt = "GREETING" /\ cedecode(pkt.no) = "GREETING"
        /\ ctx.curpv = Announced(pkt.ver) /\ ctx.rem = NameEnd(pkt.ver) - 2
        /\ pkt.ver \in VersionBytes /\ pkt.ver # 0
    BY <1>1, <1>5, LengthFacts DEF Place
  <2>1. ctx' = rctName(ctx, n + Prefix)
    BY <1>1, <1>5 DEF mcsread
  <2>2. CASE ctx.curpv > MCPVMAX
    <3>1. n = 0 /\ Prefix = 0
      BY <1>1, <2>2, AskedFacts
    <3>2. ctx.rem = StrLen
      BY <1>2, <2>0, <2>2 DEF Announced, NameEnd, MCPVMAX
    <3>3. reads(ctx, 0) = ctx
      <4>1. ctx.rem - 0 = ctx.rem
        BY <1>2
      <4> QED BY <1>1, <1>2, <3>2, <4>1 DEF reads, Min2, Contexts
    <3>4. ctx' = ctx
      BY <1>2, <2>1, <3>1, <3>2, <3>3 DEF rctName
    <3>5. pos' = pos
      BY <1>1, <1>2, <2>0, <3>1 DEF Lost
    <3> QED BY <1>1, <3>4, <3>5
  <2>3. CASE ctx.curpv <= MCPVMAX
    <3>1. n + Prefix = StrLen /\ n = ctx.rem
      BY <1>1, <1>2, <1>5, <2>0, <2>3, AskedFacts DEF Announced, NameEnd
    <3>2. reads(ctx, StrLen) \in Contexts /\ reads(ctx, StrLen).rem = 0
          /\ reads(ctx, StrLen).curpv = ctx.curpv
          /\ reads(ctx, StrLen).evt = ctx.evt
      BY <1>1, <1>2, <2>0 DEF reads, Min2, Contexts, NameEnd
    <3>3. pos + n = NameEnd(pkt.ver) /\ pos' = NameEnd(pkt.ver)
      <4>1. NameEnd(pkt.ver) \in Int /\ 0 <= NameEnd(pkt.ver)
            /\ NameEnd(pkt.ver) <= GreetingLen(pkt.ver)
        BY <1>2 DEF NameEnd, GreetingLen
      <4> QED BY <1>1, <1>2, <2>0, <3>1, <4>1, LengthFacts DEF Lost
    <3>4. CASE ctx.curpv < 3
      <4>1. ctx' = finish(reads(ctx, StrLen))
        BY <2>1, <3>1, <3>2, <3>4 DEF rctName
      <4>2. ctx'.type = "EVTNO" /\ ctx'.curpv <= MCPVMAX
        BY <2>3, <3>2, <4>1, ChangedFields
      <4>3. PacketLen(pkt) = NameEnd(pkt.ver)
        BY <1>1, <1>2, <2>0, <3>4, LengthFacts DEF GreetingLen, NameEnd
      <4> QED BY <1>1, <3>3, <4>2, <4>3 DEF Place
    <3>5. CASE ~(ctx.curpv < 3)
      <4>1. ctx' = tchngs(reads(ctx, StrLen), "PASS")
        BY <2>1, <3>1, <3>2, <3>5 DEF rctName
      <4>2. /\ ctx'.type = "PASS" /\ ctx'.evt = "GREETING"
            /\ ctx'.curpv = ctx.curpv /\ ctx'.rem = StrLen
        BY <2>0, <3>2, <4>1, ChangedFields
      <4>3. ctx.curpv \in 3 .. MCPVMAX
        BY <1>2, <2>3, <3>5 DEF MCPVMAX
      <4> QED BY <1>1, <2>0, <3>3, <4>2, <4>3 DEF Place
    <3> QED BY <3>4, <3>5
  <2> QED BY <1>2, <2>2, <2>3 DEF MCPVMAX
<1>6. CASE type = "PASS"
  <2>0. /\ pos = NameEnd(pkt.ver) /\ ctx.rem = StrLen /\ ctx.evt = "GREETING"
        /\ cedecode(pkt.no) = "GREETING"
        /\ ctx.curpv = Announced(pkt.ver) /\ ctx.curpv \in 3 .. MCPVMAX
    BY <1>1, <1>6 DEF Place
  <2>1. n = StrLen /\ Prefix = 0
    BY <1>1, <1>2, <1>6, <2>0, AskedFacts DEF MCPVMAX
  <2>2. ctx' = rctPassword(ctx, StrLen)
    BY <1>1, <1>2, <1>6, <2>1 DEF mcsread
  <2>3. reads(ctx, StrLen) \in Contexts /\ reads(ctx, StrLen).rem = 0
        /\ reads(ctx, StrLen).curpv = ctx.curpv
        /\ reads(ctx, StrLen).evt = ctx.evt
    BY <1>1, <1>2, <2>0 DEF reads, Min2, Contexts
  <2>4. pos' = NameEnd(pkt.ver) + StrLen
    <3>1. NameEnd(pkt.ver) \in Int /\ 0 <= NameEnd(pkt.ver)
          /\ NameEnd(pkt.ver) + StrLen <= GreetingLen(pkt.ver)
      BY <1>2, <2>0 DEF NameEnd, GreetingLen, MCPVMAX
    <3> QED BY <1>1, <1>2, <2>0, <2>1, <3>1, LengthFacts DEF Lost
  <2>5. CASE ctx.curpv < 6
    <3>1. ctx' = finish(reads(ctx, StrLen))
      BY <2>2, <2>3, <2>5 DEF rctPassword
    <3>2. ctx'.type = "EVTNO" /\ ctx'.curpv <= MCPVMAX
      BY <2>0, <2>3, <3>1, ChangedFields DEF MCPVMAX
    <3>3. PacketLen(pkt) = NameEnd(pkt.ver) + StrLen
      BY <1>1, <1>2, <2>0, <2>5, LengthFacts DEF GreetingLen, NameEnd, MCPVMAX
    <3> QED BY <1>1, <2>4, <3>2, <3>3 DEF Place
  <2>6. CASE ~(ctx.curpv < 6)
    <3>1. ctx' = tchng(reads(ctx, StrLen), "CFLGS")
      BY <2>2, <2>3, <2>6 DEF rctPassword
    <3>2. /\ ctx'.type = "CFLGS" /\ ctx'.evt = "GREETING"
          /\ ctx'.curpv = ctx.curpv
      BY <2>0, <2>3, <3>1, ChangedFields
    <3>3. ctx.curpv \in 6 .. MCPVMAX
      BY <2>0, <2>6 DEF MCPVMAX
    <3> QED BY <1>1, <2>0, <2>4, <3>2, <3>3 DEF Place
  <2> QED BY <2>5, <2>6
<1>7. CASE type = "CFLGS"
  <2>0. /\ pos = NameEnd(pkt.ver) + StrLen /\ ctx.evt = "GREETING"
        /\ cedecode(pkt.no) = "GREETING"
        /\ ctx.curpv = Announced(pkt.ver) /\ ctx.curpv \in 6 .. MCPVMAX
    BY <1>1, <1>7 DEF Place
  <2>1. n = 1 /\ Prefix = 0
    BY <1>1, <1>2, <1>7, <2>0, AskedFacts DEF MCPVMAX
  <2>2. ctx' = finish(ctx)
    BY <1>1, <1>2, <1>7, <2>0, <2>1 DEF mcsread, rctFixed, mcctlen, MCPVMAX
  <2>3. PacketLen(pkt) = NameEnd(pkt.ver) + StrLen + 1 /\ NameEnd(pkt.ver) \in Nat
    BY <1>1, <1>2, <2>0, LengthFacts DEF GreetingLen, NameEnd, MCPVMAX
  <2>4. pos' = PacketLen(pkt)
    BY <1>1, <1>2, <2>0, <2>1, <2>3 DEF Lost
  <2>5. ctx'.type = "EVTNO" /\ ctx'.curpv <= MCPVMAX
    BY <1>1, <2>0, <2>2, ChangedFields DEF MCPVMAX
  <2> QED BY <1>1, <2>4, <2>5 DEF Place
<1>8. CASE type \in {"BLKCH", "ACTRSTAT"}
  <2>0. /\ ctx.curpv <= MCPVMAX /\ pos \in Nat /\ PacketLen(pkt) = pos + 8
    BY <1>1, <1>8, LengthFacts DEF Place
  <2>1. n = 8 /\ Prefix = 0
    BY <1>1, <1>8, <2>0, AskedFacts
  <2>2. ctx' = finish(ctx)
    BY <1>1, <1>2, <1>8, <2>0, <2>1 DEF mcsread, rctFixed, mcctlen, MCPVMAX
  <2>3. pos' = PacketLen(pkt)
    BY <1>1, <1>2, <2>0, <2>1 DEF Lost
  <2>4. ctx'.type = "EVTNO" /\ ctx'.curpv <= MCPVMAX
    BY <1>1, <2>0, <2>2, ChangedFields
  <2> QED BY <1>1, <2>3, <2>4 DEF Place
<1>9. CASE type = "ACTRNO"
  <2>0. /\ ctx.curpv <= MCPVMAX /\ pos = 1 /\ ctx.evt = cedecode(pkt.no)
        /\ ctx.evt \in {"PLYRSTAT", "CHATMSG"}
    BY <1>1, <1>9 DEF Place
  <2>1. n = 1 /\ Prefix = 0
    BY <1>1, <1>9, <2>0, AskedFacts
  <2>2. pos' = 2
    BY <1>1, <1>2, <2>0, <2>1 DEF Lost
  <2>3. ctx' = IF ctx.evt = "CHATMSG" THEN tchngs(ctx, "MSG")
                                      ELSE tchng(ctx, "ACTRSTAT")
    BY <1>1, <1>2, <1>9, <2>0, <2>1 DEF mcsread, rctActorNumber, mcctlen, MCPVMAX
  <2>4. /\ ctx'.evt = ctx.evt /\ ctx'.curpv = ctx.curpv
        /\ ctx.evt = "CHATMSG" => ctx'.type = "MSG" /\ ctx'.rem = StrLen
        /\ ctx.evt = "PLYRSTAT" => ctx'.type = "ACTRSTAT"
    BY <1>1, <2>0, <2>3, ChangedFields
  <2> QED BY <1>1, <2>0, <2>2, <2>4 DEF Place
<1>10. CASE type = "MSG"
  <2>0. /\ ctx.curpv <= MCPVMAX /\ pos = 2 /\ ctx.rem = StrLen
        /\ PacketLen(pkt) = 2 + StrLen
    BY <1>1, <1>10, LengthFacts DEF Place
  <2>1. n = StrLen /\ Prefix = 0
    BY <1>1, <1>10, <2>0, AskedFacts
  <2>2. ctx' = rctMessage(ctx, StrLen)
    BY <1>1, <1>2, <1>10, <2>1 DEF mcsread
  <2>3. reads(ctx, StrLen) \in Contexts /\ reads(ctx, StrLen).rem = 0
        /\ reads(ctx, StrLen).curpv = ctx.curpv
    BY <1>1, <1>2, <2>0 DEF reads, Min2, Contexts
  <2>4. ctx' = finish(reads(ctx, StrLen))
    BY <2>2, <2>3 DEF rctMessage
  <2>5. pos' = PacketLen(pkt)
    BY <1>1, <1>2, <2>0, <2>1 DEF Lost
  <2>6. ctx'.type = "EVTNO" /\ ctx'.curpv <= MCPVMAX
    BY <2>0, <2>3, <2>4, ChangedFields
  <2> QED BY <1>1, <2>5, <2>6 DEF Place
<1>11. ctx.type # "INVALID"
  BY <1>1 DEF Place
<1> QED BY <1>1, <1>3, <1>4, <1>5, <1>6, <1>7, <1>8, <1>9, <1>10, <1>11
   DEF Contexts, ClientTypes

(* A call of cloop keeps in step. *)
LEMMA StepInStep ==
    ASSUME Typed, InStep, 0 \notin VersionBytes,
           NEW type, NEW n \in Returned, NEW b \in Nat, Called(type, n, b)
    PROVE  InStep'
<1>1. /\ left' = Open => left = Open
      /\ type = "ACTRSTAT" => ctx'.type \in {"ACTRSTAT", "EVTNO"}
      /\ Read(type, n, b)
  BY ReadFacts DEF Called
<1>3. ASSUME status' = "running", left' = Open
      PROVE  nxt' = ctx'.type /\ Place(ctx', pkt', pos')
  <2>1. left = Open
    BY <1>1, <1>3
  <2>2. ctx'.type = "INVALID" \/ Place(ctx', pkt', pos')
    BY <1>1, <2>1, ReadInStep DEF Called
  <2>3. type = "ACTRSTAT" => ctx'.type # "ACTRSTAT"
    <3>1. SUFFICES ASSUME type = "ACTRSTAT" PROVE ctx'.type = "EVTNO"
      OBVIOUS
    <3>2. /\ n = Request /\ nxt = type /\ ctx.type = type
          /\ ctx \in Contexts /\ ctx.curpv <= MCPVMAX
          /\ ctx' = mcsread(ctx, n + Prefix, b)
      BY <1>1, <2>1, <3>1, OpenRead DEF Place
    <3>3. n = 8 /\ Prefix = 0
      BY <3>1, <3>2, AskedFacts
    <3>4. ctx.curpv \in Nat
      BY <3>2 DEF Contexts
    <3>5. ctx' = finish(ctx)
      BY <3>1, <3>2, <3>3, <3>4 DEF mcsread, rctFixed, mcctlen, MCPVMAX
    <3> QED BY <3>2, <3>5, ChangedFields
  <2>4. nxt' = ctx'.type
    BY <1>1, <2>3 DEF Called
  <2> QED BY <1>3, <2>2, <2>4 DEF Called
<1> QED BY <1>3 DEF InStep

(* So does everything else that can happen.                                *)
LEMMA NextInStep ==
    ASSUME 0 \notin VersionBytes, Typed, InStep, [Next]_vars
    PROVE  InStep'
<1>1. CASE cloop
  <2>1. CASE nxt' = "INVALID" /\ status' = "ended"
    BY <2>1 DEF InStep
  <2>2. CASE \E type \in ClientTypes, n \in Returned, b \in Nat : Called(type, n, b)
    <3>1. PICK type \in ClientTypes, n \in Returned, b \in Nat : Called(type, n, b)
      BY <2>2
    <3> QED BY <3>1, StepInStep
  <2> QED BY <1>1, <2>1, <2>2, CallReads
<1>2. CASE ClientSends
  <2>1. /\ pkt' \in Packets /\ pos' = 0 /\ left = Open
        /\ ctx' = ctx /\ nxt' = nxt
        /\ status = "running" /\ pos = PacketLen(pkt)
    BY <1>2 DEF ClientSends
  <2>2. nxt = ctx.type /\ Place(ctx, pkt, pos)
    BY <2>1 DEF InStep
  <2>3. ctx.type = "EVTNO" /\ ctx.curpv <= MCPVMAX
    <3>1. /\ StrLen \in Int /\ 3 <= StrLen /\ pkt.ver \in Nat /\ pkt \in Packets
      BY SizeFacts, LengthFacts DEF Typed
    <3> QED BY <2>1, <2>2, <3>1, LengthFacts
            DEF Place, GreetingLen, NameEnd, Announced, MCPVMAX
  <2> QED BY <2>1, <2>2, <2>3 DEF InStep, Place
<1>3. CASE ClientHangsUp
  <2>1. PacketLen(pkt) - pos \in Int
    BY LengthFacts DEF Typed
  <2>2. left' \in Nat
    BY <1>3, <2>1 DEF ClientHangsUp
  <2> QED BY <2>2 DEF InStep, Open
<1>4. CASE UNCHANGED vars
  BY <1>4 DEF vars, InStep
<1> QED BY <1>1, <1>2, <1>3, <1>4 DEF Next

(* cloop asks for exactly the fields mcsread takes, if the clients of      *)
(* version 0, which send no version, send no version 0 either: its byte    *)
(* would be taken for one of the name.                                     *)
THEOREM LoopCorrect ==
    ASSUME 0 \notin VersionBytes
    PROVE  Spec => []LoopInStep
<1>1. Init => Typed /\ InStep
  BY InitTyped DEF Init, InStep, Place, ResetSession, MCPVMAX
<1>2. Typed /\ InStep /\ [Next]_vars => (Typed /\ InStep)'
  BY NextTyped, NextInStep
<1>3. Typed /\ InStep => LoopInStep
  <2> SUFFICES ASSUME Typed, InStep, status = "running", left = Open, Supported
               PROVE  /\ nxt = ctx.type
                      /\ pos # Lost
                      /\ nxt = "EVTNO" => pos \in {0, PacketLen(pkt)}
    BY DEF LoopInStep
  <2>1. nxt = ctx.type /\ Place(ctx, pkt, pos)
    BY DEF InStep
  <2>2. pos # Lost
    <3>1. /\ StrLen \in Int /\ 3 <= StrLen /\ pkt.ver \in Nat
          /\ PacketLen(pkt) \in Nat
      BY SizeFacts, LengthFacts DEF Typed
    <3> QED BY <2>1, <3>1 DEF Place, NameEnd, Lost
  <2> QED BY <2>1, <2>2 DEF Place
<1> QED BY <1>1, <1>2, <1>3, PTL DEF Spec

(* Each call of cloop reads something of the packet, and nothing of the    *)
(* next one, as long as the client is there: no packet holds up the loop.  *)
FieldsAdvance ==
    [][cloop /\ left = Open /\ Supported
         => pos < pos' /\ pos' <= PacketLen(pkt)]_vars

(* What is asked for in a packet is some of what is still to come of it.   *)
LEMMA AskedFits ==
    ASSUME Typed, nxt = ctx.type, Place(ctx, pkt, pos), Supported, Ready,
           left = Open
    PROVE  Request > 0 /\ pos # Lost /\ pos + Request <= PacketLen(pkt)
<1>1. /\ StrLen \in Int /\ 3 <= StrLen
      /\ PacketLen(pkt) \in Nat /\ PacketLen(pkt) >= 2
      /\ pkt.ver \in Nat /\ pkt \in Packets
      /\ ctx.curpv \in Nat /\ ctx.curpv <= MCPVMAX /\ pos \in Int
  BY SizeFacts, LengthFacts DEF Typed, Contexts, Supported
<1>2. CASE ctx.type = "EVTNO"
  <2>1. Request = 1
    BY <1>1, <1>2, AskedFacts
  <2>2. pos = 0
    BY <1>1, <1>2, <2>1 DEF Place, Ready, Lost
  <2> QED BY <1>1, <2>1, <2>2 DEF Lost
<1>3. CASE ctx.type \in {"VERSION", "NAME", "PASS", "CFLGS"}
  <2>1. ctx.evt = "GREETING" /\ PacketLen(pkt) = GreetingLen(pkt.ver)
    BY <1>1, <1>3, LengthFacts DEF Place
  <2>2. CASE ctx.type = "VERSION"
    <3>1. Request = 1 /\ pos = 1
      BY <1>1, <2>2, AskedFacts DEF Place
    <3> QED BY <1>1, <3>1 DEF Lost
  <2>3. CASE ctx.type = "NAME"
    <3>1. /\ pos = 2 /\ ctx.curpv = Announced(pkt.ver)
          /\ ctx.curpv # 0 => Request = StrLen
          /\ ctx.curpv = 0 => Request = StrLen - 1
      BY <1>1, <2>1, <2>3, AskedFacts DEF Place
    <3> QED BY <1>1, <2>1, <3>1 DEF Lost, GreetingLen, NameEnd, Announced
  <2>4. CASE ctx.type = "PASS"
    <3>1. /\ pos = NameEnd(pkt.ver) /\ Request = StrLen
          /\ Announced(pkt.ver) \in 3 .. MCPVMAX
      BY <1>1, <2>4, AskedFacts DEF Place
    <3> QED BY <1>1, <2>1, <3>1 DEF Lost, GreetingLen, NameEnd, Announced
  <2>5. CASE ctx.type = "CFLGS"
    <3>1. /\ pos = NameEnd(pkt.ver) + StrLen /\ Request = 1
          /\ Announced(pkt.ver) \in 6 .. MCPVMAX
      BY <1>1, <2>5, AskedFacts DEF Place
    <3> QED BY <1>1, <2>1, <3>1 DEF Lost, GreetingLen, NameEnd, Announced
  <2> QED BY <1>3, <2>2, <2>3, <2>4, <2>5
<1>4. CASE ctx.type = "BLKCH"
  <2>1. Request = 8 /\ pos = 1 /\ PacketLen(pkt) = 9
    BY <1>1, <1>4, AskedFacts DEF Place, PacketLen
  <2> QED BY <2>1 DEF Lost
<1>5. CASE ctx.type = "ACTRNO"
  <2>1. Request = 1 /\ pos = 1
    BY <1>1, <1>5, AskedFacts DEF Place
  <2> QED BY <1>1, <2>1 DEF Lost
<1>6. CASE ctx.type = "ACTRSTAT"
  <2>1. Request = 8 /\ pos = 2 /\ PacketLen(pkt) = 10
    BY <1>1, <1>6, AskedFacts DEF Place, PacketLen
  <2> QED BY <2>1 DEF Lost
<1>7. CASE ctx.type = "MSG"
  <2>1. Request = StrLen /\ pos = 2 /\ PacketLen(pkt) = 2 + StrLen
    BY <1>1, <1>7, AskedFacts DEF Place, PacketLen
  <2> QED BY <1>1, <2>1 DEF Lost
<1> QED BY <1>2, <1>3, <1>4, <1>5, <1>6, <1>7 DEF Place

(* So every packet ends: the loop moves on in it with each call, and ends  *)
(* with its last byte. That the call comes is left to fairness.            *)
THEOREM AdvanceCorrect ==
    ASSUME 0 \notin VersionBytes
    PROVE  Spec => FieldsAdvance
<1>1. Init => Typed /\ InStep
  BY InitTyped DEF Init, InStep, Place, ResetSession, MCPVMAX
<1>2. Typed /\ InStep /\ [Next]_vars => (Typed /\ InStep)'
  BY NextTyped, NextInStep
<1>3. Typed /\ InStep /\ [Next]_vars
        => [cloop /\ left = Open /\ Supported
              => pos < pos' /\ pos' <= PacketLen(pkt)]_vars
  <2> SUFFICES ASSUME Typed, InStep, cloop, left = Open, Supported
               PROVE  pos < pos' /\ pos' <= PacketLen(pkt)
    OBVIOUS
  <2>1. ~EndOfInput
    <3>1. Request \in Nat /\ Prefix \in Nat
      BY SizeFacts, RequestFacts DEF Request, Prefix
    <3>2. \A n \in Returned : n = Request
      BY DEF Returned
    <3> QED BY <3>1, <3>2 DEF EndOfInput
  <2>2. PICK type \in ClientTypes, n \in Returned, b \in Nat : Called(type, n, b)
    BY <2>1, CallReads
  <2>3. /\ n = Request /\ Ready /\ nxt = ctx.type
        /\ Place(ctx, pkt, pos)
        /\ pos' = IF pos = Lost \/ pos + n > PacketLen(pkt)
                    THEN Lost ELSE pos + n
    BY <2>2, OpenRead DEF Called
  <2>4. Request > 0 /\ pos # Lost /\ pos + Request <= PacketLen(pkt)
    BY <2>3, AskedFits
  <2>5. pos \in Int /\ Request \in Int /\ PacketLen(pkt) \in Int
    BY SizeFacts, RequestFacts, LengthFacts DEF Typed, Request
  <2> QED BY <2>3, <2>4, <2>5
<1> QED BY <1>1, <1>2, <1>3, PTL DEF Spec, FieldsAdvance

-----------------------------------------------------------------------------
(* All that can be sent of the client's version. *)
Sendable == {Sent(e, i) : e \in ServerEvents, i \in {Self, Clone}}

(* A packet is of the event it was made for.                               *)
LEMMA SentFacts ==
    ASSUME NEW e \in ServerEvents, NEW i \in {Self, Clone}
    PROVE  Sent(e, i) \in Sendable /\ Sent(e, i).evt = e
<1>1. Sent(e, i) \in Sendable
  BY DEF Sendable
<1>2. Sent(e, i).evt = e
  BY DEF Sent
<1> QED BY <1>1, <1>2

(* The ping, the level and the clone's return are packets and end.         *)
LEMMA EndPackets ==
    /\ Ping \in Seq(Sendable) /\ Ends(Ping)
    /\ Welcome \in Seq(Sendable) /\ Ends(Welcome)
    /\ RespawnClone \in Seq(Sendable) /\ Ends(RespawnClone)
<1>1. {"PING", "PGREETING", "LNEW", "LDATA", "LDIM", "ENEW", "EDIED"}
        \subseteq ServerEvents
  BY DEF ServerEvents
<1>2. /\ Sent("PING", Self) \in Sendable /\ Sent("PING", Self).evt = "PING"
      /\ Sent("PGREETING", Self) \in Sendable /\ Sent("LNEW", Self) \in Sendable
      /\ Sent("LDATA", Self) \in Sendable /\ Sent("LDIM", Self) \in Sendable
      /\ Sent("ENEW", Self) \in Sendable /\ Sent("ENEW", Clone) \in Sendable
      /\ Sent("EDIED", Clone) \in Sendable
  BY <1>1, SentFacts
<1>3. Ping \in Seq(Sendable) /\ Ends(Ping)
  BY <1>2 DEF Ping, Ends, Last
<1>4. Welcome \in Seq(Sendable) /\ Ends(Welcome)
  <2>1. <<Sent("PGREETING", Self), Sent("LNEW", Self)>> \in Seq(Sendable)
    BY <1>2
  <2>2. [i \in 1 .. Chunks |-> Sent("LDATA", Self)] \in Seq(Sendable)
    BY <1>2, SessionAssumption
  <2>3. <<Sent("LDIM", Self), Sent("ENEW", Self), Sent("ENEW", Clone),
          Sent("PING", Self)>> \in Seq(Sendable)
    BY <1>2
  <2>4. Ends(<<Sent("LDIM", Self), Sent("ENEW", Self), Sent("ENEW", Clone),
               Sent("PING", Self)>>)
    BY <1>2 DEF Ends, Last
  <2>5. <<Sent("PGREETING", Self), Sent("LNEW", Self)>>
          \o [i \in 1 .. Chunks |-> Sent("LDATA", Self)] \in Seq(Sendable)
    BY <2>1, <2>2
  <2> QED BY <2>3, <2>4, <2>5, LastOfConcat DEF Welcome, Ends
<1>5. RespawnClone \in Seq(Sendable) /\ Ends(RespawnClone)
  <2>1. <<Sent("EDIED", Clone), Sent("PGREETING", Self), Sent("ENEW", Self),
          Sent("ENEW", Clone)>> \in Seq(Sendable)
    BY <1>2
  <2> QED BY <1>3, <2>1, LastOfConcat DEF RespawnClone, Ends
<1> QED BY <1>3, <1>4, <1>5

(* How the clone moves, before the ping. *)
LEMMA MovedSendable ==
    ASSUME NEW d \in {"EQ", "HEAD", "POS", "ALL", "BIG"}
    PROVE  Moved(d) \in Seq(Sendable)
<1>1. {"ESTATE", "EDIFF", "ESLIDE", "EHEAD"} \subseteq ServerEvents
  BY DEF ServerEvents
<1>2. \A e \in {"ESTATE", "EDIFF", "ESLIDE", "EHEAD"} :
        <<Sent(e, Clone)>> \in Seq(Sendable)
  BY <1>1, SentFacts
<1> QED BY <1>2 DEF Moved

(* What a message is answered with before the ping.                        *)
LEMMA AnswerSendable ==
    ASSUME NEW answer \in Answers
    PROVE  answer.packets \in Seq(Sendable)
<1>1. {"CMSG", "BUPDATE", "PBYE", "EDIED", "ENEW", "ESTATE"} \subseteq ServerEvents
  BY DEF ServerEvents
<1>2. \A e \in {"CMSG", "BUPDATE", "PBYE", "EDIED", "ENEW", "ESTATE"},
         i \in {Self, Clone} : Sent(e, i) \in Sendable
  BY <1>1, SentFacts
<1>3. [i \in 1 .. 6 |-> Sent("CMSG", Self)] \in Seq(Sendable)
  BY <1>2
<1>4. <<Sent("EDIED", Clone), Sent("ENEW", Clone)>> \in Seq(Sendable)
  BY <1>2
<1>5. \A e \in {"CMSG", "BUPDATE", "PBYE", "ENEW", "ESTATE"},
         i \in {Self, Clone} : <<Sent(e, i)>> \in Seq(Sendable)
  BY <1>2
<1>6. \/ answer.packets = [i \in 1 .. 6 |-> Sent("CMSG", Self)]
      \/ answer.packets = <<Sent("EDIED", Clone), Sent("ENEW", Clone)>>
      \/ answer.packets = <<Sent("CMSG", Clone)>>
      \/ answer.packets = <<Sent("BUPDATE", Self)>>
      \/ answer.packets = <<Sent("PBYE", Self)>>
      \/ answer.packets = <<Sent("ENEW", Self)>>
      \/ answer.packets = <<Sent("ESTATE", Self)>>
      \/ answer.packets = <<Sent("CMSG", Self)>>
  BY DEF Answers
<1>7. /\ <<Sent("CMSG", Clone)>> \in Seq(Sendable)
      /\ <<Sent("BUPDATE", Self)>> \in Seq(Sendable)
      /\ <<Sent("PBYE", Self)>> \in Seq(Sendable)
      /\ <<Sent("ENEW", Self)>> \in Seq(Sendable)
      /\ <<Sent("ESTATE", Self)>> \in Seq(Sendable)
      /\ <<Sent("CMSG", Self)>> \in Seq(Sendable)
  BY <1>5
<1> QED BY <1>3, <1>4, <1>6, <1>7

(* A packet that has been read to its end gets an answer that ends with a  *)
(* ping or a goodbye.                                                      *)
THEOREM EndCorrect == Spec => ReplyHasEnd
<1>1. ASSUME Typed, [Next]_vars, nxt # "EVTNO", nxt' = "EVTNO"
      PROVE  Ends(out')
  <2>1. CASE ctevtno
    BY <1>1, <2>1 DEF ctevtno, Read
  <2>2. CASE ctversion
    <3>1. PICK n \in Returned, b \in NextByte : Read("VERSION", n, b)
      BY <2>2 DEF ctversion
    <3>2. b \in Nat
      BY <1>1, NextBytes
    <3>3. ctx'.type \in {"VERSION", "NAME"}
      BY <1>1, <3>1, <3>2, ReadFacts
    <3> QED BY <1>1, <2>2, <3>3 DEF ctversion, Continue
  <2>3. CASE ctactrno
    <3>1. PICK n \in Returned : Read("ACTRNO", n, 0)
      BY <2>3 DEF ctactrno
    <3>2. ctx'.type \in {"ACTRNO", "ACTRSTAT", "MSG"}
      BY <1>1, <3>1, ReadFacts
    <3> QED BY <1>1, <2>3, <3>2 DEF ctactrno, Continue
  <2>4. CASE ctname
    <3>1. out' = <<Sent("PBYE", Self)>> \/ out' = Welcome
      BY <1>1, <2>4 DEF ctname, initseq, Reply
    <3>2. Ends(<<Sent("PBYE", Self)>>)
      BY SentFacts DEF Ends, Last, ServerEvents
    <3> QED BY <3>1, <3>2, EndPackets
  <2>5. CASE ctpass \/ ctcflg
    <3>1. out' = Welcome
      BY <1>1, <2>5 DEF ctpass, ctcflg, JoinAfter, initseq, Reply
    <3> QED BY <3>1, EndPackets
  <2>6. CASE ctblkch
    <3>1. out' = <<Sent("BUPDATE", Self)>> \o Ping
      BY <2>6 DEF ctblkch, Reply
    <3>2. <<Sent("BUPDATE", Self)>> \in Seq(Sendable)
      BY SentFacts DEF ServerEvents
    <3> QED BY <3>1, <3>2, EndPackets, EndsOfConcat
  <2>7. CASE ctmsg
    <3>1. PICK answer \in Answers : out' = answer.packets \o Ping
      BY <2>7 DEF ctmsg, Reply
    <3> QED BY <3>1, AnswerSendable, EndPackets, EndsOfConcat
  <2>8. CASE ctactrstat
    <3>1. CASE out' = Ping
      BY <3>1, EndPackets
    <3>2. CASE \E d \in {"EQ", "HEAD", "POS", "ALL", "BIG"} :
                 out' = Moved(d) \o Ping
                        \o (IF ctr = Respawn THEN RespawnClone ELSE <<>>)
                        \o (IF ctr >= Rejoin THEN Welcome ELSE <<>>)
      <4>1. PICK d \in {"EQ", "HEAD", "POS", "ALL", "BIG"} :
                 out' = Moved(d) \o Ping
                        \o (IF ctr = Respawn THEN RespawnClone ELSE <<>>)
                        \o (IF ctr >= Rejoin THEN Welcome ELSE <<>>)
        BY <3>2
      <4>2. ASSUME NEW s \in Seq(Sendable), Ends(s),
                   NEW r \in Seq(Sendable), Ends(r), NEW c \in BOOLEAN
            PROVE  /\ s \o (IF c THEN r ELSE <<>>) \in Seq(Sendable)
                   /\ Ends(s \o (IF c THEN r ELSE <<>>))
        <5>1. CASE c
          BY <4>2, <5>1, EndsOfConcat
        <5>2. CASE ~c
          BY <4>2, <5>2
        <5> QED BY <5>1, <5>2
      <4>3. Moved(d) \o Ping \in Seq(Sendable) /\ Ends(Moved(d) \o Ping)
        BY MovedSendable, EndPackets, EndsOfConcat
      <4>4. /\ Moved(d) \o Ping
                 \o (IF ctr = Respawn THEN RespawnClone ELSE <<>>) \in Seq(Sendable)
            /\ Ends(Moved(d) \o Ping
                      \o (IF ctr = Respawn THEN RespawnClone ELSE <<>>))
        BY <4>2, <4>3, EndPackets
      <4>5. Ends(Moved(d) \o Ping
                 \o (IF ctr = Respawn THEN RespawnClone ELSE <<>>)
                 \o (IF ctr >= Rejoin THEN Welcome ELSE <<>>))
        BY <4>2, <4>4, EndPackets
      <4> QED BY <4>1, <4>5
    <3> QED BY <2>8, <3>1, <3>2 DEF ctactrstat, Reply
  <2>9. CASE EndOfInput \/ ClientSends \/ ClientHangsUp \/ UNCHANGED vars
    BY <1>1, <2>9 DEF EndOfInput, ClientSends, ClientHangsUp, vars
  <2> QED
    BY <1>1, <2>1, <2>2, <2>3, <2>4, <2>5, <2>6, <2>7, <2>8, <2>9
       DEF Next, cloop
<1>2. Typed /\ [Next]_vars =>
        [nxt # "EVTNO" /\ nxt' = "EVTNO"
           => out' # <<>> /\ Last(out').evt \in {"PING", "PBYE"}]_vars
  BY <1>1 DEF Ends
<1> QED BY <1>2, InitTyped, NextTyped, PTL DEF Spec, ReplyHasEnd

-----------------------------------------------------------------------------
(* Every set of natural numbers that is not empty has a least element.     *)
LEMMA Least ==
    ASSUME NEW T, T \subseteq Nat, T # {}
    PROVE  \E x \in T : \A y \in T : x <= y
<1> DEFINE R == OpToRel(<, Nat)
<1>1. IsWellFoundedOn(R, Nat)
  BY NatLessThanWellFounded
<1>2. \A x, y \in Nat : x < y => <<x, y>> \in R
  BY DEF OpToRel
<1> HIDE DEF R
<1>3. PICK x \in T : \A y \in T : ~ (<<y, x>> \in R)
  BY <1>1, WFMin
<1>4. ASSUME NEW y \in T PROVE x <= y
  <2>1. x \in Nat /\ y \in Nat
    OBVIOUS
  <2>2. ~(y < x)
    BY <2>1, <1>2, <1>3
  <2> QED BY <2>1, <2>2
<1> QED BY <1>4

(* So a set with zero, and with the successor of each of its numbers, has  *)
(* all of them.                                                            *)
LEMMA Induction ==
    ASSUME NEW T, T \subseteq Nat, 0 \in T,
           \A n \in Nat : n \in T => n + 1 \in T
    PROVE  T = Nat
<1> SUFFICES ASSUME Nat \ T # {} PROVE FALSE
  OBVIOUS
<1>1. PICK x \in Nat \ T : \A y \in Nat \ T : x <= y
  <2>1. Nat \ T \subseteq Nat
    OBVIOUS
  <2> QED BY <2>1, Least
<1>2. x \in Nat /\ x # 0 /\ x \notin T
  OBVIOUS
<1>3. x - 1 \in Nat /\ ~(x <= x - 1) /\ (x - 1) + 1 = x
  BY <1>2
<1>4. x - 1 \in T
  BY <1>1, <1>3
<1> QED BY <1>2, <1>3, <1>4

-----------------------------------------------------------------------------
(* f has what a client of the version makes of v after each of n packets.  *)
IsRun(f, version, v, packets, n) ==
    f = [i \in 0 .. n |->
            IF i = 0 THEN v ELSE Sees(version, f[i - 1], packets[i])]

(* A run, by its values: what they are, and that they make one.            *)
LEMMA RunValues ==
    ASSUME NEW version, NEW v, NEW packets, NEW n \in Nat, NEW f,
           IsRun(f, version, v, packets, n)
    PROVE  /\ f[0] = v
           /\ \A i \in 0 .. n :
                i # 0 => f[i] = Sees(version, f[i - 1], packets[i])
<1> DEFINE S(w, e) == Sees(version, w, e)
<1>1. f = [i \in 0 .. n |-> IF i = 0 THEN v ELSE S(f[i - 1], packets[i])]
  BY DEF IsRun
<1> HIDE DEF S
<1>2. 0 \in 0 .. n
  OBVIOUS
<1>3. f[0] = v /\ \A i \in 0 .. n : i # 0 => f[i] = S(f[i - 1], packets[i])
  BY <1>1, <1>2
<1> QED BY <1>3 DEF S

LEMMA RunMade ==
    ASSUME NEW version, NEW v, NEW packets, NEW n \in Nat,
           NEW f, f = [i \in 0 .. n |-> f[i]], f[0] = v,
           \A i \in 0 .. n : i # 0 => f[i] = Sees(version, f[i - 1], packets[i])
    PROVE  IsRun(f, version, v, packets, n)
<1> DEFINE S(w, e) == Sees(version, w, e)
<1>1. \A i \in 0 .. n : i # 0 => f[i] = S(f[i - 1], packets[i])
  OBVIOUS
<1> HIDE DEF S
<1>2. f = [i \in 0 .. n |-> IF i = 0 THEN v ELSE S(f[i - 1], packets[i])]
  BY <1>1
<1> QED BY <1>2 DEF IsRun, S

(* There is a run of any length. *)
LEMMA RunExists ==
    ASSUME NEW version, NEW v, NEW packets, NEW n \in Nat
    PROVE  \E f : IsRun(f, version, v, packets, n)
<1> DEFINE Q(k) == \E f : IsRun(f, version, v, packets, k)
           T == {k \in Nat : Q(k)}
<1>1. Q(0)
  <2> DEFINE g == [i \in 0 .. 0 |-> v]
  <2>1. g = [i \in 0 .. 0 |-> g[i]] /\ g[0] = v /\ \A i \in 0 .. 0 : i = 0
    OBVIOUS
  <2> HIDE DEF g
  <2>2. IsRun(g, version, v, packets, 0)
    BY <2>1, RunMade
  <2> QED BY <2>2
<1>2. ASSUME NEW k \in Nat, Q(k) PROVE Q(k + 1)
  <2>1. PICK f : IsRun(f, version, v, packets, k)
    BY <1>2
  <2>2. /\ f[0] = v
        /\ \A i \in 0 .. k : i # 0 => f[i] = Sees(version, f[i - 1], packets[i])
    BY <2>1, RunValues
  <2> DEFINE next == Sees(version, f[k], packets[k + 1])
             g == [i \in 0 .. k + 1 |-> IF i = k + 1 THEN next ELSE f[i]]
  <2> HIDE DEF next
  <2>3. /\ g = [i \in 0 .. k + 1 |-> g[i]] /\ g[k + 1] = next
        /\ \A i \in 0 .. k : g[i] = f[i]
    OBVIOUS
  <2> HIDE DEF g
  <2>4. g[0] = v
    <3>1. 0 \in 0 .. k
      OBVIOUS
    <3> QED BY <2>2, <2>3, <3>1
  <2>5. ASSUME NEW i \in 0 .. k + 1, i # 0
        PROVE  g[i] = Sees(version, g[i - 1], packets[i])
    <3>1. CASE i = k + 1
      <4>1. k \in 0 .. k /\ i - 1 = k
        BY <3>1
      <4>2. g[i] = next /\ g[i - 1] = f[k]
        BY <2>3, <3>1, <4>1
      <4> QED BY <3>1, <4>2 DEF next
    <3>2. CASE i # k + 1
      <4>1. i \in 0 .. k /\ i - 1 \in 0 .. k
        BY <2>5, <3>2
      <4> QED BY <2>2, <2>3, <2>5, <4>1
    <3> QED BY <3>1, <3>2
  <2>6. IsRun(g, version, v, packets, k + 1)
    <3>1. k + 1 \in Nat
      OBVIOUS
    <3>2. \A i \in 0 .. k + 1 : i # 0 => g[i] = Sees(version, g[i - 1], packets[i])
      BY <2>5
    <3> QED BY <2>3, <2>4, <3>1, <3>2, RunMade
  <2> QED BY <2>6
<1> HIDE DEF Q
<1>3. T = Nat
  <2>1. T \subseteq Nat /\ 0 \in T
    BY <1>1
  <2>2. \A k \in Nat : k \in T => k + 1 \in T
    BY <1>2
  <2> HIDE DEF T
  <2> QED BY <2>1, <2>2, Induction
<1>4. Q(n)
  BY <1>3
<1> QED BY <1>4 DEF Q

(* A property of the views that every packet keeps holds of all of a run,  *)
(* V being the views that have it.                                         *)
Kept(V, version, packets, n) ==
    \A w \in V, i \in 1 .. n : Sees(version, w, packets[i]) \in V

LEMMA RunKeeps ==
    ASSUME NEW version, NEW v, NEW packets, NEW n \in Nat, NEW V, v \in V,
           Kept(V, version, packets, n),
           NEW f, IsRun(f, version, v, packets, n)
    PROVE  \A i \in 0 .. n : f[i] \in V
<1>1. /\ f[0] = v
      /\ \A i \in 0 .. n : i # 0 => f[i] = Sees(version, f[i - 1], packets[i])
  BY RunValues
<1> DEFINE T == {k \in Nat : k <= n => f[k] \in V}
<1>2. T \subseteq Nat /\ 0 \in T
  BY <1>1
<1>3. ASSUME NEW k \in Nat, k \in T PROVE k + 1 \in T
  <2>1. SUFFICES ASSUME k + 1 <= n PROVE f[k + 1] \in V
    OBVIOUS
  <2>2. k + 1 \in 0 .. n /\ k + 1 \in 1 .. n /\ k + 1 # 0 /\ (k + 1) - 1 = k /\ k <= n
    BY <2>1
  <2>3. f[k] \in V
    BY <1>3, <2>2
  <2>4. f[k + 1] = Sees(version, f[k], packets[k + 1])
    BY <1>1, <2>2
  <2> QED BY <2>2, <2>3, <2>4 DEF Kept
<1>4. T = Nat
  <2> HIDE DEF T
  <2> QED BY <1>2, <1>3, Induction
<1> QED BY <1>4

(* Two runs from the same view agree. *)
LEMMA RunsAgree ==
    ASSUME NEW version, NEW v, NEW packets, NEW n \in Nat,
           NEW f, IsRun(f, version, v, packets, n),
           NEW g, IsRun(g, version, v, packets, n)
    PROVE  f[n] = g[n]
<1>1. /\ f[0] = v
      /\ \A i \in 0 .. n : i # 0 => f[i] = Sees(version, f[i - 1], packets[i])
  BY RunValues
<1>2. /\ g[0] = v
      /\ \A i \in 0 .. n : i # 0 => g[i] = Sees(version, g[i - 1], packets[i])
  BY RunValues
<1> DEFINE T == {k \in Nat : k <= n => f[k] = g[k]}
<1>3. T \subseteq Nat /\ 0 \in T
  BY <1>1, <1>2
<1>4. ASSUME NEW k \in Nat, k \in T PROVE k + 1 \in T
  <2>1. SUFFICES ASSUME k + 1 <= n PROVE f[k + 1] = g[k + 1]
    OBVIOUS
  <2>2. k + 1 \in 0 .. n /\ k + 1 # 0 /\ (k + 1) - 1 = k /\ k <= n
    BY <2>1
  <2>3. f[k] = g[k]
    BY <1>4, <2>2
  <2> QED BY <1>1, <1>2, <2>2, <2>3
<1>5. T = Nat
  <2> HIDE DEF T
  <2> QED BY <1>3, <1>4, Induction
<1> QED BY <1>5

(* Seen is what any run makes of the packets.                              *)
LEMMA SeenRun ==
    ASSUME NEW version, NEW v, NEW S, NEW packets \in Seq(S)
    PROVE  \E f : /\ IsRun(f, version, v, packets, Len(packets))
                  /\ Seen(version, v, packets) = f[Len(packets)]
<1> DEFINE f == CHOOSE f : IsRun(f, version, v, packets, Len(packets))
<1>1. Len(packets) \in Nat
  OBVIOUS
<1>2. IsRun(f, version, v, packets, Len(packets))
  <2>1. \E g : IsRun(g, version, v, packets, Len(packets))
    BY <1>1, RunExists
  <2> QED BY <2>1, Zenon
<1>3. Seen(version, v, packets) = f[Len(packets)]
  BY Zenon DEF Seen, IsRun
<1> QED BY <1>2, <1>3

(* Nothing, or one packet. *)
LEMMA SeenNone ==
    ASSUME NEW version, NEW v
    PROVE  Seen(version, v, <<>>) = v
<1> DEFINE p == <<>>
           n == Len(p)
<1>1. p \in Seq({}) /\ n \in Nat /\ n = 0
  OBVIOUS
<1>2. PICK f : /\ IsRun(f, version, v, p, n)
               /\ Seen(version, v, p) = f[n]
  BY <1>1, SeenRun
<1> HIDE DEF p, n
<1>3. f[0] = v
  BY <1>1, <1>2, RunValues
<1> QED BY <1>1, <1>2, <1>3 DEF p

LEMMA SeenOne ==
    ASSUME NEW version, NEW v, NEW e
    PROVE  Seen(version, v, <<e>>) = Sees(version, v, e)
<1>1. <<e>> \in Seq({e}) /\ Len(<<e>>) = 1 /\ <<e>>[1] = e
  OBVIOUS
<1>2. PICK f : /\ IsRun(f, version, v, <<e>>, 1)
               /\ Seen(version, v, <<e>>) = f[1]
  BY <1>1, SeenRun
<1>3. /\ f[0] = v
      /\ \A i \in 0 .. 1 : i # 0 => f[i] = Sees(version, f[i - 1], <<e>>[i])
  BY <1>2, RunValues
<1>4. 1 \in 0 .. 1 /\ 1 # 0 /\ 1 - 1 = 0
  OBVIOUS
<1>5. f[1] = Sees(version, f[0], <<e>>[1])
  BY <1>3, <1>4
<1> QED BY <1>1, <1>2, <1>3, <1>5

(* What every packet keeps, a sequence of them keeps.                      *)
LEMMA SeenKeeps ==
    ASSUME NEW version, NEW V, NEW v \in V, NEW S, NEW packets \in Seq(S),
           \A w \in V, e \in S : Sees(version, w, e) \in V
    PROVE  Seen(version, v, packets) \in V
<1>1. Len(packets) \in Nat /\ \A i \in 1 .. Len(packets) : packets[i] \in S
  OBVIOUS
<1>2. PICK f : /\ IsRun(f, version, v, packets, Len(packets))
               /\ Seen(version, v, packets) = f[Len(packets)]
  BY SeenRun
<1>3. Kept(V, version, packets, Len(packets))
  BY <1>1 DEF Kept
<1>4. \A i \in 0 .. Len(packets) : f[i] \in V
  BY <1>1, <1>2, <1>3, RunKeeps
<1>5. Len(packets) \in 0 .. Len(packets)
  BY <1>1
<1> QED BY <1>2, <1>4, <1>5

(* The client goes on with the view that the packets before have left.     *)
LEMMA SeenConcat ==
    ASSUME NEW version, NEW v, NEW S, NEW p \in Seq(S), NEW q \in Seq(S)
    PROVE  Seen(version, v, p \o q) = Seen(version, Seen(version, v, p), q)
<1> DEFINE m == Len(p)
           n == Len(q)
           u == Seen(version, v, p)
<1>1. /\ m \in Nat /\ n \in Nat /\ p \o q \in Seq(S) /\ Len(p \o q) = m + n
      /\ \A i \in 1 .. m : (p \o q)[i] = p[i]
      /\ \A i \in 1 .. n : (p \o q)[m + i] = q[i]
  OBVIOUS
<1>2. PICK f : IsRun(f, version, v, p, m) /\ u = f[m]
  BY SeenRun
<1>3. PICK g : IsRun(g, version, u, q, n) /\ Seen(version, u, q) = g[n]
  BY SeenRun
<1>4. PICK h : /\ IsRun(h, version, v, p \o q, m + n)
               /\ Seen(version, v, p \o q) = h[m + n]
  <2>1. \E h : /\ IsRun(h, version, v, p \o q, Len(p \o q))
               /\ Seen(version, v, p \o q) = h[Len(p \o q)]
    BY <1>1, SeenRun
  <2> QED BY <1>1, <2>1, Zenon
<1>5. /\ f[0] = v
      /\ \A i \in 0 .. m : i # 0 => f[i] = Sees(version, f[i - 1], p[i])
  BY <1>1, <1>2, RunValues
<1>6. /\ g[0] = u
      /\ \A i \in 0 .. n : i # 0 => g[i] = Sees(version, g[i - 1], q[i])
  BY <1>1, <1>3, RunValues
<1> DEFINE k == [i \in 0 .. m + n |-> IF i <= m THEN f[i] ELSE g[i - m]]
<1> HIDE DEF m, n, u
<1>7. /\ k = [i \in 0 .. m + n |-> k[i]]
      /\ \A i \in 0 .. m : k[i] = f[i]
      /\ \A i \in 0 .. n : k[m + i] = g[i]
  <2>1. ASSUME NEW i \in 0 .. m PROVE k[i] = f[i]
    BY <1>1
  <2>2. ASSUME NEW i \in 0 .. n PROVE k[m + i] = g[i]
    <3>1. CASE i = 0
      <4>1. m + i = m /\ m \in 0 .. m
        BY <1>1, <3>1
      <4> QED BY <1>2, <1>6, <2>1, <3>1, <4>1
    <3>2. CASE i # 0
      <4>1. m + i \in 0 .. m + n /\ ~(m + i <= m) /\ (m + i) - m = i
        BY <1>1, <3>2
      <4> QED BY <4>1
    <3> QED BY <3>1, <3>2
  <2> QED BY <2>1, <2>2
<1> HIDE DEF k
<1>8. k[0] = v
  <2>1. 0 \in 0 .. m
    BY <1>1
  <2> QED BY <1>5, <1>7, <2>1
<1>9. ASSUME NEW i \in 0 .. m + n, i # 0
      PROVE  k[i] = Sees(version, k[i - 1], (p \o q)[i])
  <2>1. CASE i <= m
    <3>1. i \in 0 .. m /\ i - 1 \in 0 .. m /\ i \in 1 .. m
      BY <1>1, <1>9, <2>1
    <3> QED BY <1>1, <1>5, <1>7, <1>9, <3>1
  <2>2. CASE ~(i <= m)
    <3> DEFINE j == i - m
    <3>1. j \in 0 .. n /\ j - 1 \in 0 .. n /\ j \in 1 .. n /\ j # 0
          /\ i = m + j /\ i - 1 = m + (j - 1)
      BY <1>1, <1>9, <2>2
    <3> HIDE DEF j
    <3>2. k[i] = g[j] /\ k[i - 1] = g[j - 1] /\ (p \o q)[i] = q[j]
      BY <1>1, <1>7, <3>1
    <3> QED BY <1>6, <3>1, <3>2
  <2> QED BY <2>1, <2>2
<1>10. IsRun(k, version, v, p \o q, m + n)
  <2>1. \A i \in 0 .. m + n : i # 0 => k[i] = Sees(version, k[i - 1], (p \o q)[i])
    BY <1>9
  <2>2. m + n \in Nat
    BY <1>1
  <2> QED BY <1>7, <1>8, <2>1, <2>2, RunMade
<1>11. h[m + n] = k[m + n]
  <2>1. m + n \in Nat
    BY <1>1
  <2> QED BY <1>4, <1>10, <2>1, RunsAgree
<1>12. k[m + n] = g[n]
  <2>1. n \in 0 .. n
    BY <1>1
  <2> QED BY <1>7, <2>1
<1> QED BY <1>3, <1>4, <1>11, <1>12 DEF u

-----------------------------------------------------------------------------
(* A view by its fields, and one with a field changed.                     *)
View(level, self, clone, ok) ==
    [level |-> level, self |-> self, clone |-> clone, ok |-> ok]

LEMMA ViewFields ==
    ASSUME NEW level, NEW self, NEW clone, NEW ok, NEW x
    PROVE  /\ View(level, self, clone, ok).level = level
           /\ View(level, self, clone, ok)["self"] = self
           /\ View(level, self, clone, ok)["clone"] = clone
           /\ View(level, self, clone, ok).ok = ok
           /\ [View(level, self, clone, ok) EXCEPT !.level = x]
                = View(x, self, clone, ok)
           /\ [View(level, self, clone, ok) EXCEPT !["self"] = x]
                = View(level, x, clone, ok)
           /\ [View(level, self, clone, ok) EXCEPT !["clone"] = x]
                = View(level, self, x, ok)
           /\ [View(level, self, clone, ok) EXCEPT !.ok = x]
                = View(level, self, clone, x)
<1>1. /\ View(level, self, clone, ok).level = level
      /\ View(level, self, clone, ok)["self"] = self
      /\ View(level, self, clone, ok)["clone"] = clone
      /\ View(level, self, clone, ok).ok = ok
  BY DEF View
<1>2. [View(level, self, clone, ok) EXCEPT !.level = x] = View(x, self, clone, ok)
  BY DEF View
<1>3. [View(level, self, clone, ok) EXCEPT !["self"] = x] = View(level, x, clone, ok)
  BY DEF View
<1>4. [View(level, self, clone, ok) EXCEPT !["clone"] = x] = View(level, self, x, ok)
  BY DEF View
<1>5. [View(level, self, clone, ok) EXCEPT !.ok = x] = View(level, self, clone, x)
  BY DEF View
<1> QED BY <1>1, <1>2, <1>3, <1>4, <1>5

(* The views of a client. *)
Views == [level : {"none", "loading", "ready"},
          self : BOOLEAN, clone : BOOLEAN, ok : BOOLEAN]

LEMMA ViewOf ==
    ASSUME NEW v \in Views
    PROVE  /\ v = View(v.level, v.self, v.clone, v.ok)
           /\ v.level \in {"none", "loading", "ready"}
           /\ v.self \in BOOLEAN /\ v.clone \in BOOLEAN /\ v.ok \in BOOLEAN
BY Zenon DEF Views, View

LEMMA ViewTyped ==
    ASSUME NEW level \in {"none", "loading", "ready"}, NEW self \in BOOLEAN,
           NEW clone \in BOOLEAN, NEW ok \in BOOLEAN
    PROVE  View(level, self, clone, ok) \in Views
BY DEF Views, View

(* Who an entity number stands for. *)
LEMMA EntityFacts ==
    /\ Entity(Self) = "self" /\ Entity(Clone) = "clone" /\ Self # Clone
BY DEF Entity, Self, Clone

(* What each packet means to the view v, named for what it is about.       *)
Loads(v)  == [[NewView EXCEPT !.level = "loading"] EXCEPT !.ok = v.ok /\ TRUE]
Fills(v)  == [v EXCEPT !.ok = v.ok /\ v.level = "loading"]
Opens(v)  == [[v EXCEPT !.level = "ready"] EXCEPT !.ok = v.ok /\ v.level = "loading"]
Alters(v) == [v EXCEPT !.ok = v.ok /\ v.level = "ready"]
Enters(v, eno) ==
    [[v EXCEPT ![Entity(eno)] = TRUE]
       EXCEPT !.ok = v.ok /\ (v.level = "ready" /\ (eno = Clone => ~v[Entity(eno)]))]
Leaves(v, eno) ==
    [[v EXCEPT ![Entity(eno)] = FALSE] EXCEPT !.ok = v.ok /\ v[Entity(eno)]]
Moves(v, eno)  == [v EXCEPT !.ok = v.ok /\ v[Entity(eno)]]

LEMMA SeesCases ==
    ASSUME NEW version \in Nat, NEW v, NEW e
    PROVE  /\ e.no \notin {2, 3, 4, 6, 7, 8, 9, 10, 11, 12} => Sees(version, v, e) = v
           /\ e.no = 2 => Sees(version, v, e) = Loads(v)
           /\ e.no = 3 => Sees(version, v, e) = Fills(v)
           /\ e.no = 4 => Sees(version, v, e) = Opens(v)
           /\ e.no = 6 => Sees(version, v, e) = Alters(v)
           /\ e.no = 7 => Sees(version, v, e) = Enters(v, e.eno)
           /\ e.no = 12 \/ (e.no = 9 /\ version = 0)
                => Sees(version, v, e) = Leaves(v, e.eno)
           /\ e.no \in {8, 10, 11} \/ (e.no = 9 /\ version > 0)
                => Sees(version, v, e) = Moves(v, e.eno)
<1> DEFINE no == e.no
<1>1. Sees(version, v, e) =
        CASE no = 2 -> Loads(v)
          [] no = 3 -> Fills(v)
          [] no = 4 -> Opens(v)
          [] no = 6 -> Alters(v)
          [] no = 7 -> Enters(v, e.eno)
          [] no = 12 \/ (no = 9 /\ version = 0) -> Leaves(v, e.eno)
          [] no \in {8, 10, 11} \/ (no = 9 /\ version > 0) -> Moves(v, e.eno)
          [] OTHER -> v
  BY DEF Sees, Loads, Fills, Opens, Alters, Enters, Leaves, Moves
<1> QED BY <1>1

(* Whatever the client is sent, what it makes of it is a view.             *)
LEMMA SeesTyped ==
    ASSUME NEW version \in Nat, NEW v \in Views, NEW e, e.no \in 0 .. 15,
           e.eno \in {Self, Clone}
    PROVE  Sees(version, v, e) \in Views
<1> DEFINE id == Entity(e.eno)
<1>1. id \in {"self", "clone"}
  BY EntityFacts
<1>2. ASSUME NEW w \in Views, NEW a, NEW b PROVE [w EXCEPT !.ok = a /\ b] \in Views
  <2> DEFINE both == a /\ b
  <2>1. both \in BOOLEAN
    BY Zenon
  <2> HIDE DEF both
  <2>2. [w EXCEPT !.ok = both] \in Views
    BY <2>1 DEF Views
  <2> QED BY <2>2 DEF both
<1>3. /\ [NewView EXCEPT !.level = "loading"] \in Views
      /\ [v EXCEPT !.level = "ready"] \in Views
  BY DEF Views, NewView
<1>4. ASSUME NEW b \in BOOLEAN PROVE [v EXCEPT ![id] = b] \in Views
  BY <1>1 DEF Views
<1>5. /\ Loads(v) \in Views /\ Fills(v) \in Views
      /\ Opens(v) \in Views /\ Alters(v) \in Views
  BY <1>2, <1>3, Zenon DEF Loads, Fills, Opens, Alters
<1>6. /\ Enters(v, e.eno) \in Views /\ Leaves(v, e.eno) \in Views
      /\ Moves(v, e.eno) \in Views
  BY <1>2, <1>4, Zenon DEF Enters, Leaves, Moves
<1>7. \/ Sees(version, v, e)
           \in {v, Loads(v), Fills(v), Opens(v), Alters(v), Enters(v, e.eno),
                Leaves(v, e.eno), Moves(v, e.eno)}
  BY SeesCases
<1> QED BY <1>5, <1>6, <1>7

(* Views of a client that was sent nothing out of place: it is sent a      *)
(* level, has it, is in it, and has a clone there.                         *)
Loading == View("loading", FALSE, FALSE, TRUE)
Opened  == View("ready", FALSE, FALSE, TRUE)
Entered == View("ready", TRUE, FALSE, TRUE)
Joined  == View("ready", TRUE, TRUE, TRUE)

(* What the packets mean to those.                                         *)
LEMMA GoodViews ==
    /\ \A v \in Views : v.ok => Loads(v) = Loading
    /\ Fills(Loading) = Loading /\ Opens(Loading) = Opened
    /\ Alters(Joined) = Joined
    /\ Enters(Opened, Self) = Entered /\ Enters(Entered, Self) = Entered
    /\ Enters(Joined, Self) = Joined /\ Enters(Entered, Clone) = Joined
    /\ Leaves(Joined, Clone) = Entered
    /\ Moves(Joined, Self) = Joined /\ Moves(Joined, Clone) = Joined
<1> DEFINE yes == TRUE
           nope == FALSE
<1>y. yes /\ ~nope
  OBVIOUS
<1> HIDE DEF yes, nope
<1>f. ASSUME NEW level, NEW self, NEW clone, NEW ok, NEW w,
             w = View(level, self, clone, ok), NEW a, a, NEW b, b
      PROVE  [w EXCEPT !.ok = a /\ b] = View(level, self, clone, yes)
  <2>1. (a /\ b) = yes
    BY <1>f, Zenon DEF yes
  <2>2. [w EXCEPT !.ok = yes] = View(level, self, clone, yes)
    BY <1>f, ViewFields
  <2> QED BY <2>1, <2>2, Zenon
<1>1. ASSUME NEW v \in Views, v.ok PROVE Loads(v) = Loading
  <2>1. NewView = View("none", nope, nope, yes)
    BY DEF NewView, View, yes, nope
  <2>2. [NewView EXCEPT !.level = "loading"] = View("loading", nope, nope, yes)
    BY <2>1, ViewFields
  <2>3. (v.ok /\ TRUE) = yes
    BY <1>1, Zenon DEF yes
  <2> DEFINE w == [NewView EXCEPT !.level = "loading"]
  <2>4. [w EXCEPT !.ok = yes] = View("loading", nope, nope, yes)
    <3>1. w = View("loading", nope, nope, yes)
      BY <2>2
    <3> HIDE DEF w
    <3> QED BY <3>1, ViewFields
  <2>5. Loads(v) = View("loading", nope, nope, yes)
    BY <2>3, <2>4, Zenon DEF Loads
  <2> QED BY <2>5, Zenon DEF Loading, yes, nope
<1>2. ASSUME NEW s, NEW c
      PROVE  /\ Fills(View("loading", s, c, yes)) = View("loading", s, c, yes)
             /\ Opens(View("loading", s, c, yes)) = View("ready", s, c, yes)
             /\ Alters(View("ready", s, c, yes)) = View("ready", s, c, yes)
  <2> DEFINE v == View("loading", s, c, yes)
             w == View("ready", s, c, yes)
  <2>1. v.ok = yes /\ w.ok = yes /\ v.level = "loading" /\ w.level = "ready"
        /\ [v EXCEPT !.level = "ready"] = w
    BY ViewFields
  <2>2. v.ok /\ w.ok
    BY <1>y, <2>1, Zenon
  <2>3. v = View("loading", s, c, yes) /\ w = View("ready", s, c, yes)
    OBVIOUS
  <2> HIDE DEF v, w
  <2>4. Fills(v) = v
    <3>1. (v.ok /\ v.level = "loading") = yes
      BY <2>1, <2>2, Zenon DEF yes
    <3>2. [v EXCEPT !.ok = yes] = v
      BY <2>3, ViewFields
    <3> QED BY <3>1, <3>2, Zenon DEF Fills
  <2>5. Alters(w) = w
    BY <1>f, <2>1, <2>2, <2>3, Zenon DEF Alters
  <2>6. Opens(v) = w
    BY <1>f, <2>1, <2>2, <2>3, Zenon DEF Opens
  <2> QED BY <2>4, <2>5, <2>6, Zenon DEF v, w
<1>3. ASSUME NEW s, NEW c
      PROVE  /\ Enters(View("ready", s, c, yes), Self) = View("ready", yes, c, yes)
             /\ Enters(View("ready", s, nope, yes), Clone) = View("ready", s, yes, yes)
             /\ Leaves(View("ready", s, yes, yes), Clone) = View("ready", s, nope, yes)
             /\ Moves(View("ready", s, yes, yes), Clone) = View("ready", s, yes, yes)
             /\ Moves(View("ready", yes, c, yes), Self) = View("ready", yes, c, yes)
  <2>1. Enters(View("ready", s, c, yes), Self) = View("ready", yes, c, yes)
    <3> DEFINE v == View("ready", s, c, yes)
    <3>1. v.ok = yes /\ v.level = "ready" /\ v["self"] = s
          /\ [v EXCEPT !["self"] = yes] = View("ready", yes, c, yes)
      BY ViewFields
    <3>2. v.ok /\ (v.level = "ready" /\ (Self = Clone => ~v["self"]))
      BY <1>y, <3>1, EntityFacts, Zenon
    <3>3. v = View("ready", s, c, yes)
      OBVIOUS
    <3> HIDE DEF v
    <3>4. Enters(v, Self) = View("ready", yes, c, yes)
      BY <1>f, <3>1, <3>2, <3>3, EntityFacts, Zenon DEF Enters, yes, nope
    <3> QED BY <3>4 DEF v
  <2>2. Enters(View("ready", s, nope, yes), Clone) = View("ready", s, yes, yes)
    <3> DEFINE v == View("ready", s, nope, yes)
    <3>1. v.ok = yes /\ v.level = "ready" /\ v["clone"] = nope
          /\ [v EXCEPT !["clone"] = yes] = View("ready", s, yes, yes)
      BY ViewFields
    <3>2. v.ok /\ (v.level = "ready" /\ (Clone = Clone => ~v["clone"]))
      BY <1>y, <3>1, EntityFacts, Zenon
    <3>3. v = View("ready", s, nope, yes)
      OBVIOUS
    <3> HIDE DEF v
    <3>4. Enters(v, Clone) = View("ready", s, yes, yes)
      BY <1>f, <3>1, <3>2, <3>3, EntityFacts, Zenon DEF Enters, yes, nope
    <3> QED BY <3>4 DEF v
  <2>3. Leaves(View("ready", s, yes, yes), Clone) = View("ready", s, nope, yes)
    <3> DEFINE v == View("ready", s, yes, yes)
    <3>1. v.ok = yes /\ v.level = "ready" /\ v["clone"] = yes
          /\ [v EXCEPT !["clone"] = nope] = View("ready", s, nope, yes)
      BY ViewFields
    <3>2. v.ok /\ v["clone"]
      BY <1>y, <3>1, EntityFacts, Zenon
    <3>3. v = View("ready", s, yes, yes)
      OBVIOUS
    <3> HIDE DEF v
    <3>4. Leaves(v, Clone) = View("ready", s, nope, yes)
      BY <1>f, <3>1, <3>2, <3>3, EntityFacts, Zenon DEF Leaves, yes, nope
    <3> QED BY <3>4 DEF v
  <2>4. Moves(View("ready", s, yes, yes), Clone) = View("ready", s, yes, yes)
    <3> DEFINE v == View("ready", s, yes, yes)
    <3>1. v.ok = yes /\ v.level = "ready" /\ v["clone"] = yes
      BY ViewFields
    <3>2. v.ok /\ v["clone"]
      BY <1>y, <3>1, EntityFacts, Zenon
    <3>3. v = View("ready", s, yes, yes)
      OBVIOUS
    <3> HIDE DEF v
    <3>4. (v.ok /\ v["clone"]) = yes /\ [v EXCEPT !.ok = yes] = v
      <4>1. (v.ok /\ v["clone"]) = yes
        BY <3>2, Zenon DEF yes
      <4>2. [v EXCEPT !.ok = yes] = v
        BY <3>3, ViewFields
      <4> QED BY <4>1, <4>2
    <3>5. Moves(v, Clone) = View("ready", s, yes, yes)
      BY <3>3, <3>4, EntityFacts, Zenon DEF Moves
    <3> QED BY <3>5 DEF v
  <2>5. Moves(View("ready", yes, c, yes), Self) = View("ready", yes, c, yes)
    <3> DEFINE v == View("ready", yes, c, yes)
    <3>1. v.ok = yes /\ v.level = "ready" /\ v["self"] = yes
      BY ViewFields
    <3>2. v.ok /\ v["self"]
      BY <1>y, <3>1, EntityFacts, Zenon
    <3>3. v = View("ready", yes, c, yes)
      OBVIOUS
    <3> HIDE DEF v
    <3>4. (v.ok /\ v["self"]) = yes /\ [v EXCEPT !.ok = yes] = v
      <4>1. (v.ok /\ v["self"]) = yes
        BY <3>2, Zenon DEF yes
      <4>2. [v EXCEPT !.ok = yes] = v
        BY <3>3, ViewFields
      <4> QED BY <4>1, <4>2
    <3>5. Moves(v, Self) = View("ready", yes, c, yes)
      BY <3>3, <3>4, EntityFacts, Zenon DEF Moves
    <3> QED BY <3>5 DEF v
  <2> QED BY <2>1, <2>2, <2>3, <2>4, <2>5
<1> QED BY <1>1, <1>2, <1>3, Zenon DEF Loading, Opened, Entered, Joined, yes, nope

-----------------------------------------------------------------------------
(* Two packets, and four. *)
LEMMA SeenTwo ==
    ASSUME NEW version, NEW v, NEW a, NEW b
    PROVE  Seen(version, v, <<a, b>>) = Sees(version, Sees(version, v, a), b)
<1> DEFINE p == <<a, b>>
<1>1. p \in Seq({a, b}) /\ Len(p) = 2 /\ p[1] = a /\ p[2] = b
  OBVIOUS
<1> HIDE DEF p
<1>2. PICK f : IsRun(f, version, v, p, 2) /\ Seen(version, v, p) = f[2]
  BY <1>1, SeenRun
<1>3. /\ f[0] = v
      /\ \A i \in 0 .. 2 : i # 0 => f[i] = Sees(version, f[i - 1], p[i])
  BY <1>2, RunValues
<1>4. f[1] = Sees(version, f[0], p[1]) /\ f[2] = Sees(version, f[1], p[2])
  <2>1. 1 \in 0 .. 2 /\ 2 \in 0 .. 2 /\ 1 - 1 = 0 /\ 2 - 1 = 1 /\ 1 # 0 /\ 2 # 0
    OBVIOUS
  <2> QED BY <1>3, <2>1
<1> QED BY <1>1, <1>2, <1>3, <1>4 DEF p

LEMMA SeenFour ==
    ASSUME NEW version, NEW v, NEW a, NEW b, NEW c, NEW d
    PROVE  Seen(version, v, <<a, b, c, d>>)
             = Sees(version, Sees(version, Sees(version, Sees(version, v, a), b), c), d)
<1> DEFINE p == <<a, b, c, d>>
<1>1. /\ p \in Seq({a, b, c, d}) /\ Len(p) = 4
      /\ p[1] = a /\ p[2] = b /\ p[3] = c /\ p[4] = d
  OBVIOUS
<1> HIDE DEF p
<1>2. PICK f : IsRun(f, version, v, p, 4) /\ Seen(version, v, p) = f[4]
  BY <1>1, SeenRun
<1>3. /\ f[0] = v
      /\ \A i \in 0 .. 4 : i # 0 => f[i] = Sees(version, f[i - 1], p[i])
  BY <1>2, RunValues
<1>4. /\ f[1] = Sees(version, f[0], p[1]) /\ f[2] = Sees(version, f[1], p[2])
      /\ f[3] = Sees(version, f[2], p[3]) /\ f[4] = Sees(version, f[3], p[4])
  <2>1. /\ 1 \in 0 .. 4 /\ 2 \in 0 .. 4 /\ 3 \in 0 .. 4 /\ 4 \in 0 .. 4
        /\ 1 - 1 = 0 /\ 2 - 1 = 1 /\ 3 - 1 = 2 /\ 4 - 1 = 3
    OBVIOUS
  <2> QED BY <1>3, <2>1
<1> QED BY <1>1, <1>2, <1>3, <1>4 DEF p

-----------------------------------------------------------------------------
(* What is sent means to a client of any version. *)
LEMMA SentNumbers ==
    ASSUME NEW eno
    PROVE  /\ \A evt : Sent(evt, eno).eno = eno
           /\ Sent("PGREETING", eno).no = 0 /\ Sent("PING", eno).no = 1
           /\ Sent("LNEW", eno).no = 2 /\ Sent("LDATA", eno).no = 3
           /\ Sent("LDIM", eno).no = 4 /\ Sent("BUPDATE", eno).no = 6
           /\ Sent("ENEW", eno).no = 7 /\ Sent("ESTATE", eno).no = 8
           /\ Sent("EDIFF", eno).no = 9 /\ Sent("ESLIDE", eno).no = 10
           /\ Sent("EHEAD", eno).no = 11
           /\ Sent("EDIED", eno).no = IF ctx'.curpv = 0 THEN 9 ELSE 12
           /\ Sent("CMSG", eno).no = 13 /\ Sent("PBYE", eno).no = 14
BY DEF Sent, Number, seencode

LEMMA SentTyped ==
    ASSUME NEW evt \in ServerEvents, NEW eno \in {Self, Clone}
    PROVE  Sent(evt, eno) \in PacketsSent
<1>1. Number(evt, ctx'.curpv) \in 0 .. 15
  BY DEF Number, seencode, ServerEvents
<1> QED BY <1>1 DEF Sent, PacketsSent

LEMMA SentHarmless ==
    ASSUME ctx'.curpv \in Nat, NEW eno \in {Self, Clone}
    PROVE  /\ \A evt \in {"PGREETING", "PING", "BUPDATE", "ESTATE", "CMSG", "PBYE"} :
                Sees(ctx'.curpv, Joined, Sent(evt, eno)) = Joined
           /\ Sees(ctx'.curpv, Joined, Sent("ENEW", Self)) = Joined
           /\ ctx'.curpv # 0 => \A evt \in {"EDIFF", "ESLIDE", "EHEAD"} :
                Sees(ctx'.curpv, Joined, Sent(evt, eno)) = Joined
<1> DEFINE version == ctx'.curpv
<1> HIDE DEF version
<1>0. version \in Nat
  BY DEF version
<1>1. ASSUME NEW evt \in {"PGREETING", "PING", "CMSG", "PBYE"}
      PROVE  Sees(version, Joined, Sent(evt, eno)) = Joined
  <2>1. Sent(evt, eno).no \in {0, 1, 13, 14}
    BY SentNumbers
  <2> QED BY <1>0, <2>1, SeesCases
<1>2. Sees(version, Joined, Sent("BUPDATE", eno)) = Joined
  <2>1. Sent("BUPDATE", eno).no = 6
    BY SentNumbers
  <2> QED BY <1>0, <2>1, SeesCases, GoodViews
<1>3. Sees(version, Joined, Sent("ENEW", Self)) = Joined
  <2>1. Sent("ENEW", Self).no = 7 /\ Sent("ENEW", Self).eno = Self
    BY SentNumbers
  <2> QED BY <1>0, <2>1, SeesCases, GoodViews
<1>4. ASSUME NEW evt \in {"ESTATE", "EDIFF", "ESLIDE", "EHEAD"},
             evt = "ESTATE" \/ version # 0
      PROVE  Sees(version, Joined, Sent(evt, eno)) = Joined
  <2>1. /\ Sent(evt, eno).no \in {8, 10, 11} \/ (Sent(evt, eno).no = 9 /\ version > 0)
        /\ Sent(evt, eno).eno = eno
    BY <1>0, <1>4, SentNumbers
  <2>2. Sees(version, Joined, Sent(evt, eno)) = Moves(Joined, Sent(evt, eno).eno)
    BY <1>0, <2>1, SeesCases
  <2> QED BY <2>1, <2>2, GoodViews
<1> QED BY <1>1, <1>2, <1>3, <1>4 DEF version

(* So of a sequence of such packets.                                       *)
LEMMA SeenHarmless ==
    ASSUME NEW version, NEW S, NEW packets \in Seq(S),
           \A e \in S : Sees(version, Joined, e) = Joined
    PROVE  Seen(version, Joined, packets) = Joined
<1> DEFINE V == {Joined}
<1>1. Joined \in V /\ \A w \in V, e \in S : Sees(version, w, e) \in V
  OBVIOUS
<1> HIDE DEF V
<1>2. Seen(version, Joined, packets) \in V
  BY <1>1, SeenKeeps
<1> QED BY <1>2 DEF V

(* The clone's death and return. *)
LEMMA SeenReturn ==
    ASSUME ctx'.curpv \in Nat
    PROVE  /\ Sees(ctx'.curpv, Joined, Sent("EDIED", Clone)) = Entered
           /\ Sees(ctx'.curpv, Entered, Sent("PGREETING", Self)) = Entered
           /\ Sees(ctx'.curpv, Entered, Sent("ENEW", Self)) = Entered
           /\ Sees(ctx'.curpv, Entered, Sent("ENEW", Clone)) = Joined
<1> DEFINE version == ctx'.curpv
           died == Sent("EDIED", Clone)
<1>1. /\ died.eno = Clone
      /\ died.no = 12 \/ (died.no = 9 /\ version = 0)
      /\ Sent("PGREETING", Self).no = 0
      /\ Sent("ENEW", Self).no = 7 /\ Sent("ENEW", Self).eno = Self
      /\ Sent("ENEW", Clone).no = 7 /\ Sent("ENEW", Clone).eno = Clone
  BY SentNumbers
<1>2. version \in Nat
  OBVIOUS
<1> HIDE DEF version, died
<1>3. Sees(version, Joined, died) = Entered
  BY <1>1, <1>2, SeesCases, GoodViews
<1>4. /\ Sees(version, Entered, Sent("PGREETING", Self)) = Entered
      /\ Sees(version, Entered, Sent("ENEW", Self)) = Entered
      /\ Sees(version, Entered, Sent("ENEW", Clone)) = Joined
  BY <1>1, <1>2, SeesCases, GoodViews
<1> QED BY <1>3, <1>4 DEF version, died

(* The level, to whatever client.                                          *)
LEMMA SeenWelcome ==
    ASSUME ctx'.curpv \in Nat, NEW v \in Views, v.ok
    PROVE  Seen(ctx'.curpv, v, Welcome) = Joined
<1> DEFINE version == ctx'.curpv
           opening == <<Sent("PGREETING", Self), Sent("LNEW", Self)>>
           data == [i \in 1 .. Chunks |-> Sent("LDATA", Self)]
           ending == <<Sent("LDIM", Self), Sent("ENEW", Self), Sent("ENEW", Clone),
                       Sent("PING", Self)>>
           S == {Sent(evt, eno) : evt \in ServerEvents, eno \in {Self, Clone}}
<1>1. /\ Sent("PGREETING", Self).no = 0 /\ Sent("LNEW", Self).no = 2
      /\ Sent("LDATA", Self).no = 3 /\ Sent("LDIM", Self).no = 4
      /\ Sent("ENEW", Self).no = 7 /\ Sent("ENEW", Self).eno = Self
      /\ Sent("ENEW", Clone).no = 7 /\ Sent("ENEW", Clone).eno = Clone
      /\ Sent("PING", Self).no = 1
  BY SentNumbers
<1>2. version \in Nat
  OBVIOUS
<1>3. /\ opening \in Seq(S) /\ data \in Seq(S) /\ ending \in Seq(S)
      /\ data \in Seq({Sent("LDATA", Self)})
  <2>1. /\ Sent("PGREETING", Self) \in S /\ Sent("LNEW", Self) \in S
        /\ Sent("LDATA", Self) \in S /\ Sent("LDIM", Self) \in S
        /\ Sent("ENEW", Self) \in S /\ Sent("ENEW", Clone) \in S
        /\ Sent("PING", Self) \in S
    BY DEF ServerEvents
  <2> HIDE DEF S
  <2> QED BY <2>1, SessionAssumption
<1> HIDE DEF version, S
<1>4. Seen(version, v, opening) = Loading
  <2>1. Sees(version, v, Sent("PGREETING", Self)) = v
    BY <1>1, <1>2, SeesCases
  <2>2. Sees(version, v, Sent("LNEW", Self)) = Loading
    BY <1>1, <1>2, SeesCases, GoodViews
  <2> QED BY <2>1, <2>2, SeenTwo
<1>5. Seen(version, Loading, data) = Loading
  <2> DEFINE V == {Loading}
             D == {Sent("LDATA", Self)}
  <2>1. Sees(version, Loading, Sent("LDATA", Self)) = Loading
    BY <1>1, <1>2, SeesCases, GoodViews
  <2>2. /\ Loading \in V /\ data \in Seq(D)
        /\ \A w \in V, e \in D : Sees(version, w, e) \in V
    BY <1>3, <2>1
  <2> HIDE DEF V, D, data
  <2>3. Seen(version, Loading, data) \in V
    BY <2>2, SeenKeeps
  <2> QED BY <2>3 DEF V
<1>6. Seen(version, Loading, ending) = Joined
  <2>1. /\ Sees(version, Loading, Sent("LDIM", Self)) = Opened
        /\ Sees(version, Opened, Sent("ENEW", Self)) = Entered
        /\ Sees(version, Entered, Sent("ENEW", Clone)) = Joined
        /\ Sees(version, Joined, Sent("PING", Self)) = Joined
    BY <1>1, <1>2, SeesCases, GoodViews
  <2> QED BY <2>1, SeenFour
<1>7. Welcome = opening \o data \o ending
  BY DEF Welcome
<1> HIDE DEF opening, data, ending
<1>8. opening \o data \in Seq(S)
  BY <1>3
<1>9. Seen(version, v, opening \o data) = Loading
  BY <1>3, <1>4, <1>5, SeenConcat
<1>10. Seen(version, v, (opening \o data) \o ending) = Joined
  <2> DEFINE first == opening \o data
  <2>1. first \in Seq(S) /\ Seen(version, v, first) = Loading
    BY <1>8, <1>9
  <2> HIDE DEF first
  <2>2. Seen(version, v, first \o ending) = Joined
    BY <1>3, <1>6, <2>1, SeenConcat
  <2> QED BY <2>2 DEF first
<1> QED BY <1>7, <1>10 DEF version

(* A packet that has been made is one that can be sent.                    *)
LEMMA SendableFacts ==
    /\ Sendable \subseteq PacketsSent
    /\ \A e \in Sendable : e.no \in 0 .. 15 /\ e.eno \in {Self, Clone}
<1>1. \A e \in Sendable : e \in PacketsSent
  BY SentTyped DEF Sendable
<1> QED BY <1>1 DEF PacketsSent

(* The view before an answer: that of the client, with nothing yet said.   *)
LEMMA FreshView ==
    ASSUME NEW v \in Views
    PROVE  /\ [v EXCEPT !.ok = TRUE] \in Views /\ [v EXCEPT !.ok = TRUE].ok
           /\ v = Joined => [v EXCEPT !.ok = TRUE] = Joined
<1> DEFINE yes == TRUE
<1>1. yes \in BOOLEAN /\ yes
  OBVIOUS
<1>2. v.level \in {"none", "loading", "ready"} /\ v.self \in BOOLEAN /\ v.clone \in BOOLEAN
      /\ v = View(v.level, v.self, v.clone, v.ok)
  BY ViewOf
<1> HIDE DEF yes
<1>3. [v EXCEPT !.ok = yes] = View(v.level, v.self, v.clone, yes)
  BY <1>2, ViewFields
<1>4. View(v.level, v.self, v.clone, yes) \in Views
  BY <1>1, <1>2, ViewTyped
<1>5. [v EXCEPT !.ok = yes].ok = yes
  BY <1>3, ViewFields
<1>6. ASSUME v = Joined PROVE [v EXCEPT !.ok = yes] = Joined
  <2>1. v = View("ready", yes, yes, yes)
    BY <1>6, Zenon DEF Joined, yes
  <2> QED BY <2>1, <1>6, ViewFields
<1>7. [v EXCEPT !.ok = yes].ok
  BY <1>1, <1>5, Zenon
<1> QED BY <1>3, <1>4, <1>6, <1>7, Zenon DEF yes

(* An answer of packets that can be sent keeps the types.                  *)
LEMMA ReplyTyped ==
    ASSUME ctx'.curpv \in Nat, view \in Views,
           NEW packets \in Seq(Sendable), Reply(packets)
    PROVE  /\ view' \in Views
           /\ \A i \in DOMAIN out' : out'[i] \in PacketsSent
<1>1. [view EXCEPT !.ok = TRUE] \in Views
  BY FreshView
<1>2. \A w \in Views, e \in Sendable : Sees(ctx'.curpv, w, e) \in Views
  BY SendableFacts, SeesTyped
<1>3. Seen(ctx'.curpv, [view EXCEPT !.ok = TRUE], packets) \in Views
  BY <1>1, <1>2, SeenKeeps, Zenon
<1>4. view' \in Views
  BY <1>3, Zenon DEF Reply
<1>5. \A i \in DOMAIN packets : packets[i] \in PacketsSent
  BY SendableFacts
<1>6. out' = packets
  BY DEF Reply
<1> QED BY <1>4, <1>5, <1>6, Zenon

(* A message is answered with what is harmless, or the clone dies and      *)
(* comes back.                                                             *)
LEMMA MessageSeen ==
    ASSUME ctx'.curpv \in Nat, NEW answer \in Answers
    PROVE  Seen(ctx'.curpv, Joined, answer.packets \o Ping) = Joined
<1> DEFINE version == ctx'.curpv
           S == {e \in Sendable : Sees(version, Joined, e) = Joined}
<1>1. {"CMSG", "BUPDATE", "PBYE", "EDIED", "ENEW", "ESTATE", "PING"}
        \subseteq ServerEvents
  BY DEF ServerEvents
<1>2. /\ \A evt \in {"BUPDATE", "ESTATE", "CMSG", "PBYE", "PING"},
            eno \in {Self, Clone} : Sent(evt, eno) \in S
      /\ Sent("ENEW", Self) \in S
  BY <1>1, SentFacts, SentHarmless
<1>3. \A e \in S : Sees(version, Joined, e) = Joined
  OBVIOUS
<1>4. S \subseteq Sendable
  OBVIOUS
<1>5. /\ Sees(version, Joined, Sent("EDIED", Clone)) = Entered
      /\ Sees(version, Entered, Sent("ENEW", Clone)) = Joined
  BY SeenReturn
<1>6. \/ answer.packets = [i \in 1 .. 6 |-> Sent("CMSG", Self)]
      \/ answer.packets = <<Sent("EDIED", Clone), Sent("ENEW", Clone)>>
      \/ answer.packets = <<Sent("CMSG", Clone)>>
      \/ answer.packets = <<Sent("BUPDATE", Self)>>
      \/ answer.packets = <<Sent("PBYE", Self)>>
      \/ answer.packets = <<Sent("ENEW", Self)>>
      \/ answer.packets = <<Sent("ESTATE", Self)>>
      \/ answer.packets = <<Sent("CMSG", Self)>>
  BY DEF Answers
<1> HIDE DEF version, S
<1>7. CASE answer.packets = <<Sent("EDIED", Clone), Sent("ENEW", Clone)>>
  <2>1. Seen(version, Joined, answer.packets) = Joined
    BY <1>5, <1>7, SeenTwo
  <2>2. answer.packets \in Seq(Sendable) /\ Ping \in Seq(Sendable)
    BY AnswerSendable, EndPackets
  <2>3. Ping \in Seq(S)
    BY <1>2 DEF Ping
  <2>4. Seen(version, Joined, Ping) = Joined
    BY <1>3, <2>3, SeenHarmless
  <2> QED BY <2>1, <2>2, <2>4, SeenConcat DEF version
<1>8. CASE answer.packets # <<Sent("EDIED", Clone), Sent("ENEW", Clone)>>
  <2>1. answer.packets \in Seq(S)
    <3>1. [i \in 1 .. 6 |-> Sent("CMSG", Self)] \in Seq(S)
      BY <1>2
    <3>2. /\ <<Sent("CMSG", Clone)>> \in Seq(S) /\ <<Sent("BUPDATE", Self)>> \in Seq(S)
          /\ <<Sent("PBYE", Self)>> \in Seq(S) /\ <<Sent("ENEW", Self)>> \in Seq(S)
          /\ <<Sent("ESTATE", Self)>> \in Seq(S) /\ <<Sent("CMSG", Self)>> \in Seq(S)
      BY <1>2
    <3> QED BY <1>6, <1>8, <3>1, <3>2
  <2>2. Ping \in Seq(S)
    BY <1>2 DEF Ping
  <2> DEFINE packets == answer.packets \o Ping
  <2>3. packets \in Seq(S)
    BY <2>1, <2>2
  <2> HIDE DEF packets
  <2>4. Seen(version, Joined, packets) = Joined
    BY <1>3, <2>3, SeenHarmless
  <2> QED BY <2>4 DEF packets, version
<1> QED BY <1>7, <1>8

(* A block change is answered with what is harmless.                       *)
LEMMA ChangeSeen ==
    ASSUME ctx'.curpv \in Nat
    PROVE  Seen(ctx'.curpv, Joined, <<Sent("BUPDATE", Self)>> \o Ping) = Joined
<1>1. [packets |-> <<Sent("BUPDATE", Self)>>, quits |-> FALSE, names |-> FALSE] \in Answers
  BY DEF Answers
<1> QED BY <1>1, MessageSeen

(* So is a position, whether or not the clone is respawned or the level    *)
(* sent again.                                                             *)
LEMMA MovesSeen ==
    ASSUME ctx'.curpv \in Nat, NEW d \in {"EQ", "HEAD", "POS", "ALL", "BIG"},
           NEW respawn \in BOOLEAN, NEW rejoin \in BOOLEAN
    PROVE  /\ Moved(d) \o Ping \o (IF respawn THEN RespawnClone ELSE <<>>)
                \o (IF rejoin THEN Welcome ELSE <<>>) \in Seq(Sendable)
           /\ Seen(ctx'.curpv, Joined,
                   Moved(d) \o Ping \o (IF respawn THEN RespawnClone ELSE <<>>)
                     \o (IF rejoin THEN Welcome ELSE <<>>)) = Joined
<1> DEFINE version == ctx'.curpv
           Keeps(p) == p \in Seq(Sendable) /\ Seen(version, Joined, p) = Joined
           S == {e \in Sendable : Sees(version, Joined, e) = Joined}
<1>1. {"ESTATE", "EDIFF", "ESLIDE", "EHEAD", "PING"} \subseteq ServerEvents
  BY DEF ServerEvents
<1>2. /\ Sent("ESTATE", Clone) \in S /\ Sent("PING", Self) \in S
      /\ version # 0 => \A evt \in {"EDIFF", "ESLIDE", "EHEAD"} : Sent(evt, Clone) \in S
  BY <1>1, SentFacts, SentHarmless
<1>3. S \subseteq Sendable /\ \A e \in S : Sees(version, Joined, e) = Joined
  OBVIOUS
<1> HIDE DEF S
<1>4. Moved(d) \in Seq(S)
  BY <1>2 DEF Moved
<1>5. Ping \in Seq(S)
  BY <1>2 DEF Ping
<1>s. Seq(S) \subseteq Seq(Sendable)
  BY <1>3
<1>6. Keeps(Moved(d)) /\ Keeps(Ping)
  <2>1. Seen(version, Joined, Moved(d)) = Joined
    BY <1>3, <1>4, SeenHarmless
  <2>2. Seen(version, Joined, Ping) = Joined
    BY <1>3, <1>5, SeenHarmless
  <2> QED BY <1>s, <1>4, <1>5, <2>1, <2>2
<1>7. Keeps(RespawnClone)
  <2> DEFINE first == <<Sent("EDIED", Clone), Sent("PGREETING", Self), Sent("ENEW", Self),
                        Sent("ENEW", Clone)>>
  <2>1. first \in Seq(Sendable)
    BY SentFacts DEF ServerEvents
  <2>2. Seen(version, Joined, first) = Joined
    BY SeenReturn, SeenFour
  <2>3. RespawnClone = first \o Ping
    BY DEF RespawnClone
  <2> HIDE DEF first
  <2>4. Seen(version, Joined, first \o Ping) = Joined
    BY <1>6, <2>1, <2>2, SeenConcat
  <2> QED BY <2>3, <2>4, EndPackets
<1>8. Keeps(Welcome)
  <2>1. Joined \in Views /\ Joined.ok
    <3> DEFINE yes == TRUE
    <3>1. yes \in BOOLEAN /\ yes
      OBVIOUS
    <3> HIDE DEF yes
    <3>2. View("ready", yes, yes, yes) \in Views
      BY <3>1, ViewTyped
    <3>3. View("ready", yes, yes, yes).ok = yes
      BY ViewFields
    <3>4. Joined = View("ready", yes, yes, yes)
      BY DEF Joined, yes
    <3> QED BY <3>1, <3>2, <3>3, <3>4, Zenon
  <2>2. Seen(version, Joined, Welcome) = Joined
    BY <2>1, SeenWelcome
  <2> QED BY <2>2, EndPackets
<1>9. Keeps(<<>>)
  BY SeenNone
<1>10. ASSUME NEW p, NEW q, Keeps(p), Keeps(q) PROVE Keeps(p \o q)
  <2>1. p \o q \in Seq(Sendable)
    BY <1>10
  <2> QED BY <1>10, <2>1, SeenConcat
<1> DEFINE middle == IF respawn THEN RespawnClone ELSE <<>>
           last == IF rejoin THEN Welcome ELSE <<>>
<1>11. Keeps(middle) /\ Keeps(last)
  BY <1>7, <1>8, <1>9
<1> HIDE DEF Keeps, middle, last
<1>12. Keeps(Moved(d) \o Ping)
  BY <1>6, <1>10
<1>13. Keeps(Moved(d) \o Ping \o middle)
  BY <1>10, <1>11, <1>12
<1>14. Keeps(Moved(d) \o Ping \o middle \o last)
  BY <1>10, <1>11, <1>13
<1> QED BY <1>14 DEF Keeps, middle, last

-----------------------------------------------------------------------------
(* The passwords and the flags of a greeting come after its name, and      *)
(* whoever has joined has a name and sees the whole level.                 *)
JoinedInv ==
    /\ view \in Views
    /\ nxt \in {"PASS", "CFLGS"} => named
    /\ flg => named /\ view = Joined

(* Nothing but a name, and a password, is followed by one of them.         *)
LEMMA ReadingNames ==
    ASSUME NEW c \in Contexts, NEW q, NEW b,
           c.type \notin {"NAME", "PASS", "CFLGS", "INVALID"}
    PROVE  mcsread(c, q, b).type \notin {"PASS", "CFLGS"}
<1>1. c.type \in {"EVTNO", "VERSION", "MSG", "ACTRNO", "BLKCH", "ACTRSTAT"}
  BY DEF Contexts, ClientTypes
<1>2. ASSUME NEW d \in Contexts, NEW type
      PROVE  tchng(d, type).type = type /\ tchngs(d, type).type = type
             /\ finish(d).type = "EVTNO"
  BY DEF tchng, tchngs, finish, Contexts
<1>3. CASE c.type = "EVTNO"
  BY <1>3 DEF mcsread, rctEventNumber, FirstType, Contexts
<1>4. CASE c.type = "VERSION"
  BY <1>4 DEF mcsread, rctVersion, tchng, tchngs, Contexts
<1>5. CASE c.type = "MSG"
  BY <1>5 DEF mcsread, rctMessage, reads, finish, Contexts
<1>6. CASE c.type = "ACTRNO"
  BY <1>6 DEF mcsread, rctActorNumber, tchng, tchngs, Contexts
<1>7. CASE c.type \in {"BLKCH", "ACTRSTAT"}
  BY <1>7 DEF mcsread, rctFixed, finish, Contexts
<1> QED BY <1>1, <1>3, <1>4, <1>5, <1>6, <1>7

(* An answer that a joined client, if it is one, sees nothing wrong in.    *)
LEMMA ReplyKeeps ==
    ASSUME ctx'.curpv \in Nat, JoinedInv, NEW packets \in Seq(Sendable),
           Reply(packets), flg' => flg, flg => named',
           Seen(ctx'.curpv, Joined, packets) = Joined,
           nxt' \in {"PASS", "CFLGS"} => named'
    PROVE  JoinedInv'
<1>1. view' \in Views
  BY ReplyTyped DEF JoinedInv
<1>2. ASSUME flg' PROVE view' = Joined
  <2>1. [view EXCEPT !.ok = TRUE] = Joined
    BY <1>2, FreshView, Zenon DEF JoinedInv
  <2> QED BY <2>1, Zenon DEF Reply
<1> QED BY <1>1, <1>2, Zenon DEF JoinedInv

(* The level to a player who has a name.                                   *)
LEMMA WelcomeKeeps ==
    ASSUME ctx'.curpv \in Nat, JoinedInv, Reply(Welcome), named'
    PROVE  JoinedInv'
<1>1. view' \in Views
  BY EndPackets, ReplyTyped DEF JoinedInv
<1>2. view' = Joined
  <2>1. /\ [view EXCEPT !.ok = TRUE] \in Views
        /\ [view EXCEPT !.ok = TRUE].ok
    BY FreshView DEF JoinedInv
  <2>2. Seen(ctx'.curpv, [view EXCEPT !.ok = TRUE], Welcome) = Joined
    BY <2>1, SeenWelcome, Zenon
  <2> QED BY <2>2, Zenon DEF Reply
<1> QED BY <1>1, <1>2, Zenon DEF JoinedInv

(* Nothing said changes nothing. *)
LEMMA SilenceKeeps ==
    ASSUME ctx'.curpv \in Nat, JoinedInv, Reply(<<>>), flg' = flg,
           flg => named', nxt' \in {"PASS", "CFLGS"} => named'
    PROVE  JoinedInv'
<1>1. <<>> \in Seq(Sendable)
  OBVIOUS
<1>2. Seen(ctx'.curpv, Joined, <<>>) = Joined
  BY SeenNone
<1> QED BY <1>1, <1>2, ReplyKeeps, Zenon

(* A player joins with a name, a level and a clone, and loses none of them *)
(* by what follows.                                                        *)
LEMMA NextJoined ==
    ASSUME Typed, Typed', JoinedInv, [Next]_vars
    PROVE  JoinedInv'
<1>1. ctx'.curpv \in Nat
  BY DEF Typed, Contexts
<1>p. \A type \in ClientTypes, n \in Returned, b \in Nat :
        Read(type, n, b) /\ type \notin {"NAME", "PASS", "CFLGS"}
          => ctx'.type \notin {"PASS", "CFLGS"}
  <2> SUFFICES ASSUME NEW type \in ClientTypes, NEW n \in Returned, NEW b \in Nat,
                      Read(type, n, b), type \notin {"NAME", "PASS", "CFLGS"}
               PROVE  ctx'.type \notin {"PASS", "CFLGS"}
    OBVIOUS
  <2>1. /\ status = "running"
        /\ type = ctx.type \/ (type = "EVTNO" /\ ctx.type = "ACTRSTAT")
    BY ReadFacts
  <2>2. ctx' = mcsread(ctx, n + Prefix, b)
    BY DEF Read
  <2>3. ctx \in Contexts /\ ctx.type # "INVALID"
    BY <2>1 DEF Typed
  <2> QED BY <2>1, <2>2, <2>3, ReadingNames
<1>2. CASE ctevtno \/ ctversion \/ ctactrno
  <2>1. Reply(<<>>) /\ flg' = flg /\ named' = named /\ nxt' = ctx'.type
    BY <1>2 DEF ctevtno, ctversion, ctactrno, Continue, player
  <2>2. PICK type \in {"EVTNO", "VERSION", "ACTRNO"}, n \in Returned, b \in Nat :
           Read(type, n, b)
    BY <1>2, NextBytes DEF ctevtno, ctversion, ctactrno
  <2>3. ctx'.type \notin {"PASS", "CFLGS"}
    BY <1>p, <2>2 DEF ClientTypes
  <2> QED BY <1>1, <2>1, <2>3, SilenceKeeps, Zenon DEF JoinedInv
<1>3. CASE ctname
  <2>0. named'
    BY <1>3, Zenon DEF ctname
  <2>1. CASE flg' = FALSE /\ Reply(<<Sent("PBYE", Self)>>)
    <3>1. <<Sent("PBYE", Self)>> \in Seq(Sendable)
      BY SentFacts DEF ServerEvents
    <3>2. view' \in Views
      BY <1>1, <2>1, <3>1, ReplyTyped DEF JoinedInv
    <3> QED BY <2>0, <2>1, <3>2, Zenon DEF JoinedInv
  <2>2. CASE Reply(<<>>) /\ flg' = flg
    BY <1>1, <2>0, <2>2, SilenceKeeps, Zenon
  <2>3. CASE initseq
    BY <1>1, <2>0, <2>3, WelcomeKeeps DEF initseq
  <2> QED BY <1>3, <2>1, <2>2, <2>3 DEF ctname
<1>4. CASE ctblkch
  <2>1. /\ Reply(<<Sent("BUPDATE", Self)>> \o Ping)
        /\ flg' = flg /\ named' = named /\ nxt' = ctx'.type
    BY <1>4 DEF ctblkch, ContinueUnless, Continue, player
  <2>2. ctx'.type \notin {"PASS", "CFLGS"}
    <3>1. PICK n \in Returned : Read("BLKCH", n, 0)
      BY <1>4 DEF ctblkch
    <3> QED BY <3>1, <1>p DEF ClientTypes
  <2>3. <<Sent("BUPDATE", Self)>> \o Ping \in Seq(Sendable)
    <3>1. <<Sent("BUPDATE", Self)>> \in Seq(Sendable)
      BY SentFacts DEF ServerEvents
    <3> QED BY <3>1, EndPackets
  <2> QED
    BY <1>1, <2>1, <2>2, <2>3, ChangeSeen, ReplyKeeps, Zenon DEF JoinedInv
<1>5. CASE ctactrstat
  <2>1. named' = named /\ nxt' = "EVTNO"
    BY <1>5 DEF ctactrstat, ContinueUnless, Continue
  <2>2. CASE ~flg /\ flg' = flg /\ Reply(Ping)
    <3>1. view' \in Views
      BY <1>1, <2>2, EndPackets, ReplyTyped DEF JoinedInv
    <3> QED BY <2>1, <2>2, <3>1, Zenon DEF JoinedInv
  <2>3. CASE /\ flg
             /\ \E d \in {"EQ", "HEAD", "POS", "ALL", "BIG"} :
                   Reply(Moved(d) \o Ping
                         \o (IF ctr = Respawn THEN RespawnClone ELSE <<>>)
                         \o (IF ctr >= Rejoin THEN Welcome ELSE <<>>))
    <3>1. PICK d \in {"EQ", "HEAD", "POS", "ALL", "BIG"} :
                   Reply(Moved(d) \o Ping
                         \o (IF ctr = Respawn THEN RespawnClone ELSE <<>>)
                         \o (IF ctr >= Rejoin THEN Welcome ELSE <<>>))
      BY <2>3
    <3> DEFINE respawn == ctr = Respawn
               rejoin == ctr >= Rejoin
               packets == Moved(d) \o Ping
                         \o (IF respawn THEN RespawnClone ELSE <<>>)
                         \o (IF rejoin THEN Welcome ELSE <<>>)
    <3>2. respawn \in BOOLEAN /\ rejoin \in BOOLEAN
      OBVIOUS
    <3>3. Reply(packets)
      BY <3>1
    <3> HIDE DEF respawn, rejoin
    <3>4. packets \in Seq(Sendable) /\ Seen(ctx'.curpv, Joined, packets) = Joined
      BY <1>1, <3>2, MovesSeen, Zenon
    <3> HIDE DEF packets
    <3>5. flg /\ named' /\ nxt' \notin {"PASS", "CFLGS"}
      BY <2>1, <2>3 DEF JoinedInv
    <3> QED BY <1>1, <3>3, <3>4, <3>5, ReplyKeeps, Zenon
  <2> QED BY <1>5, <2>2, <2>3 DEF ctactrstat
<1>6. CASE ctmsg
  <2>1. PICK answer \in Answers :
          /\ Reply(answer.packets \o Ping)
          /\ flg' = (flg /\ ~answer.quits)
          /\ ContinueUnless(~named \/ (answer.names /\ enln < 0), ctx'.type)
    BY <1>6, Zenon DEF ctmsg
  <2>2. (flg' => flg) /\ named' = named /\ nxt' = ctx'.type
    <3>1. flg' => flg
      BY <2>1, Zenon
    <3>2. nxt' = ctx'.type
      BY <2>1, Zenon DEF ContinueUnless, Continue
    <3> QED BY <1>6, <3>1, <3>2 DEF ctmsg
  <2>3. ctx'.type \notin {"PASS", "CFLGS"}
    <3>1. PICK n \in Returned : Read("MSG", n, 0)
      BY <1>6 DEF ctmsg
    <3> QED BY <3>1, <1>p DEF ClientTypes
  <2>4. answer.packets \o Ping \in Seq(Sendable)
    BY AnswerSendable, EndPackets
  <2> QED
    BY <1>1, <2>1, <2>2, <2>3, <2>4, MessageSeen, ReplyKeeps, Zenon DEF JoinedInv
<1>7. CASE ctpass \/ ctcflg
  <2>1. named
    <3>1. PICK type \in {"PASS", "CFLGS"}, n \in Returned : Read(type, n, 0)
      BY <1>7 DEF ctpass, ctcflg, JoinAfter
    <3> QED BY <3>1 DEF Read, JoinedInv
  <2>2. named'
    BY <1>7, <2>1 DEF ctpass, ctcflg, JoinAfter
  <2>3. CASE Reply(<<>>) /\ flg' = flg
    BY <1>1, <2>2, <2>3, SilenceKeeps, Zenon
  <2>4. CASE initseq
    BY <1>1, <2>2, <2>4, WelcomeKeeps DEF initseq
  <2> QED BY <1>7, <2>3, <2>4 DEF ctpass, ctcflg, JoinAfter
<1>8. CASE EndOfInput \/ ClientSends \/ ClientHangsUp \/ UNCHANGED vars
  <2>1. /\ view' = view /\ flg' = flg /\ named' = named
        /\ nxt' = nxt \/ nxt' = "INVALID"
    BY <1>8 DEF EndOfInput, ClientSends, ClientHangsUp, player, vars
  <2> QED BY <2>1 DEF JoinedInv
<1> QED
  BY <1>2, <1>3, <1>4, <1>5, <1>6, <1>7, <1>8 DEF Next, cloop

(* A password is expected of clients of version 3 and above only, so only  *)
(* they can join after their name has been refused.                        *)
RefusedInv ==
    /\ nxt \in {"PASS", "CFLGS"} => ctx.curpv >= 3
    /\ flg /\ enln < 0 /\ nxt \notin {"NAME", "INVALID"} => ctx.curpv >= 3

(* Only a greeting's first byte changes the version, and a password comes  *)
(* after the names of some versions.                                       *)
LEMMA ReadingVersions ==
    ASSUME NEW c \in Contexts, NEW q \in Int, NEW b \in Nat, c.type # "INVALID"
    PROVE  /\ \/ mcsread(c, q, b).curpv = c.curpv
              \/ c.type = "VERSION" /\ mcsread(c, q, b).type = "NAME"
           /\ mcsread(c, q, b).type \in {"PASS", "CFLGS"}
                => /\ c.type \in {"NAME", "PASS", "CFLGS"}
                   /\ mcsread(c, q, b).type = c.type \/ c.curpv >= 3
<1>0. c.curpv \in Nat
  BY DEF Contexts
<1>r. /\ reads(c, q) \in Contexts
      /\ reads(c, q).curpv = c.curpv /\ reads(c, q).type = c.type
  <2>1. c.rem \in Int
    BY DEF Contexts
  <2> QED BY <2>1 DEF reads, Min2, Contexts
<1>t. ASSUME NEW d \in Contexts, NEW type
      PROVE  /\ tchng(d, type).type = type /\ tchng(d, type).curpv = d.curpv
             /\ tchngs(d, type).type = type /\ tchngs(d, type).curpv = d.curpv
             /\ finish(d).type = "EVTNO" /\ finish(d).curpv = d.curpv
  BY DEF tchng, tchngs, finish, Contexts
<1>1. CASE c.type = "EVTNO"
  BY <1>1 DEF mcsread, rctEventNumber, FirstType, Contexts
<1>2. CASE c.type = "VERSION"
  BY <1>2 DEF mcsread, rctVersion, tchng, tchngs, Contexts
<1>3. CASE c.type \in {"NAME", "PASS"}
  BY <1>0, <1>3, <1>r, <1>t DEF mcsread, rctName, rctPassword
<1>4. CASE c.type = "MSG"
  BY <1>4, <1>r, <1>t DEF mcsread, rctMessage
<1>5. CASE c.type = "ACTRNO"
  BY <1>5, <1>t DEF mcsread, rctActorNumber
<1>6. CASE c.type \in {"BLKCH", "ACTRSTAT", "CFLGS"}
  BY <1>6, <1>t DEF mcsread, rctFixed
<1> QED
  BY <1>1, <1>2, <1>3, <1>4, <1>5, <1>6 DEF Contexts, ClientTypes

(* A call of cloop keeps that.                                             *)
LEMMA CallRefused ==
    ASSUME Typed, RefusedInv, cloop
    PROVE  RefusedInv'
<1>1. CASE EndOfInput
  BY <1>1 DEF EndOfInput, RefusedInv
<1>2. CASE ~EndOfInput
  <2>1. PICK type \in ClientTypes, n \in Returned, b \in Nat : Called(type, n, b)
    BY <1>2, CallReads
  <2>2. /\ status = "running" /\ nxt = type
        /\ type = ctx.type \/ (type = "EVTNO" /\ ctx.type = "ACTRSTAT")
        /\ ctx \in Contexts /\ ctx.type # "INVALID"
    BY <2>1, ReadFacts DEF Called, Typed
  <2>3. n + Prefix \in Int
    <3>1. Request \in Nat /\ Prefix \in {0, 1}
      BY SizeFacts, RequestFacts DEF Request, Prefix
    <3>2. left \in Nat \cup {Open}
      BY DEF Typed
    <3> QED BY <3>1, <3>2 DEF Returned, Min2, Open
  <2>4. ctx' = mcsread(ctx, n + Prefix, b)
    BY <2>1 DEF Called, Read
  <2>5. /\ ctx'.curpv = ctx.curpv \/ (ctx.type = "VERSION" /\ ctx'.type = "NAME")
        /\ ctx'.type \in {"PASS", "CFLGS"}
             => /\ ctx.type \in {"NAME", "PASS", "CFLGS"}
                /\ ctx'.type = ctx.type \/ ctx.curpv >= 3
    BY <2>2, <2>3, <2>4, ReadingVersions
  <2>6. nxt' = ctx'.type \/ (nxt' = "EVTNO" /\ type = "ACTRSTAT")
    BY <2>1 DEF Called
  <2>7. nxt' \in {"PASS", "CFLGS"} => ctx'.curpv >= 3
    BY <2>2, <2>5, <2>6 DEF RefusedInv
  <2>8. CASE ctname
    <3>1. PICK m \in NameLens \cup {-1} :
             enln' = m /\ (flg' = FALSE \/ m > 0)
      BY <2>8 DEF ctname
    <3>2. m \in Int
      BY SessionAssumption
    <3>3. ~ (flg' /\ enln' < 0)
      BY <3>1, <3>2
    <3> QED BY <2>7, <3>3 DEF RefusedInv
  <2>9. CASE ctpass \/ ctcflg
    <3>1. nxt \in {"PASS", "CFLGS"}
      BY <2>9 DEF ctpass, ctcflg, JoinAfter, Read
    <3>2. ctx.curpv >= 3 /\ ctx.type # "VERSION"
      BY <2>2, <3>1 DEF RefusedInv
    <3>3. ctx'.curpv >= 3
      BY <2>5, <3>2
    <3> QED BY <3>3 DEF RefusedInv
  <2>10. CASE ctevtno \/ ctversion \/ ctblkch \/ ctactrno \/ ctactrstat \/ ctmsg
    <3>1. /\ enln' = enln /\ (flg' => flg)
          /\ nxt \in {"EVTNO", "VERSION", "BLKCH", "ACTRNO", "ACTRSTAT", "MSG"}
      <4>1. CASE ctactrstat
        BY <4>1 DEF ctactrstat, Read
      <4>2. CASE ctmsg
        BY <4>2, Zenon DEF ctmsg, Read
      <4>3. CASE ctevtno \/ ctversion \/ ctblkch \/ ctactrno
        BY <4>3 DEF ctevtno, ctversion, ctblkch, ctactrno, Read, player
      <4> QED BY <2>10, <4>1, <4>2, <4>3
    <3>2. ASSUME flg', enln' < 0, nxt' \notin {"NAME", "INVALID"}
          PROVE  ctx'.curpv >= 3
      <4>1. ctx.curpv >= 3
        BY <3>1, <3>2 DEF RefusedInv
      <4>2. ~ (ctx.type = "VERSION" /\ ctx'.type = "NAME")
        BY <2>2, <2>6, <3>2
      <4> QED BY <2>5, <4>1, <4>2
    <3> QED BY <2>7, <3>2 DEF RefusedInv
  <2> QED BY <1>2, <2>8, <2>9, <2>10 DEF cloop
<1> QED BY <1>1, <1>2

(* And so does every step.                                                 *)
LEMMA NextRefused ==
    ASSUME Typed, RefusedInv, [Next]_vars
    PROVE  RefusedInv'
<1>1. CASE cloop
  BY <1>1, CallRefused
<1>2. CASE ClientSends \/ ClientHangsUp \/ UNCHANGED vars
  BY <1>2 DEF ClientSends, ClientHangsUp, player, vars, RefusedInv
<1> QED BY <1>1, <1>2 DEF Next

(* It holds of a client that has not been sent anything. *)
LEMMA InitJoined == Init => JoinedInv
<1>1. NewView \in Views
  BY DEF NewView, Views
<1> QED BY <1>1 DEF Init, JoinedInv

(* Whoever has joined has given a name and sees a level, a place in it and *)
(* a clone; a refused name has only who joined with a longer greeting.     *)
THEOREM JoinedCorrect == Spec => []JoinedIsComplete
<1>1. Init => Typed /\ JoinedInv /\ RefusedInv
  BY InitTyped, InitJoined DEF Init, RefusedInv
<1>2. Typed /\ JoinedInv /\ RefusedInv /\ [Next]_vars
        => (Typed /\ JoinedInv /\ RefusedInv)'
  BY NextTyped, NextJoined, NextRefused
<1>3. JoinedInv /\ RefusedInv => JoinedIsComplete
  <2>1. /\ Joined.level = "ready" /\ Joined.self /\ Joined.clone
    BY DEF Joined, View
  <2>2. ASSUME RefusedInv, flg, nxt = "EVTNO", enln < 0 PROVE ctx.curpv >= 3
    BY <2>2 DEF RefusedInv
  <2> QED BY <2>1, <2>2, Zenon DEF JoinedInv, JoinedIsComplete
<1> QED BY <1>1, <1>2, <1>3, PTL DEF Spec

(* A player who has joined, and stays, is never sent anything out of       *)
(* place.                                                                  *)
THEOREM PlaceCorrect == Spec => ReplyInPlace
<1>1. Init => Typed /\ JoinedInv
  BY InitTyped, InitJoined
<1>2. Typed /\ JoinedInv /\ [Next]_vars => (Typed /\ JoinedInv)'
  BY NextTyped, NextJoined
<1>3. JoinedInv' => (flg' => view'.ok)
  <2>1. Joined.ok
    BY DEF Joined, View
  <2> QED BY <2>1, Zenon DEF JoinedInv
<1>4. Typed /\ JoinedInv /\ [Next]_vars => [flg' => view'.ok]_vars
  BY <1>2, <1>3
<1> QED BY <1>1, <1>2, <1>4, PTL DEF Spec, ReplyInPlace

-----------------------------------------------------------------------------
(* What is left of the types when the sessions, the answers and the view   *)
(* are known by theirs.                                                    *)
StateTyped ==
    /\ ctx \in Sessions /\ nxt \in ClientTypes
    /\ pos \in Nat \cup {Lost}
    /\ status \in {"running", "ended", "crashed"}

PlayerTyped ==
    /\ flg \in BOOLEAN /\ named \in BOOLEAN
    /\ enln \in NameLens \cup {-1, 0}
    /\ ctr \in 0 .. CtrMax

AnswerTyped ==
    /\ \A i \in DOMAIN out : out[i] \in PacketsSent
    /\ view \in Views

(* Reading leaves a version of one byte's controls and no more of a string *)
(* than there is.                                                          *)
LEMMA ReadingSessions ==
    ASSUME NEW c \in Sessions, NEW q \in Nat, NEW b \in Nat, c.type # "INVALID"
    PROVE  mcsread(c, q, b) \in Sessions
<1>0. StrLen \in Nat /\ 3 <= StrLen /\ c.rem \in 0 .. StrLen /\ c.curpv \in 0 .. 31
  BY SizeFacts, LengthAssumption DEF Sessions
<1>r. reads(c, q) \in Sessions
  <2>1. c.rem - Min2(q, c.rem) \in 0 .. StrLen
    BY <1>0 DEF Min2
  <2> QED BY <2>1 DEF reads, Sessions
<1>t. ASSUME NEW d \in Sessions, NEW type \in ClientTypes
      PROVE  /\ tchng(d, type) \in Sessions /\ tchngs(d, type) \in Sessions
             /\ finish(d) \in Sessions
  <2>1. StrLen \in 0 .. StrLen
    BY <1>0
  <2>2. [d EXCEPT !.rem = StrLen] \in Sessions
    BY <2>1 DEF Sessions
  <2>3. ASSUME NEW e \in Sessions PROVE tchng(e, type) \in Sessions /\ finish(e) \in Sessions
    BY DEF tchng, finish, Sessions, ClientEvents, ClientTypes
  <2> QED BY <2>2, <2>3 DEF tchngs
<1>1. CASE c.type = "EVTNO"
  BY <1>1, FirstTypes DEF mcsread, rctEventNumber, Sessions
<1>2. CASE c.type = "VERSION"
  <2>1. ASSUME b < 32 PROVE [c EXCEPT !.curpv = b] \in Sessions
    <3>1. b \in 0 .. 31
      BY <2>1
    <3> QED BY <3>1 DEF Sessions
  <2>2. [c EXCEPT !.curpv = 0, !.rem = StrLen - 1] \in Sessions
    <3>1. StrLen - 1 \in 0 .. StrLen /\ 0 \in 0 .. 31
      BY <1>0
    <3> DEFINE n == StrLen - 1
    <3> HIDE DEF n
    <3>2. [c EXCEPT !.curpv = 0, !.rem = n] = [[c EXCEPT !.curpv = 0] EXCEPT !.rem = n]
      OBVIOUS
    <3>3. [c EXCEPT !.curpv = 0] \in Sessions
      BY <3>1 DEF Sessions
    <3>4. ASSUME NEW d \in Sessions PROVE [d EXCEPT !.rem = n] \in Sessions
      BY <3>1 DEF Sessions, n
    <3> QED BY <3>2, <3>3, <3>4 DEF n
  <2>3. "NAME" \in ClientTypes
    BY DEF ClientTypes
  <2>4. rctVersion(c, q, b) \in Sessions
    BY <1>t, <2>1, <2>2, <2>3 DEF rctVersion
  <2> QED BY <1>2, <2>4 DEF mcsread
<1>3. CASE c.type \in {"NAME", "PASS", "MSG"}
  <2>1. {"PASS", "CFLGS"} \subseteq ClientTypes
    BY DEF ClientTypes
  <2> QED
    BY <1>3, <1>r, <1>t, <2>1 DEF mcsread, rctName, rctPassword, rctMessage
<1>4. CASE c.type = "ACTRNO"
  <2>1. {"ACTRSTAT", "MSG"} \subseteq ClientTypes
    BY DEF ClientTypes
  <2>2. rctActorNumber(c, q) \in Sessions
    BY <1>4, <1>t, <2>1 DEF rctActorNumber
  <2> QED BY <1>4, <2>2 DEF mcsread
<1>5. CASE c.type \in {"BLKCH", "ACTRSTAT", "CFLGS"}
  <2>1. rctFixed(c, q) \in Sessions
    BY <1>5, <1>t DEF rctFixed, ClientTypes
  <2> QED BY <1>5, <2>1 DEF mcsread
<1> QED
  BY <1>1, <1>2, <1>3, <1>4, <1>5 DEF Sessions, ClientTypes

(* Every step keeps the session, the loop and the packet typed.            *)
LEMMA NextState ==
    ASSUME Typed, Typed', StateTyped, [Next]_vars
    PROVE  StateTyped'
<1>1. CASE cloop
  <2>1. CASE EndOfInput
    BY <2>1 DEF EndOfInput, StateTyped, ClientTypes
  <2>2. CASE \E type \in ClientTypes, n \in Returned, b \in Nat : Called(type, n, b)
    <3>1. PICK type \in ClientTypes, n \in Returned, b \in Nat : Called(type, n, b)
      BY <2>2
    <3>2. Read(type, n, b) /\ (nxt' = ctx'.type \/ nxt' = "EVTNO")
      BY <3>1 DEF Called
    <3>3. ctx' \in Sessions
      <4>1. n + Prefix \in Nat
        <5>1. n \in Int
          <6>1. Request \in Nat
            BY SizeFacts, RequestFacts DEF Request
          <6> QED BY <6>1 DEF Returned, Min2, Open, Typed
        <5> QED BY <3>2, <5>1 DEF Read, Prefix
      <4>2. ctx.type # "INVALID" /\ ctx' = mcsread(ctx, n + Prefix, b)
        BY <3>2 DEF Read, Typed
      <4> QED BY <4>1, <4>2, ReadingSessions DEF StateTyped
    <3>4. nxt' \in ClientTypes
      BY <3>2, <3>3 DEF Sessions, ClientTypes
    <3>5. pos' \in Nat \cup {Lost}
      <4> DEFINE got == IF n < 0 THEN 0 ELSE n
      <4>1. got \in Nat
        <5>1. Request \in Nat
          BY SizeFacts, RequestFacts DEF Request
        <5> QED BY <5>1 DEF Returned, Min2, Open, Typed
      <4>2. pos' = IF pos = Lost \/ pos + got > PacketLen(pkt)
                     THEN Lost ELSE pos + got
        BY <3>2 DEF Read
      <4> HIDE DEF got
      <4> QED BY <4>1, <4>2 DEF StateTyped, Lost
    <3>6. status' \in {"running", "ended", "crashed"}
      BY <1>1 DEF cloop, EndOfInput, ctevtno, ctversion, ctname, ctblkch, ctactrno,
                  ctactrstat, ctmsg, ctpass, ctcflg, JoinAfter, ContinueUnless,
                  Continue
    <3> QED BY <3>3, <3>4, <3>5, <3>6 DEF StateTyped
  <2> QED BY <1>1, <2>1, <2>2, CallReads
<1>2. CASE ClientSends \/ ClientHangsUp \/ UNCHANGED vars
  BY <1>2 DEF ClientSends, ClientHangsUp, vars, StateTyped
<1> QED BY <1>1, <1>2 DEF Next

(* and the player.                                                         *)
LEMMA NextPlayer ==
    ASSUME CounterInv, PlayerTyped, [Next]_vars
    PROVE  PlayerTyped'
<1>0. /\ Rejoin \in Nat /\ CtrMax \in Nat /\ Rejoin < CtrMax
      /\ ctr \in 0 .. CtrMax /\ (flg => ctr <= Rejoin)
  BY SessionAssumption DEF CounterInv, CounterBounded, PlayerTyped
<1>1. named' \in BOOLEAN /\ enln' \in NameLens \cup {-1, 0}
  <2>1. CASE ctname
    BY <2>1 DEF ctname
  <2>2. CASE ~ctname
    <3>1. named' = named /\ enln' = enln
      BY <2>2 DEF Next, cloop, EndOfInput, ctevtno, ctversion, ctblkch, ctactrno,
                  ctactrstat, ctmsg, ctpass, ctcflg, JoinAfter, ClientSends,
                  ClientHangsUp, player, vars
    <3> QED BY <3>1 DEF PlayerTyped
  <2> QED BY <2>1, <2>2
<1>2. flg' \in BOOLEAN
  <2>1. flg' = flg \/ flg' = TRUE \/ flg' = FALSE
    <3>1. CASE ctmsg
      BY <3>1, Zenon DEF ctmsg
    <3>2. CASE ~ctmsg
      BY <3>2 DEF Next, cloop, EndOfInput, ctevtno, ctversion, ctname, ctblkch,
                  ctactrno, ctactrstat, ctpass, ctcflg, JoinAfter, initseq,
                  ClientSends, ClientHangsUp, player, vars
    <3> QED BY <3>1, <3>2
  <2> QED BY <2>1, Zenon DEF PlayerTyped
<1>3. ctr' \in 0 .. CtrMax
  <2>1. CASE ctactrstat
    BY <1>0, <2>1 DEF ctactrstat, Min2
  <2>2. CASE ~ctactrstat
    <3>1. ctr' = ctr \/ ctr' = 0
      BY <2>2 DEF Next, cloop, EndOfInput, ctevtno, ctversion, ctname, ctblkch,
                  ctactrno, ctmsg, ctpass, ctcflg, JoinAfter, initseq, ClientSends,
                  ClientHangsUp, player, vars
    <3> QED BY <1>0, <3>1
  <2> QED BY <2>1, <2>2
<1> QED BY <1>1, <1>2, <1>3 DEF PlayerTyped

(* Whatever is sent can be sent, and is seen as something.                 *)
LEMMA NextAnswer ==
    ASSUME Typed', AnswerTyped, [Next]_vars
    PROVE  AnswerTyped'
<1>1. ctx'.curpv \in Nat
  BY DEF Typed, Contexts
<1>2. ASSUME NEW packets \in Seq(Sendable), Reply(packets) PROVE AnswerTyped'
  BY <1>1, <1>2, ReplyTyped DEF AnswerTyped
<1>3. CASE UNCHANGED view /\ (out' = <<>> \/ out' = out)
  <2>1. \A i \in DOMAIN <<>> : FALSE
    OBVIOUS
  <2> QED BY <1>3, <2>1 DEF AnswerTyped
<1>4. <<>> \in Seq(Sendable)
  OBVIOUS
<1>5. CASE ctactrstat
  <2>1. CASE Reply(Ping)
    BY <1>2, <2>1, EndPackets
  <2>2. CASE \E d \in {"EQ", "HEAD", "POS", "ALL", "BIG"} :
               Reply(Moved(d) \o Ping
                     \o (IF ctr = Respawn THEN RespawnClone ELSE <<>>)
                     \o (IF ctr >= Rejoin THEN Welcome ELSE <<>>))
    <3> DEFINE respawn == ctr = Respawn
               rejoin == ctr >= Rejoin
               packets(d) == Moved(d) \o Ping
                         \o (IF respawn THEN RespawnClone ELSE <<>>)
                         \o (IF rejoin THEN Welcome ELSE <<>>)
    <3>1. PICK d \in {"EQ", "HEAD", "POS", "ALL", "BIG"} : Reply(packets(d))
      BY <2>2
    <3>2. respawn \in BOOLEAN /\ rejoin \in BOOLEAN
      OBVIOUS
    <3> HIDE DEF respawn, rejoin
    <3>3. packets(d) \in Seq(Sendable)
      BY <1>1, <3>2, MovesSeen, Zenon
    <3> HIDE DEF packets
    <3> QED BY <1>2, <3>1, <3>3
  <2> QED BY <1>5, <2>1, <2>2 DEF ctactrstat
<1>6. CASE ctmsg
  <2>1. PICK answer \in Answers : Reply(answer.packets \o Ping)
    BY <1>6 DEF ctmsg
  <2>2. answer.packets \o Ping \in Seq(Sendable)
    BY AnswerSendable, EndPackets
  <2> QED BY <1>2, <2>1, <2>2
<1>7. CASE ctblkch
  <2>1. Reply(<<Sent("BUPDATE", Self)>> \o Ping)
    BY <1>7 DEF ctblkch
  <2>2. <<Sent("BUPDATE", Self)>> \o Ping \in Seq(Sendable)
    <3>1. <<Sent("BUPDATE", Self)>> \in Seq(Sendable)
      BY SentFacts DEF ServerEvents
    <3> QED BY <3>1, EndPackets
  <2> QED BY <1>2, <2>1, <2>2
<1>8. CASE ctname
  <2>1. <<Sent("PBYE", Self)>> \in Seq(Sendable)
    BY SentFacts DEF ServerEvents
  <2>2. Reply(<<Sent("PBYE", Self)>>) \/ Reply(<<>>) \/ Reply(Welcome)
    BY <1>8 DEF ctname, initseq
  <2> QED BY <1>2, <1>4, <2>1, <2>2, EndPackets
<1>9. CASE ctpass \/ ctcflg
  <2>1. Reply(<<>>) \/ Reply(Welcome)
    BY <1>9 DEF ctpass, ctcflg, JoinAfter, initseq
  <2> QED BY <1>2, <1>4, <2>1, EndPackets
<1>10. CASE ctevtno \/ ctversion \/ ctactrno
  <2>1. Reply(<<>>)
    BY <1>10 DEF ctevtno, ctversion, ctactrno
  <2> QED BY <1>2, <1>4, <2>1
<1>11. CASE EndOfInput \/ ClientSends \/ ClientHangsUp \/ UNCHANGED vars
  BY <1>3, <1>11 DEF EndOfInput, ClientSends, ClientHangsUp, vars
<1> QED
  BY <1>5, <1>6, <1>7, <1>8, <1>9, <1>10, <1>11 DEF Next, cloop

(* All variables keep their types, of whatever strings, packets and        *)
(* milestones.                                                             *)
THEOREM TypeCorrect == Spec => []TypeOK
<1> DEFINE Inv == Typed /\ CounterInv /\ StateTyped /\ PlayerTyped /\ AnswerTyped
<1>1. Init => Inv
  <2> SUFFICES ASSUME Init PROVE Inv
    OBVIOUS
  <2>1. ResetSession \in Sessions
    BY LengthAssumption DEF ResetSession, Sessions, ClientEvents, ClientTypes
  <2>2. NewView \in Views
    BY DEF NewView, Views
  <2>3. Typed
    BY InitTyped
  <2>4. CounterInv
    BY DEF Init, CounterInv, CounterBounded
  <2>5. StateTyped
    BY <2>1 DEF Init, StateTyped, ClientTypes
  <2>6. PlayerTyped
    <3>1. 0 \in 0 .. CtrMax
      BY SessionAssumption
    <3>2. /\ flg \in BOOLEAN /\ named \in BOOLEAN
          /\ enln \in NameLens \cup {-1, 0}
      BY DEF Init
    <3>3. ctr = 0
      BY DEF Init
    <3> QED BY <3>1, <3>2, <3>3 DEF PlayerTyped
  <2>7. AnswerTyped
    BY <2>2 DEF Init, AnswerTyped
  <2> QED BY <2>3, <2>4, <2>5, <2>6, <2>7
<1>2. Inv /\ [Next]_vars => Inv'
  <2> SUFFICES ASSUME Inv, [Next]_vars PROVE Inv'
    OBVIOUS
  <2>1. Typed'
    BY NextTyped
  <2>2. CounterInv'
    BY NextCounter
  <2>3. StateTyped'
    BY <2>1, NextState
  <2>4. PlayerTyped'
    BY NextPlayer
  <2>5. AnswerTyped'
    BY <2>1, NextAnswer
  <2> QED BY <2>1, <2>2, <2>3, <2>4, <2>5
<1>3. Inv => TypeOK
  BY DEF Typed, StateTyped, PlayerTyped, AnswerTyped, Views, TypeOK
<1> QED BY <1>1, <1>2, <1>3, PTL DEF Spec

=============================================================================
