------------------------------- MODULE Session -------------------------------
(***************************************************************************)
(* The server's loop (lvlsim.c, client.c) with its one client: each call   *)
(* of cloop asks for as many bytes as the next field has, waits for them,  *)
(* hands them to mcsread, and answers. A step is one call of cloop; what   *)
(* it sends is out, a sequence of packets that ServerWriter shows how to   *)
(* put on the wire.                                                        *)
(*                                                                         *)
(* The client sends packets one after the other, any packets in any order, *)
(* and may hang up in the middle of one. With the C library's input the    *)
(* server then reads what is left, maybe too little, and finds the end of  *)
(* the file; on the MSP430 the line never ends.                            *)
(***************************************************************************)
EXTENDS ClientPackets, SequencesExt

CONSTANTS
    NameLens,   \* the lengths strim may find in a name that it accepts
    Chunks,     \* how many arrays the level is sent in
    Respawn,    \* the update that respawns the clone (512)
    Rejoin,     \* the update that sends the level again (1024)
    CtrMax      \* bound: ctr is not followed beyond this value

ASSUME SessionAssumption ==
    /\ NameLens \subseteq 1 .. 20
    /\ Chunks \in Nat
    /\ Respawn \in Nat /\ Rejoin \in Nat /\ CtrMax \in Nat
    /\ Respawn < Rejoin /\ Rejoin < CtrMax
    /\ StrLen - 1 \notin {1, 8}     \* cloop knows the short name by its length

VARIABLES
    ctx,        \* z->session
    nxt,        \* ct in start(), the type the next call of cloop reads
    flg,        \* z->flg[0], the client has been sent the level
    named,      \* z->cent.enam is not null
    enln,       \* z->cent.enln
    ctr,        \* the static counter of player updates
    pkt, pos,   \* the packet the client is sending, and how much was input
    left,       \* after hanging up, the bytes not yet input
    status,     \* of the process
    out,        \* what the last step sent
    view        \* what the client makes of all it was sent

vars == <<ctx, nxt, flg, named, enln, ctr, pkt, pos, left, status, out, view>>

player == <<flg, named, enln, ctr>>

Open == -1      \* left: the client has not hung up
Lost == -1      \* pos: the server and the client disagree about the packet

-----------------------------------------------------------------------------
(* What is sent, and what the client makes of it. *)

(* The packet numbers of a version 0 client: a death is number 9 there.    *)
Number(evt, version) ==
    IF evt = "EDIED" /\ version = 0 THEN 9 ELSE seencode(evt)

Sent(evt, eno) == [evt |-> evt, no |-> Number(evt, ctx'.curpv), eno |-> eno]

Self == -1      \* entity number of the player
Clone == 0      \* entity number of the player's shadow

(* Faulty: the level never gets its size,                                  *)
WelcomeNoSize ==
    <<Sent("PGREETING", Self), Sent("LNEW", Self), Sent("ENEW", Self),
      Sent("ENEW", Clone), Sent("PING", Self)>>

(* or the end is not marked.                                               *)
WelcomeNoPing ==
    <<Sent("PGREETING", Self), Sent("LNEW", Self)>>
    \o [i \in 1 .. Chunks |-> Sent("LDATA", Self)]
    \o <<Sent("LDIM", Self), Sent("ENEW", Self), Sent("ENEW", Clone)>>

(* The packets of initseq. *)
Welcome ==
    <<Sent("PGREETING", Self), Sent("LNEW", Self)>>
    \o [i \in 1 .. Chunks |-> Sent("LDATA", Self)]
    \o <<Sent("LDIM", Self), Sent("ENEW", Self), Sent("ENEW", Clone),
         Sent("PING", Self)>>

Ping == <<Sent("PING", Self)>>

(* A client without a level: ok turns FALSE when it is sent something that *)
(* has no meaning to it then.                                              *)
NewView == [level |-> "none", self |-> FALSE, clone |-> FALSE, ok |-> TRUE]

Entity(eno) == IF eno = Self THEN "self" ELSE "clone"

(* The client decodes by packet number. *)
Sees(version, v, e) ==
    LET known == v[Entity(e.eno)]
        Set(changed, ok) == [changed EXCEPT !.ok = v.ok /\ ok]
    IN  CASE e.no = 2 -> Set([NewView EXCEPT !.level = "loading"], TRUE)
          [] e.no = 3 -> Set(v, v.level = "loading")
          [] e.no = 4 -> Set([v EXCEPT !.level = "ready"], v.level = "loading")
          [] e.no = 6 -> Set(v, v.level = "ready")
          [] e.no = 7 -> Set([v EXCEPT ![Entity(e.eno)] = TRUE],
                             v.level = "ready" /\ (e.eno = Clone => ~known))
          [] e.no = 12 \/ (e.no = 9 /\ version = 0) ->
                         Set([v EXCEPT ![Entity(e.eno)] = FALSE], known)
          [] e.no \in {8, 10, 11} \/ (e.no = 9 /\ version > 0) ->
                         Set(v, known)
          [] OTHER -> v

(* What one packet after the other makes of the view v. *)
Seen(version, v, packets) ==
    LET seen[i \in 0 .. Len(packets)] ==
            IF i = 0 THEN v ELSE Sees(version, seen[i - 1], packets[i])
    IN  seen[Len(packets)]

Reply(packets) ==
    /\ out' = packets
    /\ view' = Seen(ctx'.curpv, [view EXCEPT !.ok = TRUE], packets)

-----------------------------------------------------------------------------
(* What is received. *)

Request == mcctlen(ctx, nxt)

(* The name of a version 0 client is put behind its first byte. *)
Prefix == IF Request = StrLen - 1 THEN 1 ELSE 0

(* What input(in, Request) can return. Asked for nothing it returns 0, or  *)
(* -1 if the end of the file was met before.                               *)
Returned ==
    CASE left = Open                -> {Request}
      [] left # Open /\ Request = 0 -> IF left = 0 THEN {0, -1} ELSE {0}
      [] OTHER -> {IF left = 0 THEN -1 ELSE Min2(Request, left)}

(* input has its bytes or meets the end: otherwise it blocks. *)
Ready == \/ left # Open \/ Request = 0
         \/ pos = Lost \/ pos < PacketLen(pkt)

NextByte ==
    IF pos = 0 THEN {pkt.no}
    ELSE IF pos = 1 /\ cedecode(pkt.no) = "GREETING" THEN {pkt.ver}
    ELSE PacketNos \cup VersionBytes

(* A call of cloop that finds type expected: input returns n, and mcsread  *)
(* gets n bytes and the byte kept in front of them.                        *)
Read(type, n, b) ==
    /\ status = "running" /\ nxt = type /\ Ready
    /\ n + Prefix >= 0
    /\ ctx' = mcsread(ctx, n + Prefix, b)
    /\ LET got == IF n < 0 THEN 0 ELSE n
       IN  /\ left' = IF left = Open THEN Open ELSE left - got
           /\ pos' = IF pos = Lost \/ pos + got > PacketLen(pkt)
                       THEN Lost ELSE pos + got
    /\ UNCHANGED pkt

(* start() loops while the type is not invalid. *)
Continue(type) ==
    /\ nxt' = type
    /\ status' = IF type = "INVALID" THEN "ended" ELSE "running"

(* The same where the C code has no defined meaning if hazard holds: the   *)
(* process may also crash.                                                 *)
ContinueUnless(hazard, type) ==
    \/ Continue(type)
    \/ hazard /\ nxt' = type /\ status' = "crashed"

(* Faulty: the counter goes on.                                            *)
initseqCounting ==
    /\ flg' = TRUE
    /\ ctr' = ctr
    /\ Reply(Welcome)

initseq ==
    /\ flg' = TRUE
    /\ ctr' = 0
    /\ Reply(Welcome)

-----------------------------------------------------------------------------
Init ==
    /\ ctx = ResetSession
    /\ nxt = "EVTNO"
    /\ flg = FALSE /\ named = FALSE /\ enln = 0 /\ ctr = 0
    /\ pkt \in Packets /\ pos = 0 /\ left = Open
    /\ status = "running"
    /\ out = <<>> /\ view = NewView

(* The client sends another packet, *)
ClientSends ==
    /\ status = "running" /\ left = Open
    /\ pos = PacketLen(pkt)
    /\ pkt' \in Packets
    /\ pos' = 0
    /\ out' = <<>>
    /\ UNCHANGED <<ctx, nxt, player, left, status, view>>

(* or hangs up, when a part of its packet is still on the way. *)
ClientHangsUp ==
    /\ status = "running" /\ left = Open /\ pos # Lost
    /\ left' \in 0 .. PacketLen(pkt) - pos
    /\ out' = <<>>
    /\ UNCHANGED <<ctx, nxt, player, pkt, pos, status, view>>

(* Faulty: the end of the file is taken for an empty read.                 *)
EndOfInputMissed ==
    /\ status = "running"
    /\ \E n \in Returned : n + Prefix < -1
    /\ nxt' = "INVALID" /\ status' = "ended"
    /\ out' = <<>>
    /\ UNCHANGED <<ctx, player, pkt, pos, left, view>>

(* cloop returns -1 when input does. *)
EndOfInput ==
    /\ status = "running"
    /\ \E n \in Returned : n + Prefix < 0
    /\ nxt' = "INVALID" /\ status' = "ended"
    /\ out' = <<>>
    /\ UNCHANGED <<ctx, player, pkt, pos, left, view>>

ctevtno ==
    /\ \E n \in Returned, b \in NextByte : Read("EVTNO", n, b)
    /\ Continue(ctx'.type)
    /\ Reply(<<>>)
    /\ UNCHANGED player

ctversion ==
    /\ \E n \in Returned, b \in NextByte : Read("VERSION", n, b)
    /\ Continue(ctx'.type)
    /\ Reply(<<>>)
    /\ UNCHANGED player

(* b is the length strim finds, negative if the name is too long. *)
ctname ==
    /\ \E n \in Returned : Read("NAME", n, 0)
    /\ Continue(ctx'.type)
    /\ named' = TRUE
    /\ \E b \in NameLens \cup {-1} :
          /\ enln' = b
          /\ \/ /\ b < 0
                /\ flg' = FALSE
                /\ Reply(<<Sent("PBYE", Self)>>)
                /\ UNCHANGED ctr
             \/ /\ b > 0 /\ nxt' # "EVTNO"
                /\ Reply(<<>>)
                /\ UNCHANGED <<flg, ctr>>
             \/ /\ b > 0 /\ nxt' = "EVTNO"
                /\ initseq

(* The change is echoed, or an empty one if it did not arrive whole. *)
ctblkch ==
    /\ \E n \in Returned : Read("BLKCH", n, 0)
    /\ ContinueUnless(~named, ctx'.type)
    /\ Reply(<<Sent("BUPDATE", Self)>> \o Ping)
    /\ UNCHANGED player

ctactrno ==
    /\ \E n \in Returned : Read("ACTRNO", n, 0)
    /\ Continue(ctx'.type)
    /\ Reply(<<>>)
    /\ UNCHANGED player

(* What moves the clone, by how the player moved; version 0 has no events  *)
(* for differences.                                                        *)
Moved(d) ==
    CASE d = "EQ" -> <<>>
      [] d = "BIG" \/ ctx'.curpv = 0 -> <<Sent("ESTATE", Clone)>>
      [] d = "ALL" /\ ctx'.curpv # 0 -> <<Sent("EDIFF", Clone)>>
      [] d = "POS" /\ ctx'.curpv # 0 -> <<Sent("ESLIDE", Clone)>>
      [] d = "HEAD" /\ ctx'.curpv # 0 -> <<Sent("EHEAD", Clone)>>

(* Faulty: the clone comes back without having died.                       *)
RespawnCloneAlive ==
    <<Sent("PGREETING", Self), Sent("ENEW", Self), Sent("ENEW", Clone)>> \o Ping

RespawnClone ==
    <<Sent("EDIED", Clone), Sent("PGREETING", Self), Sent("ENEW", Self),
      Sent("ENEW", Clone)>> \o Ping

(* The answer is a ping if there is nothing else to say. After Respawn     *)
(* updates the clone dies and comes back, after Rejoin all is sent again.  *)
(* Player and clone come back with the player's name, of which a refused   *)
(* one has a negative length.                                              *)
ctactrstat ==
    /\ \E n \in Returned : Read("ACTRSTAT", n, 0)
    /\ ContinueUnless(flg /\ ctr = Respawn /\ enln < 0, "EVTNO")
    /\ \/ /\ ~flg
          /\ ctr' = Min2(ctr + 1, CtrMax)
          /\ Reply(Ping)
          /\ UNCHANGED flg
       \/ /\ flg
          /\ \E d \in {"EQ", "HEAD", "POS", "ALL", "BIG"} :
                Reply(Moved(d) \o Ping
                      \o (IF ctr = Respawn THEN RespawnClone ELSE <<>>)
                      \o (IF ctr >= Rejoin THEN Welcome ELSE <<>>))
          /\ ctr' = IF ctr >= Rejoin THEN 1 ELSE ctr + 1
          /\ flg' = TRUE
    /\ UNCHANGED <<named, enln>>

(* The answers to a message, and whether they use the player's name. *)
Answers ==
    {[packets |-> <<Sent("CMSG", Clone)>>, quits |-> FALSE, names |-> TRUE],
     [packets |-> <<Sent("BUPDATE", Self)>>, quits |-> FALSE, names |-> FALSE],
     [packets |-> <<Sent("PBYE", Self)>>, quits |-> TRUE, names |-> FALSE],
     [packets |-> <<Sent("EDIED", Clone), Sent("ENEW", Clone)>>,
      quits |-> FALSE, names |-> FALSE],
     [packets |-> <<Sent("ENEW", Self)>>, quits |-> FALSE, names |-> TRUE],
     [packets |-> <<Sent("ESTATE", Self)>>, quits |-> FALSE, names |-> FALSE],
     [packets |-> <<Sent("CMSG", Self)>>, quits |-> FALSE, names |-> FALSE],
     [packets |-> [i \in 1 .. 6 |-> Sent("CMSG", Self)],
      quits |-> FALSE, names |-> FALSE]}

(* An echo, /p, /q, /r, /s, /y, /t to /x, or the help; then a ping. With   *)
(* no name there is a null string, with a refused one a negative length.   *)
ctmsg ==
    /\ \E n \in Returned : Read("MSG", n, 0)
    /\ \E answer \in Answers :
          /\ Reply(answer.packets \o Ping)
          /\ flg' = (flg /\ ~answer.quits)
          /\ ContinueUnless(~named \/ (answer.names /\ enln < 0), ctx'.type)
    /\ UNCHANGED <<named, enln, ctr>>

(* ctpass and ctcflg: the player joins with the last field. *)
JoinAfter(type) ==
    /\ \E n \in Returned : Read(type, n, 0)
    /\ Continue(ctx'.type)
    /\ \/ /\ nxt' # "EVTNO"
          /\ Reply(<<>>)
          /\ UNCHANGED <<flg, ctr>>
       \/ /\ nxt' = "EVTNO"
          /\ initseq
    /\ UNCHANGED <<named, enln>>

ctpass == JoinAfter("PASS")

ctcflg == JoinAfter("CFLGS")

cloop ==
    \/ EndOfInput
    \/ ctevtno \/ ctversion \/ ctname \/ ctblkch \/ ctactrno
    \/ ctactrstat \/ ctmsg \/ ctpass \/ ctcflg

Next == cloop \/ ClientSends \/ ClientHangsUp

(* start() calls cloop again and again, and input returns once its bytes   *)
(* are there or the file has ended.                                        *)
Spec == Init /\ [][Next]_vars /\ WF_vars(cloop)

-----------------------------------------------------------------------------
Supported == ctx.curpv <= MCPVMAX

PacketsSent == [evt : ServerEvents, no : 0 .. 15, eno : {Self, Clone}]

(* All variables keep their types. *)
TypeOK ==
    /\ ctx \in Sessions
    /\ nxt \in ClientTypes
    /\ flg \in BOOLEAN /\ named \in BOOLEAN
    /\ enln \in NameLens \cup {-1, 0}
    /\ ctr \in 0 .. CtrMax
    /\ pkt \in Packets
    /\ pos \in Nat \cup {Lost} /\ left \in Nat \cup {Open}
    /\ status \in {"running", "ended", "crashed"}
    /\ \A i \in DOMAIN out : out[i] \in PacketsSent
    /\ view \in [level : {"none", "loading", "ready"},
                 self : BOOLEAN, clone : BOOLEAN, ok : BOOLEAN]

(* cloop asks for exactly the fields mcsread takes: while the client is    *)
(* there the loop and the session expect the same field, and the bytes     *)
(* input for a packet are the bytes of that packet.                        *)
LoopInStep ==
    status = "running" /\ left = Open /\ Supported
      => /\ nxt = ctx.type
         /\ pos # Lost
         /\ nxt = "EVTNO" => pos \in {0, PacketLen(pkt)}

(* To a player who has joined, and stays, nothing is ever sent out of      *)
(* place: no level data outside a level, no clone that is there already,   *)
(* no movement or death of an entity the client does not have - decoded by *)
(* the client's own version.                                               *)
ReplyInPlace == [][flg' => view'.ok]_vars

(* Whoever has joined has a level, a place in it and a clone, and has      *)
(* given a name. It is one that the answers can use, unless the greeting   *)
(* had more fields behind the name: then ctpass or ctcflg let a player     *)
(* join whose name ctname has refused.                                     *)
JoinedIsComplete ==
    flg => /\ view.level = "ready" /\ view.self /\ view.clone
           /\ named
           /\ nxt = "EVTNO" /\ enln < 0 => ctx.curpv >= 3

(* A packet that has been read to its end is answered, and the answer ends *)
(* with a ping, which the relay waits for, or a goodbye.                   *)
ReplyHasEnd ==
    [][nxt # "EVTNO" /\ nxt' = "EVTNO"
         => out' # <<>> /\ Last(out').evt \in {"PING", "PBYE"}]_vars

(* While a player is joined, the counter stays within its last milestone.  *)
CounterBounded == flg => ctr <= Rejoin

(* When the client has hung up the server ends, unless it is waiting for   *)
(* the name of a client of version 0 or of no supported version: then it   *)
(* never notices.                                                          *)
AwaitsShortName == nxt = "NAME" /\ (ctx.curpv = 0 \/ ~Supported)

HangupIsNoticed ==
    left # Open ~> (status # "running" \/ AwaitsShortName)

(* A packet the client has begun is read to its end, unless the client     *)
(* hangs up, the server stops, or the packet announces a version that has  *)
(* no lengths: then the loop asks for nothing for ever.                    *)
PacketIsRead ==
    (pos = 1 /\ left = Open)
      ~> \/ pos = PacketLen(pkt) \/ left # Open \/ status # "running"
         \/ ~Supported

-----------------------------------------------------------------------------
(* What the repository says of the program, and the code does not keep.    *)

(* "Clamped signed byte (~0-127).", the type of the name's length: whoever *)
(* has joined has a name that has one.                                     *)
NameHasLength == flg => enln >= 0
=============================================================================
