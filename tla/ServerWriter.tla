----------------------------- MODULE ServerWriter -----------------------------
(***************************************************************************)
(* The senders of client.c, from segeneric to sebye: each puts one packet  *)
(* on the wire by calling mcswr, first for the packet number and then for  *)
(* the fields until mcswr returns 0, through a buffer of OutLen bytes that *)
(* may be far shorter than the packet. A step is the writing of one field. *)
(***************************************************************************)
EXTENDS Wse

CONSTANTS
    OutLen,     \* OUTBUFLEN (16)
    Versions,   \* protocol versions of the clients
    Lens,       \* the lengths of names and messages, which are never empty
    ChunkLens   \* the lengths of the pieces of a level

(* The buffer suits the packets: no packet of segeneric is longer, and     *)
(* after the number and name of a new entity it has room for the state of  *)
(* the entity or for nothing.                                              *)
ASSUME WriterAssumption ==
    /\ Versions \subseteq 0 .. MCPVMAX
    /\ Lens \subseteq 1 .. StrLen
    /\ ChunkLens \subseteq 1 .. ArrayLen
    /\ OutLen \in Nat /\ OutLen >= 10
    /\ (2 + StrLen) % OutLen \notin OutLen - 7 .. OutLen - 1

VARIABLES
    evt,    \* the event being sent
    ver,    \* session.curpv
    w,      \* session.w
    left,   \* what is left of the data of each field, or Null
    idx,    \* how many bytes the buffer holds
    acc,    \* what the fields of this call of mcswr have returned so far
    wire,   \* how many bytes of the packet have been output
    pc      \* where the sender is

vars == <<evt, ver, w, left, idx, acc, wire, pc>>

(* What each sender of client.c sends, and the data it passes, by the      *)
(* field that writes it. The other events are left to segeneric.           *)
NoData == [i \in 1 .. 3 |-> Null]

(* What ctname leaves as the length of a name it has refused: update 512   *)
(* and /s send a player who has joined nevertheless with it.               *)
Refused == -1

Packet(event, data) == [evt |-> event, data |-> data]

segreeting == {Packet("PGREETING", [NoData EXCEPT ![2] = title, ![3] = msg]) :
                    title \in Lens, msg \in Lens}
selvldata  == {Packet("LDATA", [NoData EXCEPT ![2] = n]) : n \in ChunkLens}
senewactr  == {Packet("ENEW", [NoData EXCEPT ![2] = n]) :
                    n \in Lens \cup {Refused}}
sechatmsg  == {Packet("CMSG", [NoData EXCEPT ![2] = n]) : n \in Lens}
sebye      == {Packet("PBYE", [NoData EXCEPT ![1] = n]) : n \in Lens}

Generic == {"PING", "LNEW", "LDIM", "BUPDATE", "ESTATE", "EDIFF", "ESLIDE",
            "EHEAD", "EDIED"}

segeneric == {Packet(event, NoData) : event \in Generic}

Calls == segreeting \cup selvldata \cup senewactr \cup sechatmsg
         \cup sebye \cup segeneric

(* Faulty: the pointer to the end of the data is passed on.                *)
KeepEmpty(data) == data

(* Once its data has been written a sender passes a null pointer.          *)
NullIfEmpty(data) == [i \in 1 .. 3 |-> IF data[i] = 0 THEN Null ELSE data[i]]

-----------------------------------------------------------------------------
Init ==
    /\ \E call \in Calls : evt = call.evt /\ left = call.data
    /\ ver \in Versions
    /\ w = ResetSerializer
    /\ idx = 0 /\ acc = 0 /\ wire = 0
    /\ pc = "number"

(* A sender is called; it has nothing in its buffer.                       *)
Send ==
    /\ pc = "done"
    /\ \E call \in Calls : evt' = call.evt /\ left' = call.data
    /\ ver' \in Versions
    /\ idx' = 0 /\ acc' = 0 /\ wire' = 0
    /\ pc' = "number"
    /\ UNCHANGED w

(* The first call, of senw: finding the last packet's end left over it     *)
(* clears that and returns 0, and the sender does nothing.                 *)
WriteNumber ==
    /\ pc = "number"
    /\ LET opens == w.type = 0
       IN  /\ w' = IF opens THEN Opened(w, evt, ver) ELSE [w EXCEPT !.type = 0]
           /\ idx' = IF opens THEN 1 ELSE 0
           /\ pc' = IF opens THEN "fields" ELSE "done"
    /\ UNCHANGED <<evt, ver, left, acc, wire>>

Room == OutLen - idx - acc

(* The next field and its data; what is left of those is negative only if  *)
(* it is the length of a refused name.                                     *)
Field == Fields(w.evt, ver)[w.type]

DataLeft == IF Field.data THEN left[w.type] ELSE Null

(* One field, in the loop of the event's writer.                           *)
WriteField ==
    /\ pc = "fields" /\ w.evt \notin {"NOTHING", "PING", "LNEW"}
    /\ DataLeft # Refused
    /\ LET r == Result(Field, w, Room, DataLeft)
       IN  /\ w' = Written(Field, w, Room, DataLeft)
           /\ left' = IF DataLeft = Null THEN left
                                         ELSE [left EXCEPT ![w.type] = @ - r]
           /\ acc' = acc + r
           /\ pc' = IF /\ w.evt \notin OneField
                       /\ r # 0 /\ Room # r /\ w'.evt # "NOTHING"
                      THEN "fields" ELSE "return"
    /\ UNCHANGED <<evt, ver, idx, wire>>

(* The least of the room, the length and rem is a length of -1, of which   *)
(* mcopy_ counts down to 0 the long way round: it leaves the buffer behind *)
(* and writes over whatever follows it. Nothing is defined after that.     *)
Overrun ==
    /\ pc = "fields" /\ w.evt \notin {"NOTHING", "PING", "LNEW"}
    /\ DataLeft = Refused
    /\ pc' = "overrun"
    /\ UNCHANGED <<evt, ver, w, left, idx, acc, wire>>

(* mcswr takes a 0 in the middle of an event for a lack of room.           *)
Returned == IF acc = 0 /\ w.evt # "NOTHING" THEN NOTENOUGH ELSE acc

Output(bytes) == wire' = wire + bytes /\ idx' = 0

(* The sender empties its buffer when it has to, and calls again unless    *)
(* mcswr returned another error.                                           *)
Return ==
    /\ pc = "return"
    /\ IF \/ Returned < 0
          \/ evt \notin Generic /\ idx + acc = OutLen
         THEN Output(IF Returned < 0 THEN idx ELSE OutLen)
         ELSE idx' = idx + acc /\ UNCHANGED wire
    /\ acc' = 0
    /\ left' = IF evt \notin Generic THEN NullIfEmpty(left) ELSE left
    /\ pc' = IF Returned > 0 \/ Returned = NOTENOUGH THEN "fields" ELSE "done"
    /\ UNCHANGED <<evt, ver, w>>

(* Faulty: se0w leaves the type to the next call of senw.                  *)
FinishEventOnly ==
    /\ pc = "fields" /\ w.evt \in {"NOTHING", "PING", "LNEW"}
    /\ w' = IF w.evt = "NOTHING" THEN [w EXCEPT !.type = 0] ELSE treset(w)
    /\ Output(idx)
    /\ pc' = "done"
    /\ UNCHANGED <<evt, ver, left, acc>>

(* mcswr returns 0: se0w or, called for no event, senw. Then what is in    *)
(* the buffer is output and flushed.                                       *)
Finish ==
    /\ pc = "fields" /\ w.evt \in {"NOTHING", "PING", "LNEW"}
    /\ w' = [w EXCEPT !.evt = "NOTHING", !.type = 0]
    /\ Output(idx)
    /\ pc' = "done"
    /\ UNCHANGED <<evt, ver, left, acc>>

Sender == WriteNumber \/ WriteField \/ Overrun \/ Return \/ Finish

Next == Send \/ Sender

(* A sender runs until it returns.                                         *)
Spec == Init /\ [][Next]_vars /\ WF_vars(Sender)

-----------------------------------------------------------------------------
(* All variables keep their types.                                         *)
TypeOK ==
    /\ evt \in {call.evt : call \in Calls} /\ ver \in Versions
    /\ w \in Serializers
    /\ left \in [1 .. 3 -> Null .. StrLen \cup 0 .. ArrayLen]
    /\ idx \in Nat /\ acc \in Int /\ wire \in Nat
    /\ pc \in {"number", "fields", "return", "done", "overrun"}

(* No field is written outside the buffer, before its start or behind its  *)
(* end: the bytes of this call follow those the buffer holds. Only the     *)
(* name of a new entity does leave the buffer, and only if it is refused.  *)
BufferBounds ==
    /\ acc >= 0 /\ idx + acc <= OutLen
    /\ pc = "overrun" => evt = "ENEW" /\ left[2] = Refused

(* When a sender returns the packet is on the wire, with all its fields    *)
(* and nothing else, and all the data it was given is in it - but for what *)
(* comes after the last field of an older version.                         *)
InPacket(field) == \A i \in 1 .. field - 1 : ~Fields(evt, ver)[i].last

PacketWhole ==
    pc = "done" =>
        /\ wire = ServerPacketLen(evt, ver)
        /\ \A i \in 1 .. 3 : left[i] # Null => ~InPacket(i)

(* Between packets the session has nothing left over that would make the   *)
(* next sender do nothing.                                                 *)
SessionReady == pc \in {"number", "done"} => w.evt = "NOTHING" /\ w.type = 0

(* A sender never loops for ever on a lack of room that no output cures:   *)
(* it returns, unless it writes over whatever it would return to.          *)
SenderReturns == pc = "number" ~> pc \in {"done", "overrun"}

(* How long the packets are, how much of the packet has been written, in   *)
(* the buffer or beyond, and whether none is under way.                    *)
PacketLens == {ServerPacketLen(call.evt, v) : call \in Calls, v \in Versions}

Position == wire + idx + acc

Idle == w.evt \in {"NOTHING", "PING", "LNEW"}

(* Whatever pieces the buffer makes of them, the senders write a stream of *)
(* packets.                                                                *)
Stream == INSTANCE PacketStream WITH
    Sizes <- PacketLens,
    size <- ServerPacketLen(evt, ver),
    done <- Position,
    idle <- Idle

StreamSpec == Stream!Spec
=============================================================================
