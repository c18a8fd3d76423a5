-------------------------------- MODULE Relay --------------------------------
(***************************************************************************)
(* localsrv.py: between a TCP client and the server's serial line. It is   *)
(* half duplex: it passes on what it receives from the client, and then    *)
(* collects what the server says until that ends with a byte 1, the number *)
(* of a ping, which it drops.                                              *)
(*                                                                         *)
(* The bytes of the server's replies are of three kinds: pings, other      *)
(* bytes that are 1 by chance, and the rest. A reply need not end with its *)
(* only ping, a client need not wait for it, and TCP need not deliver      *)
(* packets whole: the auxiliary variable odd remembers what has happened   *)
(* of that, for the properties that are only true while nothing has.       *)
(***************************************************************************)
EXTENDS Integers, SequencesExt

CONSTANTS
    Replies,        \* what the server may answer to a packet
    PacketBytes,    \* bytes of a client's packet
    Window,         \* how many unanswered packets a client may have sent
    MaxLag          \* bound: with more bytes under way than this no packet is sent

Kinds == {"ping", "one", "other"}

ASSUME RelayAssumption ==
    /\ Replies \subseteq Seq(Kinds) \ {<<>>}
    /\ PacketBytes \in Nat \ {0}
    /\ Window \in Nat \ {0}
    /\ MaxLag \in Nat

VARIABLES
    relay,      \* where the relay is: "recv" from TCP or "read" from serial
    outbuf,     \* what it has collected of a reply
    open,       \* the client has not closed its connection
    owed,       \* packets the client has sent and has no answer to
    tcp,        \* bytes on the way from the client
    serial,     \* bytes on the way to the server
    part,       \* bytes the server has read of a packet
    said,       \* what the server has said and the relay has not read
    odd         \* what has happened that the relay is not made for

vars == <<relay, outbuf, open, owed, tcp, serial, part, said, odd>>

(* A part of a packet was passed on; a client sent without waiting; a      *)
(* reply had another byte 1, no ping at its end, or one before that.       *)
Oddities == {"cut", "early", "one", "silent", "more"}

Init ==
    /\ relay = "recv" /\ outbuf = <<>>
    /\ open = TRUE /\ owed = 0 /\ tcp = 0
    /\ serial = 0 /\ part = 0 /\ said = <<>> /\ odd = {}

-----------------------------------------------------------------------------
(* The client sends a packet, or leaves.                                   *)
ClientSends ==
    /\ open /\ owed < Window
    /\ tcp + serial + Len(said) <= MaxLag
    /\ owed' = owed + 1
    /\ tcp' = tcp + PacketBytes
    /\ odd' = IF owed = 0 THEN odd ELSE odd \cup {"early"}
    /\ UNCHANGED <<relay, outbuf, open, serial, part, said>>

ClientCloses ==
    /\ open
    /\ open' = FALSE
    /\ UNCHANGED <<relay, outbuf, owed, tcp, serial, part, said, odd>>

(* Faulty: what was received is kept, and passed on once more. *)
PassAgain ==
    /\ relay = "recv"
    /\ \E n \in 1 .. tcp : serial' = serial + n
    /\ relay' = "read" /\ outbuf' = <<>>
    /\ UNCHANGED <<open, owed, tcp, part, said, odd>>

(* inbuf = remo.recv(2048); p.write(inbuf); outbuf = bytearray(0)          *)
Pass ==
    /\ relay = "recv"
    /\ \E n \in 1 .. tcp :
          /\ tcp' = tcp - n /\ serial' = serial + n
          /\ odd' = IF n % PacketBytes = 0 THEN odd ELSE odd \cup {"cut"}
    /\ relay' = "read" /\ outbuf' = <<>>
    /\ UNCHANGED <<open, owed, part, said>>

(* Faulty: the next client is accepted while a reply is read. *)
AcceptEarly ==
    /\ ~open
    /\ open' = TRUE /\ owed' = 0 /\ tcp' = 0 /\ relay' = "recv"
    /\ UNCHANGED <<outbuf, serial, part, said, odd>>

(* Remote host closed: recv returns nothing, or fails with what was not    *)
(* received lost. The next client is accepted.                             *)
Accept ==
    /\ relay = "recv" /\ ~open
    /\ open' = TRUE /\ owed' = 0 /\ tcp' = 0
    /\ UNCHANGED <<relay, outbuf, serial, part, said, odd>>

(* What a reply has that the relay is not made for.                        *)
Oddness(r) ==
    {k \in {"one", "silent", "more"} :
        \/ k = "one" /\ \E i \in DOMAIN r : r[i] = "one"
        \/ k = "silent" /\ r[Len(r)] # "ping"
        \/ k = "more" /\ \E i \in 1 .. Len(r) - 1 : r[i] = "ping"}

(* The server answers a packet it has read to its end.                     *)
Answer ==
    /\ serial > 0
    /\ serial' = serial - 1
    /\ \/ /\ part + 1 < PacketBytes
          /\ part' = part + 1
          /\ UNCHANGED <<said, odd>>
       \/ /\ part + 1 = PacketBytes
          /\ part' = 0
          /\ \E r \in Replies : said' = said \o r /\ odd' = odd \cup Oddness(r)
    /\ UNCHANGED <<relay, outbuf, open, owed, tcp>>

(* Faulty: the relay goes back to the client after every read.             *)
IsWholeAlways(reply) == TRUE

(* Faulty: outbuf[0] == 1 *)
IsWholeFirst(reply) == Head(reply) \in {"ping", "one"}

(* outbuf[-1] == 1 *)
IsWhole(reply) == Last(reply) \in {"ping", "one"}

(* outbuf += p.read(2048), and once that ends with a 1 remo.send(outbuf[:-1]), *)
(* which the client takes for the answer to one packet.                    *)
Read ==
    /\ relay = "read"
    /\ \E n \in 1 .. Len(said) :
          LET now == outbuf \o SubSeq(said, 1, n)
          IN  /\ said' = SubSeq(said, n + 1, Len(said))
              /\ outbuf' = now
              /\ \/ IsWhole(now) /\ relay' = "recv" /\ owed' = IF owed > 0 THEN owed - 1 ELSE 0
                 \/ ~IsWhole(now) /\ UNCHANGED <<relay, owed>>
    /\ UNCHANGED <<open, tcp, serial, part, odd>>

Next == ClientSends \/ ClientCloses \/ Pass \/ Accept \/ Answer \/ Read

(* The relay and the server run; clients owe nothing.                      *)
Spec ==
    /\ Init /\ [][Next]_vars
    /\ WF_vars(Pass) /\ WF_vars(Accept) /\ WF_vars(Answer) /\ WF_vars(Read)

-----------------------------------------------------------------------------
(* All variables keep their types, and nothing is passed on twice: on both *)
(* lines together there is never more than the clients may have sent.      *)
TypeOK ==
    /\ relay \in {"recv", "read"}
    /\ outbuf \in Seq(Kinds) /\ said \in Seq(Kinds)
    /\ open \in BOOLEAN /\ owed \in 0 .. Window
    /\ tcp \in Nat /\ serial \in Nat /\ tcp + serial <= MaxLag + PacketBytes
    /\ part \in 0 .. PacketBytes - 1
    /\ odd \subseteq Oddities

(* A client finds nothing left over of the one before it, neither the end  *)
(* of a reply nor the half of a packet, also when that one left while its  *)
(* reply was read, unless something odd has happened.                      *)
FreshConnection ==
    [][~open /\ open' /\ odd = {} => said = <<>> /\ serial = 0 /\ part = 0]_vars

-----------------------------------------------------------------------------
(* "This script redirects standard files of the local server to a TCP      *)
(* port.": however the serial line cuts a reply, the client gets all of it *)
(* at once and nothing of another, unless something odd has happened,      *)
WholeReply ==
    [][relay = "read" /\ relay' = "recv" /\ odd = {} => outbuf' \in Replies]_vars

(* and the relay goes back to the client in the end, also when clients do  *)
(* not wait and replies hold bytes 1 or several pings; not so when it      *)
(* passed on a part of a packet, or a reply does not end with a ping.      *)
RepliesArrive == relay = "read" ~> relay = "recv" \/ odd \cap {"cut", "silent"} # {}
=============================================================================
