---------------------------- MODULE ClientPackets ----------------------------
(***************************************************************************)
(* The packets a client of the server sends, as the server lays them out.  *)
(***************************************************************************)
EXTENDS Rct

CONSTANTS
    PacketNos,      \* packet numbers that clients send, unknown ones too
    VersionBytes    \* the second byte of the greetings they send

ASSUME PacketAssumption ==
    /\ PacketNos \subseteq Bytes
    /\ VersionBytes \subseteq Bytes

(* ver is the version byte of a greeting; the others have none, and a 0.   *)
Packets ==
    {p \in [no : PacketNos, ver : VersionBytes \cup {0}] :
        IF cedecode(p.no) = "GREETING" THEN p.ver \in VersionBytes
                                       ELSE p.ver = 0}

(* A greeting opens with the version, or with the name of a version 0      *)
(* client, and has a password from version 3 and flags from version 6.     *)
Announced(ver) == IF ver < 32 THEN ver ELSE 0

NameEnd(ver) == IF ver < 32 THEN 2 + StrLen ELSE 1 + StrLen

GreetingLen(ver) ==
    NameEnd(ver) + (IF Announced(ver) < 3 THEN 0 ELSE StrLen)
                 + (IF Announced(ver) < 6 THEN 0 ELSE 1)

(* Of a packet with an unknown number nothing is known but that more than  *)
(* the number may follow.                                                  *)
PacketLen(p) ==
    CASE cedecode(p.no) = "GREETING" -> GreetingLen(p.ver)
      [] cedecode(p.no) = "BLKEDIT"  -> 9
      [] cedecode(p.no) = "PLYRSTAT" -> 10
      [] cedecode(p.no) = "CHATMSG"  -> 2 + StrLen
      [] OTHER                       -> 2
=============================================================================
