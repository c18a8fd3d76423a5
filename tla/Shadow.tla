-------------------------------- MODULE Shadow --------------------------------
(***************************************************************************)
(* The player and its shadow: the server remembers the state the player    *)
(* last sent (z->cent) and has a clone do the same "at opposite side",     *)
(* mirrored in x and z and looking the other way. It sends the clone's     *)
(* state when the player moved far, and differences otherwise; what the    *)
(* client has for the clone's position is the sum of those.                *)
(***************************************************************************)
EXTENDS Positions

CONSTANTS
    Places,     \* positions the player sends
    Heads,      \* headings the player sends
    Respawn,    \* the update that respawns the clone (512)
    Rejoin      \* the update that sends the level again (1024)

ASSUME ShadowAssumption ==
    /\ Places \subseteq [Axes -> Short] /\ Heads \subseteq Headings
    /\ Respawn \in Nat /\ Rejoin \in Nat /\ 0 < Respawn /\ Respawn < Rejoin

VARIABLES
    old,        \* whether the session has version 0
    flg,        \* z->flg[0], the client has been sent the level
    ctr,        \* the counter of player updates, not followed beyond Rejoin
    cent,       \* z->cent, the player's last state
    clone       \* the state the client has for the clone, if it met one

vars == <<old, flg, ctr, cent, clone>>

States == [pos : [Axes -> Short], head : Headings]

None == [none |-> TRUE]

At(x, y, z) == [a \in Axes |-> CASE a = "x" -> x [] a = "y" -> y [] a = "z" -> z]

Init ==
    /\ old = TRUE /\ flg = FALSE /\ ctr = 0
    /\ cent = [pos |-> At(0, 0, 0), head |-> [yaw |-> {}, phi |-> {}]]
    /\ clone = None

-----------------------------------------------------------------------------
(* yaw += 128 *)
About(head) == [yaw |-> Xor(head.yaw, {7}), phi |-> head.phi]

(* The point opposite to a position: both blocks 16 from the middle.       *)
Opposite(p) == At(Wrap(512 - p["x"]), p["y"], Wrap(512 - p["z"]))

Mirrored(s) == [pos |-> Opposite(s.pos), head |-> About(s.head)]

(* Where initseq puts the clone. *)
Spawn == [pos |-> At(512, 512, 512),
          head |-> [yaw |-> {5, 6}, phi |-> {6}]]      \* 224 ^ 128, 64

(* Position of the update in cases MCEDALL and MCEDPOS. *)
Slid(from, new) == At(Wrap(from["x"] - new["x"]), Wrap(new["y"] - from["y"]),
                      Wrap(from["z"] - new["z"]))

(* Faulty: the sum is not kept to 16 bits. *)
AddedWide(p, d) == [a \in Axes |-> p[a] + Byte(d[a])]

(* A client adds the bytes it is sent to what it has.                      *)
Added(p, d) == [a \in Axes |-> Wrap(p[a] + Byte(d[a]))]

(* What the client makes of the answer to an update of its player.         *)
Answered(d, new) ==
    CASE d = "BIG" -> Mirrored(new)
      [] d = "ALL" -> [pos |-> Added(clone.pos, Slid(cent.pos, new.pos)),
                       head |-> About(new.head)]
      [] d = "POS" -> [pos |-> Added(clone.pos, Slid(cent.pos, new.pos)),
                       head |-> clone.head]
      [] d = "HEAD" -> [pos |-> clone.pos, head |-> About(new.head)]
      [] d = "EQ" -> clone

(* Version 0 has no differences. *)
Compared(new) ==
    LET d == mcescmp(cent, new)
    IN  IF old /\ d # "EQ" THEN "BIG" ELSE d

-----------------------------------------------------------------------------
(* A greeting has been read, also one of the next client on the line.      *)
initseq ==
    /\ old' \in BOOLEAN
    /\ flg' = TRUE /\ ctr' = 0 /\ clone' = Spawn
    /\ UNCHANGED cent

(* mcopy(&z->cent, &new) *)
Remembered(d, new) == IF d = "EQ" THEN cent ELSE new

(* A new state of the player: what follows if the level was sent. At two  *)
(* updates the clone is spawned again after the answer.                    *)
Received(new) ==
    LET d == Compared(new)
    IN  /\ flg
        /\ cent' = Remembered(d, new)
        /\ \/ /\ ctr = Respawn
              /\ clone' = cent' /\ ctr' = ctr + 1
           \/ /\ ctr = Rejoin
              /\ clone' = Spawn /\ ctr' = 1
           \/ /\ ctr \notin {Respawn, Rejoin}
              /\ clone' = Answered(d, new) /\ ctr' = ctr + 1
        /\ UNCHANGED <<old, flg>>

(* It is ignored while the level isn't sent, but counted.                  *)
Ignored ==
    /\ ~flg
    /\ ctr' = IF ctr < Rejoin THEN ctr + 1 ELSE ctr
    /\ UNCHANGED <<old, flg, cent, clone>>

ctactrstat ==
    Ignored \/ \E p \in Places, h \in Heads : Received([pos |-> p, head |-> h])

(* /q ends the game. *)
Quit ==
    /\ clone # None
    /\ flg' = FALSE
    /\ UNCHANGED <<old, ctr, cent, clone>>

(* What /p places a block at. *)
BlockAt == [a \in Axes |-> mcbcec(cent.pos[a])]

(* /r kills the clone, and it comes back where the player is.              *)
RespawnShadow ==
    /\ clone # None
    /\ clone' = cent
    /\ UNCHANGED <<old, flg, ctr, cent>>

Next == initseq \/ ctactrstat \/ Quit \/ RespawnShadow

Spec == Init /\ [][Next]_vars

-----------------------------------------------------------------------------
(* All variables keep their types. *)
TypeOK ==
    /\ old \in BOOLEAN /\ flg \in BOOLEAN
    /\ ctr \in 0 .. Rejoin
    /\ cent \in States
    /\ clone \in States \cup {None}
    /\ flg => clone # None

(* How far the clone is from where it should be. *)
Off == [a \in Axes |-> Wrap(clone.pos[a] - Opposite(cent.pos)[a])]

(* An update that is answered, and after which the clone does not respawn. *)
Update == cent' # cent /\ ctr \notin {Respawn, Rejoin}

(* Small differences add up: whatever the player does, a clone that was in *)
(* the right place stays there, and one that was not is never put further  *)
(* off by an update.                                                       *)
NoDrift == [][Update => Off' \in {Off, [a \in Axes |-> 0]}]_vars

(* The clone looks the other way once the player has turned, unless yaw    *)
(* and phi changed by the same bits.                                       *)
HeadFollows ==
    [][Update /\ HeadBits(cent.head, cent'.head) # {} =>
         clone'.head = About(cent'.head)]_vars

(* Positions survive the wire, the player's on its way here and the        *)
(* clone's on its way back, with the sign and on the axis they had.        *)
BytesKeepStates ==
    \A s \in {cent, clone} \ {None} : i3read(writevec(s.pos)) = s.pos

(* The block /p places holds the player, also at negative coordinates.     *)
BlockHoldsPlayer ==
    \A a \in Axes : cent.pos[a] - 32 * BlockAt[a] \in 0 .. 31

-----------------------------------------------------------------------------
(* "Equal": in a game, the next state of the player compares so only if it *)
(* is the same.                                                            *)
EqualIsSame ==
    flg => \A p \in Places, h \in Heads :
        LET new == [pos |-> p, head |-> h]
        IN  mcescmp(cent, new) = "EQ" => new = cent

(* "Send back the same state at opposite side."                            *)
SameAtOpposite == [][Update => clone'.pos = Opposite(cent'.pos)]_vars
=============================================================================
