------------------------------ MODULE Positions ------------------------------
(***************************************************************************)
(* The arithmetic of entity positions in mccp: 16 bit coordinates in 32nds *)
(* of a block, the bytes that they and their differences are sent as, and  *)
(* the comparison of two states. A heading is two bytes, each of them here *)
(* the set of its bits, so that the exclusive or of two is what is in one  *)
(* of them only.                                                           *)
(***************************************************************************)
EXTENDS Integers

Axes == {"x", "y", "z"}

(* mci, a short. *)
Short == {n \in Int : -32768 <= n /\ n <= 32767}

(* What is left of a number that is assigned to an mci.                    *)
Wrap(n) == ((n + 32768) % 65536) - 32768

Bits == 0 .. 7

Headings == [yaw : SUBSET Bits, phi : SUBSET Bits]

Xor(a, b) == (a \ b) \cup (b \ a)

-----------------------------------------------------------------------------
(* Bytes, 0 to 255: the high one of an integer comes first.                *)

(* Faulty: in the order of the processor. *)
writeiLow(n) == <<n % 256, (n % 65536) \div 256>>

writei(n) == <<(n % 65536) \div 256, n % 256>>

readi(src) == Wrap(256 * src[1] + src[2])

(* x, y and z follow each other. *)
writevec(p) ==
    LET w == [a \in Axes |-> writei(p[a])]
    IN  <<w["x"][1], w["x"][2], w["y"][1], w["y"][2], w["z"][1], w["z"][2]>>

i3read(src) ==
    LET Read(i) == readi(<<src[i], src[i + 1]>>)
    IN  [a \in Axes |-> CASE a = "x" -> Read(1) [] a = "y" -> Read(3) [] a = "z" -> Read(5)]

(* A difference. *)
writed(n) == (IF 0 > n THEN n + 256 ELSE n) % 256

readd(b) == IF 127 < b THEN b - 256 ELSE b

(* What is read of a difference that was written.                          *)
Byte(n) == readd(writed(n))

-----------------------------------------------------------------------------
(* Faulty: -128 is let through, too. *)
dcheckByte(dc) ==
    LET n == IF 0 < dc THEN -dc ELSE dc
    IN  -128 > n

(* Is a difference too big for a byte?                                     *)
dcheck(dc) ==
    LET n == IF 0 < dc THEN -dc ELSE dc
    IN  -127 > n

d3chk(d3c) == \E a \in Axes : dcheck(d3c[a])

(* dv in mcescmp *)
Difference(dst, src) == [a \in Axes |-> Wrap(dst[a] - src[a])]

(* db in mcescmp: all bits that differ in yaw or else in phi.              *)
HeadBits(dst, src) == Xor(Xor(Xor(dst.yaw, src.yaw), dst.phi), src.phi)

(* Faulty: the bits of the result are swapped. *)
mcescmpSwapped(dst, src) ==
    LET dv == Difference(dst.pos, src.pos)
        moved == \E a \in Axes : dv[a] # 0
        turned == HeadBits(dst.head, src.head) # {}
    IN  CASE d3chk(dv) -> "BIG"
          [] ~d3chk(dv) /\ moved /\ turned -> "ALL"
          [] ~d3chk(dv) /\ ~moved /\ turned -> "POS"
          [] ~d3chk(dv) /\ moved /\ ~turned -> "HEAD"
          [] OTHER -> "EQ"

(* Compare 2 entity states. *)
mcescmp(dst, src) ==
    LET dv == Difference(dst.pos, src.pos)
        moved == \E a \in Axes : dv[a] # 0
        turned == HeadBits(dst.head, src.head) # {}
    IN  CASE d3chk(dv) -> "BIG"
          [] ~d3chk(dv) /\ moved /\ turned -> "ALL"
          [] ~d3chk(dv) /\ moved /\ ~turned -> "POS"
          [] ~d3chk(dv) /\ ~moved /\ turned -> "HEAD"
          [] OTHER -> "EQ"

(* Faulty: the sign is shifted out. *)
mcbcecUnsigned(ec) == Wrap((ec % 65536) \div 32)

(* Block coordinate from entity one. *)
mcbcec(ec) ==
    LET ubc == (ec % 65536) \div 32     \* (u16)ec >> 5, less than 0x800
    IN  Wrap(IF 0 > ec THEN ubc + 63488 ELSE ubc)   \* |= 0xF800
=============================================================================
