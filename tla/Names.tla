-------------------------------- MODULE Names --------------------------------
(***************************************************************************)
(* The player's name and the messages that show it. A greeting's name is   *)
(* trimmed into a static buffer that is shorter than a string of the       *)
(* protocol; a message is echoed behind the name, in one string. Both      *)
(* strings are filled with blanks when they are sent, and end with a NUL   *)
(* only in memory, and there not when they fill their buffer.              *)
(*                                                                         *)
(* strim and slen are written twice, for the C library and for the MSP430. *)
(* Messages that are commands, and players without an accepted name, are   *)
(* in Session.                                                             *)
(***************************************************************************)
EXTENDS Integers, SequencesExt

CONSTANTS
    StrLen,     \* MCSTRLEN (64)
    NameMax,    \* the longest name that is accepted (20)
    Greetings,  \* the names clients send
    Texts,      \* the messages clients send, no commands
    Build       \* which of the two platforms is running

Blank == " "
Nul == "NUL"

Builds == {"stdc", "msp430"}

(* The characters that occur. *)
Chars == {Nul, Blank, ":"}
           \cup UNION {ToSet(field) : field \in Greetings \cup Texts}

(* A field has one length, and the longest name leaves room for a colon    *)
(* and a blank behind it.                                                  *)
ASSUME NamesAssumption ==
    /\ StrLen \in Nat /\ NameMax \in 1 .. StrLen - 2
    /\ Greetings \cup Texts \subseteq [1 .. StrLen -> Chars]
    /\ Build \in Builds

VARIABLES
    in,         \* cloop's buffer, what was read last
    nbuf,       \* ctname's static buffer
    enln,       \* z->cent.enln
    name,       \* the name the last accepted greeting gave the player
    out         \* what the last message was read, logged and echoed as

vars == <<in, nbuf, enln, name, out>>

Nothing == [log |-> <<>>, echo |-> <<>>, read |-> <<>>]

(* The string in a buffer that may be full. *)
UntilNul(buf) == SelectInSeq(buf, LAMBDA c : c = Nul) - 1

CString(buf) == IF Contains(buf, Nul) THEN SubSeq(buf, 1, UntilNul(buf)) ELSE buf

-----------------------------------------------------------------------------
(* Strings, as indices of C arrays counted from 0.                         *)

(* The index at which strim stops looking for the end of the string, in    *)
(* stdc.c, do { --i; } while (i && ' ' == buf[i]);                         *)
BackDo(buf) ==
    LET stop[i \in 0 .. StrLen - 1] ==
            IF i # 0 /\ buf[i + 1] = Blank THEN stop[i - 1] ELSE i
    IN  stop[StrLen - 1]

(* and in msp430.c, while (i) { --i; if (' ' != buf[i]) break; }           *)
BackWhile(buf) ==
    LET stop[i \in 0 .. StrLen] ==
            IF i = 0 THEN 0
            ELSE IF buf[i] # Blank THEN i - 1 ELSE stop[i - 1]
    IN  stop[StrLen]

Back(build, buf) == IF build = "stdc" THEN BackDo(buf) ELSE BackWhile(buf)

(* The first i characters and a NUL are written. *)
Cut(dst, buf, i) ==
    [len |-> i,
     dst |-> [k \in DOMAIN dst |-> CASE k <= i -> buf[k]
                                     [] k = i + 1 -> Nul
                                     [] OTHER -> dst[k]]]

(* Faulty: the buffer's size is taken for the longest string,              *)
strimWide(build, dst, buf, max) ==
    LET i == Back(build, buf) + 1
    IN  IF i > max + 1 THEN [len |-> -1, dst |-> dst]
        ELSE Cut(dst, buf, i)

(* or the index of the last character for the length.                      *)
strimShort(build, dst, buf, max) ==
    LET i == Back(build, buf)
    IN  IF i > max THEN [len |-> -1, dst |-> dst]
        ELSE Cut(dst, buf, i)

(* Trim a string and write to buffer, if it is not too long.               *)
strim(build, dst, buf, max) ==
    LET i == Back(build, buf) + 1
    IN  IF i > max THEN [len |-> -1, dst |-> dst]
        ELSE Cut(dst, buf, i)

(* Measures a string: msp430.c counts the characters, i, and stdc.c also    *)
(* the bytes that are left, len. Both look at a byte before they know that *)
(* the buffer has it; what is behind the buffer makes no difference to the *)
(* result.                                                                 *)
slen(build, src) ==
    LET up[i \in 0 .. StrLen] ==
            IF i = StrLen THEN i ELSE IF src[i + 1] = Nul THEN i ELSE up[i + 1]
        down[len \in 0 .. StrLen] ==
            IF len = 0 THEN StrLen
            ELSE IF src[StrLen - len + 1] = Nul THEN StrLen - len ELSE down[len - 1]
    IN  IF build = "stdc" THEN down[StrLen] ELSE up[0]

(* strncpy fills what is left with NULs.                                   *)
scopy(src) ==
    [k \in 1 .. StrLen |->
        IF \E j \in 1 .. Min({k, Len(src)}) : src[j] = Nul THEN Nul ELSE src[k]]

Put(buf, i, c) == IF i = StrLen THEN buf ELSE [buf EXCEPT ![i + 1] = c]

-----------------------------------------------------------------------------
Init ==
    /\ in = [k \in 1 .. StrLen |-> Nul]
    /\ nbuf = [k \in 1 .. NameMax + 1 |-> Nul]
    /\ enln = 0
    /\ name = <<>>
    /\ out = Nothing

(* What is left of a string without the blanks that fill it: if it has     *)
(* nothing else, one of them.                                              *)
IsTrimmed(n, buf) ==
    /\ n \in 1 .. StrLen
    /\ n = 1 \/ buf[n] # Blank
    /\ \A k \in n + 1 .. StrLen : buf[k] = Blank

TrimmedLen(buf) == CHOOSE n \in 1 .. StrLen : IsTrimmed(n, buf)

(* What cloop's buffer holds after qty bytes of a field: all of them, or    *)
(* fewer at the end of the file, and then what was there before.           *)
Filled(field, qty) == [k \in 1 .. StrLen |-> IF k <= qty THEN field[k] ELSE in[k]]

(* A greeting: the name goes into nbuf, unless it is too long.             *)
ctname ==
    /\ \E field \in Greetings, qty \in 0 .. StrLen : in' = Filled(field, qty)
    /\ LET trimmed == strim(Build, nbuf, in', NameMax)
       IN  nbuf' = trimmed.dst /\ enln' = trimmed.len
    /\ name' = IF TrimmedLen(in') > NameMax THEN name
               ELSE SubSeq(in', 1, TrimmedLen(in'))
    /\ out' = Nothing

(* Faulty: all there is room for, also what was not read.                 *)
EchoedAll(qty) ==
    LET len == enln + 2
        max == StrLen - len
        msg == Put(Put(scopy(nbuf), enln, ":"), enln + 1, Blank)
        text == [k \in 1 .. StrLen |->
                    IF k \in len + 1 .. len + max THEN in'[k - len] ELSE msg[k]]
    IN  Put(text, len + max, Nul)

(* msg in ctmsg: the name, a colon and a blank, and as many of the qty     *)
(* bytes read as there is room for.                                        *)
Echoed(qty) ==
    LET len == enln + 2
        max == Min({StrLen - len, qty})
        msg == Put(Put(scopy(nbuf), enln, ":"), enln + 1, Blank)
        text == [k \in 1 .. StrLen |->
                    IF k \in len + 1 .. len + max THEN in'[k - len] ELSE msg[k]]
    IN  Put(text, len + max, Nul)

(* A message of a player whose name was accepted. *)
ctmsg ==
    /\ enln > 0
    /\ \E text \in Texts, qty \in 1 .. StrLen :
          /\ in' = Filled(text, qty)
          /\ out' = [log |-> CString(nbuf),
                     echo |-> SubSeq(Echoed(qty), 1, slen(Build, Echoed(qty))),
                     read |-> SubSeq(in', 1, qty)]
    /\ UNCHANGED <<nbuf, enln, name>>

Next == ctname \/ ctmsg

Spec == Init /\ [][Next]_vars

-----------------------------------------------------------------------------
(* All variables keep their types. *)
TypeOK ==
    /\ in \in [1 .. StrLen -> Chars]
    /\ nbuf \in [1 .. NameMax + 1 -> Chars]
    /\ enln \in -1 .. NameMax
    /\ Len(name) <= NameMax
    /\ \A part \in DOMAIN out : /\ Len(out[part]) <= StrLen
                                /\ ToSet(out[part]) \subseteq Chars

(* Whatever has been read, both platforms find the same end of it: strim   *)
(* where only blanks follow, slen at the first NUL. A longer name is       *)
(* refused, and the buffer keeps the one before.                           *)
TrimIsExact ==
    \A build \in Builds :
        LET trimmed == strim(build, nbuf, in, NameMax)
        IN  /\ IF TrimmedLen(in) > NameMax
                 THEN trimmed = [len |-> -1, dst |-> nbuf]
               ELSE /\ trimmed.len = TrimmedLen(in)
                    /\ SubSeq(trimmed.dst, 1, trimmed.len + 1)
                         = Append(SubSeq(in, 1, TrimmedLen(in)), Nul)
            /\ slen(build, in) = Len(CString(in))

(* A message is logged under the name that was accepted last, and echoed   *)
(* as that name and as much of what was read as fits one string: nothing   *)
(* of an earlier, longer name or message shows, in the log or to the       *)
(* player.                                                                 *)
EchoIsNameAndText ==
    [][out' # Nothing =>
         LET whole == name \o <<":", Blank>> \o out'.read
         IN  /\ out'.log = CString(name)
             /\ out'.echo = CString(SubSeq(whole, 1, Min({Len(whole), StrLen})))]_vars
=============================================================================
