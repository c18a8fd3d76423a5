--------------------------------- MODULE Uart ---------------------------------
(***************************************************************************)
(* msp430.c: input and output over a serial line. The program shares two   *)
(* rings with two interrupt handlers: _rxdo fills the first from the line  *)
(* and _cget empties it; _cput fills the second and _txdo empties it into  *)
(* the transmitter, which has a buffer of one byte and a shift register.   *)
(*                                                                         *)
(* The program reads a request and writes its reply, again and again, and  *)
(* the peer waits for a whole reply before it sends the next request. The  *)
(* bytes of each are numbered from 1. A request may be longer than its     *)
(* ring (a greeting has 131 bytes, the rings 16), and _rxdo does not check *)
(* for overflow: the auxiliary variable lost remembers that it wrote over  *)
(* a byte nobody had read.                                                 *)
(*                                                                         *)
(* An interrupt that is enabled is served before the program's next step.  *)
(* What runs between _DINT and _EINT is one step. A byte on the line takes *)
(* longer (some 700 cycles) than the few instructions from _cput's test to *)
(* its sleep, and from its counting a byte to its enabling the interrupt.  *)
(***************************************************************************)
EXTENDS Integers

CONSTANTS
    Size,       \* sizeof _rbuf and of _wbuf (16)
    Request,    \* bytes of a request
    Reply       \* bytes of a reply

ASSUME UartAssumption ==
    /\ Size \in 1 .. 128
    /\ Request \in Nat /\ Request > 0
    /\ Reply \in Nat /\ Reply > 0

VARIABLES
    rbuf, rfrnt, rback, rqty,   \* _rbuf, _rfrnt, _rback, _rqty
    wbuf, wfrnt, wback, wqty,   \* _wbuf, _wfrnt, _wback, _wqty
    txie,       \* UCA0TXIE is set
    txbuf,      \* UCA0TXBUF, or None: then its interrupt flag is set
    shift,      \* the byte on the line to the peer, or None
    pc,         \* where the program is
    asleep,     \* in LPM0
    got,        \* bytes the program has read of the request
    put,        \* bytes the program has written of the reply
    sent,       \* bytes the peer has sent of the request
    heard,      \* bytes the peer has received of the reply
    lost,       \* a byte of a request was overwritten before it was read
    moved       \* the line finished a byte since pc has been in Short

program == <<pc, asleep, got, put>>
rxring == <<rbuf, rfrnt, rback, rqty, lost>>
txring == <<wbuf, wfrnt, wback, wqty>>
line == <<txie, txbuf, shift>>
peer == <<sent, heard>>

vars == <<program, rxring, txring, line, peer, moved>>

None == 0       \* no byte has this number

Index == 0 .. Size - 1

(* Faulty: an index does not wrap around.                                  *)
FollowingUnwrapped(i) == i + 1

(* ++i; i &= sizeof buf - 1u; a ring's size is a power of 2.               *)
Following(i) == (i + 1) % Size

Init ==
    /\ rbuf = [i \in Index |-> None] /\ rfrnt = 0 /\ rback = 0 /\ rqty = 0
    /\ wbuf = [i \in Index |-> None] /\ wfrnt = 0 /\ wback = 0 /\ wqty = 0
    /\ txie = FALSE /\ txbuf = None /\ shift = None
    /\ pc = "get" /\ asleep = FALSE
    /\ got = 0 /\ put = 0 /\ sent = 0 /\ heard = 0
    /\ moved = FALSE /\ lost = FALSE

-----------------------------------------------------------------------------
(* The line and the interrupt handlers.                                    *)

(* Where the program stays for less time than a byte takes on the line.    *)
Short == {"full", "enable"}

TxPending == txie /\ txbuf = None

(* Bytes in the receiving ring that the program has not read.              *)
Unread == rqty - (IF pc = "count" THEN 1 ELSE 0)

(* The peer's next byte arrives, and its handler runs.                     *)
_rxdo ==
    /\ sent < Request
    /\ sent' = sent + 1
    /\ rbuf' = [rbuf EXCEPT ![rback] = sent']
    /\ rback' = Following(rback)
    /\ rqty' = (rqty + 1) % 256
    /\ lost' = (lost \/ Unread >= Size)
    /\ asleep' = FALSE
    /\ UNCHANGED <<pc, got, put, rfrnt, txring, line, heard, moved>>

(* Faulty: the handler leaves its interrupt enabled,                       *)
_txdoArmed ==
    /\ TxPending
    /\ IF shift = None
         THEN shift' = wbuf[wfrnt] /\ UNCHANGED txbuf
         ELSE txbuf' = wbuf[wfrnt] /\ UNCHANGED shift
    /\ wfrnt' = Following(wfrnt)
    /\ wqty' = (wqty - 1) % 256
    /\ asleep' = FALSE
    /\ UNCHANGED <<pc, got, put, rxring, wbuf, wback, txie, peer, moved>>

(* or does not leave the low power mode.                                   *)
_txdoNoWake ==
    /\ TxPending
    /\ IF shift = None
         THEN shift' = wbuf[wfrnt] /\ UNCHANGED txbuf
         ELSE txbuf' = wbuf[wfrnt] /\ UNCHANGED shift
    /\ wfrnt' = Following(wfrnt)
    /\ wqty' = (wqty - 1) % 256
    /\ txie' = (wqty' # 0)
    /\ UNCHANGED <<program, rxring, wbuf, wback, peer, moved>>

(* The transmitter's buffer is free. Its byte goes on to the line at once  *)
(* if that is free too. _wqty is a byte.                                   *)
_txdo ==
    /\ TxPending
    /\ IF shift = None
         THEN shift' = wbuf[wfrnt] /\ UNCHANGED txbuf
         ELSE txbuf' = wbuf[wfrnt] /\ UNCHANGED shift
    /\ wfrnt' = Following(wfrnt)
    /\ wqty' = (wqty - 1) % 256
    /\ txie' = (wqty' # 0)
    /\ asleep' = FALSE
    /\ UNCHANGED <<pc, got, put, rxring, wbuf, wback, peer, moved>>

(* The peer receives the byte on the line. Once it has the whole reply it  *)
(* sends its next request.                                                 *)
LineOut ==
    /\ shift # None /\ ~TxPending
    /\ pc \in Short => ~moved
    /\ heard' = IF heard + 1 = Reply THEN 0 ELSE heard + 1
    /\ sent' = IF heard + 1 = Reply THEN 0 ELSE sent
    /\ shift' = txbuf
    /\ txbuf' = None
    /\ moved' = (pc \in Short)
    /\ UNCHANGED <<program, rxring, txring, txie>>

-----------------------------------------------------------------------------
(* The program.                                                            *)

Runs(at) == pc = at /\ ~asleep /\ ~TxPending /\ moved' = FALSE

(* Faulty: once awake there is a byte.                                     *)
TestNothing ==
    /\ Runs("get")
    /\ pc' = "take"
    /\ UNCHANGED <<asleep, got, put, rxring, txring, line, peer>>

(* while (!_rqty) { LPM0; }: the test, *)
TestEmpty ==
    /\ Runs("get")
    /\ pc' = IF rqty = 0 THEN "empty" ELSE "take"
    /\ UNCHANGED <<asleep, got, put, rxring, txring, line, peer>>

(* and the instruction that sets the low power mode.                       *)
SleepEmpty ==
    /\ Runs("empty")
    /\ asleep' = TRUE
    /\ pc' = "get"
    /\ UNCHANGED <<got, put, rxring, txring, line, peer>>

(* __cg = _rbuf[_rfrnt]; ++_rfrnt; *)
Take ==
    /\ Runs("take")
    /\ got' = got + 1
    /\ rfrnt' = Following(rfrnt)
    /\ pc' = "count"
    /\ UNCHANGED <<asleep, put, rbuf, rback, rqty, lost, txring, line, peer>>

(* _DINT(); --_rqty; _EINT(); return. *)
CountTaken ==
    /\ Runs("count")
    /\ rqty' = (rqty - 1) % 256
    /\ pc' = IF got = Request THEN "put" ELSE "get"
    /\ put' = 0
    /\ UNCHANGED <<asleep, got, rbuf, rfrnt, rback, lost, txring, line, peer>>

(* Faulty: one byte too many.                                              *)
TestOverfull ==
    /\ Runs("put")
    /\ pc' = IF wqty > Size THEN "full" ELSE "store"
    /\ UNCHANGED <<asleep, got, put, rxring, txring, line, peer>>

(* while (sizeof _wbuf == _wqty) { LPM0; } *)
TestFull ==
    /\ Runs("put")
    /\ pc' = IF wqty = Size THEN "full" ELSE "store"
    /\ UNCHANGED <<asleep, got, put, rxring, txring, line, peer>>

SleepFull ==
    /\ Runs("full")
    /\ asleep' = TRUE
    /\ pc' = "put"
    /\ UNCHANGED <<got, put, rxring, txring, line, peer>>

(* Faulty: the byte is not followed by the next.                           *)
StoreHere ==
    /\ Runs("store")
    /\ put' = put + 1
    /\ wbuf' = [wbuf EXCEPT ![wback] = put']
    /\ pc' = "more"
    /\ UNCHANGED <<asleep, got, rxring, wfrnt, wback, wqty, line, peer>>

(* _wbuf[_wback] = src; ++_wback; *)
Store ==
    /\ Runs("store")
    /\ put' = put + 1
    /\ wbuf' = [wbuf EXCEPT ![wback] = put']
    /\ wback' = Following(wback)
    /\ pc' = "more"
    /\ UNCHANGED <<asleep, got, rxring, wfrnt, wqty, line, peer>>

(* _DINT(); ++_wqty; _EINT(); *)
CountStored ==
    /\ Runs("more")
    /\ wqty' = (wqty + 1) % 256
    /\ pc' = "enable"
    /\ UNCHANGED <<asleep, got, put, rxring, wbuf, wfrnt, wback, line, peer>>

(* UC0IE |= UCA0TXIE, and the next byte or the next request.               *)
Enable ==
    /\ Runs("enable")
    /\ txie' = TRUE
    /\ pc' = IF put = Reply THEN "get" ELSE "put"
    /\ got' = IF put = Reply THEN 0 ELSE got
    /\ UNCHANGED <<asleep, put, rxring, txring, txbuf, shift, peer>>

_cget == TestEmpty \/ SleepEmpty \/ Take \/ CountTaken

_cput == TestFull \/ SleepFull \/ Store \/ CountStored \/ Enable

Next == _rxdo \/ _txdo \/ LineOut \/ _cget \/ _cput

(* The peer sends all of a request, the line carries what it is given, an  *)
(* enabled interrupt is served, and the program runs unless it sleeps.     *)
Spec ==
    /\ Init /\ [][Next]_vars
    /\ WF_vars(_rxdo) /\ WF_vars(_txdo) /\ WF_vars(LineOut)
    /\ WF_vars(_cget \/ _cput)

-----------------------------------------------------------------------------
(* All variables keep their types.                                         *)
TypeOK ==
    /\ rbuf \in [Index -> 0 .. Request] /\ wbuf \in [Index -> 0 .. Reply]
    /\ {rfrnt, rback, wfrnt, wback} \subseteq Index
    /\ {rqty, wqty} \subseteq 0 .. 255
    /\ {txie, asleep, moved, lost} \subseteq BOOLEAN
    /\ {txbuf, shift, put} \subseteq 0 .. Reply
    /\ pc \in {"get", "empty", "take", "count",
               "put", "full", "store", "more", "enable"}
    /\ {got, sent} \subseteq 0 .. Request /\ heard \in 0 .. Reply - 1

(* The counts, which program and handlers change at different times, stay  *)
(* in step with the ends of the rings: those of the sending ring, which    *)
(* never overflows, always, those of the receiving ring until it has       *)
(* overflowed.                                                             *)
RingsInStep ==
    LET written == wqty + (IF pc = "more" THEN 1 ELSE 0)
    IN  /\ ~lost => Unread <= Size /\ (rback - rfrnt) % Size = Unread % Size
        /\ written <= Size /\ (wback - wfrnt) % Size = written % Size

(* The transmit interrupt is enabled exactly when the ring has something   *)
(* for it, but for the last instruction of _cput; and by then the handler  *)
(* has not emptied the ring again: enabled with an empty ring it would     *)
(* send old bytes, and count down from 0.                                  *)
InterruptArmed ==
    /\ txie => wqty > 0
    /\ wqty > 0 /\ ~txie => pc = "enable"
    /\ pc = "enable" => wqty > 0

(* The program reads the bytes that the peer sent, each once and in order, *)
(* until its ring has overflowed,                                          *)
ReadInOrder == [][got' > got /\ ~lost => rbuf[rfrnt] = got + 1]_vars

(* and the peer receives those that the program wrote.                     *)
HeardInOrder == [][heard' # heard => shift = heard + 1]_vars

(* Every request is answered, unless the ring has overflowed or the        *)
(* program sleeps with the rest of the request in its ring: no other       *)
(* interleaving loses a wakeup.                                            *)
LostWakeup == asleep /\ pc = "get" /\ rqty > 0

RequestAnswered == sent = Request ~> (sent = 0 \/ LostWakeup \/ lost)

-----------------------------------------------------------------------------
(* "Wait if empty.": the program does not wait when there is a byte.       *)
WaitIfEmpty == ~LostWakeup
=============================================================================
