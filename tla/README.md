# ClassicX in TLA+

ClassicX is a small server for version 0 to 7 of a classic block game protocol.
It has two parts: `mccp`, a library that reads and writes protocol packets piece
by piece, and `cxlvlsim`, a one-player server on top of it that runs on a PC
(standard input and output) or on an MSP430 microcontroller with 512 bytes of
RAM (a serial line). A Python script connects the serial line to TCP clients.

## Inventory

| Part | Code | State | Operations | What makes it correct |
|---|---|---|---|---|
| Vocabulary | `mccp/include/mccp.h`, `mccp/src/api.c`, `mccp/src/mccp.c` | none | packet numbers to events and back, lengths of types | the tables agree with each other and with the readers and writers |
| Reading | `mccp/src/rct.c`, `mcsread` in `api.c` | `session.r`: `rem`, `evt`, `type`; `session.curpv` | one reader per field type | packets are never taken out of frame, whatever pieces the bytes come in |
| Writing | `mccp/src/wse.c`, `mcswr` in `api.c`, the senders of `client.c` | `session.w`; the sender's 16 byte buffer, index and data pointers | one writer per event and per field; one sender per event | packets go out whole and in order through a buffer shorter than they are; a sender returns; nothing is left over for the next one |
| Session | `cxlvlsim/src/client.c`, `lvlsim.c`, input of `stdc.c` | the next type, the joined flag, the player's name, the update counter | `cloop` and its handlers, `initseq` | the loop asks for what the client sends; what is sent has a meaning to the client; every packet has an answer |
| Serial port | `cxlvlsim/src/msp430.c` | two rings with fronts, backs and counts; interrupt enables; the sleep mode | `_cget`, `_cput`; the interrupt handlers `_rxdo`, `_txdo` | bytes in order, none lost or invented, no lost wakeup |
| Relay | `cxlvlsim/localsrv.py` | bytes read from the serial line so far | read from TCP, write to serial, read until a byte 1, send to TCP | all the server says reaches the client |
| Positions and the shadow | `mcescmp`, `dcheck`, `d3chk`, `mcbcec`; `ctactrstat`, `initseq` | `z->cent`, the player's last state | how two states differ; the clone's answer to a move | byte differences add up to what the player moved; the clone is opposite to the player |
| Level data | `level.c`, `lmicro.c`, `lnano.c` | constants | `lload` copies them | - |
| Names and messages | `ctname`, `ctmsg`; `strim`, `slen`, `scopy` of `stdc.c` and of `msp430.c` | `ctname`'s static `nbuf`, `z->cent.enln`, `cloop`'s input buffer | trim a name, echo a message behind it | both platforms find the same end of a string; nothing of an earlier name or message shows |
| File mapping | `file.c` | a table of slots, `fnext` | `fmap`, `funmap` | slots are not shared or leaked; no caller in the running server |
| The rest | `wst.c`, `winapi.c`, `console.c`, `server.c`, `scripts.c`, `Heartbeat.cpp`, ... | - | - | not called, commented out, or thin wrappers of system calls |

How they interact: `start` calls `cloop` for ever. `cloop` asks `mcctlen` how
long the next field is, blocks in `input` for as many bytes, and passes them to
the handler of the field's type, which calls `mcsread`; that returns the type of
the field after. A handler that has read the last field of a packet calls the
senders, each of which calls `mcswr` until a packet is in the hands of `output`.
On the MSP430 `input` and `output` share rings with interrupt handlers; the PC
build uses the C library. The server has no threads: its concurrency is that of the
program with its interrupts, and of the server with its peers. (`file.c` is
written for threads, but so far nothing calls it.)

What is hard here: everything that depends on where a packet is cut (input in
pieces, a buffer of 16 bytes, a relay that guesses where replies end), the
optional fields of the greeting (a version 0 client sends none, not even the
version), state left over from one packet to the next, the order of interrupts
and program steps, an end of the input in the middle of a packet, strings that
end with blanks, with a NUL or with their buffer, and a table whose free slot is
looked for at one time and taken at another.
`PROJECT.json` lists each hazard with its line under `hazards`.

## Modules

| Module | Models | Notes |
|---|---|---|
| `Mccp` | the vocabulary | `cedecode`, `seencode`, `mcctlen`, `mcstlen` are the code's tables |
| `Rct` | `rct.c`, `mcsread` | a reader is an operator from a session and the caller's bytes to the session after; `Taken` is what it returns |
| `ClientPackets` | what clients send | the layout the readers expect, by the version the greeting announces |
| `PacketStream` | *abstract*: what a serializer of packets promises | refined by `ServerReader` and by `ServerWriter` |
| `ServerReader` | `mcsread` called with any pieces of any packets | one action per reader |
| `ServerReaderProofs` | | theorems about `ServerReader` |
| `Wse` | `wse.c` | a field writer is a record (length, what it returns when short, what it sets `rem` to, whether it is the last); an event's writer is the sequence of its fields |
| `ServerWriter` | the senders of `client.c` calling `mcswr` | one action per stage: packet number, field, return to the sender, end |
| `ServerWriterProofs` | | theorems about `ServerWriter` |
| `Session` | `start`, `cloop`, all handlers, `initseq` | one action per handler; a step is a call of `cloop` with all it sends |
| `SessionProofs` | | theorems about `Session` |
| `Uart` | `msp430.c` | program steps between which an interrupt may come, the handlers, and the line |
| `Positions` | the arithmetic of positions, and their bytes | 16 and 8 bit numbers; a heading's byte is the set of its bits |
| `Shadow` | the clone that follows the player | the client's idea of the clone is what it was sent, added up |
| `ShadowProofs` | | theorems about `Shadow` |
| `UartProofs` | | theorems about `Uart` |
| `Names` | names and messages | characters are one-letter strings; arrays count from 1 where C counts from 0 |
| `NamesProofs` | | theorems about `Names` |
| `FileMap` | `file.c` | one action per critical section, per call of the system and per slot that `funmap` looks at |
| `FileMapProofs` | | theorems about `FileMap` |
| `Relay` | `localsrv.py` | the server behind it answers each whole packet with one of a set of replies; `odd` remembers what the relay is not made for |
| `RelayProofs` | | theorems about `Relay` |
| `MC...` | | the instances for TLC |

`Session` builds on `ServerReader`'s view of reading (it calls the same `mcsread`) and on
`ServerWriter`'s result that a sender puts one whole packet on the wire: what it
sends is a sequence of packets, not of bytes. `Names` looks into the names and
messages of which `Session` only knows whether a name is accepted. `Shadow` looks into the updates that
`Session` only tells apart by their kind, and `Relay` into what happens to the
replies whose pings `Session` counts.

Definitions named with a comment that starts with "Faulty" are wrong on
purpose: each is a plausible mistake in the definition that follows it, kept to
show that a property notices it (`mutants` in `PROJECT.json`).

### State and actions

* `ServerReader`: `ctx` is `struct mcx` reduced to `curpv` and `r`; `pkt` and
  `pos` are the client's side, the packet it is sending and how much of it has
  been taken. Each `Read...` is one call of `mcsread` with `qty` bytes, 0 to `MaxQty`.
* `ServerWriter`: `w` is `session.w`; `left` the lengths behind the data
  pointers (`gnln`, `gmln`, `cdln`, `enln`, `mlen`) or `Null`; `idx` the buffer
  index of the sender, `acc` that of the event's writer relative to it. `len`
  of the sender is always `OutLen - idx` and `qty` of the writer
  `OutLen - idx - acc`, so they are no variables. A writer's loop may move `acc`
  below 0, as the C code would move its pointer. A new entity may be sent with the
  length -1 of a refused name (`Refused`): `Overrun` is the end of what can be said of
  the program then.
* `Session`: `nxt` is `ct` in `start`; `flg`, `named`, `enln`, `ctr` are
  `z->flg[0]`, whether `z->cent.enam` is set, `z->cent.enln` and the static
  counter. `view` is the client's: the level and the entities it has been told
  of, from the packets decoded by number in its own version.
* `Uart`: the eight ring variables, `asleep` (LPM0), `txie`, the transmitter's
  buffer and shift register. `moved` is only there to say that one short run of
  instructions does not last two bytes on the line (8 MHz divided by 69 is 115200 baud,
  some 690 cycles for a byte), and `lost` to say that a byte nobody had read was
  overwritten: requests may be longer than the ring.
* `Names`: `in` is `cloop`'s buffer, `nbuf` the static one of `ctname`, `enln`
  is `z->cent.enln`. `name` and `out` are the reference: the name the last
  accepted greeting gave, and what a message was logged and echoed as. An
  action is a whole handler, after an input of any number of bytes (fewer than
  a field has at the end of the file).
* `FileMap`: `fnext`, `hFile`, `hFileMapping`, `lpcFile` are the table; `pc`,
  `file`, `mapping`, `slot`, `ptr` belong to each thread. `opened`, `views` and `held` are the
  world: which files are open, what addresses show, which pointers the program has been
  given and has not passed to `funmap` (it passes each once). A handle is the file it
  opens, and one that is closed closes nothing. Each call of the system is a step, and so is
  each slot that `funmap` looks at; what is in the critical section is one step.
  `shown`, `full` and `stale` are history: what a thread's pointer showed when it called
  `funmap`, that the last free slot was taken, and that an address was given again
  that a slot still had.
* `Shadow`: `cent` is `z->cent`, `clone` the state the client has for entity 0:
  replaced by a spawn or an absolute state, changed by a difference. A step of
  `ctactrstat` is the whole handler, with the respawn and the second welcome at the two
  milestones of the counter. `old` is version 0, which has no differences.
* `Relay`: `relay` is the program counter of the inner loop, `outbuf` the
  reply so far; `tcp`, `serial`, `part` and `said` are what is under way. A reply is a
  sequence of pings, other bytes that are 1, and the rest. `owed` counts the
  packets the present client has sent and not been answered. `odd` is history: a packet passed
  on in part (`cut`) or sent without waiting (`early`), a reply with another byte 1 (`one`),
  without a ping at its end (`silent`), or with one before that (`more`). All of these
  happen in the model; properties say what holds until one does.

## Runs

| Run | Shows | Bounds |
|---|---|---|
| `reader` | `Framing`, `FieldOfPacket`, the inductive invariant, and that reading implements `PacketStream` | the real string length; pieces of 0 to 66 bytes, so none, a part, all and more of a field; every packet and an unknown one; versions on both sides of each test |
| `writer` | `BufferBounds`, `PacketWhole`, `SessionReady`, `SenderReturns`, and that writing implements `PacketStream` | the real lengths 16, 64 and 1024; strings of 1 to 64 and chunks of 1 to 1024 bytes, chosen around the buffer's edges; the length of a refused name; all events client.c sends, in any order, so each follows each |
| `session` | `LoopInStep`, `JoinedIsComplete`, `CounterBounded`, `ReplyInPlace`, `ReplyHasEnd`, `HangupIsNoticed`, `PacketIsRead` | strings of 4 bytes (a string is input in one piece, its length only has to differ from 1 and 8), the milestones 512 and 1024 of the counter at 2 and 4, which keeps their order and the reset between them |
| `uart` | `RingsInStep`, `InterruptArmed`, `ReadInOrder`, `HeardInOrder`, `RequestAnswered` | the real rings of 16; requests of 20 bytes, which overflow the receiving ring when the program is slow, and replies of 27, so the sending ring, the transmitter and the line are full together and the indices meet in all positions |
| `shadow` | `NoDrift`, `HeadFollows`, `BlockHoldsPlayer`, `BytesKeepStates` | the real 16 and 8 bit numbers; steps of 127, 128 and -128 on each axis, the middle of the level and both ends of the 16 bits; turns by yaw, phi and both; the milestones at 2 and 4 |
| `relay` | `FreshConnection`, `WholeReply`, `RepliesArrive` | packets of 2 bytes that TCP may cut or join; replies of each kind: ended by their only ping, with a byte 1 in the middle, without a ping, with a ping before the end; up to two packets sent ahead, and with more than `MaxLag` = 4 bytes under way none; serial reads of any length; clients that leave at any time |
| `names` | `TrimIsExact`, `EchoIsNameAndText` | strings of 6 characters, names of up to 3, so that a name can be too long, fill its buffer or be shorter than the one before, and name and message can fill the string or not; letters, blanks and NULs before, inside and behind each other; reads of every length |
| `filemap` | `NextIsFree`, `UnmapReleases` | two files and two threads with a table of 3 slots, all of which are taken when a file is opened again before `funmap` has freed the slot it had; three addresses, each given again; every call of the system may fail |

Deadlock is not checked in `reader` (a client that sends a packet of an unknown
number is read no further), `writer` (after `Overrun`), `session` (the process ends),
`uart` (the lost wakeup, below, or an overflow), `relay` (it and its client may wait for each
other for good) and `filemap` (files whose mapping failed stay open for ever).

The other runs look for a violation, each of one thing a comment says:

| Run | Comment | What happens |
|---|---|---|
| `refused_name` | "Clamped signed byte (~0-127)." | a greeting of version 3 or later with a name that is refused goes on with password and flags, and the player joins with a name of length -1; update 512 and `/s` then make `mcopy_` count down from -1, far out of the 16 byte buffer (`Overrun` in `ServerWriter`) |
| `equal_is_same` | "Equal" | a turn by the same bits in yaw and phi compares as equal, and is ignored |
| `same_at_opposite` | "Send back the same state at opposite side." | the clone is spawned where it is not opposite to `z->cent`, and small moves leave it there |
| `wait_if_empty` | "Wait if empty." | a byte that arrives between the test and the sleep is slept over; if it ends a request, for ever |

Things met while modelling that no run of its own shows:

* A greeting may say any version up to 31 (rct.c:59), though "Max supported protocol
  version." is 7. With 8 no field has a length any more: `mcctlen` is 0 for every type, the
  loop spins without reading, and does not notice that the client hangs up. 8 is in
  `MCVersionBytes`; `PacketIsRead` and `HangupIsNoticed` excuse it (`~Supported`), and TLC finds
  each violated without that excuse.
* For a greeting that says version 0 in a byte of its own, `rctVersion` (rct.c:61)
  expects a name of `StrLen` bytes, and `mcctlen` (api.c:169) answers one less: the
  loop takes it for the short name and puts the version in front of it. With 0 in
  `MCVersionBytes` TLC finds `LoopInStep` violated, and `LoopCorrect` assumes that
  no greeting has it. Clients of version 0 leave the version out, and `session`
  has those.
* A name of nothing but blanks is trimmed to one blank on both platforms, so the
  length is never 0, and "You don't have a name!" (client.c:262) is never sent.
* `slen` looks at the byte behind a full buffer before it counts to 64.
* `fmap`'s test for a full table (file.c:57) can never be true: when all slots
  are taken, `fnext` stays at the last one, and the next file overwrites it. When
  the mapping of a file fails, the file stays open in its slot, with a null
  pointer that nobody passes to `funmap`. `funmap` leaves the address in
  the slot that it frees: if the system gives that address again, to a file in a
  later slot, the later file is not closed (without `~stale` TLC finds
  `UnmapReleases` violated). The critical section is
  never initialised. And `funmap` of a pointer that is not in the table writes
  behind its end (file.c:162).
* A version 0 client that quits is sent a goodbye, although `mcsemax`
  ("Maximum server event by version.") says that its version has none; `mcswr`
  does not look at it.
* "Ping to mark the end.": at update 512 the reply goes on after its first ping,
  where the relay may already have stopped reading.
* Of `odd` in `Relay`: once a data byte 1 is at the end of a serial read it is dropped and
  the reply ended there (`one`); a packet that TCP delivers in pieces, or a reply without
  a ping, like the goodbye to a refused name, leaves relay and server waiting for each
  other (`cut`, `silent`); a client that does not wait, or a reply that goes on after a
  ping, leaves something on the serial line for the next client (`early`, `more`). TLC
  finds `WholeReply`, `FreshConnection` and `RepliesArrive` violated without their
  conditions on `odd`.

## Fairness

* `ServerWriter`: weak fairness of the sender's steps: a C function runs until it returns.
* `Session`: weak fairness of `cloop`: `start` calls it in a loop, and the action
  is enabled only when `input` would return. Clients owe nothing.
* `Uart`: the program runs unless it sleeps, a pending enabled interrupt is
  served, the line delivers what it was given, and the peer sends the rest of a
  request it has begun. Interrupts precede program steps by the guards.
* `Relay`: its loop runs, and the server answers what it has read. Clients owe nothing;
  they need not wait, and TCP need not deliver packets whole.
* `Shadow`, `Names` and `FileMap` have only safety properties and no fairness.

## Theorems

`ServerReaderProofs` proves, for every length of strings, every set of packets
and every bound on the pieces (assumptions `LengthAssumption`,
`PacketAssumption`, `ReaderAssumption`; the last restricts greetings to
supported versions, which is needed: with version 8 no field has a length):

* `Invariance`: `ReaderInv` is inductive. `Framing` by itself is not: that the
  session stands at the right byte depends on how much of the current string is
  left, on the version the greeting announced, and on the event being the
  packet's own. `ReaderInv` says so, with `Offset` giving the position of each field.
* `TypeCorrect`, `FramingCorrect`, `FieldsCorrect` follow from it.
* `Refinement`: the reader implements `PacketStream`. Every action but
  `NextPacket` moves forward in the packet or stutters, and by `BoundaryFacts`
  the session is idle exactly at the packet's ends.

There is one lemma per action, and the three string readers share `StringStep`,
`PartOfString`, `EndOfPacket` and `NextField`.

`ShadowProofs` proves `TypeCorrect`, `DriftFree`, `HeadCorrect`, `BlockCorrect`
and `WireCorrect` for every set of 16 bit positions, every heading and every pair
of milestones (`ShadowAssumption`). `TypeOK` is inductive. `DriftFree` rests on
arithmetic: numbers that differ by a multiple of 65536 wrap to the same short
(`WrapSame`), a difference that `dcheck` lets through survives the byte with
either sign (`DifferenceFits`), and so the clone's distance from its place is
the same after it along every axis (`MirroredAxis`, `PlainAxis`, `SlideKeepsOff`).
`WireCorrect` is that of the bytes: `readi` undoes `writei` for every short
(`IntegerReadBack`), and the three integers of a vector lie behind each other
(`VectorReadBack`).

`ServerWriterProofs` proves `TypeCorrect`, `BufferCorrect`, `ReadyCorrect`,
`WholeCorrect` and `Refinement` (of `PacketStream`) for any strings, chunks,
versions and buffers that satisfy `WriterAssumption`. The inductive
invariant `WriterInv` says in `Stage` that `Position`, the bytes output, held and
written by this call, is where the serializer says it is: at the start of
the field (`Offset`), or as far into its data as `rem` leaves (`UnderWay`), or at the
packet's end (`AllWritten`). `FieldFacts` shows from the tables of `wse.c` that
each field leads to the next or ends the packet. Short of
room `estwtr`, `i3wti0` and `i3wtr` return an error, where the other writers
return 0, and it would be added to the bytes that a call has written. `RoomFacts`
shows that they always have room: the packets of `segeneric` fit in the buffer, and
the state of a new entity does by
`Flushed`: a sender of data outputs full buffers only, so what the buffer holds
is `Position` modulo `OutLen` (`Remainder`), and the last conjunct of
`WriterAssumption` says that the state of a new entity, the only one behind a
string, never falls across the end of a buffer. With 16 bytes and strings of 64 it
holds; the code has no check for it. Strings include that of a refused name: `Ahead`
says that only a new entity has it, and `OverrunInv` that `Overrun` is where it leads; from there
the sender does not return, which is why `SenderReturns` and `SenderEnds` allow it. `SenderEnds` is the safety half of
`SenderReturns`: each step of a sender lowers the natural number `StepsLeft`, four
for each byte not yet written and the rank of its place in the loop
(`FewerSteps`), so no field and no overflow of the buffer can keep it going.

`UartProofs` proves `TypeCorrect`, `RingsCorrect`, `ArmedCorrect`, `ReadCorrect`
and `HeardCorrect` for rings of any size up to 128 and requests and
replies of any length (`UartAssumption`). What they say of the receiving ring ends
when it overflows (`lost`); nothing in the code prevents that. The inductive invariant `UartInv` says
which bytes are where: `Receiving`, that until it overflows the receiving ring has exactly the bytes
of the request that were sent and not read, in order, from its front on (`Held`);
`Sending`, the same of the reply, through the sending ring, the transmitter's
buffer and the line; `Phases`, how far program and peer are, in each
place of the program; and `Armed`, that the handler takes at most
one more byte between the counting of a byte and the enabling of the interrupt,
because `moved` says the line is too slow for two. The counts are bytes:
that they do not wrap, the first until an overflow, is a part of it. `At(i, k)` is the index k behind i, and
`AtFacts` has all there is to know of it. There is one lemma per action; the steps
that only test or sleep share one.

`SessionProofs` proves `TypeCorrect`, `JoinedCorrect`, `PlaceCorrect`,
`CounterCorrect`, `EndCorrect`, `LoopCorrect` and `AdvanceCorrect` for strings of any
length, any packet numbers and version bytes, any number of chunks of the
level and any milestones in order (`SessionAssumption`). `CounterBounded` is
inductive once `ctr` is a number. `EndCorrect` rests on `Typed`, by which
the loop expects what the session does, except that after a state of which a
part is missing it goes on with another packet; so only handlers that answer
can get from a field back to a packet number, and `LastOfConcat` says
that an answer ends as its last part. `LoopCorrect` needs the place of the loop in the
client's packet: `Place` gives for each field the bytes input before it, the
version the greeting announced and the length still to come, and `ReadInStep`
shows field by field that `cloop` asks for the bytes that `mcsread` takes. Its hypothesis is
that no greeting says version 0 in a byte of its own. From the same invariant follows
`AdvanceCorrect`, the safety half of `PacketIsRead`: while the client is there each
call reads some of its packet, and nothing behind it (`AskedFits`).

`FileMapProofs` proves `TypeCorrect`, `SlotFree` and `UnmapCorrect` for any number
of slots, files, threads and addresses (`FileMapAssumption` asks for one slot).
`TypeCorrect` holds whatever happens; `SlotFree` until the table is full, by `FreeFound`:
`getfree` finds a free slot if there is one. `UnmapCorrect` holds until the table was
full or an address was given again that a slot still had, and rests on `Invariance`, by which
`Tidy` holds until then: each open file has one slot; a thread between its claim and the end
of `fmap`, or between finding a slot and clearing it, has a slot of its own; a taken slot belongs
to an open file or to a thread about to clear it; every pointer the program has is in the
slot of the file it shows; and a thread that looks for one has not passed its slot. There is
one lemma per action.

`JoinedCorrect` and `PlaceCorrect` are about all that a client has been sent. `Seen`
is a recursive function over the packets of an answer, of which a
welcome has as many as the level has chunks. `IsRun` says what its values are;
`RunExists` that there is such a function and `RunsAgree` that there is only
one, both by `Induction`, which follows from `Least`, that a set of natural
numbers has a least element. `SeenConcat` takes an answer apart into its
packets, and `SeenWelcome`, `SeenReturn`, `MessageSeen` and `MovesSeen` say what each
kind of answer makes of the client's view. The invariant `JoinedInv` is then short: the
view is one of those that an answer can leave, a password or flags are
expected only of a client that has been through `ctname`, and whoever has joined has been, too,
and has the view `Joined`. A name that was refused lets a player join only if the greeting has
more fields, from version 3 on: `refused_name` shows that it then does.

`RelayProofs` makes no assumption about replies, clients or TCP but that packets and replies are
not empty (`RelayAssumption`): what the relay is not made for is in `odd`, and each theorem says how
far it reaches. `TypeCorrect` holds always; `Invariance`, `FreshCorrect` and `WholeCorrect`
until something odd has happened. The invariant `InStep` has three cases. `Waiting`: nothing
is on the serial line, and TCP has at most one packet, and only if an answer is owed.
`Asking`: the packet has not all arrived at the server. `Answering`: there is one reply
r and a k so that the relay has the first k bytes of r and the serial line the rest; since the only byte 1 of r is the ping at its end the relay
leaves its loop exactly when the line is empty. So the client has got r whole, and one that left
meanwhile leaves nothing to the next. `ReplyWillCome` needs only that no packet was cut and
no reply was without a ping at its end: then what the server has to read is whole
packets (`Whole`), and the relay never reads from a server that has nothing to read and
nothing more to say.

`NamesProofs` proves `TypeCorrect`, `TrimCorrect` and `EchoCorrect` for strings of
any length, names and messages of any characters, and both platforms
(`NamesAssumption`). The loops of `strim` and `slen` are recursive functions.
`BackDoIs`, `BackWhileIs`, `DownIs` and `UpIs` show that each is the function
that has at every place what the loop looks for (`Trim`, `Stop`): that function
solves the loop's equation (`TrimFacts`, `StopFacts`), and by `Agree` every
solution is the same. So the platforms agree, and `strim` finds the
shortest prefix behind which are only blanks. `NameInv` says that while `enln` is
positive `nbuf` shows the name accepted last and a NUL behind it. `EchoCorrect`
needs more than that, because a name may have a NUL in it, behind which
`scopy` writes only NULs, while `ctmsg` still puts the colon at `enln`: by
`SameString` buffers that agree up to the first NUL show the same string.

Only model-checked is liveness (`SenderReturns`, `HangupIsNoticed`, `PacketIsRead`,
`RequestAnswered`, `RepliesArrive`), as the
prover has neither fairness nor `ENABLED`, and what the faulty definitions break.
Of `SenderReturns`, `PacketIsRead` and `RepliesArrive` the safety half is proved
(`SenderEnds`, `AdvanceCorrect`, `ReplyWillCome`): there TLC adds only that a step is
possible and taken.

## Plan

1. (done) `Mccp`, `Rct`, `ClientPackets`, `PacketStream`, `ServerReader`, its theorems.
2. (done) `Session`.
3. (done) `Wse`, `ServerWriter`.
4. (done) `Uart`.
5. (done) `Relay`.
6. (done) `Positions`, `Shadow`, `FileMap`, `Names`; theorems about `Shadow`,
   `Uart`, `FileMap`, `Session` and `ServerWriter`.
7. (done) The rest of the theorems about `Session`; theorems about `Relay` and `Names`.

## Not modelled

The contents of levels, the texts of messages and logging. `wst.c` is in no build
(`mccp/.cproject` excludes it, `mccp.vcxproj` does not list it); its layout of packets is
what `ServerPacketLen` checks `wse.c` against. `winapi.c`, `console.c` and
`bsdsock.c` wrap system calls, and the task queue of `winapi.c` has nothing that
puts tasks into it. `scripts.c` is commented out; `server.c`, `Tools.c`,
`Heartbeat.cpp` and others are not reached from `start`. `level.c` copies three
constants, `lmicro.c` and `lnano.c` are data.
`_rxdo` has no check for overflow: `Uart` follows what happens to the bytes, but not how
fast the program is against the line, so whether a
greeting overflows the ring is a matter of timing.
