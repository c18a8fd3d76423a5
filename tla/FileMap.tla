------------------------------- MODULE FileMap -------------------------------
(***************************************************************************)
(* The table of mapped files: fmap opens a file, takes a slot of the table *)
(* and maps the file; funmap looks for the slot with a pointer, releases   *)
(* what the slot holds, and frees it. Threads share the table; only        *)
(* fmap's taking of a slot is in a critical section.                       *)
(*                                                                         *)
(* A file is opened without sharing, so that it cannot be opened again     *)
(* until it has been closed, and its handle is the file.                   *)
(*                                                                         *)
(* Two auxiliary variables remember what the table is not made for: that   *)
(* it was full, and that the system gave an address again which a slot,    *)
(* although it is free, still has. After that funmap may close handles     *)
(* that are closed, and here these close nothing.                          *)
(***************************************************************************)
EXTENDS Integers

CONSTANTS
    Slots,      \* FILEMAPPINGDATA_BUFFER_SIZE (8)
    Files,      \* the files of the program
    Threads,    \* the threads that map them
    Addresses,  \* where the system puts them
    Null        \* no handle or no address

ASSUME FileMapAssumption ==
    /\ Slots \in Nat /\ Slots > 0
    /\ Null \notin Files \cup Addresses

VARIABLES
    fnext,      \* the slot that the next file takes
    hFile, hFileMapping, lpcFile,   \* the table: handle, whether there is a
                                    \* mapping to close, address
    opened,     \* the files that are open
    views,      \* the files that addresses show
    held,       \* the addresses the program has been given
    pc, file, mapping, slot, ptr,   \* where each thread is, and its locals
    shown,      \* what a thread's pointer showed when it called funmap
    full,       \* a file took the last free slot
    stale       \* an address was given that another slot still has

table == <<hFile, hFileMapping, lpcFile>>

locals == <<file, mapping, slot, ptr, shown>>

vars == <<fnext, table, opened, views, held, pc, locals, full, stale>>

SlotIds == 0 .. Slots - 1

Init ==
    /\ fnext = 0
    /\ hFile = [i \in SlotIds |-> Null]
    /\ hFileMapping = [i \in SlotIds |-> FALSE]
    /\ lpcFile = [i \in SlotIds |-> Null]
    /\ opened = {} /\ held = {}
    /\ views = [a \in Addresses |-> Null]
    /\ pc = [t \in Threads |-> "idle"]
    /\ file = [t \in Threads |-> Null]
    /\ mapping = [t \in Threads |-> FALSE]
    /\ slot = [t \in Threads |-> 0]
    /\ ptr = [t \in Threads |-> Null]
    /\ shown = [t \in Threads |-> Null]
    /\ full = FALSE /\ stale = FALSE

Goto(t, from, to) == pc[t] = from /\ pc' = [pc EXCEPT ![t] = to]

(* The first of some slots. *)
First(S) == CHOOSE i \in S : \A j \in S : i <= j

-----------------------------------------------------------------------------
(* fmap *)

(* CreateFileA succeeds; if it doesn't, nothing has happened.              *)
OpenFile(t) ==
    /\ Goto(t, "idle", "opened")
    /\ fnext # Slots
    /\ \E f \in Files \ opened :
          /\ opened' = opened \cup {f}
          /\ file' = [file EXCEPT ![t] = f]
    /\ UNCHANGED <<fnext, table, views, held, mapping, slot, ptr, shown, full, stale>>

Free(handles) == {i \in SlotIds : handles[i] = Null}

(* Finds the first free file slot; if there is none, fnext stays.          *)
getfree(handles) == IF Free(handles) = {} THEN fnext ELSE First(Free(handles))

(* Faulty: the slot after is taken to be free,                             *)
ClaimNext(t) ==
    /\ Goto(t, "opened", "claimed")
    /\ hFile' = [hFile EXCEPT ![fnext] = file[t]]
    /\ slot' = [slot EXCEPT ![t] = fnext]
    /\ fnext' = fnext + 1
    /\ full' = (full \/ Free(hFile') = {})
    /\ UNCHANGED <<hFileMapping, lpcFile, opened, views, held,
                   file, mapping, ptr, shown, stale>>

(* or the search comes before the slot is taken.                           *)
ClaimLate(t) ==
    /\ Goto(t, "opened", "claimed")
    /\ hFile' = [hFile EXCEPT ![fnext] = file[t]]
    /\ slot' = [slot EXCEPT ![t] = fnext]
    /\ fnext' = getfree(hFile)
    /\ full' = (full \/ Free(hFile) = {})
    /\ UNCHANGED <<hFileMapping, lpcFile, opened, views, held,
                   file, mapping, ptr, shown, stale>>

(* The critical section. *)
Claim(t) ==
    /\ Goto(t, "opened", "claimed")
    /\ hFile' = [hFile EXCEPT ![fnext] = file[t]]
    /\ slot' = [slot EXCEPT ![t] = fnext]
    /\ fnext' = getfree(hFile')
    /\ full' = (full \/ Free(hFile') = {})
    /\ UNCHANGED <<hFileMapping, lpcFile, opened, views, held,
                   file, mapping, ptr, shown, stale>>

(* CreateFileMapping, which may fail, *)
CreateMapping(t) ==
    /\ Goto(t, "claimed", "created")
    /\ \E ok \in BOOLEAN :
          /\ mapping' = [mapping EXCEPT ![t] = ok]
          /\ hFileMapping' = [hFileMapping EXCEPT ![slot[t]] = ok]
    /\ UNCHANGED <<fnext, hFile, lpcFile, opened, views, held,
                   file, slot, ptr, shown, full, stale>>

(* and MapViewOfFile: after a failure the file stays open, and in its slot.*)
MapView(t) ==
    /\ Goto(t, "created", "idle")
    /\ \/ /\ lpcFile' = [lpcFile EXCEPT ![slot[t]] = Null]
          /\ UNCHANGED <<views, held, stale>>
       \/ \E a \in Addresses :
             /\ mapping[t] /\ views[a] = Null
             /\ lpcFile' = [lpcFile EXCEPT ![slot[t]] = a]
             /\ views' = [views EXCEPT ![a] = file[t]]
             /\ held' = held \cup {a}
             /\ stale' = (stale \/ \E i \in SlotIds \ {slot[t]} : lpcFile[i] = a)
    /\ UNCHANGED <<fnext, hFile, hFileMapping, opened, locals, full>>

-----------------------------------------------------------------------------
(* funmap *)

(* A pointer of fmap is given back, once; the search starts at slot 0.     *)
Start(t) ==
    /\ Goto(t, "idle", "find")
    /\ \E a \in held :
          /\ ptr' = [ptr EXCEPT ![t] = a]
          /\ shown' = [shown EXCEPT ![t] = views[a]]
          /\ held' = held \ {a}
    /\ slot' = [slot EXCEPT ![t] = 0]
    /\ UNCHANGED <<fnext, table, opened, views, file, mapping, full, stale>>

(* A slot without the pointer is passed over. *)
Pass(t) ==
    /\ pc[t] = "find" /\ slot[t] # Slots
    /\ lpcFile[slot[t]] # ptr[t]
    /\ slot' = [slot EXCEPT ![t] = slot[t] + 1]
    /\ UNCHANGED <<fnext, table, opened, views, held, pc,
                   file, mapping, ptr, shown, full, stale>>

(* The first slot with the pointer, or the end of the table.               *)
Find(t) ==
    /\ Goto(t, "find", "found")
    /\ slot[t] # Slots => lpcFile[slot[t]] = ptr[t]
    /\ UNCHANGED <<fnext, table, opened, views, held, locals, full, stale>>

(* UnmapViewOfFile, which may fail. *)
Unmap(t) ==
    /\ \/ /\ Goto(t, "found", "unmapped")
          /\ slot[t] # Slots /\ views[ptr[t]] # Null
          /\ views' = [views EXCEPT ![ptr[t]] = Null]
       \/ Goto(t, "found", "clear") /\ UNCHANGED views
    /\ UNCHANGED <<fnext, table, opened, held, locals, full, stale>>

(* CloseHandle(hFileMapping): where there is none, the file isn't closed   *)
(* either.                                                                 *)
CloseMapping(t) ==
    /\ Goto(t, "unmapped", IF hFileMapping[slot[t]] THEN "closing" ELSE "clear")
    /\ hFileMapping' = [hFileMapping EXCEPT ![slot[t]] = FALSE]
    /\ UNCHANGED <<fnext, hFile, lpcFile, opened, views, held, locals, full, stale>>

(* Faulty: the file is left open. *)
CloseNothing(t) ==
    /\ Goto(t, "closing", "clear")
    /\ UNCHANGED <<fnext, table, opened, views, held, locals, full, stale>>

(* CloseHandle(hFile) *)
CloseFile(t) ==
    /\ Goto(t, "closing", "clear")
    /\ opened' = opened \ {hFile[slot[t]]}
    /\ UNCHANGED <<fnext, table, views, held, locals, full, stale>>

(* The slot is free again; what has no slot is written behind the table.   *)
Clear(t) ==
    /\ Goto(t, "clear", "idle")
    /\ hFile' = [i \in SlotIds |-> IF i = slot[t] THEN Null ELSE hFile[i]]
    /\ UNCHANGED <<fnext, hFileMapping, lpcFile, opened, views, held,
                   locals, full, stale>>

-----------------------------------------------------------------------------
fmap(t) == OpenFile(t) \/ Claim(t) \/ CreateMapping(t) \/ MapView(t)

funmap(t) ==
    \/ Start(t) \/ Pass(t) \/ Find(t)
    \/ Unmap(t) \/ CloseMapping(t) \/ CloseFile(t) \/ Clear(t)

Next == \E t \in Threads : fmap(t) \/ funmap(t)

Spec == Init /\ [][Next]_vars

-----------------------------------------------------------------------------
(* All variables keep their types: fnext, too, is always a slot. *)
TypeOK ==
    /\ fnext \in SlotIds
    /\ hFile \in [SlotIds -> Files \cup {Null}]
    /\ hFileMapping \in [SlotIds -> BOOLEAN]
    /\ lpcFile \in [SlotIds -> Addresses \cup {Null}]
    /\ opened \subseteq Files /\ held \subseteq Addresses
    /\ views \in [Addresses -> Files \cup {Null}]
    /\ pc \in [Threads -> {"idle", "opened", "claimed", "created", "find",
                           "found", "unmapped", "closing", "clear"}]
    /\ file \in [Threads -> Files \cup {Null}]
    /\ mapping \in [Threads -> BOOLEAN]
    /\ slot \in [Threads -> 0 .. Slots]
    /\ ptr \in [Threads -> Addresses \cup {Null}]
    /\ shown \in [Threads -> Files \cup {Null}]
    /\ full \in BOOLEAN /\ stale \in BOOLEAN

(* The slot the next file takes has no other file in it, whatever the      *)
(* threads that unmap files without the critical section do meanwhile,     *)
(* until a file has taken the last free slot.                              *)
NextIsFree == ~full => hFile[fnext] = Null

(* What funmap does to a pointer of fmap: its slot is found, and unless    *)
(* the view cannot be unmapped the file that it showed is closed and no    *)
(* other; as long as the table was never full and no slot had an address   *)
(* that was given again.                                                   *)
UnmapReleases ==
    [][\A t \in Threads :
         ~full /\ ~stale /\ pc[t] # "clear" /\ pc'[t] = "clear" =>
           \/ pc[t] = "found" /\ slot[t] # Slots
           \/ /\ pc[t] = "closing"
              /\ shown[t] \in opened /\ opened' = opened \ {shown[t]}]_vars
=============================================================================
