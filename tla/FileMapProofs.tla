---------------------------- MODULE FileMapProofs ----------------------------
(***************************************************************************)
(* Proofs about FileMap for tables, files and threads of any number.       *)
(***************************************************************************)
EXTENDS FileMap, WellFoundedInduction, TLAPS

(* The first of some slots is one of them. *)
LEMMA FirstIsOne ==
    ASSUME NEW S, S \subseteq SlotIds, S # {}
    PROVE  First(S) \in S
<1>1. S \subseteq Nat
  BY FileMapAssumption DEF SlotIds
<1>2. PICK i \in S : \A j \in S : ~ (<<j, i>> \in OpToRel(<, Nat))
  BY <1>1, WFMin, NatLessThanWellFounded
<1>3. \A j \in S : ~ (j < i)
  BY <1>1, <1>2 DEF OpToRel
<1>4. \A j \in S : i <= j
  BY <1>1, <1>3
<1> QED
  BY <1>4 DEF First

(* The free slot that getfree finds. *)
LEMMA FreeFound ==
    ASSUME NEW h, fnext \in SlotIds
    PROVE  /\ getfree(h) \in SlotIds
           /\ Free(h) # {} => h[getfree(h)] = Null
<1>1. CASE Free(h) = {}
  BY <1>1 DEF getfree
<1>2. CASE Free(h) # {}
  <2>1. Free(h) \subseteq SlotIds
    BY DEF Free
  <2>2. First(Free(h)) \in Free(h)
    BY <1>2, <2>1, FirstIsOne
  <2> QED BY <1>2, <2>1, <2>2 DEF getfree, Free
<1> QED BY <1>1, <1>2

LEMMA SlotFacts == 0 \in SlotIds /\ SlotIds \subseteq 0 .. Slots /\ Slots \notin SlotIds
BY FileMapAssumption DEF SlotIds

-----------------------------------------------------------------------------
(* Types, and the slot that is taken next. *)

(* A step keeps the types.                                                 *)
LEMMA TypeStep ==
    ASSUME TypeOK, [Next]_vars
    PROVE  TypeOK'
<1>1. ASSUME NEW t \in Threads, OpenFile(t) PROVE TypeOK'
  BY <1>1 DEF OpenFile, Goto, table, TypeOK
<1>2. ASSUME NEW t \in Threads, Claim(t) PROVE TypeOK'
  <2>1. fnext' \in SlotIds /\ full' \in BOOLEAN
    BY <1>2, FreeFound DEF Claim, TypeOK
  <2> QED BY <1>2, <2>1, SlotFacts DEF Claim, Goto, TypeOK
<1>3. ASSUME NEW t \in Threads, CreateMapping(t) PROVE TypeOK'
  BY <1>3 DEF CreateMapping, Goto, TypeOK
<1>4. ASSUME NEW t \in Threads, MapView(t) PROVE TypeOK'
  <2>1. /\ lpcFile' \in [SlotIds -> Addresses \cup {Null}] /\ held' \subseteq Addresses
        /\ views' \in [Addresses -> Files \cup {Null}] /\ stale' \in BOOLEAN
    BY <1>4 DEF MapView, TypeOK
  <2> QED BY <1>4, <2>1 DEF MapView, Goto, locals, TypeOK
<1>5. ASSUME NEW t \in Threads, Start(t) PROVE TypeOK'
  BY <1>5, SlotFacts DEF Start, Goto, table, TypeOK
<1>6. ASSUME NEW t \in Threads, Pass(t) PROVE TypeOK'
  <2>1. slot[t] + 1 \in 0 .. Slots
    BY <1>6, FileMapAssumption DEF Pass, TypeOK
  <2> QED BY <1>6, <2>1 DEF Pass, table, TypeOK
<1>7. ASSUME NEW t \in Threads, Find(t) PROVE TypeOK'
  BY <1>7 DEF Find, Goto, table, locals, TypeOK
<1>8. ASSUME NEW t \in Threads, Unmap(t) PROVE TypeOK'
  BY <1>8 DEF Unmap, Goto, table, locals, TypeOK
<1>9. ASSUME NEW t \in Threads, CloseMapping(t) PROVE TypeOK'
  BY <1>9 DEF CloseMapping, Goto, locals, TypeOK
<1>10. ASSUME NEW t \in Threads, CloseFile(t) PROVE TypeOK'
  BY <1>10 DEF CloseFile, Goto, table, locals, TypeOK
<1>11. ASSUME NEW t \in Threads, Clear(t) PROVE TypeOK'
  BY <1>11 DEF Clear, Goto, locals, TypeOK
<1>12. CASE UNCHANGED vars
  BY <1>12 DEF vars, table, locals, TypeOK
<1> QED
  BY <1>1, <1>2, <1>3, <1>4, <1>5, <1>6, <1>7, <1>8, <1>9, <1>10, <1>11, <1>12
     DEF Next, fmap, funmap

(* All variables keep their types; in particular fnext is always a slot,   *)
(* when the table is full too.                                             *)
THEOREM TypeCorrect == Spec => []TypeOK
<1>1. Init => TypeOK
  BY FileMapAssumption, SlotFacts DEF Init, TypeOK
<1> QED BY <1>1, TypeStep, PTL DEF Spec

(* fmap never takes a slot that is in use, whatever threads that unmap     *)
(* files do meanwhile and whatever addresses the system gives, until a     *)
(* file has taken the last free slot.                                      *)
THEOREM SlotFree == Spec => []NextIsFree
<1>1. Init => NextIsFree
  BY SlotFacts DEF Init, NextIsFree
<1>2. ASSUME TypeOK, NextIsFree, [Next]_vars PROVE NextIsFree'
  <2>1. ASSUME NEW t \in Threads, Claim(t) PROVE NextIsFree'
    <3>1. fnext' = getfree(hFile') /\ (full \/ Free(hFile') = {} <=> full')
      BY <2>1 DEF Claim
    <3> QED BY <1>2, <3>1, FreeFound DEF NextIsFree, TypeOK
  <2>2. ASSUME NEW t \in Threads, Clear(t) PROVE NextIsFree'
    BY <1>2, <2>2 DEF Clear, NextIsFree, TypeOK
  <2>3. ASSUME NEW t \in Threads,
               OpenFile(t) \/ CreateMapping(t) \/ MapView(t) \/ Start(t) \/ Pass(t)
                 \/ Find(t) \/ Unmap(t) \/ CloseMapping(t) \/ CloseFile(t)
        PROVE  NextIsFree'
    BY <1>2, <2>3 DEF OpenFile, CreateMapping, MapView, Start, Pass, Find, Unmap,
                      CloseMapping, CloseFile, table, NextIsFree
  <2>4. CASE UNCHANGED vars
    BY <1>2, <2>4 DEF vars, table, NextIsFree
  <2> QED BY <1>2, <2>1, <2>2, <2>3, <2>4 DEF Next, fmap, funmap
<1> QED BY <1>1, <1>2, TypeCorrect, PTL DEF Spec

-----------------------------------------------------------------------------
(* Slots and pointers, while nothing has gone wrong. *)

(* A thread that is filling or emptying a slot has it to itself.           *)
Busy == {"claimed", "created", "found", "unmapped", "closing", "clear"}

Clearing(i) == \E t \in Threads : pc[t] = "clear" /\ slot[t] = i

OwnSlots ==
    /\ \A t, u \in Threads :
          pc[t] \in Busy /\ pc[u] \in Busy /\ slot[t] = slot[u] => t = u
    /\ \A t \in Threads :
          pc[t] \in Busy => slot[t] \in SlotIds /\ hFile[slot[t]] # Null

(* A file in the table is open, unless its slot is being cleared, and in   *)
(* one slot only.                                                          *)
InUse(i) == i \in SlotIds /\ hFile[i] # Null /\ ~Clearing(i)

OpenInTable ==
    /\ \A i \in SlotIds : InUse(i) => hFile[i] \in opened
    /\ \A i, j \in SlotIds :
          InUse(i) /\ InUse(j) /\ hFile[i] = hFile[j] => i = j

(* A file that has been opened and has no slot yet is not in the table,    *)
(* and is one thread's.                                                    *)
OpenedApart ==
    \A t \in Threads : pc[t] = "opened" =>
        /\ file[t] \in opened
        /\ \A i \in SlotIds : InUse(i) => hFile[i] # file[t]
        /\ \A u \in Threads : pc[u] = "opened" /\ file[u] = file[t] => u = t

(* A thread that maps a file does so in the file's slot. *)
Filling ==
    \A t \in Threads :
        /\ pc[t] \in {"claimed", "created"} => hFile[slot[t]] = file[t]
        /\ pc[t] = "created" => hFileMapping[slot[t]] = mapping[t]

(* A thread that has unmapped a view has the slot of the file it showed.   *)
Emptying ==
    \A t \in Threads :
        /\ pc[t] \in {"unmapped", "closing"} => hFile[slot[t]] = shown[t]
        /\ pc[t] = "unmapped" => hFileMapping[slot[t]]

(* The slot of a pointer holds the file that it shows, and no thread is    *)
(* filling or emptying it.                                                 *)
Holds(i, a) ==
    /\ i \in SlotIds /\ lpcFile[i] = a
    /\ hFileMapping[i] /\ hFile[i] # Null /\ views[a] = hFile[i]

Kept(i, a) == Holds(i, a) /\ \A t \in Threads : pc[t] \in Busy => slot[t] # i

OneSlot ==
    \A i, j \in SlotIds : lpcFile[i] = lpcFile[j] /\ lpcFile[i] # Null => i = j

HeldKept == \A a \in held : \E i \in SlotIds : Kept(i, a)

(* A thread that looks for a pointer has not passed its slot; or has found *)
(* it.                                                                     *)
Looking(t) ==
    /\ ptr[t] \in Addresses \ held /\ shown[t] = views[ptr[t]]
    /\ \E i \in SlotIds : slot[t] <= i /\ Kept(i, ptr[t])
    /\ \A u \in Threads : pc[u] = "find" /\ ptr[u] = ptr[t] => u = t

HasFound(t) ==
    /\ ptr[t] \in Addresses /\ shown[t] = views[ptr[t]]
    /\ Holds(slot[t], ptr[t])

Searching ==
    \A t \in Threads : /\ pc[t] = "find" => Looking(t)
                       /\ pc[t] = "found" => HasFound(t)

Tidy ==
    /\ OwnSlots /\ OpenInTable /\ OpenedApart
    /\ Filling /\ Emptying
    /\ OneSlot /\ HeldKept /\ Searching

-----------------------------------------------------------------------------
(* One lemma for each step. *)

(* fmap opens a file, *)
LEMMA OpenFileKeeps ==
    ASSUME TypeOK, Tidy, NEW t \in Threads, OpenFile(t)
    PROVE  Tidy'
<1> USE DEF Busy
<1>0. /\ OwnSlots /\ OpenInTable /\ OpenedApart /\ Filling /\ Emptying
      /\ OneSlot /\ HeldKept /\ Searching
  BY DEF Tidy
<1>1. OwnSlots'
  BY <1>0 DEF OpenFile, Goto, table, TypeOK, OwnSlots
<1>2. OpenInTable'
  BY <1>0 DEF OpenFile, Goto, table, TypeOK, OwnSlots, OpenInTable, InUse, Clearing
<1>3. OpenedApart'
  BY <1>0 DEF OpenFile, Goto, table, TypeOK, OwnSlots, OpenInTable, OpenedApart, InUse, Clearing
<1>4. Filling'
  BY <1>0 DEF OpenFile, Goto, table, TypeOK, OwnSlots, Filling
<1>5. Emptying'
  BY <1>0 DEF OpenFile, Goto, table, TypeOK, OwnSlots, Emptying
<1>6. OneSlot'
  BY <1>0 DEF OpenFile, Goto, table, TypeOK, OneSlot
<1>7. HeldKept'
  BY <1>0 DEF OpenFile, Goto, table, TypeOK, OwnSlots, HeldKept, Kept, Holds
<1>8. Searching'
  BY <1>0 DEF OpenFile, Goto, table, TypeOK, OwnSlots, HeldKept, Searching, Looking, HasFound, Kept, Holds
<1> QED BY <1>1, <1>2, <1>3, <1>4, <1>5, <1>6, <1>7, <1>8 DEF Tidy

(* takes a slot for it,                                                    *)
LEMMA ClaimKeeps ==
    ASSUME TypeOK, Tidy, NEW t \in Threads, Claim(t), NextIsFree, ~full'
    PROVE  Tidy'
<1> USE DEF Busy
<1>0. /\ OwnSlots /\ OpenInTable /\ OpenedApart /\ Filling /\ Emptying
      /\ OneSlot /\ HeldKept /\ Searching
  BY DEF Tidy
<1>a. /\ pc[t] = "opened" /\ pc' = [pc EXCEPT ![t] = "claimed"]
      /\ hFile' = [hFile EXCEPT ![fnext] = file[t]]
      /\ slot' = [slot EXCEPT ![t] = fnext]
      /\ UNCHANGED <<hFileMapping, lpcFile, opened, views, held,
                     file, mapping, ptr, shown>>
      /\ file[t] \in Files /\ file[t] # Null /\ fnext \in SlotIds
      /\ hFile[fnext] = Null
  BY <1>0, FileMapAssumption DEF Claim, Goto, OpenedApart, NextIsFree, TypeOK
<1>b. \A u \in Threads : pc[u] \in Busy => slot[u] # fnext
  BY <1>0, <1>a DEF OwnSlots
<1>c. \A i, a : Holds(i, a) => Holds(i, a)' /\ i # fnext
  BY <1>a DEF Holds, TypeOK
<1>d. \A i, a : Kept(i, a) => Kept(i, a)'
  BY <1>a, <1>b, <1>c DEF Kept, TypeOK
<1>1. OwnSlots'
  BY <1>0, <1>a, <1>b DEF TypeOK, OwnSlots
<1>2. OpenInTable'
  BY <1>0, <1>a, <1>b DEF TypeOK, OpenInTable, OpenedApart, InUse, Clearing
<1>3. OpenedApart'
  BY <1>0, <1>a, <1>b DEF TypeOK, OpenedApart, InUse, Clearing
<1>4. Filling'
  BY <1>0, <1>a, <1>b DEF TypeOK, Filling
<1>5. Emptying'
  BY <1>0, <1>a, <1>b DEF TypeOK, Emptying
<1>6. OneSlot'
  BY <1>0, <1>a DEF OneSlot
<1>7. HeldKept'
  BY <1>0, <1>a, <1>d DEF HeldKept
<1>8. Searching'
  BY <1>0, <1>a, <1>c, <1>d DEF TypeOK, Searching, Looking, HasFound
<1> QED BY <1>1, <1>2, <1>3, <1>4, <1>5, <1>6, <1>7, <1>8 DEF Tidy

(* makes a mapping,                                                        *)
LEMMA CreateMappingKeeps ==
    ASSUME TypeOK, Tidy, NEW t \in Threads, CreateMapping(t)
    PROVE  Tidy'
<1> USE DEF Busy
<1>0. /\ OwnSlots /\ OpenInTable /\ OpenedApart /\ Filling /\ Emptying
      /\ OneSlot /\ HeldKept /\ Searching
  BY DEF Tidy
<1>a. /\ pc[t] = "claimed" /\ pc' = [pc EXCEPT ![t] = "created"]
      /\ \E ok \in BOOLEAN : /\ mapping' = [mapping EXCEPT ![t] = ok]
                             /\ hFileMapping' = [hFileMapping EXCEPT ![slot[t]] = ok]
      /\ UNCHANGED <<fnext, hFile, lpcFile, opened, views, held,
                     file, slot, ptr, shown>>
  BY DEF CreateMapping, Goto
<1>b. \A i, a : i # slot[t] /\ Holds(i, a) => Holds(i, a)'
  BY <1>a DEF Holds, TypeOK
<1>c. \A i, a : Kept(i, a) => Kept(i, a)'
  BY <1>a, <1>b DEF Kept, TypeOK
<1>1. OwnSlots'
  BY <1>0 DEF CreateMapping, Goto, TypeOK, OwnSlots
<1>2. OpenInTable'
  BY <1>0 DEF CreateMapping, Goto, TypeOK, OwnSlots, OpenInTable, InUse, Clearing
<1>3. OpenedApart'
  BY <1>0 DEF CreateMapping, Goto, TypeOK, OwnSlots, OpenInTable, OpenedApart, InUse, Clearing
<1>4. Filling'
  BY <1>0 DEF CreateMapping, Goto, TypeOK, OwnSlots, Filling
<1>5. Emptying'
  BY <1>0 DEF CreateMapping, Goto, TypeOK, OwnSlots, Emptying
<1>6. OneSlot'
  BY <1>0 DEF CreateMapping, Goto, TypeOK, OneSlot
<1>7. HeldKept'
  BY <1>0, <1>a, <1>c DEF HeldKept
<1>8. Searching'
  BY <1>0, <1>a, <1>b, <1>c DEF TypeOK, OwnSlots, Searching, Looking, HasFound
<1> QED BY <1>1, <1>2, <1>3, <1>4, <1>5, <1>6, <1>7, <1>8 DEF Tidy

(* and a view, whose address no other slot has.                            *)
LEMMA MapViewKeeps ==
    ASSUME TypeOK, Tidy, NEW t \in Threads, MapView(t), ~stale'
    PROVE  Tidy'
<1> USE DEF Busy
<1>0. /\ OwnSlots /\ OpenInTable /\ OpenedApart /\ Filling /\ Emptying
      /\ OneSlot /\ HeldKept /\ Searching
  BY DEF Tidy
<1>a. /\ pc[t] = "created" /\ pc' = [pc EXCEPT ![t] = "idle"]
      /\ UNCHANGED <<fnext, hFile, hFileMapping, opened, file, mapping, slot, ptr, shown>>
      /\ slot[t] \in SlotIds /\ hFile[slot[t]] = file[t] /\ file[t] # Null
      /\ hFileMapping[slot[t]] = mapping[t]
  BY <1>0 DEF MapView, Goto, locals, OwnSlots, Filling
<1>b. \/ /\ lpcFile' = [lpcFile EXCEPT ![slot[t]] = Null]
         /\ UNCHANGED <<views, held>>
      \/ \E a \in Addresses :
            /\ hFileMapping[slot[t]] /\ views[a] = Null
            /\ \A i \in SlotIds \ {slot[t]} : lpcFile[i] # a
            /\ lpcFile' = [lpcFile EXCEPT ![slot[t]] = a]
            /\ views' = [views EXCEPT ![a] = file[t]]
            /\ held' = held \cup {a}
  BY <1>a DEF MapView
<1>c. \A i, a : i # slot[t] /\ a \in Addresses /\ Holds(i, a) => Holds(i, a)'
  BY <1>a, <1>b DEF Holds, TypeOK
<1>d. \A i, a : a \in Addresses /\ Kept(i, a) => Kept(i, a)'
  BY <1>a, <1>c DEF Kept, TypeOK
<1>1. OwnSlots'
  BY <1>0, <1>a DEF TypeOK, OwnSlots
<1>2. OpenInTable'
  BY <1>0, <1>a DEF TypeOK, OpenInTable, InUse, Clearing
<1>3. OpenedApart'
  BY <1>0, <1>a DEF TypeOK, OpenedApart, InUse, Clearing
<1>4. Filling'
  BY <1>0, <1>a DEF TypeOK, Filling
<1>5. Emptying'
  BY <1>0, <1>a DEF TypeOK, Emptying
<1>6. OneSlot'
  BY <1>0, <1>a, <1>b, FileMapAssumption DEF OneSlot, TypeOK
<1>7. HeldKept'
  <2> SUFFICES ASSUME NEW a \in held'
               PROVE  \E i \in SlotIds : Kept(i, a)'
    BY DEF HeldKept
  <2>1. CASE a \in held
    BY <1>0, <1>d, <2>1 DEF HeldKept, TypeOK
  <2>2. CASE a \notin held
    <3>1. /\ hFileMapping[slot[t]] /\ a \in Addresses
          /\ lpcFile' = [lpcFile EXCEPT ![slot[t]] = a]
          /\ views' = [views EXCEPT ![a] = file[t]]
      BY <1>b, <2>2
    <3>2. Holds(slot[t], a)'
      BY <1>a, <3>1 DEF Holds, TypeOK
    <3>3. \A u \in Threads : pc'[u] \in Busy => slot'[u] # slot[t]
      BY <1>0, <1>a DEF TypeOK, OwnSlots
    <3> QED BY <1>a, <3>2, <3>3 DEF Kept
  <2> QED BY <2>1, <2>2
<1>8. Searching'
  <2>1. ASSUME NEW u \in Threads, pc'[u] = "find" PROVE Looking(u)'
    <3>1. Looking(u) /\ u # t
      BY <1>0, <1>a, <2>1 DEF Searching, TypeOK
    <3>2. PICK i \in SlotIds : slot[u] <= i /\ Kept(i, ptr[u])
      BY <3>1 DEF Looking
    <3>3. views[ptr[u]] # Null /\ ptr[u] \in Addresses
      BY <3>1, <3>2 DEF Looking, Kept, Holds
    <3>4. views'[ptr[u]] = views[ptr[u]] /\ ptr[u] \notin held'
      BY <1>b, <3>1, <3>3 DEF Looking, TypeOK
    <3>5. Kept(i, ptr[u])'
      BY <1>a, <1>d, <3>2, <3>3
    <3>6. \A v \in Threads : pc'[v] = "find" /\ ptr'[v] = ptr'[u] => v = u
      BY <1>a, <3>1 DEF Looking, TypeOK
    <3> QED BY <1>a, <3>1, <3>2, <3>4, <3>5, <3>6 DEF Looking
  <2>2. ASSUME NEW u \in Threads, pc'[u] = "found" PROVE HasFound(u)'
    <3>1. HasFound(u) /\ u # t /\ slot[u] # slot[t]
      BY <1>0, <1>a, <2>2 DEF Searching, OwnSlots, TypeOK
    <3>2. views[ptr[u]] # Null /\ ptr[u] \in Addresses
      BY <3>1 DEF HasFound, Holds
    <3>3. views'[ptr[u]] = views[ptr[u]]
      BY <1>b, <3>2 DEF TypeOK
    <3> QED BY <1>a, <1>c, <3>1, <3>2, <3>3 DEF HasFound
  <2> QED BY <2>1, <2>2 DEF Searching
<1> QED BY <1>1, <1>2, <1>3, <1>4, <1>5, <1>6, <1>7, <1>8 DEF Tidy

(* funmap is given a pointer,                                              *)
LEMMA StartKeeps ==
    ASSUME TypeOK, Tidy, NEW t \in Threads, Start(t)
    PROVE  Tidy'
<1> USE DEF Busy
<1>0. /\ OwnSlots /\ OpenInTable /\ OpenedApart /\ Filling /\ Emptying
      /\ OneSlot /\ HeldKept /\ Searching
  BY DEF Tidy
<1>a. PICK a \in held :
          /\ ptr' = [ptr EXCEPT ![t] = a]
          /\ shown' = [shown EXCEPT ![t] = views[a]]
          /\ held' = held \ {a}
  BY DEF Start
<1>b. /\ pc[t] = "idle" /\ pc' = [pc EXCEPT ![t] = "find"]
      /\ slot' = [slot EXCEPT ![t] = 0]
      /\ UNCHANGED <<fnext, hFile, hFileMapping, lpcFile, opened, views, file, mapping>>
  BY DEF Start, Goto, table
<1>c. \A i, b : /\ Holds(i, b) => Holds(i, b)'
                /\ Kept(i, b) => Kept(i, b)'
  BY <1>b DEF Kept, Holds, TypeOK
<1>1. OwnSlots'
  BY <1>0 DEF Start, Goto, table, TypeOK, OwnSlots
<1>2. OpenInTable'
  BY <1>0 DEF Start, Goto, table, TypeOK, OwnSlots, OpenInTable, InUse, Clearing
<1>3. OpenedApart'
  BY <1>0 DEF Start, Goto, table, TypeOK, OwnSlots, OpenInTable, OpenedApart, InUse, Clearing
<1>4. Filling'
  BY <1>0 DEF Start, Goto, table, TypeOK, OwnSlots, Filling
<1>5. Emptying'
  BY <1>0 DEF Start, Goto, table, TypeOK, OwnSlots, Emptying
<1>6. OneSlot'
  BY <1>0 DEF Start, Goto, table, TypeOK, OneSlot
<1>7. HeldKept'
  BY <1>0, <1>a, <1>c DEF HeldKept
<1>8. Searching'
  <2>1. ASSUME NEW u \in Threads, pc'[u] = "find" PROVE Looking(u)'
    <3>1. CASE u = t
      <4>1. PICK i \in SlotIds : Kept(i, a)
        BY <1>0 DEF HeldKept
      <4>2. 0 <= i
        BY FileMapAssumption DEF SlotIds
      <4>3. \A v \in Threads : pc[v] = "find" => ptr[v] # a
        BY <1>0 DEF Searching, Looking
      <4>4. /\ ptr'[t] = a /\ shown'[t] = views[a] /\ slot'[t] = 0
            /\ a \in Addresses \ held' /\ views' = views
        BY <1>a, <1>b DEF TypeOK
      <4>5. \A v \in Threads : pc'[v] = "find" /\ ptr'[v] = a => v = t
        BY <1>a, <1>b, <4>3 DEF TypeOK
      <4> QED BY <1>c, <3>1, <4>1, <4>2, <4>4, <4>5 DEF Looking
    <3>2. CASE u # t
      <4>1. Looking(u) /\ ptr[u] # a
        BY <1>0, <1>b, <2>1, <3>2 DEF Searching, Looking, TypeOK
      <4>2. /\ ptr'[u] = ptr[u] /\ shown'[u] = shown[u] /\ slot'[u] = slot[u]
            /\ views' = views /\ held' \subseteq held
        BY <1>a, <1>b, <3>2 DEF TypeOK
      <4>3. \A v \in Threads : pc'[v] = "find" /\ ptr'[v] = ptr[u] => v = u
        BY <1>a, <1>b, <4>1 DEF Looking, TypeOK
      <4> QED BY <1>c, <4>1, <4>2, <4>3 DEF Looking
    <3> QED BY <3>1, <3>2
  <2>2. ASSUME NEW u \in Threads, pc'[u] = "found" PROVE HasFound(u)'
    <3>1. u # t /\ HasFound(u)
      BY <1>0, <1>b, <2>2 DEF Searching, TypeOK
    <3> QED BY <1>a, <1>b, <1>c, <3>1 DEF HasFound, TypeOK
  <2> QED BY <2>1, <2>2 DEF Searching
<1> QED BY <1>1, <1>2, <1>3, <1>4, <1>5, <1>6, <1>7, <1>8 DEF Tidy

(* passes the slots that have other addresses,                             *)
LEMMA PassKeeps ==
    ASSUME TypeOK, Tidy, NEW t \in Threads, Pass(t)
    PROVE  Tidy'
<1> USE DEF Busy
<1>0. /\ OwnSlots /\ OpenInTable /\ OpenedApart /\ Filling /\ Emptying
      /\ OneSlot /\ HeldKept /\ Searching
  BY DEF Tidy
<1>a. /\ pc[t] = "find" /\ pc' = pc /\ lpcFile[slot[t]] # ptr[t]
      /\ slot' = [slot EXCEPT ![t] = slot[t] + 1]
      /\ UNCHANGED <<fnext, hFile, hFileMapping, lpcFile, opened, views, held,
                     file, mapping, ptr, shown>>
  BY DEF Pass, table
<1>b. \A i, b : /\ Holds(i, b) => Holds(i, b)'
                /\ Kept(i, b) => Kept(i, b)'
  BY <1>a DEF Kept, Holds, TypeOK
<1>1. OwnSlots'
  BY <1>0 DEF Pass, table, TypeOK, OwnSlots
<1>2. OpenInTable'
  BY <1>0 DEF Pass, table, TypeOK, OwnSlots, OpenInTable, InUse, Clearing
<1>3. OpenedApart'
  BY <1>0 DEF Pass, table, TypeOK, OwnSlots, OpenInTable, OpenedApart, InUse, Clearing
<1>4. Filling'
  BY <1>0 DEF Pass, table, TypeOK, OwnSlots, Filling
<1>5. Emptying'
  BY <1>0 DEF Pass, table, TypeOK, OwnSlots, Emptying
<1>6. OneSlot'
  BY <1>0 DEF Pass, table, TypeOK, OneSlot
<1>7. HeldKept'
  BY <1>0, <1>a, <1>b DEF HeldKept
<1>8. Searching'
  <2>1. ASSUME NEW u \in Threads, pc'[u] = "find" PROVE Looking(u)'
    <3>1. Looking(u)
      BY <1>0, <1>a, <2>1 DEF Searching
    <3>2. PICK i \in SlotIds : slot[u] <= i /\ Kept(i, ptr[u])
      BY <3>1 DEF Looking
    <3>3. slot'[u] <= i
      <4>1. u = t => slot[u] # i
        BY <1>a, <3>2 DEF Kept, Holds
      <4>2. slot[u] \in Int /\ i \in Int /\ slot'[u] = IF u = t THEN slot[u] + 1 ELSE slot[u]
        BY <1>a, FileMapAssumption DEF TypeOK, SlotIds
      <4> QED BY <3>2, <4>1, <4>2
    <3> QED BY <1>a, <1>b, <3>1, <3>2, <3>3 DEF Looking
  <2>2. ASSUME NEW u \in Threads, pc'[u] = "found" PROVE HasFound(u)'
    BY <1>0, <1>a, <1>b, <2>2 DEF Searching, HasFound, TypeOK
  <2> QED BY <2>1, <2>2 DEF Searching
<1> QED BY <1>1, <1>2, <1>3, <1>4, <1>5, <1>6, <1>7, <1>8 DEF Tidy

(* finds its slot,                                                         *)
LEMMA FindKeeps ==
    ASSUME TypeOK, Tidy, NEW t \in Threads, Find(t)
    PROVE  Tidy'
<1> USE DEF Busy
<1>0. /\ OwnSlots /\ OpenInTable /\ OpenedApart /\ Filling /\ Emptying
      /\ OneSlot /\ HeldKept /\ Searching
  BY DEF Tidy
<1>a. /\ pc[t] = "find" /\ pc' = [pc EXCEPT ![t] = "found"]
      /\ slot[t] # Slots => lpcFile[slot[t]] = ptr[t]
      /\ UNCHANGED <<fnext, hFile, hFileMapping, lpcFile, opened, views, held,
                     file, mapping, slot, ptr, shown>>
  BY DEF Find, Goto, table, locals
<1>b. Looking(t)
  BY <1>0, <1>a DEF Searching
<1>c. Kept(slot[t], ptr[t]) /\ slot[t] \in SlotIds
  <2>1. PICK i \in SlotIds : slot[t] <= i /\ Kept(i, ptr[t])
    BY <1>b DEF Looking
  <2>2. slot[t] \in SlotIds /\ slot[t] # Slots
    BY <2>1, FileMapAssumption DEF TypeOK, SlotIds
  <2>3. lpcFile[i] = ptr[t] /\ lpcFile[slot[t]] = ptr[t] /\ ptr[t] # Null
    BY <1>a, <1>b, <2>1, <2>2, FileMapAssumption DEF Kept, Holds, Looking
  <2>4. i = slot[t]
    BY <1>0, <2>2, <2>3 DEF OneSlot
  <2> QED BY <2>1, <2>2, <2>4
<1>d. \A i, b : Holds(i, b) => Holds(i, b)'
  BY <1>a DEF Holds
<1>e. \A i, b : Kept(i, b) /\ b # ptr[t] => Kept(i, b)'
  <2> SUFFICES ASSUME NEW i, NEW b, Kept(i, b), b # ptr[t] PROVE Kept(i, b)'
    OBVIOUS
  <2>1. i # slot[t]
    BY <1>c DEF Kept, Holds
  <2> QED BY <1>a, <1>d, <2>1 DEF Kept, TypeOK
<1>1. OwnSlots'
  BY <1>0, <1>a, <1>c DEF TypeOK, OwnSlots, Kept, Holds
<1>2. OpenInTable'
  BY <1>0 DEF Find, Goto, table, locals, TypeOK, OwnSlots, OpenInTable, InUse, Clearing
<1>3. OpenedApart'
  BY <1>0 DEF Find, Goto, table, locals, TypeOK, OwnSlots, OpenInTable, OpenedApart, InUse, Clearing
<1>4. Filling'
  BY <1>0 DEF Find, Goto, table, locals, TypeOK, OwnSlots, Filling
<1>5. Emptying'
  BY <1>0 DEF Find, Goto, table, locals, TypeOK, OwnSlots, Emptying
<1>6. OneSlot'
  BY <1>0 DEF Find, Goto, table, locals, TypeOK, OneSlot
<1>7. HeldKept'
  BY <1>0, <1>a, <1>b, <1>e DEF HeldKept, Looking
<1>8. Searching'
  <2>1. ASSUME NEW u \in Threads, pc'[u] = "find" PROVE Looking(u)'
    <3>1. Looking(u) /\ u # t /\ pc[u] = "find"
      BY <1>0, <1>a, <2>1 DEF Searching, TypeOK
    <3>2. ptr[u] # ptr[t]
      BY <1>a, <3>1 DEF Looking
    <3>3. \A v \in Threads : pc'[v] = "find" /\ ptr[v] = ptr[u] => v = u
      BY <1>a, <3>1 DEF Looking, TypeOK
    <3> QED BY <1>a, <1>e, <3>1, <3>2, <3>3 DEF Looking
  <2>2. ASSUME NEW u \in Threads, pc'[u] = "found" PROVE HasFound(u)'
    <3>1. CASE u = t
      BY <1>a, <1>b, <1>c, <1>d, <3>1 DEF HasFound, Looking, Kept
    <3>2. CASE u # t
      BY <1>0, <1>a, <1>d, <2>2, <3>2 DEF HasFound, Searching, TypeOK
    <3> QED BY <3>1, <3>2
  <2> QED BY <2>1, <2>2 DEF Searching
<1> QED BY <1>1, <1>2, <1>3, <1>4, <1>5, <1>6, <1>7, <1>8 DEF Tidy

(* unmaps the view or fails to,                                            *)
LEMMA UnmapKeeps ==
    ASSUME TypeOK, Tidy, NEW t \in Threads, Unmap(t)
    PROVE  Tidy'
<1> USE DEF Busy
<1>0. /\ OwnSlots /\ OpenInTable /\ OpenedApart /\ Filling /\ Emptying
      /\ OneSlot /\ HeldKept /\ Searching
  BY DEF Tidy
<1>a. /\ pc[t] = "found"
      /\ UNCHANGED <<fnext, hFile, hFileMapping, lpcFile, opened, held,
                     file, mapping, slot, ptr, shown>>
      /\ \/ pc' = [pc EXCEPT ![t] = "unmapped"] /\ views' = [views EXCEPT ![ptr[t]] = Null]
         \/ pc' = [pc EXCEPT ![t] = "clear"] /\ views' = views
  BY DEF Unmap, Goto, table, locals
<1>b. HasFound(t) /\ ptr[t] \in Addresses /\ ptr[t] # Null
  BY <1>0, <1>a, FileMapAssumption DEF Searching, HasFound
<1>c. \A i, b : i # slot[t] /\ b \in Addresses /\ Holds(i, b) => Holds(i, b)' /\ b # ptr[t]
  <2> SUFFICES ASSUME NEW i, NEW b \in Addresses, i # slot[t], Holds(i, b)
               PROVE  Holds(i, b)' /\ b # ptr[t]
    OBVIOUS
  <2>1. b # ptr[t]
    BY <1>0, <1>b DEF OneSlot, HasFound, Holds
  <2>2. views'[b] = views[b]
    BY <1>a, <2>1 DEF TypeOK
  <2> QED BY <1>a, <2>1, <2>2 DEF Holds
<1>d. \A i, b : b \in Addresses /\ Kept(i, b) => Kept(i, b)' /\ b # ptr[t]
  BY <1>a, <1>c DEF Kept, TypeOK
<1>1. OwnSlots'
  BY <1>0, <1>a DEF TypeOK, OwnSlots
<1>2. OpenInTable'
  BY <1>0, <1>a DEF TypeOK, OpenInTable, InUse, Clearing
<1>3. OpenedApart'
  BY <1>0, <1>a DEF TypeOK, OpenedApart, InUse, Clearing
<1>4. Filling'
  BY <1>0, <1>a DEF TypeOK, Filling
<1>5. Emptying'
  BY <1>0, <1>a, <1>b DEF TypeOK, Emptying, HasFound, Holds
<1>6. OneSlot'
  BY <1>0, <1>a DEF OneSlot
<1>7. HeldKept'
  BY <1>0, <1>a, <1>d DEF HeldKept, TypeOK
<1>8. Searching'
  <2>1. ASSUME NEW u \in Threads, pc'[u] = "find" PROVE Looking(u)'
    <3>1. Looking(u) /\ u # t
      BY <1>0, <1>a, <2>1 DEF Searching, TypeOK
    <3>2. PICK i \in SlotIds : slot[u] <= i /\ Kept(i, ptr[u])
      BY <3>1 DEF Looking
    <3>3. Kept(i, ptr[u])' /\ ptr[u] # ptr[t]
      BY <1>a, <1>d, <3>1, <3>2 DEF Looking
    <3>4. views'[ptr[u]] = views[ptr[u]]
      BY <1>a, <3>1, <3>3 DEF Looking, TypeOK
    <3>5. \A v \in Threads : pc'[v] = "find" /\ ptr[v] = ptr[u] => v = u
      BY <1>a, <3>1 DEF Looking, TypeOK
    <3> QED BY <1>a, <3>1, <3>2, <3>3, <3>4, <3>5 DEF Looking
  <2>2. ASSUME NEW u \in Threads, pc'[u] = "found" PROVE HasFound(u)'
    <3>1. HasFound(u) /\ u # t /\ slot[u] # slot[t]
      BY <1>0, <1>a, <2>2 DEF Searching, OwnSlots, TypeOK
    <3>2. ptr[u] # ptr[t] /\ Holds(slot[u], ptr[u])'
      BY <1>a, <1>c, <3>1 DEF HasFound
    <3>3. views'[ptr[u]] = views[ptr[u]]
      BY <1>a, <3>1, <3>2 DEF HasFound, TypeOK
    <3> QED BY <1>a, <3>1, <3>2, <3>3 DEF HasFound
  <2> QED BY <2>1, <2>2 DEF Searching
<1> QED BY <1>1, <1>2, <1>3, <1>4, <1>5, <1>6, <1>7, <1>8 DEF Tidy

(* closes the mapping,                                                     *)
LEMMA CloseMappingKeeps ==
    ASSUME TypeOK, Tidy, NEW t \in Threads, CloseMapping(t)
    PROVE  Tidy'
<1> USE DEF Busy
<1>0. /\ OwnSlots /\ OpenInTable /\ OpenedApart /\ Filling /\ Emptying
      /\ OneSlot /\ HeldKept /\ Searching
  BY DEF Tidy
<1>a. /\ pc[t] = "unmapped" /\ pc' = [pc EXCEPT ![t] = "closing"]
      /\ hFileMapping' = [hFileMapping EXCEPT ![slot[t]] = FALSE]
      /\ UNCHANGED <<fnext, hFile, lpcFile, opened, views, held,
                     file, mapping, slot, ptr, shown>>
  BY <1>0 DEF CloseMapping, Goto, locals, Emptying
<1>b. \A i, a : i # slot[t] /\ Holds(i, a) => Holds(i, a)'
  BY <1>a DEF Holds, TypeOK
<1>c. \A i, a : Kept(i, a) => Kept(i, a)'
  BY <1>a, <1>b DEF Kept, TypeOK
<1>1. OwnSlots'
  BY <1>0, <1>a DEF TypeOK, OwnSlots
<1>2. OpenInTable'
  BY <1>0, <1>a DEF TypeOK, OpenInTable, InUse, Clearing
<1>3. OpenedApart'
  BY <1>0, <1>a DEF TypeOK, OpenedApart, InUse, Clearing
<1>4. Filling'
  BY <1>0, <1>a DEF TypeOK, OwnSlots, Filling
<1>5. Emptying'
  BY <1>0, <1>a DEF TypeOK, OwnSlots, Emptying
<1>6. OneSlot'
  BY <1>0, <1>a DEF OneSlot
<1>7. HeldKept'
  BY <1>0, <1>a, <1>c DEF HeldKept
<1>8. Searching'
  BY <1>0, <1>a, <1>b, <1>c DEF TypeOK, OwnSlots, Searching, Looking, HasFound
<1> QED BY <1>1, <1>2, <1>3, <1>4, <1>5, <1>6, <1>7, <1>8 DEF Tidy

(* and the file,                                                           *)
LEMMA CloseFileKeeps ==
    ASSUME TypeOK, Tidy, NEW t \in Threads, CloseFile(t)
    PROVE  Tidy'
<1> USE DEF Busy
<1>0. /\ OwnSlots /\ OpenInTable /\ OpenedApart /\ Filling /\ Emptying
      /\ OneSlot /\ HeldKept /\ Searching
  BY DEF Tidy
<1>a. /\ pc[t] = "closing" /\ pc' = [pc EXCEPT ![t] = "clear"]
      /\ opened' = opened \ {hFile[slot[t]]}
      /\ UNCHANGED <<fnext, hFile, hFileMapping, lpcFile, views, held,
                     file, mapping, slot, ptr, shown>>
  BY DEF CloseFile, Goto, table, locals
<1>b. InUse(slot[t])
  BY <1>0, <1>a DEF OwnSlots, InUse, Clearing
<1>c. \A i, b : /\ Holds(i, b) => Holds(i, b)'
                /\ Kept(i, b) => Kept(i, b)'
  BY <1>a DEF Kept, Holds, TypeOK
<1>d. \A i : InUse(i)' => InUse(i) /\ i # slot[t]
  BY <1>a DEF InUse, Clearing, TypeOK
<1>1. OwnSlots'
  BY <1>0, <1>a DEF TypeOK, OwnSlots
<1>2. OpenInTable'
  <2>1. \A i \in SlotIds : InUse(i)' => hFile'[i] \in opened'
    BY <1>0, <1>a, <1>b, <1>d DEF OpenInTable, InUse
  <2>2. \A i, j \in SlotIds : InUse(i)' /\ InUse(j)' /\ hFile'[i] = hFile'[j] => i = j
    BY <1>0, <1>a, <1>d DEF OpenInTable
  <2> QED BY <2>1, <2>2 DEF OpenInTable
<1>3. OpenedApart'
  BY <1>0, <1>a, <1>b, <1>d DEF TypeOK, OpenedApart, InUse
<1>4. Filling'
  BY <1>0, <1>a DEF TypeOK, Filling
<1>5. Emptying'
  BY <1>0, <1>a DEF TypeOK, Emptying
<1>6. OneSlot'
  BY <1>0, <1>a DEF OneSlot
<1>7. HeldKept'
  BY <1>0, <1>a, <1>c DEF HeldKept
<1>8. Searching'
  BY <1>0, <1>a, <1>c DEF TypeOK, Searching, Looking, HasFound
<1> QED BY <1>1, <1>2, <1>3, <1>4, <1>5, <1>6, <1>7, <1>8 DEF Tidy

(* and frees its slot.                                                     *)
LEMMA ClearKeeps ==
    ASSUME TypeOK, Tidy, NEW t \in Threads, Clear(t)
    PROVE  Tidy'
<1> USE DEF Busy
<1>0. /\ OwnSlots /\ OpenInTable /\ OpenedApart /\ Filling /\ Emptying
      /\ OneSlot /\ HeldKept /\ Searching
  BY DEF Tidy
<1>a. /\ pc[t] = "clear" /\ pc' = [pc EXCEPT ![t] = "idle"]
      /\ hFile' = [i \in SlotIds |-> IF i = slot[t] THEN Null ELSE hFile[i]]
      /\ UNCHANGED <<fnext, hFileMapping, lpcFile, opened, views, held,
                     file, mapping, slot, ptr, shown>>
  BY DEF Clear, Goto, locals
<1>b. \A i, b : i # slot[t] /\ Holds(i, b) => Holds(i, b)'
  BY <1>a DEF Holds, TypeOK
<1>c. \A i, b : Kept(i, b) => Kept(i, b)'
  BY <1>a, <1>b DEF Kept, TypeOK
<1>d. \A i : InUse(i)' => InUse(i) /\ i # slot[t] /\ hFile'[i] = hFile[i]
  BY <1>a DEF InUse, Clearing, TypeOK
<1>1. OwnSlots'
  BY <1>0, <1>a DEF TypeOK, OwnSlots
<1>2. OpenInTable'
  BY <1>0, <1>a, <1>d DEF OpenInTable, InUse
<1>3. OpenedApart'
  BY <1>0, <1>a, <1>d DEF TypeOK, OpenedApart
<1>4. Filling'
  BY <1>0, <1>a DEF TypeOK, OwnSlots, Filling
<1>5. Emptying'
  BY <1>0, <1>a DEF TypeOK, OwnSlots, Emptying
<1>6. OneSlot'
  BY <1>0, <1>a DEF OneSlot
<1>7. HeldKept'
  BY <1>0, <1>a, <1>c DEF HeldKept
<1>8. Searching'
  BY <1>0, <1>a, <1>b, <1>c DEF TypeOK, OwnSlots, Searching, Looking, HasFound
<1> QED BY <1>1, <1>2, <1>3, <1>4, <1>5, <1>6, <1>7, <1>8 DEF Tidy

-----------------------------------------------------------------------------
(* What happened is not forgotten. *)
LEMMA FlagsStay ==
    ASSUME TypeOK, [Next]_vars
    PROVE  (full => full') /\ (stale => stale')
BY DEF Next, fmap, funmap, OpenFile, Claim, CreateMapping, MapView, Start, Pass,
       Find, Unmap, CloseMapping, CloseFile, Clear, vars, TypeOK

LEMMA StepKeeps ==
    ASSUME TypeOK, NextIsFree, Tidy, [Next]_vars, ~full', ~stale'
    PROVE  Tidy'
<1>1. ASSUME NEW t \in Threads, fmap(t)
      PROVE  Tidy'
  BY <1>1, OpenFileKeeps, ClaimKeeps, CreateMappingKeeps, MapViewKeeps DEF fmap
<1>2. ASSUME NEW t \in Threads, funmap(t)
      PROVE  Tidy'
  BY <1>2, StartKeeps, PassKeeps, FindKeeps, UnmapKeeps, CloseMappingKeeps,
     CloseFileKeeps, ClearKeeps DEF funmap
<1>3. CASE UNCHANGED vars
  BY <1>3 DEF vars, table, locals, Tidy, OwnSlots, OpenInTable, OpenedApart,
              Filling, Emptying, OneSlot, HeldKept, Searching, Looking, HasFound,
              Kept, Holds, InUse, Clearing
<1> QED
  BY <1>1, <1>2, <1>3 DEF Next

(* While no file has taken the last free slot and no address that another  *)
(* slot has was given again, every file that is mapped has a slot of its   *)
(* own and every pointer is found in the slot of its file.                 *)
THEOREM Invariance == Spec => [](~full /\ ~stale => Tidy)
<1> DEFINE Inv == ~full /\ ~stale => Tidy
<1>1. Init => Inv
  BY DEF Init, Tidy, OwnSlots, OpenInTable, OpenedApart, Filling, Emptying,
         OneSlot, HeldKept, Searching, InUse, Busy
<1>2. TypeOK /\ NextIsFree /\ Inv /\ [Next]_vars => Inv'
  BY FlagsStay, StepKeeps
<1> HIDE DEF Inv
<1>3. Spec => []Inv
  BY <1>1, <1>2, TypeCorrect, SlotFree, PTL DEF Spec
<1> QED
  BY <1>3 DEF Inv

(* funmap finds the slot of every pointer, and closes the file that it     *)
(* showed and no other, when the view can be unmapped; as long as no file  *)
(* has taken the last free slot and no address that another slot has was   *)
(* given again.                                                            *)
THEOREM UnmapCorrect == Spec => UnmapReleases
<1> DEFINE Released(t) ==
        ~full /\ ~stale /\ pc[t] # "clear" /\ pc'[t] = "clear" =>
          \/ pc[t] = "found" /\ slot[t] # Slots
          \/ /\ pc[t] = "closing"
             /\ shown[t] \in opened /\ opened' = opened \ {shown[t]}
<1>1. ASSUME TypeOK, Tidy, [Next]_vars, NEW t \in Threads,
             pc[t] # "clear", pc'[t] = "clear"
      PROVE  \/ pc[t] = "found" /\ slot[t] # Slots
             \/ /\ pc[t] = "closing"
                /\ shown[t] \in opened /\ opened' = opened \ {shown[t]}
  <2>1. Unmap(t) \/ CloseMapping(t) \/ CloseFile(t)
    BY <1>1 DEF Next, fmap, funmap, OpenFile, Claim, CreateMapping, MapView, Start,
                Pass, Find, Unmap, CloseMapping, CloseFile, Clear, Goto, vars, TypeOK
  <2>2. CASE Unmap(t)
    <3>1. pc[t] = "found"
      BY <2>2 DEF Unmap, Goto
    <3>2. slot[t] \in SlotIds
      BY <1>1, <3>1 DEF Tidy, Searching, HasFound, Holds
    <3> QED BY <3>1, <3>2, SlotFacts
  <2>3. CASE CloseMapping(t)
    <3>1. pc[t] = "unmapped" /\ hFileMapping[slot[t]]
      BY <1>1, <2>3 DEF CloseMapping, Goto, Tidy, Emptying
    <3>2. pc'[t] = "closing"
      BY <1>1, <2>3, <3>1 DEF CloseMapping, Goto, TypeOK
    <3> QED BY <1>1, <3>2
  <2>4. CASE CloseFile(t)
    <3>1. pc[t] = "closing" /\ opened' = opened \ {hFile[slot[t]]}
      BY <2>4 DEF CloseFile, Goto
    <3>2. hFile[slot[t]] = shown[t]
      BY <1>1, <3>1 DEF Tidy, Emptying
    <3>3. InUse(slot[t])
      BY <1>1, <3>1 DEF Tidy, OwnSlots, InUse, Clearing, Busy
    <3>4. hFile[slot[t]] \in opened
      BY <1>1, <3>3 DEF Tidy, OpenInTable, InUse
    <3> QED BY <3>1, <3>2, <3>4
  <2> QED BY <2>1, <2>2, <2>3, <2>4
<1>2. TypeOK /\ (~full /\ ~stale => Tidy) /\ [Next]_vars
        => [\A t \in Threads : Released(t)]_vars
  BY <1>1
<1> QED
  BY <1>2, TypeCorrect, Invariance, PTL DEF Spec, UnmapReleases
=============================================================================
