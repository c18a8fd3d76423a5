----------------------------- MODULE NamesProofs -----------------------------
(***************************************************************************)
(* Proofs about Names, for strings of any length, any names and messages   *)
(* and both platforms: the types, that strim and slen find the end of any  *)
(* string, and what a message is logged and echoed as. The loops of strim  *)
(* and slen are recursive functions over a string of any length.           *)
(***************************************************************************)
EXTENDS Names, SequenceTheorems, WellFoundedInduction, TLAPS

(* Every set of natural numbers that is not empty has a least element.     *)
LEMMA Least ==
    ASSUME NEW T, T \subseteq Nat, T # {}
    PROVE  \E x \in T : \A y \in T : x <= y
<1> DEFINE R == OpToRel(<, Nat)
<1>1. IsWellFoundedOn(R, Nat)
  BY NatLessThanWellFounded
<1>2. \A x, y \in Nat : x < y => <<x, y>> \in R
  BY DEF OpToRel
<1> HIDE DEF R
<1>3. PICK x \in T : \A y \in T : ~ (<<y, x>> \in R)
  BY <1>1, WFMin
<1>4. ASSUME NEW y \in T PROVE x <= y
  <2>1. x \in Nat /\ y \in Nat
    OBVIOUS
  <2>2. ~(y < x)
    BY <2>1, <1>2, <1>3
  <2> QED BY <2>1, <2>2
<1> QED BY <1>4

(* Two functions that agree wherever they do not both repeat the value     *)
(* before agree everywhere.                                                *)
LEMMA Agree ==
    ASSUME NEW n \in Nat, NEW f, NEW g,
           \A i \in 0 .. n :
              f[i] = g[i] \/ (i # 0 /\ f[i] = f[i - 1] /\ g[i] = g[i - 1])
    PROVE  \A i \in 0 .. n : f[i] = g[i]
<1> DEFINE T == {i \in 0 .. n : f[i] # g[i]}
<1>1. SUFFICES ASSUME T # {} PROVE FALSE
  OBVIOUS
<1>2. PICK i \in T : \A j \in T : i <= j
  <2>1. T \subseteq Nat
    OBVIOUS
  <2> HIDE DEF T
  <2> QED BY <1>1, <2>1, Least
<1>3. i # 0 /\ f[i - 1] # g[i - 1] /\ i \in 0 .. n
  BY <1>2
<1>4. i - 1 \in 0 .. n /\ ~(i <= i - 1)
  BY <1>3
<1> QED BY <1>2, <1>3, <1>4

-----------------------------------------------------------------------------
(* The first i characters, without the blanks at their end, are n.         *)
TrimmedTo(n, i, buf) ==
    /\ n \in 1 .. i
    /\ n = 1 \/ buf[n] # Blank
    /\ \A k \in n + 1 .. i : buf[k] = Blank

LEMMA TrimmedExists ==
    ASSUME NEW i \in Nat \ {0}, NEW buf
    PROVE  \E n \in 1 .. i : TrimmedTo(n, i, buf)
<1> DEFINE T == {k \in 0 .. i - 1 : i - k = 1 \/ buf[i - k] # Blank}
<1>1. T \subseteq Nat /\ i - 1 \in T
  OBVIOUS
<1>2. PICK k \in T : \A j \in T : k <= j
  <2> HIDE DEF T
  <2> QED BY <1>1, Least
<1>3. i - k \in 1 .. i /\ (i - k = 1 \/ buf[i - k] # Blank)
  OBVIOUS
<1>4. ASSUME NEW j \in i - k + 1 .. i PROVE buf[j] = Blank
  <2>1. i - j \in 0 .. i - 1 /\ ~(k <= i - j) /\ i - (i - j) = j
    OBVIOUS
  <2> QED BY <1>2, <2>1
<1> QED BY <1>3, <1>4 DEF TrimmedTo

LEMMA TrimmedUnique ==
    ASSUME NEW i \in Nat, NEW buf,
           NEW m, TrimmedTo(m, i, buf), NEW n, TrimmedTo(n, i, buf)
    PROVE  m = n
<1>1. m \in 1 .. i /\ n \in 1 .. i
  BY DEF TrimmedTo
<1>2. CASE m < n
  <2>1. n \in m + 1 .. i /\ n # 1
    BY <1>1, <1>2
  <2> QED BY <2>1 DEF TrimmedTo
<1>3. CASE n < m
  <2>1. m \in n + 1 .. i /\ m # 1
    BY <1>1, <1>3
  <2> QED BY <2>1 DEF TrimmedTo
<1> QED BY <1>1, <1>2, <1>3

(* That length, by the loop's steps. *)
Trim(i, buf) == CHOOSE n \in 1 .. i : TrimmedTo(n, i, buf)

LEMMA TrimFacts ==
    ASSUME NEW i \in Nat \ {0}, NEW buf
    PROVE  /\ TrimmedTo(Trim(i, buf), i, buf)
           /\ Trim(1, buf) = 1
           /\ buf[i] # Blank => Trim(i, buf) = i
           /\ i # 1 /\ buf[i] = Blank => Trim(i, buf) = Trim(i - 1, buf)
<1>1. ASSUME NEW j \in Nat \ {0} PROVE TrimmedTo(Trim(j, buf), j, buf)
  BY TrimmedExists DEF Trim
<1>2. Trim(1, buf) = 1
  <2>1. Trim(1, buf) \in 1 .. 1
    BY <1>1 DEF TrimmedTo
  <2> QED BY <2>1
<1>3. ASSUME buf[i] # Blank PROVE Trim(i, buf) = i
  <2>1. TrimmedTo(i, i, buf)
    BY <1>3 DEF TrimmedTo
  <2> QED BY <1>1, <2>1, TrimmedUnique
<1>4. ASSUME i # 1, buf[i] = Blank PROVE Trim(i, buf) = Trim(i - 1, buf)
  <2>1. i - 1 \in Nat \ {0}
    BY <1>4
  <2>2. TrimmedTo(Trim(i - 1, buf), i - 1, buf)
    BY <1>1, <2>1
  <2> DEFINE n == Trim(i - 1, buf)
  <2> HIDE DEF n
  <2>3. ASSUME TrimmedTo(n, i - 1, buf) PROVE TrimmedTo(n, i, buf)
    <3>1. n \in 1 .. i - 1 /\ n \in 1 .. i
      BY <2>3 DEF TrimmedTo
    <3>2. ASSUME NEW k \in n + 1 .. i PROVE buf[k] = Blank
      <4>1. k = i \/ k \in n + 1 .. i - 1
        BY <3>1
      <4> QED BY <1>4, <2>3, <4>1 DEF TrimmedTo
    <3> QED BY <2>3, <3>1, <3>2 DEF TrimmedTo
  <2>4. TrimmedTo(n, i, buf)
    BY <2>2, <2>3 DEF n
  <2>5. Trim(i, buf) = n
    BY <1>1, <2>4, TrimmedUnique
  <2> QED BY <2>5 DEF n
<1> QED BY <1>1, <1>2, <1>3, <1>4

(* The loop of stdc.c. *)
IsBackDo(stop, buf) ==
    stop = [i \in 0 .. StrLen - 1 |->
               IF i # 0 /\ buf[i + 1] = Blank THEN stop[i - 1] ELSE i]

(* The constants. *)
LEMMA Sizes ==
    StrLen \in Nat /\ NameMax \in Nat /\ 1 <= NameMax /\ NameMax + 2 <= StrLen
BY NamesAssumption

LEMMA BackDoIs ==
    ASSUME NEW buf
    PROVE  BackDo(buf) = Trim(StrLen, buf) - 1
<1>0. StrLen \in Nat \ {0} /\ StrLen - 1 \in Nat
  BY Sizes
<1> DEFINE N == StrLen - 1
           f == [i \in 0 .. N |-> Trim(i + 1, buf) - 1]
           stop == CHOOSE g : IsBackDo(g, buf)
<1>1. ASSUME NEW i \in 0 .. N
      PROVE  /\ f[i] = Trim(i + 1, buf) - 1
             /\ i # 0 /\ buf[i + 1] = Blank => f[i] = f[i - 1]
             /\ ~(i # 0 /\ buf[i + 1] = Blank) => f[i] = i
  <2>1. i + 1 \in Nat \ {0} /\ (i + 1) - 1 = i
    BY <1>0
  <2>2. f[i] = Trim(i + 1, buf) - 1
    OBVIOUS
  <2>3. ASSUME i # 0, buf[i + 1] = Blank PROVE f[i] = f[i - 1]
    <3>1. i - 1 \in 0 .. N /\ (i - 1) + 1 = i /\ i + 1 # 1
      BY <1>0, <2>3
    <3>2. Trim(i + 1, buf) = Trim(i, buf)
      BY <2>1, <2>3, <3>1, TrimFacts
    <3> QED BY <2>2, <3>1, <3>2
  <2>4. ASSUME i = 0 \/ buf[i + 1] # Blank PROVE f[i] = i
    <3>1. Trim(i + 1, buf) = i + 1
      BY <2>1, <2>4, TrimFacts
    <3> QED BY <2>1, <2>2, <3>1
  <2> QED BY <2>2, <2>3, <2>4
<1> HIDE DEF f
<1>2. IsBackDo(f, buf)
  <2>1. f = [i \in 0 .. N |-> f[i]]
    BY DEF f
  <2>2. f = [i \in 0 .. N |-> IF i # 0 /\ buf[i + 1] = Blank THEN f[i - 1] ELSE i]
    BY <1>1, <2>1
  <2> QED BY <2>2 DEF IsBackDo
<1>3. IsBackDo(stop, buf)
  BY <1>2, Zenon
<1>4. BackDo(buf) = stop[N]
  BY Zenon DEF BackDo, IsBackDo
<1> HIDE DEF stop
<1>5. \A i \in 0 .. N :
         stop[i] = IF i # 0 /\ buf[i + 1] = Blank THEN stop[i - 1] ELSE i
  BY <1>3 DEF IsBackDo
<1>6. \A i \in 0 .. N : stop[i] = f[i]
  <2>1. \A i \in 0 .. N :
           \/ stop[i] = f[i]
           \/ i # 0 /\ stop[i] = stop[i - 1] /\ f[i] = f[i - 1]
    BY <1>1, <1>5
  <2> QED BY <1>0, <2>1, Agree
<1> QED
  <2>1. N \in 0 .. N /\ N + 1 = StrLen
    BY <1>0
  <2> QED BY <1>1, <1>4, <1>6, <2>1
(* The loop of msp430.c, which counts one more.                            *)
IsBackWhile(stop, buf) ==
    stop = [i \in 0 .. StrLen |->
               IF i = 0 THEN 0
               ELSE IF buf[i] # Blank THEN i - 1 ELSE stop[i - 1]]

LEMMA BackWhileIs ==
    ASSUME NEW buf
    PROVE  BackWhile(buf) = Trim(StrLen, buf) - 1
<1>0. StrLen \in Nat \ {0}
  BY Sizes
<1> DEFINE f == [i \in 0 .. StrLen |-> IF i = 0 THEN 0 ELSE Trim(i, buf) - 1]
           stop == CHOOSE g : IsBackWhile(g, buf)
<1>1. f[0] = 0 /\ \A i \in 1 .. StrLen : f[i] = Trim(i, buf) - 1
  BY <1>0
<1>2. f = [i \in 0 .. StrLen |-> f[i]]
  OBVIOUS
<1> HIDE DEF f
<1>3. ASSUME NEW i \in 1 .. StrLen
      PROVE  /\ buf[i] # Blank => f[i] = i - 1
             /\ buf[i] = Blank => f[i] = f[i - 1]
  <2>1. i \in Nat \ {0} /\ f[i] = Trim(i, buf) - 1
    BY <1>1
  <2>2. ASSUME buf[i] # Blank PROVE f[i] = i - 1
    BY <2>1, <2>2, TrimFacts
  <2>3. ASSUME buf[i] = Blank PROVE f[i] = f[i - 1]
    <3>1. CASE i = 1
      <4>1. Trim(1, buf) = 1
        BY <2>1, TrimFacts
      <4> QED BY <1>1, <2>1, <3>1, <4>1
    <3>2. CASE i # 1
      <4>1. i - 1 \in 1 .. StrLen
        BY <1>0, <3>2
      <4>2. Trim(i, buf) = Trim(i - 1, buf)
        BY <2>1, <2>3, <3>2, TrimFacts
      <4> QED BY <1>1, <2>1, <4>1, <4>2
    <3> QED BY <3>1, <3>2
  <2> QED BY <2>2, <2>3
<1>4. IsBackWhile(f, buf)
  <2>1. \A i \in 0 .. StrLen :
           f[i] = IF i = 0 THEN 0 ELSE IF buf[i] # Blank THEN i - 1 ELSE f[i - 1]
    BY <1>1, <1>3
  <2>2. f = [i \in 0 .. StrLen |->
                IF i = 0 THEN 0 ELSE IF buf[i] # Blank THEN i - 1 ELSE f[i - 1]]
    BY <1>2, <2>1
  <2> QED BY <2>2 DEF IsBackWhile
<1>5. IsBackWhile(stop, buf)
  BY <1>4, Zenon
<1>6. BackWhile(buf) = stop[StrLen]
  BY Zenon DEF BackWhile, IsBackWhile
<1> HIDE DEF stop
<1>7. \A i \in 0 .. StrLen :
         stop[i] = IF i = 0 THEN 0 ELSE IF buf[i] # Blank THEN i - 1 ELSE stop[i - 1]
  BY <1>5 DEF IsBackWhile
<1>8. \A i \in 0 .. StrLen : stop[i] = f[i]
  <2>1. \A i \in 0 .. StrLen :
           \/ stop[i] = f[i]
           \/ i # 0 /\ stop[i] = stop[i - 1] /\ f[i] = f[i - 1]
    BY <1>1, <1>3, <1>7
  <2> QED BY <1>0, <2>1, Agree
<1> QED
  <2>1. StrLen \in 1 .. StrLen
    BY <1>0
  <2> QED BY <1>1, <1>6, <1>8, <2>1

(* So both platforms find the same end.                                    *)
LEMMA BackIs ==
    ASSUME NEW build, NEW buf
    PROVE  /\ Back(build, buf) + 1 = TrimmedLen(buf)
           /\ IsTrimmed(TrimmedLen(buf), buf)
           /\ TrimmedLen(buf) \in 1 .. StrLen
<1>0. StrLen \in Nat \ {0}
  BY Sizes
<1>1. TrimmedLen(buf) = Trim(StrLen, buf)
  BY Zenon DEF TrimmedLen, Trim, IsTrimmed, TrimmedTo
<1>2. TrimmedTo(Trim(StrLen, buf), StrLen, buf)
  BY <1>0, TrimFacts
<1>3. Back(build, buf) = Trim(StrLen, buf) - 1
  BY BackDoIs, BackWhileIs DEF Back
<1>4. Trim(StrLen, buf) \in 1 .. StrLen
  BY <1>2 DEF TrimmedTo
<1> QED BY <1>0, <1>1, <1>2, <1>3, <1>4 DEF IsTrimmed, TrimmedTo

-----------------------------------------------------------------------------
(* From i on, the first NUL or the end of the buffer is behind r characters. *)
StopsAt(r, i, src) ==
    /\ r \in i .. StrLen
    /\ r = StrLen \/ src[r + 1] = Nul
    /\ \A k \in i + 1 .. r : src[k] # Nul

LEMMA StopExists ==
    ASSUME NEW i \in 0 .. StrLen, NEW src
    PROVE  \E r \in i .. StrLen : StopsAt(r, i, src)
<1>0. StrLen \in Nat
  BY Sizes
<1> DEFINE T == {r \in i .. StrLen : r = StrLen \/ src[r + 1] = Nul}
<1>1. T \subseteq Nat /\ StrLen \in T
  BY <1>0
<1>2. PICK r \in T : \A j \in T : r <= j
  <2> HIDE DEF T
  <2> QED BY <1>1, Least
<1>3. r \in i .. StrLen /\ (r = StrLen \/ src[r + 1] = Nul)
  OBVIOUS
<1>4. ASSUME NEW k \in i + 1 .. r PROVE src[k] # Nul
  <2>1. k - 1 \in i .. StrLen /\ ~(r <= k - 1) /\ (k - 1) + 1 = k
    BY <1>0, <1>3
  <2> QED BY <1>2, <2>1
<1> QED BY <1>3, <1>4 DEF StopsAt

LEMMA StopUnique ==
    ASSUME NEW i \in Nat, NEW src, NEW q, StopsAt(q, i, src),
           NEW r, StopsAt(r, i, src)
    PROVE  q = r
<1>0. StrLen \in Nat /\ q \in i .. StrLen /\ r \in i .. StrLen
  BY Sizes DEF StopsAt
<1>1. CASE q < r
  <2>1. q + 1 \in i + 1 .. r /\ q # StrLen
    BY <1>0, <1>1
  <2> QED BY <2>1 DEF StopsAt
<1>2. CASE r < q
  <2>1. r + 1 \in i + 1 .. q /\ r # StrLen
    BY <1>0, <1>2
  <2> QED BY <2>1 DEF StopsAt
<1> QED BY <1>0, <1>1, <1>2

(* That place, by the loops' steps. *)
Stop(i, src) == CHOOSE r \in i .. StrLen : StopsAt(r, i, src)

LEMMA StopFacts ==
    ASSUME NEW i \in 0 .. StrLen, NEW src
    PROVE  /\ StopsAt(Stop(i, src), i, src)
           /\ Stop(StrLen, src) = StrLen
           /\ i # StrLen /\ src[i + 1] = Nul => Stop(i, src) = i
           /\ i # StrLen /\ src[i + 1] # Nul => Stop(i, src) = Stop(i + 1, src)
<1>0. StrLen \in Nat
  BY Sizes
<1>1. ASSUME NEW j \in 0 .. StrLen PROVE StopsAt(Stop(j, src), j, src)
  BY StopExists DEF Stop
<1>2. Stop(StrLen, src) = StrLen
  <2>1. Stop(StrLen, src) \in StrLen .. StrLen
    BY <1>0, <1>1 DEF StopsAt
  <2> QED BY <1>0, <2>1
<1>3. ASSUME i # StrLen, src[i + 1] = Nul PROVE Stop(i, src) = i
  <2>1. StopsAt(i, i, src)
    BY <1>0, <1>3 DEF StopsAt
  <2> QED BY <1>1, <2>1, StopUnique
<1>4. ASSUME i # StrLen, src[i + 1] # Nul PROVE Stop(i, src) = Stop(i + 1, src)
  <2>1. i + 1 \in 0 .. StrLen
    BY <1>0, <1>4
  <2> DEFINE r == Stop(i + 1, src)
  <2>2. StopsAt(r, i + 1, src)
    BY <1>1, <2>1
  <2> HIDE DEF r
  <2>3. r \in i + 1 .. StrLen /\ r \in i .. StrLen
    BY <1>0, <2>2 DEF StopsAt
  <2>4. ASSUME NEW k \in i + 1 .. r PROVE src[k] # Nul
    <3>1. k = i + 1 \/ k \in (i + 1) + 1 .. r
      BY <2>3
    <3> QED BY <1>4, <2>2, <3>1 DEF StopsAt
  <2>5. StopsAt(r, i, src)
    BY <2>2, <2>3, <2>4 DEF StopsAt
  <2>6. Stop(i, src) = r
    BY <1>1, <2>5, StopUnique
  <2> QED BY <2>6 DEF r
<1> QED BY <1>1, <1>2, <1>3, <1>4

(* The loop of stdc.c, *)
IsDown(stop, src) ==
    stop = [len \in 0 .. StrLen |->
               IF len = 0 THEN StrLen
               ELSE IF src[StrLen - len + 1] = Nul THEN StrLen - len
               ELSE stop[len - 1]]

(* and that of msp430.c. *)
IsUp(stop, src) ==
    stop = [i \in 0 .. StrLen |->
               IF i = StrLen THEN i ELSE IF src[i + 1] = Nul THEN i ELSE stop[i + 1]]

LEMMA DownIs ==
    ASSUME NEW src
    PROVE  slen("stdc", src) = Stop(0, src)
<1>0. StrLen \in Nat
  BY Sizes
<1> DEFINE f == [len \in 0 .. StrLen |-> Stop(StrLen - len, src)]
           stop == CHOOSE g : IsDown(g, src)
<1>1. \A len \in 0 .. StrLen : f[len] = Stop(StrLen - len, src)
  OBVIOUS
<1>2. f = [len \in 0 .. StrLen |-> f[len]]
  OBVIOUS
<1> HIDE DEF f
<1>3. f[0] = StrLen
  <2>1. 0 \in 0 .. StrLen /\ StrLen - 0 = StrLen
    BY <1>0
  <2> QED BY <1>1, <2>1, StopFacts
<1>4. ASSUME NEW len \in 1 .. StrLen
      PROVE  /\ src[StrLen - len + 1] = Nul => f[len] = StrLen - len
             /\ src[StrLen - len + 1] # Nul => f[len] = f[len - 1]
  <2>1. /\ len \in 0 .. StrLen /\ len - 1 \in 0 .. StrLen
        /\ StrLen - len \in 0 .. StrLen /\ StrLen - len # StrLen
        /\ StrLen - (len - 1) = (StrLen - len) + 1
    BY <1>0
  <2> QED BY <1>1, <2>1, StopFacts
<1>5. IsDown(f, src)
  <2>1. \A len \in 0 .. StrLen :
           f[len] = IF len = 0 THEN StrLen
                    ELSE IF src[StrLen - len + 1] = Nul THEN StrLen - len
                    ELSE f[len - 1]
    BY <1>3, <1>4
  <2> QED BY <1>2, <2>1 DEF IsDown
<1>6. IsDown(stop, src)
  BY <1>5, Zenon
<1>7. slen("stdc", src) = stop[StrLen]
  BY Zenon DEF slen, IsDown
<1> HIDE DEF stop
<1>8. \A len \in 0 .. StrLen :
         stop[len] = IF len = 0 THEN StrLen
                     ELSE IF src[StrLen - len + 1] = Nul THEN StrLen - len
                     ELSE stop[len - 1]
  BY <1>6 DEF IsDown
<1>9. \A len \in 0 .. StrLen : stop[len] = f[len]
  <2>1. \A len \in 0 .. StrLen :
           \/ stop[len] = f[len]
           \/ len # 0 /\ stop[len] = stop[len - 1] /\ f[len] = f[len - 1]
    BY <1>3, <1>4, <1>8
  <2> QED BY <1>0, <2>1, Agree
<1> QED
  <2>1. StrLen \in 0 .. StrLen /\ StrLen - StrLen = 0
    BY <1>0
  <2> QED BY <1>1, <1>7, <1>9, <2>1

LEMMA UpIs ==
    ASSUME NEW src
    PROVE  slen("msp430", src) = Stop(0, src)
<1>0. StrLen \in Nat
  BY Sizes
<1> DEFINE f == [i \in 0 .. StrLen |-> Stop(i, src)]
           stop == CHOOSE g : IsUp(g, src)
           back == [len \in 0 .. StrLen |-> stop[StrLen - len]]
           kcab == [len \in 0 .. StrLen |-> f[StrLen - len]]
<1>1. f = [i \in 0 .. StrLen |-> f[i]] /\ \A i \in 0 .. StrLen : f[i] = Stop(i, src)
  OBVIOUS
<1> HIDE DEF f
<1>2. f[StrLen] = StrLen
  <2>1. StrLen \in 0 .. StrLen
    BY <1>0
  <2> QED BY <1>1, <2>1, StopFacts
<1>3. ASSUME NEW i \in 0 .. StrLen, i # StrLen
      PROVE  /\ src[i + 1] = Nul => f[i] = i
             /\ src[i + 1] # Nul => f[i] = f[i + 1]
  <2>1. i + 1 \in 0 .. StrLen
    BY <1>0, <1>3
  <2> QED BY <1>1, <1>3, <2>1, StopFacts
<1>4. IsUp(f, src)
  <2>1. \A i \in 0 .. StrLen :
           f[i] = IF i = StrLen THEN i ELSE IF src[i + 1] = Nul THEN i ELSE f[i + 1]
    BY <1>2, <1>3
  <2> QED BY <1>1, <2>1 DEF IsUp
<1>5. IsUp(stop, src)
  BY <1>4, Zenon
<1>6. slen("msp430", src) = stop[0]
  BY Zenon DEF slen, IsUp
<1> HIDE DEF stop
<1>7. \A i \in 0 .. StrLen :
         stop[i] = IF i = StrLen THEN i ELSE IF src[i + 1] = Nul THEN i ELSE stop[i + 1]
  BY <1>5 DEF IsUp
<1>8. \A len \in 0 .. StrLen :
         back[len] = stop[StrLen - len] /\ kcab[len] = f[StrLen - len]
  OBVIOUS
<1> HIDE DEF back, kcab
<1>9. ASSUME NEW len \in 0 .. StrLen
      PROVE  \/ back[len] = kcab[len]
             \/ len # 0 /\ back[len] = back[len - 1] /\ kcab[len] = kcab[len - 1]
  <2> DEFINE i == StrLen - len
  <2>1. /\ i \in 0 .. StrLen /\ (len = 0 <=> i = StrLen)
        /\ len # 0 => len - 1 \in 0 .. StrLen /\ StrLen - (len - 1) = i + 1
    BY <1>0
  <2>2. back[len] = stop[i] /\ kcab[len] = f[i]
    BY <1>8
  <2>3. len # 0 => back[len - 1] = stop[i + 1] /\ kcab[len - 1] = f[i + 1]
    BY <1>8, <2>1
  <2> HIDE DEF i
  <2> QED BY <1>2, <1>3, <1>7, <2>1, <2>2, <2>3
<1>10. \A len \in 0 .. StrLen : back[len] = kcab[len]
  BY <1>0, <1>9, Agree
<1> QED
  <2>1. StrLen \in 0 .. StrLen /\ StrLen - StrLen = 0 /\ 0 \in 0 .. StrLen
    BY <1>0
  <2> QED BY <1>1, <1>6, <1>8, <1>10, <2>1

LEMMA SlenIs ==
    ASSUME NEW build \in Builds, NEW src
    PROVE  StopsAt(slen(build, src), 0, src)
<1>1. StopsAt(Stop(0, src), 0, src)
  <2>1. 0 \in 0 .. StrLen
    BY Sizes
  <2> QED BY <2>1, StopFacts
<1> QED BY <1>1, DownIs, UpIs DEF Builds
-----------------------------------------------------------------------------
(* What the C library makes of a buffer: n characters, before the first    *)
(* NUL or all there are.                                                   *)
EndsAt(n, s) ==
    /\ n \in 0 .. Len(s)
    /\ n = Len(s) \/ s[n + 1] = Nul
    /\ \A k \in 1 .. n : s[k] # Nul

LEMMA CStringIs ==
    ASSUME NEW S, NEW s \in Seq(S), NEW n, EndsAt(n, s)
    PROVE  CString(s) = SubSeq(s, 1, n)
<1>0. Len(s) \in Nat /\ n \in 0 .. Len(s)
  BY LenProperties DEF EndsAt
<1>1. CASE Contains(s, Nul)
  <2> DEFINE I == {i \in 1 .. Len(s) : s[i] = Nul}
  <2>1. PICK k \in 1 .. Len(s) : s[k] = Nul
    BY <1>1 DEF Contains
  <2>2. n # Len(s)
    BY <1>0, <2>1 DEF EndsAt
  <2>3. n + 1 \in I
    BY <1>0, <2>2 DEF EndsAt
  <2>4. ASSUME NEW i \in I PROVE n + 1 <= i
    <3>1. i \in 1 .. Len(s) /\ ~(i \in 1 .. n)
      BY DEF EndsAt
    <3> QED BY <1>0, <3>1
  <2>5. \A i \in I : i \in Nat
    OBVIOUS
  <2>6. SelectInSeq(s, LAMBDA c : c = Nul) = IF I # {} THEN Min(I) ELSE 0
    BY DEF SelectInSeq
  <2> HIDE DEF I
  <2>7. Min(I) = n + 1
    <3>1. /\ Min(I) \in I /\ \A y \in I : Min(I) =< y
      BY <2>3, <2>4 DEF Min
    <3>2. Min(I) \in Nat /\ Min(I) =< n + 1 /\ n + 1 <= Min(I)
      BY <2>3, <2>4, <2>5, <3>1
    <3> QED BY <1>0, <3>2
  <2>8. UntilNul(s) = n
    BY <1>0, <2>3, <2>6, <2>7 DEF UntilNul
  <2> QED BY <1>1, <2>8 DEF CString
<1>2. CASE ~Contains(s, Nul)
  <2>1. n = Len(s)
    <3>1. CASE n # Len(s)
      <4>1. n + 1 \in 1 .. Len(s) /\ s[n + 1] = Nul
        BY <1>0, <3>1 DEF EndsAt
      <4> QED BY <1>2, <4>1 DEF Contains
    <3> QED BY <3>1
  <2>2. CString(s) = s
    BY <1>2 DEF CString
  <2> QED BY <2>1, <2>2, SubSeqFull
<1> QED BY <1>1, <1>2

LEMMA EndExists ==
    ASSUME NEW S, NEW s \in Seq(S)
    PROVE  \E n \in 0 .. Len(s) : EndsAt(n, s)
<1>0. Len(s) \in Nat
  BY LenProperties
<1> DEFINE m == Len(s)
           T == {n \in 0 .. m : n = m \/ s[n + 1] = Nul}
<1> HIDE DEF m
<1>1. m \in Nat
  BY <1>0 DEF m
<1>2. T \subseteq Nat /\ m \in T
  BY <1>1
<1>3. PICK n \in T : \A j \in T : n <= j
  <2> HIDE DEF T
  <2> QED BY <1>2, Least
<1>4. n \in 0 .. m /\ (n = m \/ s[n + 1] = Nul)
  OBVIOUS
<1>5. ASSUME NEW k \in 1 .. n PROVE s[k] # Nul
  <2>1. k - 1 \in 0 .. m /\ ~(n <= k - 1) /\ (k - 1) + 1 = k
    BY <1>1, <1>4
  <2> QED BY <1>3, <2>1
<1> QED BY <1>4, <1>5 DEF EndsAt, m

(* Two buffers show the same string if they agree up to its end, and the   *)
(* longer has a NUL behind what the other has.                             *)
LEMMA SameString ==
    ASSUME NEW S, NEW a \in Seq(S), NEW b \in Seq(S), Len(b) <= Len(a),
           \A k \in 1 .. Len(b) :
              (\A j \in 1 .. k - 1 : b[j] # Nul) => a[k] = b[k],
           Len(b) < Len(a) /\ (\A j \in 1 .. Len(b) : b[j] # Nul)
              => a[Len(b) + 1] = Nul
    PROVE  CString(a) = CString(b)
<1>0. Len(a) \in Nat /\ Len(b) \in Nat
  BY LenProperties
<1>1. PICK n \in 0 .. Len(b) : EndsAt(n, b)
  BY EndExists
<1>2. ASSUME NEW k \in 1 .. n PROVE a[k] = b[k] /\ b[k] # Nul
  <2>1. k \in 1 .. Len(b) /\ \A j \in 1 .. k - 1 : j \in 1 .. n
    BY <1>0
  <2> QED BY <1>1, <2>1 DEF EndsAt
<1>3. n = Len(a) \/ a[n + 1] = Nul
  <2>1. CASE n = Len(b)
    BY <1>0, <1>2, <2>1
  <2>2. CASE n # Len(b)
    <3>1. n + 1 \in 1 .. Len(b) /\ \A j \in 1 .. (n + 1) - 1 : b[j] # Nul
      BY <1>0, <1>2, <2>2
    <3>2. b[n + 1] = Nul
      BY <1>1, <2>2 DEF EndsAt
    <3> QED BY <3>1, <3>2
  <2> QED BY <2>1, <2>2
<1>4. EndsAt(n, a)
  <2>1. n \in 0 .. Len(a)
    BY <1>0
  <2> QED BY <1>2, <1>3, <2>1 DEF EndsAt
<1>5. CString(a) = SubSeq(a, 1, n) /\ CString(b) = SubSeq(b, 1, n)
  BY <1>1, <1>4, CStringIs
<1>6. SubSeq(a, 1, n) = SubSeq(b, 1, n)
  <2>1. \A k \in 1 .. n : a[k] \in S /\ b[k] \in S
    <3>1. ASSUME NEW k \in 1 .. n PROVE k \in 1 .. Len(a) /\ k \in 1 .. Len(b)
      BY <1>0
    <3> QED BY <3>1, ElementOfSeq
  <2>2. /\ SubSeq(a, 1, n) \in Seq(S) /\ Len(SubSeq(a, 1, n)) = n
        /\ \A k \in 1 .. n : SubSeq(a, 1, n)[k] = a[k]
    BY <1>0, <2>1, SubSeqProperties
  <2>3. /\ SubSeq(b, 1, n) \in Seq(S) /\ Len(SubSeq(b, 1, n)) = n
        /\ \A k \in 1 .. n : SubSeq(b, 1, n)[k] = b[k]
    BY <1>0, <2>1, SubSeqProperties
  <2> DEFINE p == SubSeq(a, 1, n)
             q == SubSeq(b, 1, n)
  <2>4. /\ p \in Seq(S) /\ q \in Seq(S) /\ Len(p) = Len(q)
        /\ \A k \in 1 .. Len(p) : p[k] = q[k]
    BY <1>2, <2>2, <2>3
  <2> HIDE DEF p, q
  <2>5. p = q
    BY <2>4, SeqEqual
  <2> QED BY <2>5 DEF p, q
<1> QED BY <1>5, <1>6

(* A string of the protocol, and one the player is told. *)
LEMMA FieldIsSeq ==
    ASSUME NEW n \in Nat, NEW S, NEW buf \in [1 .. n -> S]
    PROVE  buf \in Seq(S) /\ Len(buf) = n
OBVIOUS

LEMMA SlenShows ==
    ASSUME NEW build \in Builds, NEW buf \in [1 .. StrLen -> Chars]
    PROVE  /\ slen(build, buf) \in 0 .. StrLen
           /\ SubSeq(buf, 1, slen(build, buf)) = CString(buf)
           /\ slen(build, buf) = Len(CString(buf))
<1>0. StrLen \in Nat
  BY Sizes
<1> DEFINE n == slen(build, buf)
<1>1. StopsAt(n, 0, buf)
  BY SlenIs
<1>2. buf \in Seq(Chars) /\ Len(buf) = StrLen
  BY <1>0, FieldIsSeq
<1> HIDE DEF n
<1>3. n \in 0 .. StrLen /\ EndsAt(n, buf)
  BY <1>0, <1>1, <1>2 DEF StopsAt, EndsAt
<1>4. CString(buf) = SubSeq(buf, 1, n)
  BY <1>2, <1>3, CStringIs
<1>5. Len(SubSeq(buf, 1, n)) = n
  <2>1. \A k \in 1 .. n : buf[k] \in Chars
    BY <1>0, <1>3
  <2> QED BY <1>0, <1>3, <2>1, SubSeqProperties
<1> QED BY <1>3, <1>4, <1>5 DEF n

-----------------------------------------------------------------------------
(* A name that is not too long is written, with a NUL; another changes     *)
(* nothing.                                                                *)
LEMMA StrimFacts ==
    ASSUME NEW build, NEW dst \in [1 .. NameMax + 1 -> Chars],
           NEW buf \in [1 .. StrLen -> Chars]
    PROVE  LET trimmed == strim(build, dst, buf, NameMax)
               n == TrimmedLen(buf)
           IN  /\ n > NameMax => trimmed = [len |-> -1, dst |-> dst]
               /\ n <= NameMax => /\ trimmed.len = n
                                  /\ trimmed.dst \in [1 .. NameMax + 1 -> Chars]
                                  /\ trimmed.dst[n + 1] = Nul
                                  /\ \A k \in 1 .. n : trimmed.dst[k] = buf[k]
<1> DEFINE n == TrimmedLen(buf)
           trimmed == strim(build, dst, buf, NameMax)
<1>0. StrLen \in Nat /\ NameMax \in Nat /\ NameMax + 2 <= StrLen
  BY Sizes
<1>1. Back(build, buf) + 1 = n /\ n \in 1 .. StrLen
  BY BackIs
<1>2. trimmed = IF n > NameMax THEN [len |-> -1, dst |-> dst] ELSE Cut(dst, buf, n)
  BY <1>1 DEF strim
<1> HIDE DEF n, trimmed
<1>3. ASSUME n <= NameMax
      PROVE  /\ trimmed.len = n
             /\ trimmed.dst \in [1 .. NameMax + 1 -> Chars]
             /\ trimmed.dst[n + 1] = Nul
             /\ \A k \in 1 .. n : trimmed.dst[k] = buf[k]
  <2> DEFINE d == [k \in 1 .. NameMax + 1 |->
                     CASE k <= n -> buf[k] [] k = n + 1 -> Nul [] OTHER -> dst[k]]
  <2>1. DOMAIN dst = 1 .. NameMax + 1
    OBVIOUS
  <2>2. trimmed.len = n /\ trimmed.dst = d
    BY <1>0, <1>1, <1>2, <1>3, <2>1 DEF Cut
  <2>3. \A k \in 1 .. n : k \in 1 .. NameMax + 1 /\ d[k] = buf[k]
    BY <1>0, <1>1, <1>3
  <2>4. d[n + 1] = Nul
    BY <1>0, <1>1, <1>3
  <2>5. ASSUME NEW k \in 1 .. NameMax + 1 PROVE d[k] \in Chars
    <3>1. Nul \in Chars
      BY DEF Chars
    <3>2. k <= n => k \in 1 .. StrLen
      BY <1>0, <1>1
    <3>3. d[k] \in {buf[k], Nul, dst[k]} /\ (k <= n => d[k] = buf[k])
          /\ (~(k <= n) => d[k] \in {Nul, dst[k]})
      BY <1>0, <1>1
    <3> QED BY <3>1, <3>2, <3>3
  <2>6. d \in [1 .. NameMax + 1 -> Chars]
    BY <2>5
  <2> HIDE DEF d
  <2> QED BY <2>2, <2>3, <2>4, <2>6
<1>4. n \in Nat /\ (n > NameMax \/ n <= NameMax)
  BY <1>0, <1>1
<1>5. n > NameMax => trimmed = [len |-> -1, dst |-> dst]
  BY <1>2
<1> QED BY <1>3, <1>5 DEF n, trimmed
-----------------------------------------------------------------------------
(* The name that was accepted last is what the buffer shows, as long as    *)
(* its length says that one was.                                           *)
Named ==
    enln > 0 => /\ Len(name) = enln /\ nbuf[enln + 1] = Nul
                /\ \A k \in 1 .. enln : nbuf[k] = name[k]

NameInv ==
    /\ in \in [1 .. StrLen -> Chars]
    /\ nbuf \in [1 .. NameMax + 1 -> Chars]
    /\ enln \in -1 .. NameMax
    /\ name \in Seq(Chars) /\ Len(name) <= NameMax
    /\ Named

LEMMA FilledTyped ==
    ASSUME NameInv, NEW field \in Greetings \cup Texts, NEW qty \in Int
    PROVE  Filled(field, qty) \in [1 .. StrLen -> Chars]
<1>1. field \in [1 .. StrLen -> Chars]
  BY NamesAssumption
<1> QED BY <1>1 DEF Filled, NameInv

LEMMA InitNameInv ==
    ASSUME Init
    PROVE  NameInv
<1>1. Nul \in Chars
  BY DEF Chars
<1>2. in \in [1 .. StrLen -> Chars] /\ nbuf \in [1 .. NameMax + 1 -> Chars]
  BY <1>1 DEF Init
<1>3. enln = 0 /\ name = <<>>
  BY DEF Init
<1>4. name \in Seq(Chars) /\ Len(name) = 0
  BY <1>3, EmptySeq
<1> QED BY <1>2, <1>3, <1>4, Sizes DEF NameInv, Named

LEMMA NextNameInv ==
    ASSUME NameInv, [Next]_vars
    PROVE  NameInv'
<1>0. /\ StrLen \in Nat /\ NameMax \in Nat /\ NameMax + 2 <= StrLen
      /\ nbuf \in [1 .. NameMax + 1 -> Chars] /\ enln \in -1 .. NameMax
      /\ name \in Seq(Chars) /\ Len(name) <= NameMax
  BY Sizes DEF NameInv
<1>1. CASE ctname
  <2>1. in' \in [1 .. StrLen -> Chars]
    <3>1. PICK field \in Greetings, qty \in 0 .. StrLen : in' = Filled(field, qty)
      BY <1>1 DEF ctname
    <3>2. qty \in Int
      BY <1>0
    <3> QED BY <3>1, <3>2, FilledTyped
  <2> DEFINE n == TrimmedLen(in')
             trimmed == strim(Build, nbuf, in', NameMax)
  <2>2. n \in 1 .. StrLen
    BY BackIs
  <2>3. nbuf' = trimmed.dst /\ enln' = trimmed.len
    BY <1>1 DEF ctname
  <2>4. name' = IF n > NameMax THEN name ELSE SubSeq(in', 1, n)
    BY <1>1 DEF ctname
  <2>5. /\ n > NameMax => trimmed = [len |-> -1, dst |-> nbuf]
        /\ n <= NameMax => /\ trimmed.len = n
                           /\ trimmed.dst \in [1 .. NameMax + 1 -> Chars]
                           /\ trimmed.dst[n + 1] = Nul
                           /\ \A k \in 1 .. n : trimmed.dst[k] = in'[k]
    BY <1>0, <2>1, StrimFacts
  <2> HIDE DEF n, trimmed
  <2>6. CASE n > NameMax
    <3>1. nbuf' = nbuf /\ enln' = -1 /\ name' = name
      BY <2>3, <2>4, <2>5, <2>6
    <3> QED BY <1>0, <2>1, <3>1 DEF NameInv, Named
  <2>7. CASE n <= NameMax
    <3>1. /\ enln' = n /\ nbuf' \in [1 .. NameMax + 1 -> Chars]
          /\ nbuf'[n + 1] = Nul /\ \A k \in 1 .. n : nbuf'[k] = in'[k]
      BY <2>3, <2>5, <2>7
    <3>2. name' = SubSeq(in', 1, n)
      BY <1>0, <2>2, <2>4, <2>7
    <3>3. \A k \in 1 .. n : in'[k] \in Chars
      BY <1>0, <2>1, <2>2
    <3>4. /\ name' \in Seq(Chars) /\ Len(name') = n
          /\ \A k \in 1 .. n : name'[k] = in'[k]
      <4>1. n - 1 + 1 = n /\ \A k \in 1 .. n : 1 + k - 1 = k
        BY <2>2
      <4> QED BY <2>2, <3>2, <3>3, <4>1, SubSeqProperties
    <3> QED BY <1>0, <2>1, <2>2, <2>7, <3>1, <3>4 DEF NameInv, Named
  <2> QED BY <1>0, <2>2, <2>6, <2>7
<1>2. CASE ctmsg
  <2>1. in' \in [1 .. StrLen -> Chars]
    <3>1. PICK text \in Texts, qty \in 1 .. StrLen : in' = Filled(text, qty)
      BY <1>2 DEF ctmsg
    <3>2. qty \in Int
      BY <1>0
    <3> QED BY <3>1, <3>2, FilledTyped
  <2>2. nbuf' = nbuf /\ enln' = enln /\ name' = name
    BY <1>2 DEF ctmsg
  <2> QED BY <2>1, <2>2 DEF NameInv, Named
<1>3. CASE UNCHANGED vars
  BY <1>3 DEF vars, NameInv, Named
<1> QED BY <1>1, <1>2, <1>3 DEF Next

(* strim and slen find the end of whatever has been read.                  *)
LEMMA InvTrim ==
    ASSUME NameInv
    PROVE  TrimIsExact
<1>0. /\ StrLen \in Nat /\ NameMax \in Nat /\ NameMax + 2 <= StrLen
      /\ nbuf \in [1 .. NameMax + 1 -> Chars] /\ in \in [1 .. StrLen -> Chars]
  BY Sizes DEF NameInv
<1> SUFFICES ASSUME NEW build \in Builds
    PROVE  LET trimmed == strim(build, nbuf, in, NameMax)
           IN  /\ IF TrimmedLen(in) > NameMax
                     THEN trimmed = [len |-> -1, dst |-> nbuf]
                   ELSE /\ trimmed.len = TrimmedLen(in)
                        /\ SubSeq(trimmed.dst, 1, trimmed.len + 1)
                             = Append(SubSeq(in, 1, TrimmedLen(in)), Nul)
               /\ slen(build, in) = Len(CString(in))
  BY DEF TrimIsExact
<1> DEFINE n == TrimmedLen(in)
           trimmed == strim(build, nbuf, in, NameMax)
           p == SubSeq(trimmed.dst, 1, n + 1)
           q == SubSeq(in, 1, n)
<1>1. slen(build, in) = Len(CString(in))
  BY <1>0, SlenShows
<1>2. n \in 1 .. StrLen
  BY BackIs
<1>3. /\ n > NameMax => trimmed = [len |-> -1, dst |-> nbuf]
      /\ n <= NameMax => /\ trimmed.len = n
                         /\ trimmed.dst \in [1 .. NameMax + 1 -> Chars]
                         /\ trimmed.dst[n + 1] = Nul
                         /\ \A k \in 1 .. n : trimmed.dst[k] = in[k]
  BY <1>0, StrimFacts
<1> HIDE DEF n, trimmed
<1>4. ASSUME n <= NameMax PROVE p = Append(q, Nul)
  <2>0. Nul \in Chars /\ n \in Nat
    BY <1>2 DEF Chars
  <2>1. /\ q \in Seq(Chars) /\ Len(q) = n
        /\ \A k \in 1 .. n : q[k] = in[k]
    <3>1. \A k \in 1 .. n : in[k] \in Chars
      BY <1>0, <1>2
    <3> QED BY <1>2, <3>1, SubSeqProperties
  <2>2. /\ p \in Seq(Chars) /\ Len(p) = n + 1
        /\ \A k \in 1 .. n + 1 : p[k] = trimmed.dst[k]
    <3>1. \A k \in 1 .. n + 1 : trimmed.dst[k] \in Chars
      BY <1>0, <1>2, <1>3, <1>4
    <3> QED BY <1>2, <3>1, SubSeqProperties
  <2> HIDE DEF p, q
  <2>3. /\ Append(q, Nul) \in Seq(Chars) /\ Len(Append(q, Nul)) = n + 1
        /\ \A k \in 1 .. n : Append(q, Nul)[k] = q[k]
        /\ Append(q, Nul)[n + 1] = Nul
    BY <2>0, <2>1, AppendProperties
  <2> DEFINE r == Append(q, Nul)
  <2>4. /\ r \in Seq(Chars) /\ Len(r) = n + 1
        /\ \A k \in 1 .. n : r[k] = q[k]
        /\ r[n + 1] = Nul
    BY <2>3
  <2> HIDE DEF r
  <2>5. \A k \in 1 .. n + 1 : p[k] = r[k]
    <3>1. ASSUME NEW k \in 1 .. n + 1 PROVE p[k] = r[k]
      <4>1. k = n + 1 \/ k \in 1 .. n
        BY <2>0
      <4> QED BY <1>3, <1>4, <2>1, <2>2, <2>4, <4>1
    <3> QED BY <3>1
  <2>6. p = r
    BY <2>2, <2>4, <2>5, SeqEqual
  <2> QED BY <2>6 DEF r
<1>5. n \in Nat /\ (n > NameMax \/ n <= NameMax)
  BY <1>0, <1>2
<1> HIDE DEF p, q
<1>6. ASSUME n <= NameMax PROVE trimmed.len = n /\ p = Append(q, Nul)
  BY <1>3, <1>4, <1>6
<1>7. CASE n > NameMax
  BY <1>1, <1>3, <1>7 DEF n, trimmed
<1>8. CASE n <= NameMax
  <2>1. ~(n > NameMax)
    BY <1>0, <1>5, <1>8
  <2> QED BY <1>1, <1>6, <1>8, <2>1 DEF n, trimmed, p, q
<1> QED BY <1>5, <1>7, <1>8

(* Both platforms find the same end of any name and of any string, and a   *)
(* name that is too long leaves the buffer as it was (strim and slen in    *)
(* stdc.c and msp430.c).                                                   *)
THEOREM TrimCorrect == Spec => []TrimIsExact
<1>1. Init => NameInv
  BY InitNameInv
<1>2. NameInv /\ [Next]_vars => NameInv'
  BY NextNameInv
<1>3. NameInv => TrimIsExact
  BY InvTrim
<1> QED BY <1>1, <1>2, <1>3, PTL DEF Spec
-----------------------------------------------------------------------------
(* The smaller of two numbers. *)
LEMMA MinIs ==
    ASSUME NEW a \in Int, NEW b \in Int
    PROVE  Min({a, b}) = IF a <= b THEN a ELSE b
<1> DEFINE m == IF a <= b THEN a ELSE b
<1>1. m \in {a, b} /\ \A y \in {a, b} : m =< y
  OBVIOUS
<1>2. /\ Min({a, b}) \in {a, b}
      /\ \A y \in {a, b} : Min({a, b}) =< y
  <2> HIDE DEF m
  <2> QED BY <1>1 DEF Min
<1>3. Min({a, b}) =< a /\ Min({a, b}) =< b
  BY <1>2
<1> QED BY <1>2, <1>3

LEMMA PutFacts ==
    ASSUME NEW buf \in [1 .. StrLen -> Chars], NEW i \in 0 .. StrLen, NEW c \in Chars
    PROVE  /\ Put(buf, i, c) \in [1 .. StrLen -> Chars]
           /\ i # StrLen => Put(buf, i, c)[i + 1] = c
           /\ \A k \in 1 .. StrLen : k # i + 1 => Put(buf, i, c)[k] = buf[k]
<1>0. StrLen \in Nat
  BY Sizes
<1>1. CASE i = StrLen
  BY <1>1 DEF Put
<1>2. CASE i # StrLen
  <2>1. i + 1 \in 1 .. StrLen
    BY <1>0, <1>2
  <2>2. Put(buf, i, c) = [buf EXCEPT ![i + 1] = c]
    BY <1>2 DEF Put
  <2> QED BY <2>1, <2>2
<1> QED BY <1>1, <1>2

(* What scopy makes of the name: the same up to its first NUL. *)
LEMMA ScopyFacts ==
    ASSUME NameInv, enln > 0
    PROVE  /\ scopy(nbuf) \in [1 .. StrLen -> Chars]
           /\ \A k \in 1 .. enln :
                 (\A j \in 1 .. k - 1 : nbuf[j] # Nul) => scopy(nbuf)[k] = nbuf[k]
<1>0. /\ StrLen \in Nat /\ NameMax \in Nat /\ NameMax + 2 <= StrLen
      /\ nbuf \in [1 .. NameMax + 1 -> Chars] /\ enln \in 1 .. NameMax
      /\ nbuf[enln + 1] = Nul /\ Nul \in Chars
  BY Sizes DEF NameInv, Named, Chars
<1>1. Len(nbuf) = NameMax + 1
  <2>1. NameMax + 1 \in Nat
    BY <1>0
  <2> QED BY <1>0, <2>1, FieldIsSeq
<1> DEFINE s == scopy(nbuf)
           upto(k) == IF k <= NameMax + 1 THEN k ELSE NameMax + 1
<1>2. ASSUME NEW k \in 1 .. StrLen PROVE Min({k, Len(nbuf)}) = upto(k)
  <2>1. k \in Int /\ NameMax + 1 \in Int
    BY <1>0
  <2> QED BY <1>1, <2>1, MinIs
<1>3. s = [k \in 1 .. StrLen |->
             IF \E j \in 1 .. upto(k) : nbuf[j] = Nul THEN Nul ELSE nbuf[k]]
  BY <1>2 DEF scopy
<1>4. ASSUME NEW k \in 1 .. StrLen PROVE s[k] \in Chars
  <2>1. s[k] = IF \E j \in 1 .. upto(k) : nbuf[j] = Nul THEN Nul ELSE nbuf[k]
    BY <1>3
  <2>2. CASE k <= NameMax + 1
    <3>1. k \in 1 .. NameMax + 1
      BY <1>0, <2>2
    <3>2. nbuf[k] \in Chars
      BY <1>0, <3>1
    <3> QED BY <1>0, <2>1, <3>2
  <2>3. CASE ~(k <= NameMax + 1)
    <3>1. upto(k) = NameMax + 1 /\ enln + 1 \in 1 .. NameMax + 1
      BY <1>0, <2>3
    <3> QED BY <1>0, <2>1, <3>1
  <2> QED BY <2>2, <2>3
<1>5. s \in [1 .. StrLen -> Chars]
  <2>1. s = [k \in 1 .. StrLen |-> s[k]]
    BY <1>3
  <2> HIDE DEF s
  <2> QED BY <1>4, <2>1
<1>6. ASSUME NEW k \in 1 .. enln, \A j \in 1 .. k - 1 : nbuf[j] # Nul
      PROVE  s[k] = nbuf[k]
  <2>1. k \in 1 .. StrLen /\ upto(k) = k /\ k \in 1 .. k
    BY <1>0
  <2>2. s[k] = IF \E j \in 1 .. k : nbuf[j] = Nul THEN Nul ELSE nbuf[k]
    BY <1>3, <2>1
  <2>3. CASE nbuf[k] = Nul
    BY <2>2, <2>3
  <2>4. CASE nbuf[k] # Nul
    <3>1. \A j \in 1 .. k : j = k \/ j \in 1 .. k - 1
      OBVIOUS
    <3> QED BY <1>6, <2>2, <2>4, <3>1
  <2> QED BY <2>3, <2>4
<1> QED BY <1>5, <1>6

(* What is echoed of a message: as many of the bytes read as there is room *)
(* for,                                                                    *)
Room(qty) == Min({StrLen - (enln + 2), qty})

(* behind the name, a colon and a blank, and then a NUL. *)
Behind(text, qty) ==
    /\ text \in [1 .. StrLen -> Chars]
    /\ \A k \in 1 .. enln :
          (\A j \in 1 .. k - 1 : nbuf[j] # Nul) => text[k] = nbuf[k]
    /\ text[enln + 1] = ":" /\ text[enln + 2] = Blank
    /\ \A k \in 1 .. Room(qty) : text[enln + 2 + k] = in'[k]
    /\ enln + 2 + Room(qty) # StrLen => text[enln + 2 + Room(qty) + 1] = Nul

LEMMA RoomFacts ==
    ASSUME NameInv, enln > 0, NEW qty \in 1 .. StrLen
    PROVE  /\ Room(qty) \in 0 .. qty /\ enln + 2 + Room(qty) <= StrLen
           /\ Room(qty) # qty => enln + 2 + Room(qty) = StrLen
           /\ enln \in 1 .. NameMax /\ enln + 2 <= StrLen /\ StrLen \in Nat
<1>0. StrLen \in Nat /\ NameMax + 2 <= StrLen /\ NameMax \in Nat /\ enln \in 1 .. NameMax
  BY Sizes DEF NameInv
<1>1. StrLen - (enln + 2) \in Int /\ qty \in Int
  BY <1>0
<1>2. Room(qty) = IF StrLen - (enln + 2) <= qty THEN StrLen - (enln + 2) ELSE qty
  BY <1>1, MinIs DEF Room
<1> QED BY <1>0, <1>2

LEMMA EchoedFacts ==
    ASSUME NameInv, enln > 0, in' \in [1 .. StrLen -> Chars],
           NEW qty \in 1 .. StrLen
    PROVE  Behind(Echoed(qty), qty)
<1> DEFINE len == enln + 2
           max == Room(qty)
           copy == scopy(nbuf)
           colon == Put(copy, enln, ":")
           msg == Put(colon, enln + 1, Blank)
           text == [k \in 1 .. StrLen |->
                       IF k \in len + 1 .. len + max THEN in'[k - len] ELSE msg[k]]
           all == Put(text, len + max, Nul)
<1>0. /\ max \in 0 .. qty /\ len + max <= StrLen /\ enln \in Nat
      /\ enln + 2 <= StrLen /\ StrLen \in Nat /\ enln > 0
  BY RoomFacts
<1>1. {":", Blank, Nul} \subseteq Chars
  BY DEF Chars
<1>2. Echoed(qty) = all
  BY DEF Echoed, Room
<1>3. /\ copy \in [1 .. StrLen -> Chars]
      /\ \A k \in 1 .. enln :
            (\A j \in 1 .. k - 1 : nbuf[j] # Nul) => copy[k] = nbuf[k]
  BY ScopyFacts
<1> HIDE DEF copy
<1>4. /\ colon \in [1 .. StrLen -> Chars] /\ colon[enln + 1] = ":"
      /\ \A k \in 1 .. enln : colon[k] = copy[k]
  <2>1. enln \in 0 .. StrLen /\ enln # StrLen
    BY <1>0
  <2>2. \A k \in 1 .. enln : k \in 1 .. StrLen /\ k # enln + 1
    BY <1>0
  <2> QED BY <1>1, <1>3, <2>1, <2>2, PutFacts
<1> HIDE DEF colon
<1>5. /\ msg \in [1 .. StrLen -> Chars] /\ msg[enln + 1] = ":" /\ msg[enln + 2] = Blank
      /\ \A k \in 1 .. enln : msg[k] = copy[k]
  <2>1. enln + 1 \in 0 .. StrLen /\ enln + 1 # StrLen /\ (enln + 1) + 1 = enln + 2
    BY <1>0
  <2>2. \A k \in 1 .. enln + 1 : k \in 1 .. StrLen /\ k # (enln + 1) + 1
    BY <1>0
  <2>3. /\ msg \in [1 .. StrLen -> Chars] /\ msg[enln + 2] = Blank
        /\ \A k \in 1 .. enln + 1 : msg[k] = colon[k]
    <3> DEFINE i == enln + 1
    <3>1. /\ Put(colon, i, Blank) \in [1 .. StrLen -> Chars]
          /\ i # StrLen => Put(colon, i, Blank)[i + 1] = Blank
          /\ \A k \in 1 .. StrLen : k # i + 1 => Put(colon, i, Blank)[k] = colon[k]
      <4>1. i \in 0 .. StrLen /\ Blank \in Chars
        BY <1>1, <2>1
      <4> HIDE DEF i
      <4> QED BY <1>4, <4>1, PutFacts
    <3> HIDE DEF msg
    <3>2. msg = Put(colon, i, Blank)
      BY DEF msg
    <3> QED BY <2>1, <2>2, <3>1, <3>2
  <2>4. enln + 1 \in 1 .. enln + 1 /\ \A k \in 1 .. enln : k \in 1 .. enln + 1
    BY <1>0
  <2> HIDE DEF msg
  <2> QED BY <1>4, <2>3, <2>4
<1> HIDE DEF msg
<1>6. /\ text \in [1 .. StrLen -> Chars]
      /\ \A k \in 1 .. len : text[k] = msg[k]
      /\ \A k \in 1 .. max : text[len + k] = in'[k]
  <2>1. ASSUME NEW k \in 1 .. StrLen PROVE text[k] \in Chars
    <3>1. CASE k \in len + 1 .. len + max
      <4>1. k - len \in 1 .. StrLen
        BY <1>0, <3>1
      <4> QED BY <3>1, <4>1
    <3>2. CASE k \notin len + 1 .. len + max
      BY <1>5, <3>2
    <3> QED BY <3>1, <3>2
  <2>2. ASSUME NEW k \in 1 .. len PROVE text[k] = msg[k]
    <3>1. k \in 1 .. StrLen /\ k \notin len + 1 .. len + max
      BY <1>0
    <3> QED BY <3>1
  <2>3. ASSUME NEW k \in 1 .. max PROVE text[len + k] = in'[k]
    <3>1. /\ len + k \in 1 .. StrLen /\ len + k \in len + 1 .. len + max
          /\ (len + k) - len = k
      BY <1>0
    <3> QED BY <3>1
  <2> QED BY <2>1, <2>2, <2>3
<1> HIDE DEF text
<1>7. /\ all \in [1 .. StrLen -> Chars]
      /\ \A k \in 1 .. len + max : all[k] = text[k]
      /\ len + max # StrLen => all[len + max + 1] = Nul
  <2>1. len + max \in 0 .. StrLen
    BY <1>0
  <2>2. \A k \in 1 .. len + max : k \in 1 .. StrLen /\ k # (len + max) + 1
    BY <1>0
  <2> QED BY <1>1, <1>6, <2>1, <2>2, PutFacts
<1> HIDE DEF all
<1>8. \A k \in 1 .. enln :
         (\A j \in 1 .. k - 1 : nbuf[j] # Nul) => all[k] = nbuf[k]
  <2>1. \A k \in 1 .. enln : k \in 1 .. len /\ k \in 1 .. len + max
    BY <1>0
  <2>2. \A k \in 1 .. enln : all[k] = copy[k]
    BY <1>5, <1>6, <1>7, <2>1
  <2> QED BY <1>3, <2>2
<1>9. all[enln + 1] = ":" /\ all[enln + 2] = Blank
  <2>1. /\ enln + 1 \in 1 .. len /\ enln + 2 \in 1 .. len
        /\ enln + 1 \in 1 .. len + max /\ enln + 2 \in 1 .. len + max
    BY <1>0
  <2> QED BY <1>5, <1>6, <1>7, <2>1
<1>10. \A k \in 1 .. max : all[len + k] = in'[k]
  <2>1. \A k \in 1 .. max : len + k \in 1 .. len + max
    BY <1>0
  <2> QED BY <1>6, <1>7, <2>1
<1> QED BY <1>2, <1>7, <1>8, <1>9, <1>10 DEF Behind
-----------------------------------------------------------------------------
(* The log and the echo of a message, whose first qty bytes were read.     *)
LEMMA LogShown ==
    ASSUME NameInv, enln > 0
    PROVE  CString(nbuf) = CString(name)
<1>0. /\ NameMax \in Nat /\ enln \in 1 .. NameMax
      /\ nbuf \in [1 .. NameMax + 1 -> Chars] /\ name \in Seq(Chars)
      /\ Len(name) = enln /\ nbuf[enln + 1] = Nul
      /\ \A k \in 1 .. enln : nbuf[k] = name[k]
  BY Sizes DEF NameInv, Named
<1>1. nbuf \in Seq(Chars) /\ Len(nbuf) = NameMax + 1
  <2>1. NameMax + 1 \in Nat
    BY <1>0
  <2> QED BY <1>0, <2>1, FieldIsSeq
<1>2. Len(name) <= Len(nbuf)
  BY <1>0, <1>1
<1> QED BY <1>0, <1>1, <1>2, SameString

Whole(read) == name \o <<":", Blank>> \o read

LEMMA WholeFacts ==
    ASSUME NameInv, enln > 0, NEW read \in Seq(Chars)
    PROVE  /\ Whole(read) \in Seq(Chars)
           /\ Len(Whole(read)) = enln + 2 + Len(read)
           /\ \A k \in 1 .. enln : Whole(read)[k] = nbuf[k]
           /\ Whole(read)[enln + 1] = ":" /\ Whole(read)[enln + 2] = Blank
           /\ \A k \in 1 .. Len(read) : Whole(read)[enln + 2 + k] = read[k]
<1>0. /\ enln \in Nat /\ enln > 0 /\ name \in Seq(Chars) /\ Len(name) = enln
      /\ \A k \in 1 .. enln : nbuf[k] = name[k]
      /\ Len(read) \in Nat
  BY Sizes, LenProperties DEF NameInv, Named
<1> DEFINE colon == <<":", Blank>>
           first == name \o colon
           whole == first \o read
<1>1. /\ colon \in Seq(Chars) /\ Len(colon) = 2
      /\ colon[1] = ":" /\ colon[2] = Blank
  <2>1. {":", Blank} \subseteq Chars
    BY DEF Chars
  <2> QED BY <2>1
<1> HIDE DEF colon
<1>2. /\ first \in Seq(Chars) /\ Len(first) = enln + 2
      /\ \A i \in 1 .. enln + 2 : first[i] = IF i <= enln THEN name[i] ELSE colon[i - enln]
  <2>1. /\ first \in Seq(Chars) /\ Len(first) = Len(name) + Len(colon)
        /\ \A i \in 1 .. Len(name) + Len(colon) :
              first[i] = IF i <= Len(name) THEN name[i] ELSE colon[i - Len(name)]
    BY <1>0, <1>1, ConcatProperties
  <2> QED BY <1>0, <1>1, <2>1
<1> HIDE DEF first
<1>3. /\ whole \in Seq(Chars) /\ Len(whole) = enln + 2 + Len(read)
      /\ \A i \in 1 .. enln + 2 + Len(read) :
            whole[i] = IF i <= enln + 2 THEN first[i] ELSE read[i - (enln + 2)]
  BY <1>2, ConcatProperties
<1>4. Whole(read) = whole
  BY DEF Whole, first, colon
<1> HIDE DEF whole
<1>5. \A k \in 1 .. enln : whole[k] = nbuf[k]
  <2>1. \A k \in 1 .. enln :
           /\ k \in 1 .. enln + 2 /\ k \in 1 .. enln + 2 + Len(read)
           /\ k <= enln /\ k <= enln + 2
    BY <1>0
  <2> QED BY <1>0, <1>2, <1>3, <2>1
<1>6. whole[enln + 1] = ":" /\ whole[enln + 2] = Blank
  <2>1. \A k \in 1 .. 2 :
           /\ enln + k \in 1 .. enln + 2 /\ enln + k \in 1 .. enln + 2 + Len(read)
           /\ ~(enln + k <= enln) /\ enln + k <= enln + 2 /\ (enln + k) - enln = k
    BY <1>0
  <2>2. \A k \in 1 .. 2 : whole[enln + k] = colon[k]
    BY <1>2, <1>3, <2>1
  <2> QED BY <1>1, <2>2
<1>7. \A k \in 1 .. Len(read) : whole[enln + 2 + k] = read[k]
  <2>1. \A k \in 1 .. Len(read) :
           /\ enln + 2 + k \in 1 .. enln + 2 + Len(read)
           /\ ~(enln + 2 + k <= enln + 2) /\ (enln + 2 + k) - (enln + 2) = k
    BY <1>0
  <2> QED BY <1>3, <2>1
<1> QED BY <1>3, <1>4, <1>5, <1>6, <1>7

LEMMA EchoShown ==
    ASSUME NameInv, enln > 0, in' \in [1 .. StrLen -> Chars],
           NEW qty \in 1 .. StrLen,
           NEW read, read = SubSeq(in', 1, qty)
    PROVE  CString(Echoed(qty))
             = CString(SubSeq(Whole(read), 1, Min({Len(Whole(read)), StrLen})))
<1> DEFINE whole == Whole(read)
           max == Room(qty)
           m == enln + 2 + max
           a == Echoed(qty)
           b == SubSeq(whole, 1, m)
<1>0. /\ max \in 0 .. qty /\ m <= StrLen /\ (max # qty => m = StrLen)
      /\ enln \in Nat /\ enln > 0 /\ StrLen \in Nat
  BY RoomFacts
<1>1. /\ read \in Seq(Chars) /\ Len(read) = qty
      /\ \A k \in 1 .. qty : read[k] = in'[k]
  <2>1. /\ \A k \in 1 .. qty : in'[k] \in Chars
        /\ \A k \in 1 .. qty : 1 + k - 1 = k
        /\ qty - 1 + 1 = qty /\ qty \in Nat /\ 1 <= qty
    BY <1>0
  <2> QED BY <2>1, SubSeqProperties
<1>2. /\ whole \in Seq(Chars) /\ Len(whole) = enln + 2 + qty
      /\ \A k \in 1 .. enln : whole[k] = nbuf[k]
      /\ whole[enln + 1] = ":" /\ whole[enln + 2] = Blank
      /\ \A k \in 1 .. qty : whole[enln + 2 + k] = in'[k]
  BY <1>1, WholeFacts
<1>3. /\ a \in [1 .. StrLen -> Chars]
      /\ \A k \in 1 .. enln :
            (\A j \in 1 .. k - 1 : nbuf[j] # Nul) => a[k] = nbuf[k]
      /\ a[enln + 1] = ":" /\ a[enln + 2] = Blank
      /\ \A k \in 1 .. max : a[enln + 2 + k] = in'[k]
      /\ m # StrLen => a[m + 1] = Nul
  BY EchoedFacts DEF Behind
<1> HIDE DEF whole, a, max
<1>4. Min({Len(whole), StrLen}) = m
  <2>1. Len(whole) \in Int /\ StrLen \in Int
    BY <1>0, <1>2
  <2>2. Min({Len(whole), StrLen}) = IF Len(whole) <= StrLen THEN Len(whole) ELSE StrLen
    BY <2>1, MinIs
  <2>3. (IF Len(whole) <= StrLen THEN Len(whole) ELSE StrLen) = m
    <3>1. CASE max = qty
      BY <1>0, <1>2, <3>1
    <3>2. CASE max # qty
      <4>1. max < qty /\ m = StrLen
        BY <1>0, <3>2
      <4> QED BY <1>0, <1>2, <4>1
    <3> QED BY <3>1, <3>2
  <2> QED BY <2>2, <2>3
<1>5. /\ b \in Seq(Chars) /\ Len(b) = m
      /\ \A k \in 1 .. m : b[k] = whole[k]
  <2>1. \A k \in 1 .. m : k \in 1 .. Len(whole) /\ 1 + k - 1 = k
    BY <1>0, <1>2
  <2>2. \A k \in 1 .. m : whole[k] \in Chars
    BY <1>2, <2>1, ElementOfSeq
  <2>3. 1 \in Int /\ m \in Int /\ 1 <= m /\ m - 1 + 1 = m
    BY <1>0
  <2> HIDE DEF m
  <2> QED BY <2>1, <2>2, <2>3, SubSeqProperties
<1>6. a \in Seq(Chars) /\ Len(a) = StrLen
  BY <1>0, <1>3, FieldIsSeq
<1> HIDE DEF b
<1>7. ASSUME NEW k \in 1 .. m, \A j \in 1 .. k - 1 : b[j] # Nul
      PROVE  a[k] = b[k]
  <2>1. CASE k \in 1 .. enln
    <3>1. ASSUME NEW j \in 1 .. k - 1 PROVE nbuf[j] # Nul
      <4>1. j \in 1 .. enln /\ j \in 1 .. m
        BY <1>0, <2>1
      <4> QED BY <1>2, <1>5, <1>7, <4>1
    <3>2. a[k] = nbuf[k]
      BY <1>3, <2>1, <3>1
    <3> QED BY <1>2, <1>5, <2>1, <3>2
  <2>2. CASE k \in {enln + 1, enln + 2}
    BY <1>2, <1>3, <1>5, <2>2
  <2>3. CASE k > enln + 2
    <3> DEFINE i == k - (enln + 2)
    <3>1. i \in 1 .. max /\ i \in 1 .. qty /\ enln + 2 + i = k
      BY <1>0, <2>3
    <3> HIDE DEF i
    <3>2. a[enln + 2 + i] = in'[i] /\ whole[enln + 2 + i] = in'[i]
      BY <1>2, <1>3, <3>1
    <3> QED BY <1>5, <3>1, <3>2
  <2> QED BY <1>0, <2>1, <2>2, <2>3
<1>8. m < StrLen => a[m + 1] = Nul
  BY <1>0, <1>3
<1>9. CString(a) = CString(b)
  <2>1. Len(b) <= Len(a)
    BY <1>0, <1>5, <1>6
  <2> HIDE DEF m
  <2> QED BY <1>5, <1>6, <1>7, <1>8, <2>1, SameString
<1> QED
  <2>1. b = SubSeq(whole, 1, Min({Len(whole), StrLen}))
    BY <1>4 DEF b
  <2> QED BY <1>9, <2>1 DEF a, whole

(* So what is logged and echoed is the name accepted last and what was     *)
(* read, of any message, and nothing of an earlier one (msg in ctmsg).     *)
THEOREM EchoCorrect == Spec => EchoIsNameAndText
<1>1. ASSUME NameInv, Next, out' # Nothing
      PROVE  LET whole == name \o <<":", Blank>> \o out'.read
             IN  /\ out'.log = CString(name)
                 /\ out'.echo = CString(SubSeq(whole, 1, Min({Len(whole), StrLen})))
  <2>1. ctmsg
    BY <1>1 DEF Next, ctname
  <2>2. enln > 0
    BY <2>1 DEF ctmsg
  <2>3. in' \in [1 .. StrLen -> Chars]
    BY <1>1, NextNameInv DEF NameInv
  <2>4. PICK qty \in 1 .. StrLen :
             out' = [log |-> CString(nbuf),
                     echo |-> SubSeq(Echoed(qty), 1, slen(Build, Echoed(qty))),
                     read |-> SubSeq(in', 1, qty)]
    BY <2>1 DEF ctmsg
  <2>5. Echoed(qty) \in [1 .. StrLen -> Chars]
    BY <1>1, <2>2, <2>3, EchoedFacts DEF Behind
  <2>6. SubSeq(Echoed(qty), 1, slen(Build, Echoed(qty))) = CString(Echoed(qty))
    BY <2>5, SlenShows, NamesAssumption
  <2>7. /\ out'.log = CString(nbuf) /\ out'.echo = CString(Echoed(qty))
        /\ out'.read = SubSeq(in', 1, qty)
    BY <2>4, <2>6
  <2>8. CString(nbuf) = CString(name)
    BY <1>1, <2>2, LogShown
  <2>9. CString(Echoed(qty))
          = CString(SubSeq(Whole(out'.read), 1, Min({Len(Whole(out'.read)), StrLen})))
    BY <1>1, <2>2, <2>3, <2>7, EchoShown
  <2> QED BY <2>7, <2>8, <2>9 DEF Whole
<1>2. NameInv /\ [Next]_vars =>
        [out' # Nothing =>
           LET whole == name \o <<":", Blank>> \o out'.read
           IN  /\ out'.log = CString(name)
               /\ out'.echo = CString(SubSeq(whole, 1, Min({Len(whole), StrLen})))]_vars
  BY <1>1
<1>3. Init => NameInv
  BY InitNameInv
<1>4. NameInv /\ [Next]_vars => NameInv'
  BY NextNameInv
<1> QED BY <1>2, <1>3, <1>4, PTL DEF Spec, EchoIsNameAndText

-----------------------------------------------------------------------------
(* What the player is told has its types too.                              *)
Strings == {s \in Seq(Chars) : Len(s) <= StrLen}

OutInv == out \in [log : Strings, echo : Strings, read : Strings]

LEMMA PartString ==
    ASSUME NEW n \in 0 .. StrLen, NEW buf \in [1 .. StrLen -> Chars]
    PROVE  SubSeq(buf, 1, n) \in Strings
<1>0. StrLen \in Nat
  BY Sizes
<1>1. \A k \in 1 .. n : buf[k] \in Chars
  BY <1>0
<1>2. SubSeq(buf, 1, n) \in Seq(Chars) /\ Len(SubSeq(buf, 1, n)) = n
  BY <1>0, <1>1, SubSeqProperties
<1> QED BY <1>2, <1>0 DEF Strings

LEMMA LogString ==
    ASSUME NameInv
    PROVE  CString(nbuf) \in Strings
<1>0. /\ StrLen \in Nat /\ NameMax + 1 \in Nat /\ NameMax + 1 <= StrLen
      /\ nbuf \in [1 .. NameMax + 1 -> Chars]
  BY Sizes DEF NameInv
<1>1. nbuf \in Seq(Chars) /\ Len(nbuf) = NameMax + 1
  BY <1>0, FieldIsSeq
<1>2. PICK n \in 0 .. Len(nbuf) : EndsAt(n, nbuf)
  BY <1>1, EndExists
<1>3. CString(nbuf) = SubSeq(nbuf, 1, n)
  BY <1>1, <1>2, CStringIs
<1>4. \A k \in 1 .. n : nbuf[k] \in Chars
  BY <1>0, <1>1
<1>5. SubSeq(nbuf, 1, n) \in Seq(Chars) /\ Len(SubSeq(nbuf, 1, n)) = n
  BY <1>0, <1>1, <1>4, SubSeqProperties
<1> QED BY <1>0, <1>1, <1>3, <1>5 DEF Strings

(* All variables keep their types (nbuf, enln and in of client.c).         *)
THEOREM TypeCorrect == Spec => []TypeOK
<1>0. StrLen \in Nat
  BY Sizes
<1>n. Nothing \in [log : Strings, echo : Strings, read : Strings]
  <2>1. <<>> \in Strings
    BY <1>0, EmptySeq DEF Strings
  <2> QED BY <2>1 DEF Nothing
<1>1. Init => OutInv
  BY <1>n DEF Init, OutInv
<1>2. ASSUME NameInv, OutInv, [Next]_vars PROVE OutInv'
  <2>1. CASE ctname
    BY <1>n, <2>1 DEF ctname, OutInv
  <2>2. CASE ctmsg
    <3>1. PICK qty \in 1 .. StrLen :
             out' = [log |-> CString(nbuf),
                     echo |-> SubSeq(Echoed(qty), 1, slen(Build, Echoed(qty))),
                     read |-> SubSeq(in', 1, qty)]
      BY <2>2 DEF ctmsg
    <3>2. enln > 0 /\ in' \in [1 .. StrLen -> Chars]
      BY <1>2, <2>2, NextNameInv DEF ctmsg, NameInv
    <3>3. Echoed(qty) \in [1 .. StrLen -> Chars]
      BY <1>2, <3>2, EchoedFacts DEF Behind
    <3>4. slen(Build, Echoed(qty)) \in 0 .. StrLen
      BY <3>3, SlenShows, NamesAssumption
    <3>5. /\ CString(nbuf) \in Strings
          /\ SubSeq(Echoed(qty), 1, slen(Build, Echoed(qty))) \in Strings
      BY <1>2, <3>3, <3>4, LogString, PartString
    <3>6. SubSeq(in', 1, qty) \in Strings
      <4>1. qty \in 0 .. StrLen
        BY <1>0
      <4> QED BY <3>2, <4>1, PartString
    <3> QED BY <3>1, <3>5, <3>6 DEF OutInv
  <2>3. CASE UNCHANGED vars
    BY <1>2, <2>3 DEF vars, OutInv
  <2> QED BY <1>2, <2>1, <2>2, <2>3 DEF Next
<1>3. ASSUME NameInv, OutInv PROVE TypeOK
  <2>1. DOMAIN out = {"log", "echo", "read"}
    BY <1>3 DEF OutInv
  <2>2. \A part \in DOMAIN out : out[part] \in Strings
    BY <1>3, <2>1 DEF OutInv
  <2>3. ASSUME NEW s \in Strings
        PROVE  Len(s) <= StrLen /\ ToSet(s) \subseteq Chars
    <3>1. s \in Seq(Chars) /\ Len(s) <= StrLen
      BY DEF Strings
    <3>2. \A i \in DOMAIN s : s[i] \in Chars
      BY <3>1, LenProperties, ElementOfSeq
    <3> QED BY <3>1, <3>2 DEF ToSet
  <2> QED BY <1>3, <2>2, <2>3 DEF TypeOK, NameInv
<1>4. NameInv /\ OutInv /\ [Next]_vars => NameInv' /\ OutInv'
  BY <1>2, NextNameInv
<1>5. Init => NameInv /\ OutInv
  BY <1>1, InitNameInv
<1>6. NameInv /\ OutInv => TypeOK
  BY <1>3
<1> QED BY <1>4, <1>5, <1>6, PTL DEF Spec
=============================================================================
