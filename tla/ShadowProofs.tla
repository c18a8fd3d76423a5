----------------------------- MODULE ShadowProofs -----------------------------
(***************************************************************************)
(* Proofs about Shadow: types, and that the differences the clone is moved *)
(* by add up, for every position and heading of 16 and 8 bits.             *)
(***************************************************************************)
EXTENDS Shadow, TLAPS

(* Two numbers that 16 bits do not tell apart. *)
Congruent(m, n) == \E k \in Int : m = n - 65536 * k

(* What is assigned to an mci is a short, *)
LEMMA WrapShort ==
    ASSUME NEW n \in Int
    PROVE  Wrap(n) \in Short
BY DEF Wrap, Short

(* the same but for a multiple of 65536, *)
LEMMA WrapMultiple ==
    ASSUME NEW n \in Int
    PROVE  \E k \in Int : Wrap(n) = n - 65536 * k
BY DEF Wrap

(* so that numbers that differ by such a multiple give the same,           *)
LEMMA WrapSame ==
    ASSUME NEW m \in Int, NEW n \in Int, Congruent(m, n)
    PROVE  Wrap(m) = Wrap(n)
<1>0. PICK k \in Int : m = n - 65536 * k
  BY DEF Congruent
<1>1. PICK d \in Int : Wrap(n) = n - 65536 * d
  BY WrapMultiple
<1>2. PICK e \in Int : Wrap(m) = m - 65536 * e
  BY WrapMultiple
<1>3. Wrap(m) \in Short /\ Wrap(n) \in Short
  BY WrapShort
<1>4. k + e = d
  BY <1>0, <1>1, <1>2, <1>3 DEF Short
<1> QED
  BY <1>0, <1>1, <1>2, <1>4

(* and a short gives itself. *)
LEMMA WrapSelf ==
    ASSUME NEW n \in Short
    PROVE  Wrap(n) = n
BY DEF Wrap, Short

(* A byte that is sent and read is itself. *)
LEMMA ByteSelf ==
    ASSUME NEW n \in Int, -128 <= n, n <= 127
    PROVE  Byte(n) = n
BY DEF Byte, readd, writed

(* A difference that dcheck lets through fits a signed byte, also when its *)
(* sign is changed.                                                        *)
LEMMA DifferenceFits ==
    ASSUME NEW p \in Short, NEW q \in Short, ~dcheck(Wrap(p - q))
    PROVE  \E k \in Int : /\ Byte(Wrap(p - q)) = p - q - 65536 * k
                          /\ Byte(Wrap(q - p)) = q - p + 65536 * k
<1>0. p \in Int /\ q \in Int /\ p - q \in Int /\ q - p \in Int
  BY DEF Short
<1>1. PICK k \in Int : Wrap(p - q) = p - q - 65536 * k
  BY <1>0, WrapMultiple
<1>2. \E w \in Int : w = p - q - 65536 * k
  BY <1>0
<1>3. PICK w \in Int : w = p - q - 65536 * k
  BY <1>2
<1>4. Wrap(p - q) = w
  BY <1>1, <1>3
<1>5. -127 <= w /\ w <= 127
  BY <1>4 DEF dcheck
<1>6. PICK m \in Int : m = -w
  OBVIOUS
<1>7. PICK n \in Int : n = q - p
  BY <1>0
<1>8. PICK j \in Int : j = -k
  OBVIOUS
<1>9. Congruent(m, n)
  <2>1. m = n - 65536 * j
    BY <1>0, <1>3, <1>6, <1>7, <1>8
  <2> QED
    BY <2>1 DEF Congruent
<1>10. m \in Short /\ -128 <= m /\ m <= 127
  BY <1>5, <1>6 DEF Short
<1>11. Wrap(n) = m
  BY <1>9, <1>10, WrapSame, WrapSelf
<1>12. Wrap(q - p) = m
  BY <1>7, <1>11
<1>13. Byte(w) = w /\ Byte(m) = m
  BY <1>5, <1>10, ByteSelf
<1>14. m = q - p + 65536 * k
  BY <1>0, <1>3, <1>6
<1> QED
  BY <1>3, <1>4, <1>12, <1>13, <1>14

(* So a difference keeps the clone as far off the opposite: along x and z, *)
LEMMA MirroredAxis ==
    ASSUME NEW p \in Short, NEW q \in Short, NEW c \in Short,
           ~dcheck(Wrap(p - q))
    PROVE  Wrap(Wrap(c + Byte(Wrap(p - q))) - Wrap(512 - q))
             = Wrap(c - Wrap(512 - p))
<1>0. p \in Int /\ q \in Int /\ c \in Int
  BY DEF Short
<1>1. PICK k \in Int : Byte(Wrap(p - q)) = p - q - 65536 * k
  BY DifferenceFits
<1>2. PICK b \in Int : b = p - q - 65536 * k
  BY <1>0
<1>3. PICK j \in Int : Wrap(c + b) = c + b - 65536 * j
  BY <1>0, WrapMultiple
<1>4. PICK i \in Int : Wrap(512 - q) = 512 - q - 65536 * i
  BY <1>0, WrapMultiple
<1>5. PICK h \in Int : Wrap(512 - p) = 512 - p - 65536 * h
  BY <1>0, WrapMultiple
<1>6. PICK u \in Int : u = c + b - 65536 * j
  BY <1>0
<1>7. PICK v \in Int : v = 512 - q - 65536 * i
  BY <1>0
<1>8. PICK w \in Int : w = 512 - p - 65536 * h
  BY <1>0
<1>9. PICK m \in Int : m = u - v
  OBVIOUS
<1>10. PICK n \in Int : n = c - w
  BY <1>0
<1>11. Congruent(m, n)
  <2>1. PICK d \in Int : d = k + j - i + h
    OBVIOUS
  <2>2. m = n - 65536 * d
    BY <1>0, <1>2, <1>6, <1>7, <1>8, <1>9, <1>10, <2>1
  <2> QED
    BY <2>2 DEF Congruent
<1>12. Wrap(m) = Wrap(n)
  BY <1>11, WrapSame
<1>13. Wrap(c + b) = u /\ Wrap(512 - q) = v /\ Wrap(512 - p) = w
  BY <1>3, <1>4, <1>5, <1>6, <1>7, <1>8
<1> QED
  BY <1>1, <1>2, <1>9, <1>10, <1>12, <1>13

(* and along y, where the clone does what the player does.                 *)
LEMMA PlainAxis ==
    ASSUME NEW p \in Short, NEW q \in Short, NEW c \in Short,
           ~dcheck(Wrap(p - q))
    PROVE  Wrap(Wrap(c + Byte(Wrap(q - p))) - q) = Wrap(c - p)
<1>0. p \in Int /\ q \in Int /\ c \in Int
  BY DEF Short
<1>1. PICK k \in Int : Byte(Wrap(q - p)) = q - p + 65536 * k
  BY DifferenceFits
<1>2. PICK b \in Int : b = q - p + 65536 * k
  BY <1>0
<1>3. PICK j \in Int : Wrap(c + b) = c + b - 65536 * j
  BY <1>0, WrapMultiple
<1>4. PICK u \in Int : u = c + b - 65536 * j
  BY <1>0
<1>5. PICK m \in Int : m = u - q
  BY <1>0
<1>6. PICK n \in Int : n = c - p
  BY <1>0
<1>7. Congruent(m, n)
  <2>1. PICK d \in Int : d = j - k
    OBVIOUS
  <2>2. m = n - 65536 * d
    BY <1>0, <1>2, <1>4, <1>5, <1>6, <2>1
  <2> QED
    BY <2>2 DEF Congruent
<1>8. Wrap(m) = Wrap(n)
  BY <1>7, WrapSame
<1>9. Wrap(c + b) = u
  BY <1>3, <1>4
<1> QED
  BY <1>1, <1>2, <1>5, <1>6, <1>8, <1>9

(* Two shorts without a difference are the same. *)
LEMMA NoDifference ==
    ASSUME NEW p \in Short, NEW q \in Short, Wrap(p - q) = 0
    PROVE  p = q
<1>1. p \in Int /\ q \in Int
  BY DEF Short
<1>2. PICK k \in Int : Wrap(p - q) = p - q - 65536 * k
  BY <1>1, WrapMultiple
<1> QED
  BY <1>1, <1>2 DEF Short

(* The block coordinate of a short is its quotient by 32. *)
LEMMA BlockCoordinate ==
    ASSUME NEW ec \in Short
    PROVE  ec - 32 * mcbcec(ec) \in 0 .. 31
<1>0. ec \in Int /\ -32768 <= ec /\ ec <= 32767
  BY DEF Short
<1>1. CASE 0 > ec
  <2>1. ec % 65536 = ec + 65536
    BY <1>0, <1>1
  <2>2. PICK e \in Int : e = ec + 65536
    BY <1>0
  <2>3. PICK u \in Int : u = e \div 32
    OBVIOUS
  <2>4. e - 32 * u \in 0 .. 31
    BY <2>3
  <2>5. PICK v \in Int : v = u + 63488
    OBVIOUS
  <2>6. PICK w \in Int : w = v - 65536
    OBVIOUS
  <2>7. w \in Short
    BY <1>0, <1>1, <2>2, <2>4, <2>5, <2>6 DEF Short
  <2>8. Congruent(v, w)
    <3>1. v = w - 65536 * (-1)
      BY <2>6
    <3> QED
      BY <3>1 DEF Congruent
  <2>9. Wrap(v) = w
    BY <2>7, <2>8, WrapSame, WrapSelf
  <2>10. mcbcec(ec) = w
    BY <1>1, <2>1, <2>2, <2>3, <2>5, <2>9 DEF mcbcec
  <2>11. ec - 32 * w = e - 32 * u
    BY <1>0, <2>2, <2>5, <2>6
  <2> QED
    BY <2>4, <2>10, <2>11
<1>2. CASE ~(0 > ec)
  <2>1. ec % 65536 = ec
    BY <1>0, <1>2
  <2>2. PICK u \in Int : u = ec \div 32
    BY <1>0
  <2>3. ec - 32 * u \in 0 .. 31
    BY <1>0, <2>2
  <2>4. u \in Short
    BY <1>0, <1>2, <2>3 DEF Short
  <2>5. mcbcec(ec) = u
    BY <1>2, <2>1, <2>2, <2>4, WrapSelf DEF mcbcec
  <2> QED
    BY <2>3, <2>5
<1> QED
  BY <1>1, <1>2

-----------------------------------------------------------------------------
(* Positions and headings keep their types. *)
LEMMA AtType ==
    ASSUME NEW S, NEW x \in S, NEW y \in S, NEW z \in S
    PROVE  At(x, y, z) \in [Axes -> S]
BY DEF At, Axes

LEMMA AboutType ==
    ASSUME NEW head \in Headings
    PROVE  About(head) \in Headings
BY DEF About, Headings, Xor, Bits

LEMMA OppositeType ==
    ASSUME NEW p \in [Axes -> Short]
    PROVE  Opposite(p) \in [Axes -> Short]
<1>1. p["x"] \in Short /\ p["y"] \in Short /\ p["z"] \in Short
  BY DEF Axes
<1>2. 512 - p["x"] \in Int /\ 512 - p["z"] \in Int
  BY <1>1 DEF Short
<1>3. Wrap(512 - p["x"]) \in Short /\ Wrap(512 - p["z"]) \in Short
  BY <1>2, WrapShort
<1>4. PICK x \in Short, z \in Short :
        x = Wrap(512 - p["x"]) /\ z = Wrap(512 - p["z"])
  BY <1>3
<1>5. At(x, p["y"], z) \in [Axes -> Short]
  BY <1>1, AtType
<1> QED
  BY <1>4, <1>5 DEF Opposite

LEMMA AddedType ==
    ASSUME NEW p \in [Axes -> Short], NEW d \in [Axes -> Short]
    PROVE  Added(p, d) \in [Axes -> Short]
<1> SUFFICES ASSUME NEW a \in Axes PROVE Wrap(p[a] + Byte(d[a])) \in Short
  BY DEF Added
<1>1. p[a] \in Int /\ d[a] \in Int
  BY DEF Short
<1>2. Byte(d[a]) \in Int
  BY <1>1 DEF Byte, readd, writed
<1> QED
  BY <1>1, <1>2, WrapShort

LEMMA SlidType ==
    ASSUME NEW p \in [Axes -> Short], NEW q \in [Axes -> Short]
    PROVE  Slid(p, q) \in [Axes -> Short]
<1>1. /\ p["x"] \in Int /\ p["y"] \in Int /\ p["z"] \in Int
      /\ q["x"] \in Int /\ q["y"] \in Int /\ q["z"] \in Int
  BY DEF Axes, Short
<1>2. /\ Wrap(p["x"] - q["x"]) \in Short /\ Wrap(q["y"] - p["y"]) \in Short
      /\ Wrap(p["z"] - q["z"]) \in Short
  BY <1>1, WrapShort
<1> QED
  BY <1>2, AtType DEF Slid

Results == {"BIG", "ALL", "POS", "HEAD", "EQ"}

LEMMA ComparedType ==
    ASSUME NEW new
    PROVE  Compared(new) \in Results
BY DEF Compared, mcescmp, Results

(* What a client that met the clone makes of an answer is a state.         *)
LEMMA AnsweredType ==
    ASSUME clone \in States, cent \in States, NEW new \in States, NEW d \in Results
    PROVE  Answered(d, new) \in States
<1>1. /\ clone.pos \in [Axes -> Short] /\ cent.pos \in [Axes -> Short]
      /\ new.pos \in [Axes -> Short]
      /\ clone.head \in Headings /\ new.head \in Headings
  BY DEF States
<1>2. Added(clone.pos, Slid(cent.pos, new.pos)) \in [Axes -> Short]
  BY <1>1, AddedType, SlidType
<1>3. About(new.head) \in Headings /\ Opposite(new.pos) \in [Axes -> Short]
  BY <1>1, AboutType, OppositeType
<1>4. Mirrored(new) \in States
  BY <1>3 DEF Mirrored, States
<1> QED
  BY <1>1, <1>2, <1>3, <1>4 DEF Answered, States, Results

LEMMA SpawnType == Spawn \in States
<1>1. 512 \in Short
  BY DEF Short
<1>2. At(512, 512, 512) \in [Axes -> Short]
  BY <1>1, AtType
<1> QED
  BY <1>2 DEF Spawn, States, Headings, Bits

-----------------------------------------------------------------------------
LEMMA InitType == Init => TypeOK
<1>1. 0 \in Short
  BY DEF Short
<1>2. At(0, 0, 0) \in [Axes -> Short]
  BY <1>1, AtType
<1>3. [yaw |-> {}, phi |-> {}] \in Headings
  BY DEF Headings
<1>4. [pos |-> At(0, 0, 0), head |-> [yaw |-> {}, phi |-> {}]] \in States
  BY <1>2, <1>3 DEF States
<1> SUFFICES ASSUME Init PROVE TypeOK
  OBVIOUS
<1>5. old \in BOOLEAN /\ flg \in BOOLEAN /\ ~flg
  BY DEF Init
<1>6. ctr \in 0 .. Rejoin
  BY ShadowAssumption DEF Init
<1>7. cent \in States /\ clone \in States \cup {None}
  BY <1>4 DEF Init
<1> QED
  BY <1>5, <1>6, <1>7 DEF TypeOK

LEMMA UpdateType ==
    ASSUME TypeOK, ctactrstat
    PROVE  TypeOK'
<1>1. CASE Ignored
  BY <1>1, ShadowAssumption DEF Ignored, TypeOK
<1>2. ASSUME NEW new \in States, Received(new)
      PROVE  TypeOK'
  <2>1. Compared(new) \in Results /\ clone \in States
    BY <1>2, ComparedType DEF Received, TypeOK
  <2>2. Answered(Compared(new), new) \in States
    BY <2>1, AnsweredType DEF TypeOK
  <2>3. cent' \in States
    BY <1>2 DEF Received, Remembered, TypeOK
  <2>4. clone' \in States
    BY <1>2, <2>2, <2>3, SpawnType DEF Received
  <2>5. clone' # None
    BY <2>4 DEF States, None
  <2>6. ctr' \in 0 .. Rejoin
    BY <1>2, ShadowAssumption DEF Received, TypeOK
  <2>7. old' \in BOOLEAN /\ flg' \in BOOLEAN
    BY <1>2 DEF Received, TypeOK
  <2> QED
    BY <2>3, <2>4, <2>5, <2>6, <2>7 DEF TypeOK
<1>3. \A p \in Places, h \in Heads : [pos |-> p, head |-> h] \in States
  BY ShadowAssumption DEF States
<1> QED
  BY <1>1, <1>2, <1>3 DEF ctactrstat

LEMMA NextType == TypeOK /\ [Next]_vars => TypeOK'
<1> SUFFICES ASSUME TypeOK, [Next]_vars PROVE TypeOK'
  OBVIOUS
<1>0. Spawn # None
  BY DEF Spawn, None
<1>1. CASE initseq
  BY <1>0, <1>1, SpawnType, ShadowAssumption DEF initseq, TypeOK
<1>2. CASE ctactrstat
  BY <1>2, UpdateType
<1>3. CASE Quit
  BY <1>3 DEF Quit, TypeOK
<1>4. CASE RespawnShadow
  <2>1. cent # None
    BY DEF TypeOK, States, None
  <2> QED
    BY <1>4, <2>1 DEF RespawnShadow, TypeOK
<1>5. CASE UNCHANGED vars
  BY <1>5 DEF vars, TypeOK
<1> QED
  BY <1>1, <1>2, <1>3, <1>4, <1>5 DEF Next

(* All variables keep their types, for every set of places and headings    *)
(* the player may send and every pair of milestones.                       *)
THEOREM TypeCorrect == Spec => []TypeOK
BY InitType, NextType, PTL DEF Spec

(* An integer that was written is read back, *)
LEMMA IntegerReadBack ==
    ASSUME NEW n \in Short
    PROVE  readi(writei(n)) = n
<1>1. n \in Int
  BY DEF Short
<1>2. PICK u \in Int : u = n % 65536 /\ 0 <= u /\ u < 65536
  BY <1>1
<1>3. PICK h \in Int : h = u \div 256
  BY <1>2
<1>4. n % 256 = u % 256
  <2>1. PICK k \in Int : n = 65536 * k + u
    BY <1>1, <1>2
  <2> QED
    BY <1>2, <2>1
<1>5. 256 * h + (n % 256) = u
  BY <1>2, <1>3, <1>4
<1>6. Congruent(u, n)
  BY <1>1, <1>2 DEF Congruent
<1>7. Wrap(u) = n
  BY <1>1, <1>2, <1>6, WrapSame, WrapSelf
<1>8. writei(n) = <<h, n % 256>>
  BY <1>2, <1>3 DEF writei
<1> QED
  BY <1>5, <1>7, <1>8 DEF readi

(* and so are three of them in a row. *)
LEMMA VectorReadBack ==
    ASSUME NEW p \in [Axes -> Short]
    PROVE  i3read(writevec(p)) = p
<1> DEFINE w == writevec(p)
<1>1. \A n \in Short : writei(n) = <<writei(n)[1], writei(n)[2]>>
  BY DEF writei
<1>2. /\ <<w[1], w[2]>> = writei(p["x"])
      /\ <<w[3], w[4]>> = writei(p["y"])
      /\ <<w[5], w[6]>> = writei(p["z"])
  BY <1>1 DEF writevec, Axes
<1>3. \A a \in Axes : i3read(w)[a] = readi(writei(p[a]))
  <2> HIDE DEF w
  <2> QED BY <1>2 DEF i3read, Axes
<1>4. \A a \in Axes : i3read(w)[a] = p[a]
  BY <1>3, IntegerReadBack
<1> QED
  BY <1>4 DEF i3read

(* Whatever the player sends, and whatever the clone's position has become *)
(* by then, arrives with its sign and on its axis.                         *)
THEOREM WireCorrect == Spec => []BytesKeepStates
<1>1. TypeOK => BytesKeepStates
  BY VectorReadBack DEF TypeOK, States, BytesKeepStates
<1> QED
  BY <1>1, TypeCorrect, PTL

(* The block /p places holds the player, wherever the player is: the sign  *)
(* that mcbcec shifts in again makes its quotient round down.              *)
THEOREM BlockCorrect == Spec => []BlockHoldsPlayer
<1>1. TypeOK => BlockHoldsPlayer
  <2> SUFFICES ASSUME TypeOK, NEW a \in Axes
               PROVE  cent.pos[a] - 32 * BlockAt[a] \in 0 .. 31
    BY DEF BlockHoldsPlayer
  <2>1. cent.pos[a] \in Short
    BY DEF TypeOK, States
  <2>2. BlockAt[a] = mcbcec(cent.pos[a])
    BY DEF BlockAt
  <2> QED
    BY <2>1, <2>2, BlockCoordinate
<1> QED
  BY <1>1, TypeCorrect, PTL

-----------------------------------------------------------------------------
(* An update that moves the player and is answered while the level is on.  *)
LEMMA UpdateStep ==
    ASSUME TypeOK, [Next]_vars, Update
    PROVE  \E new \in States :
              /\ cent' = new /\ clone \in States
              /\ Compared(new) # "EQ"
              /\ clone' = Answered(Compared(new), new)
<1>1. ctactrstat
  BY DEF Update, Next, vars, initseq, Quit, RespawnShadow
<1>2. PICK p \in Places, h \in Heads : Received([pos |-> p, head |-> h])
  BY <1>1 DEF ctactrstat, Ignored, Update
<1> DEFINE new == [pos |-> p, head |-> h]
<1>3. new \in States
  BY ShadowAssumption DEF States
<1> HIDE DEF new
<1>4. flg /\ cent' = Remembered(Compared(new), new)
          /\ clone' = Answered(Compared(new), new)
  BY <1>2 DEF Update, Received, new
<1>5. Compared(new) # "EQ" /\ cent' = new
  BY <1>4 DEF Remembered, Update
<1>6. clone \in States
  BY <1>4 DEF TypeOK
<1> QED
  BY <1>3, <1>4, <1>5, <1>6

(* Where a small difference leaves the clone. *)
LEMMA SlideKeepsOff ==
    ASSUME NEW p \in [Axes -> Short], NEW q \in [Axes -> Short],
           NEW c \in [Axes -> Short], ~d3chk(Difference(p, q))
    PROVE  [a \in Axes |-> Wrap(Added(c, Slid(p, q))[a] - Opposite(q)[a])]
             = [a \in Axes |-> Wrap(c[a] - Opposite(p)[a])]
<1> SUFFICES ASSUME NEW a \in Axes
             PROVE  Wrap(Added(c, Slid(p, q))[a] - Opposite(q)[a])
                      = Wrap(c[a] - Opposite(p)[a])
  OBVIOUS
<1>1. p[a] \in Short /\ q[a] \in Short /\ c[a] \in Short
  OBVIOUS
<1>2. ~dcheck(Wrap(p[a] - q[a]))
  BY DEF d3chk, Difference
<1>3. Added(c, Slid(p, q))[a] = Wrap(c[a] + Byte(Slid(p, q)[a]))
  BY DEF Added
<1>4. CASE a = "y"
  <2>1. Slid(p, q)[a] = Wrap(q[a] - p[a])
    BY <1>4 DEF Slid, At, Axes
  <2>2. Opposite(q)[a] = q[a] /\ Opposite(p)[a] = p[a]
    BY <1>4 DEF Opposite, At, Axes
  <2>3. Wrap(Wrap(c[a] + Byte(Wrap(q[a] - p[a]))) - q[a]) = Wrap(c[a] - p[a])
    BY <1>1, <1>2, PlainAxis
  <2> QED
    BY <1>3, <2>1, <2>2, <2>3
<1>5. CASE a \in {"x", "z"}
  <2>1. Slid(p, q)[a] = Wrap(p[a] - q[a])
    BY <1>5 DEF Slid, At, Axes
  <2>2. Opposite(q)[a] = Wrap(512 - q[a]) /\ Opposite(p)[a] = Wrap(512 - p[a])
    BY <1>5 DEF Opposite, At, Axes
  <2>3. Wrap(Wrap(c[a] + Byte(Wrap(p[a] - q[a]))) - Wrap(512 - q[a]))
          = Wrap(c[a] - Wrap(512 - p[a]))
    BY <1>1, <1>2, MirroredAxis
  <2> QED
    BY <1>3, <2>1, <2>2, <2>3
<1> QED
  BY <1>4, <1>5 DEF Axes

(* Two positions between which there is no difference are the same. *)
LEMMA Unmoved ==
    ASSUME NEW p \in [Axes -> Short], NEW q \in [Axes -> Short],
           \A a \in Axes : Difference(p, q)[a] = 0
    PROVE  p = q
<1> SUFFICES ASSUME NEW a \in Axes PROVE p[a] = q[a]
  OBVIOUS
<1>1. p[a] \in Short /\ q[a] \in Short /\ Wrap(p[a] - q[a]) = 0
  BY DEF Difference
<1> QED
  BY <1>1, NoDifference

(* One update leaves the clone as far off as it was or puts it right.      *)
LEMMA UpdateKeepsOff ==
    ASSUME TypeOK, [Next]_vars, Update
    PROVE  Off' \in {Off, [a \in Axes |-> 0]}
<1>1. PICK new \in States :
        /\ cent' = new /\ clone \in States
        /\ Compared(new) # "EQ"
        /\ clone' = Answered(Compared(new), new)
  BY UpdateStep
<1> DEFINE d == Compared(new)
           dv == Difference(cent.pos, new.pos)
<1>2. /\ cent.pos \in [Axes -> Short] /\ new.pos \in [Axes -> Short]
      /\ clone.pos \in [Axes -> Short]
  BY <1>1 DEF TypeOK, States
<1>3. Off' = [a \in Axes |-> Wrap(Answered(d, new).pos[a] - Opposite(new.pos)[a])]
  BY <1>1 DEF Off
<1>4. CASE d = "BIG"
  <2>1. Answered(d, new).pos = Opposite(new.pos)
    BY <1>4 DEF Answered, Mirrored
  <2>2. \A a \in Axes : Opposite(new.pos)[a] \in Int
    BY <1>2, OppositeType DEF Short
  <2>3. \A n \in Int : Wrap(n - n) = 0
    BY DEF Wrap
  <2> QED
    BY <1>3, <2>1, <2>2, <2>3
<1>5. CASE d \in {"ALL", "POS"}
  <2>1. ~d3chk(dv)
    BY <1>5 DEF Compared, mcescmp
  <2>2. Answered(d, new).pos = Added(clone.pos, Slid(cent.pos, new.pos))
    BY <1>5 DEF Answered
  <2> QED
    BY <1>2, <1>3, <2>1, <2>2, SlideKeepsOff DEF Off
<1>6. CASE d = "HEAD"
  <2>1. \A a \in Axes : dv[a] = 0
    BY <1>6 DEF Compared, mcescmp
  <2>2. cent.pos = new.pos
    BY <1>2, <2>1, Unmoved
  <2>3. Answered(d, new).pos = clone.pos
    BY <1>6 DEF Answered
  <2> QED
    BY <1>3, <2>2, <2>3 DEF Off
<1> QED
  BY <1>1, <1>4, <1>5, <1>6, ComparedType DEF Results

(* Small differences add up: no update puts the clone further off than it  *)
(* was, for all positions, although the differences are bytes and the      *)
(* coordinates overflow.                                                   *)
THEOREM DriftFree == Spec => NoDrift
<1>1. TypeOK /\ [Next]_vars
        => [Update => Off' \in {Off, [a \in Axes |-> 0]}]_vars
  BY UpdateKeepsOff
<1> QED
  BY <1>1, TypeCorrect, PTL DEF Spec, NoDrift

(* A turn that the comparison sees is one the clone makes, whatever else   *)
(* changed with it.                                                        *)
THEOREM HeadCorrect == Spec => HeadFollows
<1>1. ASSUME TypeOK, [Next]_vars, Update, HeadBits(cent.head, cent'.head) # {}
      PROVE  clone'.head = About(cent'.head)
  <2>1. PICK new \in States :
          /\ cent' = new /\ clone \in States
          /\ Compared(new) # "EQ"
          /\ clone' = Answered(Compared(new), new)
    BY <1>1, UpdateStep
  <2>2. Compared(new) \in {"BIG", "ALL", "HEAD"}
    BY <1>1, <2>1 DEF Compared, mcescmp
  <2> QED
    BY <2>1, <2>2 DEF Answered, Mirrored
<1>2. TypeOK /\ [Next]_vars
        => [Update /\ HeadBits(cent.head, cent'.head) # {} =>
              clone'.head = About(cent'.head)]_vars
  BY <1>1
<1> QED
  BY <1>2, TypeCorrect, PTL DEF Spec, HeadFollows
=============================================================================
