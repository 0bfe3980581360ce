---------------------------- MODULE TimerList_proofs ---------------------------
(***************************************************************************)
(* What add_timer, del_timer and run_timer_list do to a timer list of any  *)
(* length: the sum of the delays up to a timer, which is when it fires,    *)
(* stays what it was for every other timer.                                *)
(***************************************************************************)
EXTENDS TimerList, SequenceTheorems, FiniteSetTheorems, TLAPS

-----------------------------------------------------------------------------
(* Induction over the naturals, for a set instead of an operator: the least *)
(* number outside it would be one of n + 1 numbers that their predecessors  *)
(* map into n.                                                             *)
LEMMA Induction ==
    ASSUME NEW P, NEW Good, 0 \in Good, \A n \in Nat : n \in Good => n + 1 \in Good
    PROVE  Nat \subseteq Good
  <1> SUFFICES ASSUME NEW n \in Nat, n \notin Good PROVE FALSE
    OBVIOUS
  <1> DEFINE Bad == {m \in 0 .. n : m \notin Good}
             f == [m \in Bad |-> m - 1]
  <1>1. IsFiniteSet(Bad) /\ n \in Bad
    <2>1. IsFiniteSet(0 .. n)
      BY FS_Interval
    <2>2. Bad \in SUBSET (0 .. n) /\ n \in Bad
      OBVIOUS
    <2> QED
      BY <2>1, <2>2, FS_Subset
  <1>2. IsFiniteSet(Bad \ {n}) /\ Cardinality(Bad \ {n}) = Cardinality(Bad) - 1 /\ Cardinality(Bad) \in Nat
    BY <1>1, FS_RemoveElement, FS_CardinalityType
  <1>3. f \in [Bad -> Bad \ {n}]
    <2>1. ASSUME NEW m \in Bad PROVE m - 1 \in Bad \ {n}
      <3>1. m \in Nat /\ m # 0 /\ m <= n
        OBVIOUS
      <3>2. m - 1 \in Nat /\ (m - 1) + 1 = m
        BY <3>1
      <3>3. m - 1 \notin Good
        BY <3>2
      <3> QED
        BY <3>1, <3>2, <3>3
    <2> QED
      BY <2>1
  <1>4. \A x, y \in Bad : f[x] = f[y] => x = y
    OBVIOUS
  <1>5. Cardinality(Bad \ {n}) < Cardinality(Bad)
    BY <1>2
  <1> HIDE DEF Bad, f
  <1>6. \E x, y \in Bad : x # y /\ f[x] = f[y]
    <2> DEFINE U == Bad \ {n}
    <2>1. IsFiniteSet(U) /\ Cardinality(U) < Cardinality(Bad) /\ f \in [Bad -> U]
      BY <1>2, <1>3, <1>5
    <2> HIDE DEF U
    <2> QED
      BY <1>1, <2>1, FS_PigeonHole
  <1> QED
    BY <1>4, <1>6


-----------------------------------------------------------------------------
(* The sums of the delays. *)
Timer(P) == [proc : P, expires : Nat]
Adds(g, tl) == g[0] = 0 /\ \A j \in 1 .. Len(tl) : g[j] = g[j - 1] + tl[j].expires

LEMMA TimerFields ==
    ASSUME NEW P, NEW tl \in Seq(Timer(P)), NEW j \in 1 .. Len(tl)
    PROVE  tl[j] \in Timer(P) /\ tl[j].proc \in P /\ tl[j].expires \in Nat
  <1>1. tl[j] \in Timer(P)
    OBVIOUS
  <1>2. tl[j].proc \in P
    BY <1>1 DEF Timer
  <1>3. tl[j].expires \in Nat
    BY <1>1 DEF Timer
  <1> QED
    BY <1>1, <1>2, <1>3

LEMMA DueExists ==
    ASSUME NEW P, NEW tl \in Seq(Timer(P))
    PROVE  \E g : g = [j \in 0 .. Len(tl) |-> IF j = 0 THEN 0 ELSE g[j - 1] + tl[j].expires]
  <1> DEFINE Sum(g, m) == g = [j \in 0 .. m |-> IF j = 0 THEN 0 ELSE g[j - 1] + tl[j].expires]
             Good == {m \in Nat : \E g : Sum(g, m)}
  <1>1. 0 \in Good
    <2>1. Sum([j \in 0 .. 0 |-> 0], 0)
      OBVIOUS
    <2> QED
      BY <2>1
  <1>2. ASSUME NEW m \in Nat, m \in Good PROVE m + 1 \in Good
    <2>1. PICK g : Sum(g, m)
      BY <1>2
    <2> DEFINE h == [j \in 0 .. m + 1 |-> IF j = m + 1 THEN g[m] + tl[m + 1].expires ELSE g[j]]
    <2>2. Sum(h, m + 1)
      <3>1. ASSUME NEW j \in 0 .. m + 1 PROVE h[j] = IF j = 0 THEN 0 ELSE h[j - 1] + tl[j].expires
        <4>1. CASE j = m + 1
          <5>1. j # 0 /\ j - 1 = m /\ m \in 0 .. m + 1 /\ m # m + 1
            BY <4>1
          <5> QED
            BY <4>1, <5>1
        <4>2. CASE j # m + 1
          <5>1. j \in 0 .. m /\ (j # 0 => j - 1 \in 0 .. m + 1 /\ j - 1 # m + 1)
            BY <4>2
          <5>2. g[j] = IF j = 0 THEN 0 ELSE g[j - 1] + tl[j].expires
            BY <2>1, <5>1
          <5> QED
            BY <4>2, <5>1, <5>2
        <4> QED
          BY <4>1, <4>2
      <3> QED
        BY <3>1
    <2> HIDE DEF h, Sum
    <2>3. \E f : Sum(f, m + 1)
      BY <2>2
    <2> QED
      BY <2>3
  <1> HIDE DEF Good
  <1>3. Nat \subseteq Good
    BY <1>1, <1>2, Induction
  <1>4. Len(tl) \in Good
    BY <1>3
  <1> QED
    BY <1>4 DEF Good

LEMMA DueAdds ==
    ASSUME NEW P, NEW tl \in Seq(Timer(P))
    PROVE  /\ Due(tl, 0) = 0
           /\ \A j \in 1 .. Len(tl) : Due(tl, j) = Due(tl, j - 1) + tl[j].expires
  <1> DEFINE Sum(g) == g = [j \in 0 .. Len(tl) |-> IF j = 0 THEN 0 ELSE g[j - 1] + tl[j].expires]
             d == CHOOSE g : Sum(g)
  <1>1. \A i : Due(tl, i) = d[i]
    BY DEF Due
  <1>2. Sum(d)
    BY DueExists
  <1>3. Len(tl) \in Nat
    OBVIOUS
  <1> HIDE DEF d
  <1>4. d[0] = 0
    BY <1>2, <1>3
  <1>5. ASSUME NEW j \in 1 .. Len(tl) PROVE d[j] = d[j - 1] + tl[j].expires
    <2>1. j \in 0 .. Len(tl) /\ j # 0
      BY <1>3
    <2> QED
      BY <1>2, <2>1
  <1> QED
    BY <1>1, <1>4, <1>5

(* Whatever adds up the delays is Due. *)
LEMMA DueIs ==
    ASSUME NEW P, NEW tl \in Seq(Timer(P)), NEW g, Adds(g, tl)
    PROVE  \A j \in 0 .. Len(tl) : Due(tl, j) = g[j]
  <1> DEFINE Good == {m \in Nat : m <= Len(tl) => Due(tl, m) = g[m]}
  <1>1. 0 \in Good
    BY DueAdds DEF Adds
  <1>2. ASSUME NEW m \in Nat, m \in Good PROVE m + 1 \in Good
    <2>1. CASE m + 1 <= Len(tl)
      <3>1. m + 1 \in 1 .. Len(tl) /\ (m + 1) - 1 = m /\ m <= Len(tl)
        BY <2>1
      <3>2. Due(tl, m + 1) = Due(tl, m) + tl[m + 1].expires
        BY <3>1, DueAdds
      <3>3. g[m + 1] = g[m] + tl[m + 1].expires
        BY <3>1 DEF Adds
      <3> QED
        BY <1>2, <3>1, <3>2, <3>3
    <2> QED
      BY <2>1
  <1> HIDE DEF Good
  <1>3. Nat \subseteq Good
    BY <1>1, <1>2, Induction
  <1> QED
    BY <1>3 DEF Good

(* It grows along the list. *)
LEMMA DueGrows ==
    ASSUME NEW P, NEW tl \in Seq(Timer(P))
    PROVE  /\ \A j \in 0 .. Len(tl) : Due(tl, j) \in Nat
           /\ \A j \in 1 .. Len(tl) : Due(tl, j) >= tl[1].expires
  <1> DEFINE Good == {m \in Nat : m <= Len(tl) =>
                      Due(tl, m) \in Nat /\ (m > 0 => Due(tl, m) >= tl[1].expires)}
  <1>0. \A j \in 1 .. Len(tl) : tl[j].expires \in Nat
    BY TimerFields
  <1>1. 0 \in Good
    BY DueAdds
  <1>2. ASSUME NEW m \in Nat, m \in Good PROVE m + 1 \in Good
    <2>1. CASE m + 1 <= Len(tl)
      <3>1. m + 1 \in 1 .. Len(tl) /\ (m + 1) - 1 = m /\ m <= Len(tl)
        BY <2>1
      <3>2. Due(tl, m + 1) = Due(tl, m) + tl[m + 1].expires
        BY <3>1, DueAdds
      <3>3. tl[m + 1].expires \in Nat
        BY <1>0, <3>1
      <3>4. Due(tl, m) \in Nat /\ (m > 0 => Due(tl, m) >= tl[1].expires)
        BY <1>2, <3>1
      <3>5. tl[1].expires \in Nat
        <4>1. Len(tl) \in Nat /\ 1 <= Len(tl)
          BY <3>1
        <4>2. 1 \in 1 .. Len(tl)
          BY <4>1
        <4> QED
          BY <1>0, <4>2
      <3>6. CASE m = 0
        BY <3>1, <3>2, <3>3, <3>6, DueAdds
      <3>7. CASE m > 0
        BY <3>2, <3>3, <3>4, <3>5, <3>7
      <3> QED
        BY <3>6, <3>7
    <2> QED
      BY <2>1
  <1> HIDE DEF Good
  <1>3. Nat \subseteq Good
    BY <1>1, <1>2, Induction
  <1>4. ASSUME NEW j \in 0 .. Len(tl)
        PROVE  Due(tl, j) \in Nat /\ (j > 0 => Due(tl, j) >= tl[1].expires)
    BY <1>3 DEF Good
  <1> QED
    BY <1>4

LEMMA MaxExists ==
    ASSUME NEW P, NEW n \in Nat, NEW B \in SUBSET (1 .. n), B # {}
    PROVE  Max(B) \in B /\ \A y \in B : y <= Max(B)
  <1> DEFINE Good == {m \in Nat : \A C \in SUBSET (1 .. m) : C # {} => \E x \in C : \A y \in C : x >= y}
  <1>1. 0 \in Good
    <2>1. 1 .. 0 = {}
      OBVIOUS
    <2> QED
      BY <2>1
  <1>2. ASSUME NEW m \in Nat, m \in Good PROVE m + 1 \in Good
    <2>1. ASSUME NEW C \in SUBSET (1 .. m + 1), C # {} PROVE \E x \in C : \A y \in C : x >= y
      <3>1. CASE m + 1 \in C
        <4>1. \A y \in C : m + 1 >= y
          OBVIOUS
        <4> QED
          BY <3>1, <4>1
      <3>2. CASE m + 1 \notin C
        <4>1. C \in SUBSET (1 .. m)
          BY <3>2
        <4> QED
          BY <1>2, <2>1, <4>1
      <3> QED
        BY <3>1, <3>2
    <2> QED
      BY <2>1
  <1> HIDE DEF Good
  <1>3. Nat \subseteq Good
    BY <1>1, <1>2, Induction
  <1>4. \E x \in B : \A y \in B : x >= y
    BY <1>3 DEF Good
  <1>5. Max(B) \in B /\ \A y \in B : Max(B) >= y
    BY <1>4 DEF Max
  <1>6. \A y \in B : y \in Int
    OBVIOUS
  <1> QED
    BY <1>5, <1>6

LEMMA MinExists ==
    ASSUME NEW n \in Nat, NEW B \in SUBSET (1 .. n), B # {}
    PROVE  Min(B) \in B /\ \A y \in B : Min(B) <= y
  <1> DEFINE C == {j \in 1 .. n : n + 1 - j \in B}
  <1>a. ASSUME NEW i \in B PROVE n + 1 - i \in C /\ i \in Nat
    <2>1. i \in 1 .. n
      OBVIOUS
    <2>2. n + 1 - i \in 1 .. n /\ n + 1 - (n + 1 - i) = i
      BY <2>1
    <2> QED
      BY <2>1, <2>2
  <1>1. C \in SUBSET (1 .. n) /\ C # {}
    BY <1>a
  <1>2. Max(C) \in C /\ \A y \in C : y <= Max(C)
    BY <1>1, MaxExists
  <1> DEFINE m == Max(C)
  <1> HIDE DEF m
  <1>3. m \in Nat /\ n + 1 - m \in B
    BY <1>1, <1>2 DEF m
  <1> HIDE DEF C
  <1>4. \A i \in B : n + 1 - m <= i
    <2> SUFFICES ASSUME NEW i \in B PROVE n + 1 - m <= i
      OBVIOUS
    <2>1. n + 1 - i \in C /\ i \in Nat
      BY <1>a
    <2>2. n + 1 - i <= m
      BY <1>2, <2>1 DEF m
    <2> QED
      BY <1>3, <2>1, <2>2
  <1>5. \E x \in B : \A y \in B : x <= y
    BY <1>3, <1>4
  <1> QED
    BY <1>5 DEF Min

-----------------------------------------------------------------------------
(* A list of timers of different processes whose head has something left to *)
(* wait, and the alarms in it.                                             *)
IsList(tl, P) ==
    /\ tl \in Seq(Timer(P))
    /\ \A i, j \in 1 .. Len(tl) : tl[i].proc = tl[j].proc => i = j
    /\ tl # << >> => tl[1].expires > 0

Left(tl, p) == IF HasTimer(tl, p) THEN Due(tl, TimerOf(tl, p)) ELSE 0

LEMMA LeftIsDue ==
    ASSUME NEW P, NEW tl, IsList(tl, P), NEW i \in 1 .. Len(tl), NEW p, tl[i].proc = p
    PROVE  HasTimer(tl, p) /\ TimerOf(tl, p) = i /\ Left(tl, p) = Due(tl, i) /\ Left(tl, p) \in Nat \ {0}
  <1>1. HasTimer(tl, p)
    BY DEF HasTimer
  <1>2. TimerOf(tl, p) \in 1 .. Len(tl) /\ tl[TimerOf(tl, p)].proc = p
    BY DEF TimerOf
  <1>3. TimerOf(tl, p) = i
    BY <1>2 DEF IsList
  <1>4. Left(tl, p) = Due(tl, i)
    BY <1>1, <1>3 DEF Left
  <1>5. tl \in Seq(Timer(P)) /\ Len(tl) \in Nat /\ i \in 0 .. Len(tl) /\ 1 \in 1 .. Len(tl)
    <2>1. tl \in Seq(Timer(P))
      BY DEF IsList
    <2> QED
      BY <2>1
  <1>6. tl[1].expires > 0 /\ tl[1].expires \in Nat
    <2>1. tl # << >>
      BY <1>5
    <2> QED
      BY <1>5, <2>1, TimerFields DEF IsList
  <1>7. Due(tl, i) \in Nat /\ Due(tl, i) >= tl[1].expires
    BY <1>5, DueGrows
  <1>8. Due(tl, i) # 0
    BY <1>6, <1>7
  <1> QED
    BY <1>1, <1>3, <1>4, <1>7, <1>8

(* Where add_timer stops. *)
LEMMA AddStops ==
    ASSUME NEW P, NEW tl \in Seq(Timer(P)), NEW ticks \in Nat,
           NEW before, before = {i \in 1 .. Len(tl) : Due(tl, i) <= ticks},
           NEW at, at = IF before = {} THEN 0 ELSE Max(before)
    PROVE  /\ at \in 0 .. Len(tl)
           /\ Due(tl, at) \in Nat /\ Due(tl, at) <= ticks
           /\ at < Len(tl) => ticks - Due(tl, at) < tl[at + 1].expires
  <1>1. Len(tl) \in Nat /\ before \in SUBSET (1 .. Len(tl))
    OBVIOUS
  <1>2. at \in 0 .. Len(tl) /\ (at = 0 \/ at \in before) /\ \A y \in before : y <= at
    <2>1. CASE before = {}
      BY <1>1, <2>1
    <2>2. CASE before # {}
      <3>1. Max(before) \in before /\ \A y \in before : y <= Max(before)
        BY <1>1, <2>2, MaxExists
      <3>2. at = Max(before)
        BY <2>2
      <3> QED
        BY <1>1, <3>1, <3>2
    <2> QED
      BY <2>1, <2>2
  <1>3. Due(tl, at) \in Nat
    BY <1>2, DueGrows
  <1>4. Due(tl, at) <= ticks
    BY <1>2, DueAdds
  <1>5. ASSUME at < Len(tl) PROVE ticks - Due(tl, at) < tl[at + 1].expires
    <2>1. at + 1 \in 1 .. Len(tl) /\ (at + 1) - 1 = at /\ at + 1 \in 0 .. Len(tl)
      BY <1>1, <1>2, <1>5
    <2>2. Due(tl, at + 1) = Due(tl, at) + tl[at + 1].expires
      BY <2>1, DueAdds
    <2>3. Due(tl, at + 1) \in Nat /\ tl[at + 1].expires \in Nat
      BY <2>1, DueGrows, TimerFields
    <2>4. at + 1 \notin before
      BY <1>1, <1>2
    <2>5. ~(Due(tl, at + 1) <= ticks)
      BY <2>1, <2>4
    <2> DEFINE due == Due(tl, at)
               more == tl[at + 1].expires
    <2>6. due \in Nat /\ more \in Nat /\ ~(due + more <= ticks)
      BY <1>3, <2>2, <2>3, <2>5
    <2> HIDE DEF due, more
    <2>7. ticks - due < more
      BY <2>6
    <2> QED
      BY <2>7 DEF due, more
  <1> QED
    BY <1>2, <1>3, <1>4, <1>5

(* add_timer puts the timer of p between two others. *)
LEMMA AddPlaces ==
    ASSUME NEW P, NEW tl \in Seq(Timer(P)), NEW p \in P, NEW ticks \in Nat
    PROVE  \E at \in 0 .. Len(tl) :
             LET t == add_timer(tl, p, ticks)
                 left == ticks - Due(tl, at)
             IN  /\ left \in Nat
                 /\ at < Len(tl) => left < tl[at + 1].expires
                 /\ t \in Seq(Timer(P)) /\ Len(t) = Len(tl) + 1
                 /\ \A j \in 1 .. Len(tl) + 1 :
                      t[j] = IF j <= at THEN tl[j]
                             ELSE IF j = at + 1 THEN [proc |-> p, expires |-> left]
                             ELSE IF j = at + 2 THEN [tl[at + 1] EXCEPT !.expires = @ - left]
                             ELSE tl[j - 1]
  <1> DEFINE before == {i \in 1 .. Len(tl) : Due(tl, i) <= ticks}
             at == IF before = {} THEN 0 ELSE Max(before)
             left == ticks - Due(tl, at)
             low == SubSeq(tl, 1, at)
             tail == SubSeq(tl, at + 1, Len(tl))
             rest == IF tail = << >> THEN tail ELSE [tail EXCEPT ![1].expires = @ - left]
             new == [proc |-> p, expires |-> left]
             t == add_timer(tl, p, ticks)
             next == [tl[at + 1] EXCEPT !.expires = @ - left]
  <1>1. t = low \o <<new>> \o rest
    BY DEF add_timer
  <1>2. /\ at \in 0 .. Len(tl)
        /\ Due(tl, at) \in Nat /\ Due(tl, at) <= ticks
        /\ at < Len(tl) => left < tl[at + 1].expires
    <2> HIDE DEF at
    <2> QED
      BY AddStops DEF at
  <1> HIDE DEF t, at, before
  <1>3. Len(tl) \in Nat /\ at \in Nat /\ at <= Len(tl) /\ left \in Nat
    BY <1>2
  <1> HIDE DEF left
  <1>4. low \in Seq(Timer(P)) /\ Len(low) = at /\ \A j \in 1 .. at : low[j] = tl[j]
    BY <1>3
  <1>5. new \in Timer(P)
    BY <1>3 DEF Timer
  <1>6. /\ tail \in Seq(Timer(P)) /\ Len(tail) = Len(tl) - at
        /\ \A j \in 1 .. Len(tl) - at : tail[j] = tl[at + j]
    <2>1. \A i \in at + 1 .. Len(tl) : tl[i] \in Timer(P)
      BY <1>3
    <2>2. at + 1 \in Int /\ Len(tl) \in Int
      BY <1>3
    <2>3. /\ tail \in Seq(Timer(P))
          /\ Len(tail) = IF at + 1 <= Len(tl) THEN Len(tl) - (at + 1) + 1 ELSE 0
          /\ \A j \in 1 .. Len(tl) - (at + 1) + 1 : tail[j] = tl[at + 1 + j - 1]
      BY <2>1, <2>2, SubSeqProperties
    <2>4. Len(tail) = Len(tl) - at
      BY <1>3, <2>3
    <2>5. Len(tl) - (at + 1) + 1 = Len(tl) - at /\ \A j \in 1 .. Len(tl) - at : at + 1 + j - 1 = at + j
      BY <1>3
    <2> QED
      BY <2>3, <2>4, <2>5
  <1> HIDE DEF low, tail
  <1>7. /\ rest \in Seq(Timer(P)) /\ Len(rest) = Len(tl) - at
        /\ \A j \in 1 .. Len(tl) - at : rest[j] = IF j = 1 THEN next ELSE tl[at + j]
    <2>1. CASE tail = << >>
      <3>1. Len(tl) - at = 0
        BY <1>6, <2>1
      <3> QED
        BY <1>6, <2>1, <3>1
    <2>2. CASE tail # << >>
      <3>1. Len(tl) - at > 0
        BY <1>3, <1>6, <2>2
      <3>2. at < Len(tl) /\ at + 1 \in 1 .. Len(tl) /\ 1 \in 1 .. Len(tl) - at
        BY <1>3, <3>1
      <3>3. tail[1] = tl[at + 1]
        BY <1>6, <3>2
      <3>4. rest = [tail EXCEPT ![1] = next]
        BY <2>2, <3>3
      <3>5. next \in Timer(P)
        <4>1. tl[at + 1] \in Timer(P) /\ tl[at + 1].expires \in Nat
          BY <3>2, TimerFields
        <4>2. tl[at + 1].expires - left \in Nat
          BY <1>2, <1>3, <3>2, <4>1 DEF left
        <4> QED
          BY <4>1, <4>2 DEF Timer
      <3> HIDE DEF next, rest
      <3>6. rest \in Seq(Timer(P)) /\ Len(rest) = Len(tail)
        BY <1>6, <3>2, <3>4, <3>5, ExceptSeq
      <3>7. \A j \in 1 .. Len(tail) : rest[j] = IF j = 1 THEN next ELSE tail[j]
        BY <1>6, <3>2, <3>4, <3>5, ExceptSeq
      <3> QED
        BY <1>6, <3>6, <3>7
    <2> QED
      BY <2>1, <2>2
  <1> HIDE DEF new, rest, next
  <1> DEFINE u == low \o <<new>>
  <1>8. u \in Seq(Timer(P)) /\ Len(u) = at + 1 /\ \A j \in 1 .. at + 1 : u[j] = IF j <= at THEN low[j] ELSE new
    <2>1. <<new>> \in Seq(Timer(P)) /\ Len(<<new>>) = 1 /\ <<new>>[1] = new
      BY <1>5
    <2>2. /\ u \in Seq(Timer(P)) /\ Len(u) = Len(low) + Len(<<new>>)
          /\ \A j \in 1 .. Len(low) + Len(<<new>>) : u[j] = IF j <= Len(low) THEN low[j] ELSE <<new>>[j - Len(low)]
      BY <1>4, <2>1, ConcatProperties
    <2>3. ASSUME NEW j \in 1 .. at + 1 PROVE u[j] = IF j <= at THEN low[j] ELSE new
      <3>1. CASE j <= at
        BY <1>3, <1>4, <2>1, <2>2, <3>1
      <3>2. CASE ~(j <= at)
        <4>1. j = at + 1 /\ j - at = 1
          BY <1>3, <3>2
        <4> QED
          BY <1>3, <1>4, <2>1, <2>2, <4>1
      <3> QED
        BY <3>1, <3>2
    <2> QED
      BY <1>4, <2>1, <2>2, <2>3
  <1> HIDE DEF u
  <1>9. t = u \o rest
    BY <1>1 DEF u
  <1>10. t \in Seq(Timer(P)) /\ Len(t) = Len(tl) + 1
    <2>1. t \in Seq(Timer(P)) /\ Len(t) = Len(u) + Len(rest)
      BY <1>7, <1>8, <1>9, ConcatProperties
    <2> QED
      BY <1>3, <1>7, <1>8, <2>1
  <1>11. ASSUME NEW j \in 1 .. Len(tl) + 1
         PROVE  t[j] = IF j <= at THEN tl[j] ELSE IF j = at + 1 THEN new
                       ELSE IF j = at + 2 THEN next ELSE tl[j - 1]
    <2>1. t[j] = IF j <= Len(u) THEN u[j] ELSE rest[j - Len(u)]
      <3>1. j \in 1 .. Len(u) + Len(rest)
        BY <1>3, <1>7, <1>8
      <3> QED
        BY <1>7, <1>8, <1>9, <3>1, ConcatProperties
    <2>2. CASE j <= at
      BY <1>3, <1>4, <1>8, <2>1, <2>2
    <2>3. CASE j = at + 1
      BY <1>3, <1>8, <2>1, <2>3
    <2>4. CASE j > at + 1
      <3>1. t[j] = rest[j - (at + 1)] /\ j - (at + 1) \in 1 .. Len(tl) - at
        BY <1>3, <1>8, <2>1, <2>4
      <3>2. (j - (at + 1) = 1 <=> j = at + 2) /\ at + (j - (at + 1)) = j - 1 /\ ~(j <= at) /\ j # at + 1
        BY <1>3, <2>4
      <3> QED
        BY <1>7, <3>1, <3>2
    <2> QED
      BY <1>3, <2>2, <2>3, <2>4
  <1> QED
    BY <1>2, <1>3, <1>10, <1>11 DEF t, left, new, next

(* Nobody else's alarm moves. *)
LEMMA AddKeeps ==
    ASSUME NEW P, NEW tl, IsList(tl, P), NEW p \in P, ~HasTimer(tl, p), NEW ticks \in Nat \ {0}
    PROVE  LET t == add_timer(tl, p, ticks)
           IN  /\ IsList(t, P)
               /\ \A q : HasTimer(t, q) <=> q = p \/ HasTimer(tl, q)
               /\ \A q : Left(t, q) = IF q = p THEN ticks ELSE Left(tl, q)
  <1> DEFINE t == add_timer(tl, p, ticks)
             Delay(at) == ticks - Due(tl, at)
  <1>0. tl \in Seq(Timer(P)) /\ Len(tl) \in Nat
    <2>1. tl \in Seq(Timer(P))
      BY DEF IsList
    <2> QED
      BY <2>1
  <1>1. PICK at \in 0 .. Len(tl) :
           /\ Delay(at) \in Nat
           /\ at < Len(tl) => Delay(at) < tl[at + 1].expires
           /\ t \in Seq(Timer(P)) /\ Len(t) = Len(tl) + 1
           /\ \A j \in 1 .. Len(tl) + 1 :
                t[j] = IF j <= at THEN tl[j]
                       ELSE IF j = at + 1 THEN [proc |-> p, expires |-> Delay(at)]
                       ELSE IF j = at + 2 THEN [tl[at + 1] EXCEPT !.expires = @ - Delay(at)]
                       ELSE tl[j - 1]
    BY <1>0, AddPlaces
  <1> DEFINE n == Len(tl)
             delay == Delay(at)
  <1> HIDE DEF t
  (* Who has a timer where. *)
  <1>2. ASSUME NEW j \in 1 .. n + 1
        PROVE  /\ t[j].proc = IF j <= at THEN tl[j].proc ELSE IF j = at + 1 THEN p ELSE tl[j - 1].proc
               /\ t[j].expires = IF j <= at THEN tl[j].expires ELSE IF j = at + 1 THEN delay
                                 ELSE IF j = at + 2 THEN tl[at + 1].expires - delay ELSE tl[j - 1].expires
    <2>1. CASE j <= at
      BY <1>1, <2>1
    <2>2. CASE j = at + 1
      <3>1. t[j] = [proc |-> p, expires |-> delay] /\ ~(j <= at)
        BY <1>1, <2>2
      <3> QED
        BY <2>2, <3>1
    <2>3. CASE j = at + 2
      <3>1. ~(j <= at) /\ j # at + 1 /\ j - 1 = at + 1 /\ at + 1 \in 1 .. n
        BY <1>0, <1>1, <2>3
      <3>2. t[j] = [tl[at + 1] EXCEPT !.expires = @ - delay]
        BY <1>1, <2>3, <3>1
      <3>3. tl[at + 1] \in Timer(P)
        BY <1>0, <3>1, TimerFields
      <3>4. t[j].proc = tl[at + 1].proc /\ t[j].expires = tl[at + 1].expires - delay
        BY <3>2, <3>3 DEF Timer
      <3> QED
        BY <2>3, <3>1, <3>4
    <2>4. CASE ~(j <= at) /\ j # at + 1 /\ j # at + 2
      BY <1>1, <2>4
    <2> QED
      BY <2>1, <2>2, <2>3, <2>4
  <1>3. \A i \in 1 .. n : tl[i].proc # p
    BY DEF HasTimer
  <1>4. \A i, j \in 1 .. n : tl[i].proc = tl[j].proc => i = j
    BY DEF IsList
  <1>5. ASSUME NEW i \in 1 .. n + 1, NEW j \in 1 .. n + 1, t[i].proc = t[j].proc
        PROVE  i = j
    <2> DEFINE old(x) == IF x <= at THEN x ELSE x - 1
    <2>1. ASSUME NEW x \in 1 .. n + 1, x # at + 1
          PROVE  old(x) \in 1 .. n /\ t[x].proc = tl[old(x)].proc /\ t[x].proc # p
      <3>1. old(x) \in 1 .. n
        BY <1>0, <2>1
      <3>2. t[x].proc = tl[old(x)].proc
        BY <1>0, <1>2, <2>1
      <3> HIDE DEF old
      <3> QED
        BY <1>3, <3>1, <3>2
    <2>2. at + 1 \in 1 .. n + 1 /\ ~(at + 1 <= at)
      BY <1>0
    <2>3. t[at + 1].proc = p
      BY <1>2, <2>2
    <2>4. CASE i = at + 1 \/ j = at + 1
      BY <1>5, <2>1, <2>3, <2>4
    <2>5. CASE i # at + 1 /\ j # at + 1
      <3>1. old(i) = old(j)
        <4>1. old(i) \in 1 .. n /\ old(j) \in 1 .. n /\ tl[old(i)].proc = tl[old(j)].proc
          BY <1>5, <2>1, <2>5
        <4> HIDE DEF old
        <4> QED
          BY <1>4, <4>1
      <3> QED
        BY <1>0, <2>5, <3>1
    <2> QED
      BY <2>4, <2>5
  <1>6. t # << >> /\ t[1].expires > 0
    <2>1. 1 \in 1 .. n + 1
      BY <1>0
    <2>2. CASE at = 0
      <3>1. delay = ticks
        BY <1>0, <2>2, DueAdds
      <3> QED
        BY <1>1, <1>2, <2>1, <2>2, <3>1
    <2>3. CASE at # 0
      <3>1. 1 <= at /\ tl # << >>
        BY <1>0, <2>3
      <3>2. tl[1].expires > 0
        BY <3>1 DEF IsList
      <3> QED
        BY <1>1, <1>2, <2>1, <3>1, <3>2
    <2> QED
      BY <2>2, <2>3
  <1>7. IsList(t, P)
    BY <1>1, <1>5, <1>6 DEF IsList
  (* Where old timers and the new one have gone. *)
  <1>8. ASSUME NEW i \in 1 .. n
        PROVE  \E j \in 1 .. n + 1 : j = (IF i <= at THEN i ELSE i + 1) /\ t[j].proc = tl[i].proc
    <2> DEFINE j == IF i <= at THEN i ELSE i + 1
    <2>1. j \in 1 .. n + 1 /\ j # at + 1 /\ (IF j <= at THEN j ELSE j - 1) = i
      BY <1>0
    <2>2. t[j].proc = tl[i].proc
      BY <1>2, <2>1
    <2> QED
      BY <2>1, <2>2
  <1>9. at + 1 \in 1 .. n + 1 /\ t[at + 1].proc = p
    <2>1. at + 1 \in 1 .. n + 1 /\ ~(at + 1 <= at)
      BY <1>0
    <2> QED
      BY <1>2, <2>1
  <1>10. ASSUME NEW q PROVE HasTimer(t, q) <=> q = p \/ HasTimer(tl, q)
    <2>1. ASSUME HasTimer(t, q), q # p PROVE HasTimer(tl, q)
      <3>1. PICK j \in 1 .. n + 1 : t[j].proc = q
        BY <1>1, <2>1 DEF HasTimer
      <3>2. j # at + 1
        BY <1>9, <2>1, <3>1
      <3>3. (IF j <= at THEN j ELSE j - 1) \in 1 .. n
        BY <1>0, <3>2
      <3>4. tl[IF j <= at THEN j ELSE j - 1].proc = q
        BY <1>2, <3>1, <3>2
      <3> QED
        BY <3>3, <3>4 DEF HasTimer
    <2>2. ASSUME HasTimer(tl, q) PROVE HasTimer(t, q)
      <3>1. PICK i \in 1 .. n : tl[i].proc = q
        BY <2>2 DEF HasTimer
      <3>2. \E j \in 1 .. n + 1 : t[j].proc = q
        BY <1>8, <3>1
      <3> QED
        BY <1>1, <3>2 DEF HasTimer
    <2>3. HasTimer(t, p)
      BY <1>1, <1>9 DEF HasTimer
    <2> QED
      BY <2>1, <2>2, <2>3
  (* The sums. *)
  <1> DEFINE g == [j \in 0 .. n + 1 |-> IF j <= at THEN Due(tl, j) ELSE IF j = at + 1 THEN ticks ELSE Due(tl, j - 1)]
  <1>11. Adds(g, t)
    <2>0. Due(tl, 0) = 0 /\ \A j \in 1 .. n : Due(tl, j) = Due(tl, j - 1) + tl[j].expires
      BY <1>0, DueAdds
    <2>1. g[0] = 0
      <3>1. 0 \in 0 .. n + 1 /\ 0 <= at
        BY <1>0
      <3> QED
        BY <2>0, <3>1
    <2>2. ASSUME NEW j \in 1 .. n + 1 PROVE g[j] = g[j - 1] + t[j].expires
      <3>0. j \in 0 .. n + 1 /\ j - 1 \in 0 .. n + 1
        BY <1>0
      <3>1. CASE j <= at
        <4>1. j \in 1 .. n /\ j - 1 <= at
          BY <1>0, <3>1
        <4> QED
          BY <1>2, <2>0, <3>0, <3>1, <4>1
      <3>2. CASE j = at + 1
        <4>1. ~(j <= at) /\ j - 1 <= at /\ j - 1 = at
          BY <1>0, <3>2
        <4>2. g[j] = ticks /\ g[j - 1] = Due(tl, at) /\ t[j].expires = delay
          BY <1>2, <3>0, <3>2, <4>1
        <4>3. Due(tl, at) \in Nat
          BY <1>0, DueGrows
        <4> QED
          BY <4>2, <4>3
      <3>3. CASE j = at + 2
        <4>1. ~(j <= at) /\ j # at + 1 /\ ~(j - 1 <= at) /\ j - 1 = at + 1 /\ at + 1 \in 1 .. n /\ (at + 1) - 1 = at
          BY <1>0, <3>3
        <4>2. g[j] = Due(tl, at + 1) /\ g[j - 1] = ticks /\ t[j].expires = tl[at + 1].expires - delay
          BY <1>2, <3>0, <3>3, <4>1
        <4>3. Due(tl, at + 1) = Due(tl, at) + tl[at + 1].expires
          BY <2>0, <4>1
        <4>4. Due(tl, at) \in Nat /\ tl[at + 1].expires \in Nat
          BY <1>0, <4>1, DueGrows, TimerFields
        <4> QED
          BY <4>2, <4>3, <4>4
      <3>4. CASE ~(j <= at) /\ j # at + 1 /\ j # at + 2
        <4>1. j - 1 \in 1 .. n /\ ~(j - 1 <= at) /\ j - 1 # at + 1
          BY <1>0, <3>4
        <4>2. g[j] = Due(tl, j - 1) /\ g[j - 1] = Due(tl, (j - 1) - 1) /\ t[j].expires = tl[j - 1].expires
          BY <1>2, <3>0, <3>4, <4>1
        <4> QED
          BY <2>0, <4>1, <4>2
      <3> QED
        BY <3>1, <3>2, <3>3, <3>4
    <2> HIDE DEF g
    <2> QED
      BY <1>1, <2>1, <2>2 DEF Adds
  <1>12. \A j \in 0 .. n + 1 : Due(t, j) = g[j]
    <2> HIDE DEF g
    <2> QED
      BY <1>1, <1>11, DueIs
  <1>13. Left(t, p) = ticks
    <2>1. Left(t, p) = Due(t, at + 1)
      BY <1>1, <1>7, <1>9, LeftIsDue
    <2>2. at + 1 \in 0 .. n + 1 /\ ~(at + 1 <= at)
      BY <1>0
    <2> QED
      BY <1>12, <2>1, <2>2
  <1>14. ASSUME NEW q, q # p PROVE Left(t, q) = Left(tl, q)
    <2>1. CASE ~HasTimer(tl, q)
      BY <1>10, <1>14, <2>1 DEF Left
    <2>2. CASE HasTimer(tl, q)
      <3>1. PICK i \in 1 .. n : tl[i].proc = q
        BY <2>2 DEF HasTimer
      <3>2. PICK j \in 1 .. n + 1 : j = (IF i <= at THEN i ELSE i + 1) /\ t[j].proc = q
        BY <1>8, <3>1
      <3>3. Left(tl, q) = Due(tl, i)
        BY <3>1, LeftIsDue
      <3>4. Left(t, q) = Due(t, j)
        BY <1>1, <1>7, <3>2, LeftIsDue
      <3>5. g[j] = Due(tl, i)
        <4>1. j \in 0 .. n + 1
          BY <1>0
        <4>2. CASE i <= at
          BY <3>2, <4>1, <4>2
        <4>3. CASE ~(i <= at)
          <5>1. j = i + 1 /\ ~(j <= at) /\ j # at + 1 /\ j - 1 = i
            BY <1>0, <3>2, <4>3
          <5> QED
            BY <4>1, <5>1
        <4> QED
          BY <4>2, <4>3
      <3>6. j \in 0 .. n + 1
        BY <1>0
      <3> QED
        BY <1>12, <3>3, <3>4, <3>5, <3>6
    <2> QED
      BY <2>1, <2>2
  <1> QED
    BY <1>7, <1>10, <1>13, <1>14 DEF t

(* Exactly the timer of p goes, and its successor gets what it had left. *)
Removed(P, tl, i, t) ==
    /\ t \in Seq(Timer(P)) /\ Len(t) = Len(tl) - 1
    /\ \A j \in 1 .. Len(tl) - 1 :
         /\ t[j].proc = IF j < i THEN tl[j].proc ELSE tl[j + 1].proc
         /\ t[j].expires = IF j < i THEN tl[j].expires
                           ELSE IF j = i THEN tl[i + 1].expires + tl[i].expires
                           ELSE tl[j + 1].expires

LEMMA DelPlaces ==
    ASSUME NEW P, NEW tl, IsList(tl, P), NEW i \in 1 .. Len(tl)
    PROVE  Removed(P, tl, i, del_timer(tl, tl[i].proc))
  <1> DEFINE p == tl[i].proc
             n == Len(tl)
             low == SubSeq(tl, 1, i - 1)
             tail == SubSeq(tl, i + 1, Len(tl))
             rest == IF tail = << >> \/ tl[i].expires = 0 THEN tail
                     ELSE [tail EXCEPT ![1].expires = @ + tl[i].expires]
             t == del_timer(tl, p)
             next == [tl[i + 1] EXCEPT !.expires = @ + tl[i].expires]
  <1>0. tl \in Seq(Timer(P)) /\ n \in Nat /\ i \in Nat /\ 1 <= i /\ i <= n
    <2>1. tl \in Seq(Timer(P))
      BY DEF IsList
    <2> QED
      BY <2>1
  <1>1. t = low \o rest
    <2>1. HasTimer(tl, p) /\ TimerOf(tl, p) = i
      BY LeftIsDue
    <2> QED
      BY <2>1 DEF del_timer
  <1> HIDE DEF t
  <1>2. low \in Seq(Timer(P)) /\ Len(low) = i - 1 /\ \A j \in 1 .. i - 1 : low[j] = tl[j]
    BY <1>0
  <1>3. /\ tail \in Seq(Timer(P)) /\ Len(tail) = n - i
        /\ \A j \in 1 .. n - i : tail[j] = tl[i + j]
    <2>1. \A k \in i + 1 .. Len(tl) : tl[k] \in Timer(P)
      BY <1>0
    <2>2. i + 1 \in Int /\ Len(tl) \in Int
      BY <1>0
    <2>3. /\ tail \in Seq(Timer(P))
          /\ Len(tail) = IF i + 1 <= Len(tl) THEN Len(tl) - (i + 1) + 1 ELSE 0
          /\ \A j \in 1 .. Len(tl) - (i + 1) + 1 : tail[j] = tl[i + 1 + j - 1]
      BY <2>1, <2>2, SubSeqProperties
    <2>4. Len(tail) = n - i
      BY <1>0, <2>3
    <2>5. Len(tl) - (i + 1) + 1 = n - i /\ \A j \in 1 .. n - i : i + 1 + j - 1 = i + j
      BY <1>0
    <2> QED
      BY <2>3, <2>4, <2>5
  <1> HIDE DEF low, tail
  <1>4. /\ rest \in Seq(Timer(P)) /\ Len(rest) = n - i
        /\ \A j \in 1 .. n - i :
             /\ rest[j].proc = tl[i + j].proc
             /\ rest[j].expires = IF j = 1 THEN tl[i + 1].expires + tl[i].expires ELSE tl[i + j].expires
    <2>0. tl[i].expires \in Nat
      BY <1>0, TimerFields
    <2>1. CASE tail = << >>
      <3>1. n - i = 0
        BY <1>3, <2>1
      <3> QED
        BY <1>3, <2>1, <3>1
    <2>2. CASE tail # << >> /\ tl[i].expires = 0
      <3>1. rest = tail
        BY <2>2
      <3>2. ASSUME NEW j \in 1 .. n - i
            PROVE  tl[i + j].expires = IF j = 1 THEN tl[i + 1].expires + tl[i].expires ELSE tl[i + j].expires
        <4>1. i + j \in 1 .. n
          BY <1>0
        <4>2. tl[i + j].expires \in Nat
          BY <1>0, <4>1, TimerFields
        <4> QED
          BY <2>2, <4>2
      <3> HIDE DEF rest
      <3> QED
        BY <1>3, <3>1, <3>2
    <2>3. CASE tail # << >> /\ tl[i].expires # 0
      <3>1. n - i > 0
        BY <1>0, <1>3, <2>3
      <3>2. i < n /\ i + 1 \in 1 .. n /\ 1 \in 1 .. n - i
        BY <1>0, <3>1
      <3>3. tail[1] = tl[i + 1]
        BY <1>3, <3>2
      <3>4. rest = [tail EXCEPT ![1] = next]
        BY <2>3, <3>3
      <3>5. next \in Timer(P) /\ next.proc = tl[i + 1].proc /\ next.expires = tl[i + 1].expires + tl[i].expires
        <4>1. tl[i + 1] \in Timer(P) /\ tl[i + 1].expires \in Nat
          BY <1>0, <3>2, TimerFields
        <4>2. tl[i + 1].expires + tl[i].expires \in Nat
          BY <2>0, <4>1
        <4> QED
          BY <4>1, <4>2 DEF Timer
      <3> HIDE DEF next, rest
      <3>6. rest \in Seq(Timer(P)) /\ Len(rest) = Len(tail)
        BY <1>3, <3>2, <3>4, <3>5, ExceptSeq
      <3>7. \A j \in 1 .. Len(tail) : rest[j] = IF j = 1 THEN next ELSE tail[j]
        BY <1>3, <3>2, <3>4, <3>5, ExceptSeq
      <3> QED
        BY <1>3, <3>5, <3>6, <3>7
    <2> QED
      BY <2>1, <2>2, <2>3
  <1> HIDE DEF rest
  <1>5. t \in Seq(Timer(P)) /\ Len(t) = n - 1
    <2>1. t \in Seq(Timer(P)) /\ Len(t) = Len(low) + Len(rest)
      BY <1>1, <1>2, <1>4, ConcatProperties
    <2> QED
      BY <1>0, <1>2, <1>4, <2>1
  <1>6. ASSUME NEW j \in 1 .. n - 1
        PROVE  /\ t[j].proc = IF j < i THEN tl[j].proc ELSE tl[j + 1].proc
               /\ t[j].expires = IF j < i THEN tl[j].expires
                                 ELSE IF j = i THEN tl[i + 1].expires + tl[i].expires
                                 ELSE tl[j + 1].expires
    <2>1. t[j] = IF j <= Len(low) THEN low[j] ELSE rest[j - Len(low)]
      <3>1. j \in 1 .. Len(low) + Len(rest)
        BY <1>0, <1>2, <1>4
      <3> QED
        BY <1>1, <1>2, <1>4, <3>1, ConcatProperties
    <2>2. CASE j < i
      BY <1>0, <1>2, <2>1, <2>2
    <2>3. CASE ~(j < i)
      <3>1. t[j] = rest[j - (i - 1)] /\ j - (i - 1) \in 1 .. n - i
        BY <1>0, <1>2, <2>1, <2>3
      <3>2. (j - (i - 1) = 1 <=> j = i) /\ i + (j - (i - 1)) = j + 1
        BY <1>0, <2>3
      <3> QED
        BY <1>4, <2>3, <3>1, <3>2
    <2> QED
      BY <2>2, <2>3
  <1> QED
    BY <1>5, <1>6 DEF Removed, t

LEMMA DelKeeps ==
    ASSUME NEW P, NEW tl, IsList(tl, P), NEW p
    PROVE  LET t == del_timer(tl, p)
           IN  /\ IsList(t, P)
               /\ \A q : HasTimer(t, q) <=> q # p /\ HasTimer(tl, q)
               /\ \A q : Left(t, q) = IF q = p THEN 0 ELSE Left(tl, q)
  <1> DEFINE t == del_timer(tl, p)
  <1>0. tl \in Seq(Timer(P)) /\ Len(tl) \in Nat
    <2>1. tl \in Seq(Timer(P))
      BY DEF IsList
    <2> QED
      BY <2>1
  <1>1. CASE ~HasTimer(tl, p)
    <2>1. t = tl
      BY <1>1 DEF del_timer
    <2>2. Left(tl, p) = 0
      BY <1>1 DEF Left
    <2> HIDE DEF t
    <2> QED
      BY <1>1, <2>1, <2>2 DEF t
  <1>2. CASE HasTimer(tl, p)
    <2> DEFINE n == Len(tl)
    <2>1. PICK i \in 1 .. n : tl[i].proc = p
      BY <1>2 DEF HasTimer
    <2>2. /\ t \in Seq(Timer(P)) /\ Len(t) = n - 1
          /\ \A j \in 1 .. n - 1 :
               /\ t[j].proc = IF j < i THEN tl[j].proc ELSE tl[j + 1].proc
               /\ t[j].expires = IF j < i THEN tl[j].expires
                                 ELSE IF j = i THEN tl[i + 1].expires + tl[i].expires
                                 ELSE tl[j + 1].expires
      <3>1. Removed(P, tl, i, del_timer(tl, tl[i].proc))
        BY DelPlaces
      <3> QED
        BY <2>1, <3>1 DEF Removed
    <2> HIDE DEF t
    <2>3. \A x, y \in 1 .. n : tl[x].proc = tl[y].proc => x = y
      BY DEF IsList
    <2> DEFINE old(x) == IF x < i THEN x ELSE x + 1
    <2>4. ASSUME NEW x \in 1 .. n - 1
          PROVE  old(x) \in 1 .. n /\ old(x) # i /\ t[x].proc = tl[old(x)].proc /\ t[x].proc # p
      <3>1. old(x) \in 1 .. n /\ old(x) # i
        BY <1>0
      <3>2. t[x].proc = tl[old(x)].proc
        BY <2>2
      <3> HIDE DEF old
      <3> QED
        BY <2>1, <2>3, <3>1, <3>2
    <2>5. ASSUME NEW x \in 1 .. n - 1, NEW y \in 1 .. n - 1, t[x].proc = t[y].proc
          PROVE  x = y
      <3>1. old(x) = old(y)
        <4>1. old(x) \in 1 .. n /\ old(y) \in 1 .. n /\ tl[old(x)].proc = tl[old(y)].proc
          BY <2>4, <2>5
        <4> HIDE DEF old
        <4> QED
          BY <2>3, <4>1
      <3> QED
        BY <1>0, <3>1
    <2>6. ASSUME t # << >> PROVE t[1].expires > 0
      <3>1. 1 \in 1 .. n - 1 /\ 1 \in 1 .. n /\ 2 \in 1 .. n
        BY <1>0, <2>2, <2>6
      <3>2. tl[1].expires > 0 /\ tl[1].expires \in Nat /\ tl[2].expires \in Nat
        <4>1. tl # << >>
          BY <3>1
        <4> QED
          BY <1>0, <3>1, <4>1, TimerFields DEF IsList
      <3>3. CASE i = 1
        BY <2>2, <3>1, <3>2, <3>3
      <3>4. CASE i # 1
        BY <2>2, <3>1, <3>2, <3>4
      <3> QED
        BY <3>3, <3>4
    <2>7. IsList(t, P)
      BY <2>2, <2>5, <2>6 DEF IsList
    <2>8. ASSUME NEW x \in 1 .. n, x # i
          PROVE  \E j \in 1 .. n - 1 : j = (IF x < i THEN x ELSE x - 1) /\ t[j].proc = tl[x].proc
      <3> DEFINE j == IF x < i THEN x ELSE x - 1
      <3>1. j \in 1 .. n - 1 /\ old(j) = x
        BY <1>0, <2>8
      <3>2. t[j].proc = tl[old(j)].proc
        BY <2>4, <3>1
      <3> QED
        BY <3>1, <3>2
    <2>9. ASSUME NEW q PROVE HasTimer(t, q) <=> q # p /\ HasTimer(tl, q)
      <3>1. ASSUME HasTimer(t, q) PROVE q # p /\ HasTimer(tl, q)
        <4>1. PICK j \in 1 .. n - 1 : t[j].proc = q
          BY <2>2, <3>1 DEF HasTimer
        <4>2. old(j) \in 1 .. n /\ tl[old(j)].proc = q /\ q # p
          BY <2>4, <4>1
        <4> HIDE DEF old
        <4> QED
          BY <4>2 DEF HasTimer
      <3>2. ASSUME q # p, HasTimer(tl, q) PROVE HasTimer(t, q)
        <4>1. PICK x \in 1 .. n : tl[x].proc = q
          BY <3>2 DEF HasTimer
        <4>2. x # i
          BY <2>1, <3>2, <4>1
        <4>3. \E j \in 1 .. n - 1 : t[j].proc = q
          BY <2>8, <4>1, <4>2
        <4> QED
          BY <2>2, <4>3 DEF HasTimer
      <3> QED
        BY <3>1, <3>2
    <2> DEFINE g == [j \in 0 .. n - 1 |-> IF j < i THEN Due(tl, j) ELSE Due(tl, j + 1)]
    <2>10. Adds(g, t)
      <3>0. Due(tl, 0) = 0 /\ \A j \in 1 .. n : Due(tl, j) = Due(tl, j - 1) + tl[j].expires
        BY <1>0, DueAdds
      <3>1. g[0] = 0
        <4>1. 0 \in 0 .. n - 1 /\ 0 < i
          BY <1>0
        <4> QED
          BY <3>0, <4>1
      <3>2. ASSUME NEW j \in 1 .. n - 1 PROVE g[j] = g[j - 1] + t[j].expires
        <4>0. j \in 0 .. n - 1 /\ j - 1 \in 0 .. n - 1 /\ j \in 1 .. n /\ j + 1 \in 1 .. n /\ (j + 1) - 1 = j
          BY <1>0
        <4>1. CASE j < i
          <5>1. j - 1 < i
            BY <1>0, <4>1
          <5> QED
            BY <2>2, <3>0, <4>0, <4>1, <5>1
        <4>2. CASE j = i
          <5>1. ~(j < i) /\ j - 1 < i
            BY <1>0, <4>2
          <5>2. g[j] = Due(tl, i + 1) /\ g[j - 1] = Due(tl, i - 1) /\ t[j].expires = tl[i + 1].expires + tl[i].expires
            BY <2>2, <4>0, <4>2, <5>1
          <5>3. Due(tl, i + 1) = Due(tl, i) + tl[i + 1].expires /\ Due(tl, i) = Due(tl, i - 1) + tl[i].expires
            BY <3>0, <4>0, <4>2
          <5>4. Due(tl, i - 1) \in Nat /\ tl[i].expires \in Nat /\ tl[i + 1].expires \in Nat
            <6>1. i - 1 \in 0 .. n /\ i + 1 \in 1 .. n
              BY <1>0, <4>0, <4>2
            <6> QED
              BY <1>0, <6>1, DueGrows, TimerFields
          <5> QED
            BY <5>2, <5>3, <5>4
        <4>3. CASE j > i
          <5>1. ~(j < i) /\ ~(j - 1 < i) /\ j # i /\ (j - 1) + 1 = j
            BY <1>0, <4>3
          <5>2. g[j] = Due(tl, j + 1) /\ g[j - 1] = Due(tl, j) /\ t[j].expires = tl[j + 1].expires
            BY <2>2, <4>0, <5>1
          <5> QED
            BY <3>0, <4>0, <5>2
        <4> QED
          BY <1>0, <4>1, <4>2, <4>3
      <3> HIDE DEF g
      <3> QED
        BY <2>2, <3>1, <3>2 DEF Adds
    <2>11. \A j \in 0 .. n - 1 : Due(t, j) = g[j]
      <3> HIDE DEF g
      <3> QED
        BY <2>2, <2>10, DueIs
    <2>12. Left(t, p) = 0
      BY <2>9 DEF Left
    <2>13. ASSUME NEW q, q # p PROVE Left(t, q) = Left(tl, q)
      <3>1. CASE ~HasTimer(tl, q)
        BY <2>9, <3>1 DEF Left
      <3>2. CASE HasTimer(tl, q)
        <4>1. PICK x \in 1 .. n : tl[x].proc = q
          BY <3>2 DEF HasTimer
        <4>2. x # i
          BY <2>1, <2>13, <4>1
        <4>3. PICK j \in 1 .. n - 1 : j = (IF x < i THEN x ELSE x - 1) /\ t[j].proc = q
          BY <2>8, <4>1, <4>2
        <4>4. Left(tl, q) = Due(tl, x)
          BY <4>1, LeftIsDue
        <4>5. Left(t, q) = Due(t, j)
          BY <2>2, <2>7, <4>3, LeftIsDue
        <4>6. j \in 0 .. n - 1 /\ (IF j < i THEN j ELSE j + 1) = x
          BY <1>0, <4>2, <4>3
        <4>7. g[j] = Due(tl, x)
          <5>1. CASE j < i
            BY <4>6, <5>1
          <5>2. CASE ~(j < i)
            BY <4>6, <5>2
          <5> QED
            BY <5>1, <5>2
        <4> HIDE DEF g
        <4> QED
          BY <2>11, <4>4, <4>5, <4>6, <4>7
      <3> QED
        BY <3>1, <3>2
    <2> QED
      BY <2>7, <2>9, <2>12, <2>13 DEF t
  <1> QED
    BY <1>1, <1>2

(* The head counts down: one tick less for everybody. *)
LEMMA CountedKeeps ==
    ASSUME NEW P, NEW tl, IsList(tl, P)
    PROVE  LET c == Counted(tl)
           IN  /\ c \in Seq(Timer(P)) /\ Len(c) = Len(tl)
               /\ \A j \in 1 .. Len(tl) : c[j].proc = tl[j].proc
               /\ Due(c, 0) = 0
               /\ \A j \in 1 .. Len(tl) : Due(c, j) = Due(tl, j) - 1
  <1> DEFINE c == Counted(tl)
             n == Len(tl)
             head == [tl[1] EXCEPT !.expires = @ - 1]
  <1>0. tl \in Seq(Timer(P)) /\ n \in Nat
    <2>1. tl \in Seq(Timer(P))
      BY DEF IsList
    <2> QED
      BY <2>1
  <1>1. CASE tl = << >>
    <2>1. c = << >> /\ n = 0
      BY <1>1 DEF Counted
    <2> HIDE DEF c
    <2>2. c \in Seq(Timer(P)) /\ Len(c) = n
      BY <1>0, <1>1, <2>1
    <2>3. Due(c, 0) = 0
      BY <2>2, DueAdds
    <2>4. \A j \in 1 .. n : FALSE
      BY <2>1
    <2> QED
      BY <2>2, <2>3, <2>4 DEF c
  <1>2. CASE tl # << >>
    <2>1. c = [tl EXCEPT ![1] = head]
      BY <1>2 DEF Counted
    <2>2. 1 \in 1 .. n /\ tl[1] \in Timer(P) /\ tl[1].expires \in Nat /\ tl[1].expires > 0
      <3>1. 1 \in 1 .. n
        BY <1>0, <1>2
      <3> QED
        BY <1>0, <1>2, <3>1, TimerFields DEF IsList
    <2>3. head \in Timer(P) /\ head.proc = tl[1].proc /\ head.expires = tl[1].expires - 1
      <3>1. tl[1].expires - 1 \in Nat
        BY <2>2
      <3> QED
        BY <2>2, <3>1 DEF Timer
    <2> HIDE DEF c, head
    <2>4. c \in Seq(Timer(P)) /\ Len(c) = n
      BY <1>0, <2>1, <2>2, <2>3, ExceptSeq
    <2>5. \A j \in 1 .. n : c[j] = IF j = 1 THEN head ELSE tl[j]
      BY <1>0, <2>1, <2>2, <2>3, ExceptSeq
    <2>6. \A j \in 1 .. n : c[j].proc = tl[j].proc
      BY <2>3, <2>5
    <2> DEFINE g == [j \in 0 .. n |-> IF j = 0 THEN 0 ELSE Due(tl, j) - 1]
    <2>7. Adds(g, c)
      <3>0. Due(tl, 0) = 0 /\ \A j \in 1 .. n : Due(tl, j) = Due(tl, j - 1) + tl[j].expires
        BY <1>0, DueAdds
      <3>1. g[0] = 0
        BY <1>0
      <3>2. ASSUME NEW j \in 1 .. n PROVE g[j] = g[j - 1] + c[j].expires
        <4>0. j \in 0 .. n /\ j - 1 \in 0 .. n /\ j # 0
          BY <1>0
        <4>1. tl[j].expires \in Nat /\ Due(tl, j) \in Nat /\ Due(tl, j - 1) \in Nat
          BY <1>0, <4>0, TimerFields, DueGrows
        <4>2. Due(tl, j) = Due(tl, j - 1) + tl[j].expires
          BY <3>0
        <4>3. g[j] = Due(tl, j) - 1
          BY <4>0
        <4>4. CASE j = 1
          <5>1. g[j - 1] = 0 /\ Due(tl, j - 1) = 0 /\ c[j].expires = tl[1].expires - 1
            BY <2>3, <2>5, <3>0, <4>4
          <5> HIDE DEF g
          <5> QED
            BY <2>2, <4>1, <4>2, <4>3, <4>4, <5>1
        <4>5. CASE j # 1
          <5>1. j - 1 # 0
            BY <4>5
          <5>2. g[j - 1] = Due(tl, j - 1) - 1 /\ c[j].expires = tl[j].expires
            BY <2>5, <4>0, <4>5, <5>1
          <5> HIDE DEF g
          <5> QED
            BY <4>1, <4>2, <4>3, <5>2
        <4> QED
          BY <4>4, <4>5
      <3> HIDE DEF g
      <3> QED
        BY <2>4, <3>1, <3>2 DEF Adds
    <2>8. \A j \in 0 .. n : Due(c, j) = g[j]
      <3> HIDE DEF g
      <3> QED
        BY <2>4, <2>7, DueIs
    <2>9. \A j \in 1 .. n : Due(c, j) = Due(tl, j) - 1
      BY <1>0, <2>8
    <2> QED
      BY <2>4, <2>6, <2>9, DueAdds DEF c
  <1> QED
    BY <1>1, <1>2

(* run_timer_list fires a first part of the list that has nothing left to   *)
(* wait, and stops at a timer that has.                                    *)
LEMMA FiresPrefix ==
    ASSUME NEW P, NEW tl, IsList(tl, P)
    PROVE  /\ NumFired(tl) \in 0 .. Len(tl)
           /\ \A i \in 1 .. NumFired(tl) : Counted(tl)[i].expires = 0
           /\ NumFired(tl) < Len(tl) => Counted(tl)[NumFired(tl) + 1].expires # 0
  <1> DEFINE c == Counted(tl)
             Stops(n) == /\ \A i \in 1 .. n : c[i].expires = 0
                         /\ n < Len(c) => c[n + 1].expires # 0
             Good == {m \in Nat : m <= Len(c) => \/ \A i \in 1 .. m : c[i].expires = 0
                                              \/ \E n \in 0 .. Len(c) : Stops(n)}
  <1>1. c \in Seq(Timer(P)) /\ Len(c) = Len(tl)
    BY CountedKeeps
  <1>2. Len(c) \in Nat
    BY <1>1
  <1> HIDE DEF c
  <1>3. 0 \in Good
    OBVIOUS
  <1>4. ASSUME NEW m \in Nat, m \in Good PROVE m + 1 \in Good
    <2>1. CASE m + 1 <= Len(c) /\ \A i \in 1 .. m : c[i].expires = 0
      <3>1. CASE c[m + 1].expires = 0
        <4>1. \A i \in 1 .. m + 1 : i \in 1 .. m \/ i = m + 1
          OBVIOUS
        <4> QED
          BY <2>1, <3>1, <4>1
      <3>2. CASE c[m + 1].expires # 0
        <4>1. m \in 0 .. Len(c) /\ Stops(m)
          BY <1>2, <2>1, <3>2
        <4> HIDE DEF Stops
        <4> QED
          BY <4>1
      <3> QED
        BY <3>1, <3>2
    <2>2. CASE ~(m + 1 <= Len(c))
      BY <2>2
    <2>3. CASE m + 1 <= Len(c) /\ \E n \in 0 .. Len(c) : Stops(n)
      <3> HIDE DEF Stops
      <3> QED
        BY <2>3
    <2>4. m + 1 <= Len(c) => m <= Len(c)
      BY <1>2
    <2>5. m <= Len(c) => (\A i \in 1 .. m : c[i].expires = 0) \/ \E n \in 0 .. Len(c) : Stops(n)
      <3> HIDE DEF Stops
      <3> QED
        BY <1>4
    <2> HIDE DEF Good, Stops
    <2> QED
      BY <2>1, <2>2, <2>3, <2>4, <2>5
  <1>5. Nat \subseteq Good
    <2> HIDE DEF Good
    <2> QED
      BY <1>3, <1>4, Induction
  <1>6. \E n \in 0 .. Len(c) : Stops(n)
    <2>1. Len(c) <= Len(c) /\ Len(c) \in Good
      BY <1>2, <1>5
    <2>2. CASE \A i \in 1 .. Len(c) : c[i].expires = 0
      <3>1. Stops(Len(c)) /\ Len(c) \in 0 .. Len(c)
        BY <1>2, <2>2
      <3> HIDE DEF Stops
      <3> QED
        BY <3>1
    <2>3. (\A i \in 1 .. Len(c) : c[i].expires = 0) \/ \E n \in 0 .. Len(c) : Stops(n)
      <3> HIDE DEF Stops
      <3> QED
        BY <2>1
    <2> HIDE DEF Stops
    <2> QED
      BY <2>2, <2>3
  <1>7. NumFired(tl) = CHOOSE n \in 0 .. Len(c) : Stops(n)
    BY DEF NumFired, c
  <1>8. NumFired(tl) \in 0 .. Len(c) /\ Stops(NumFired(tl))
    <2> HIDE DEF Stops
    <2> QED
      BY <1>6, <1>7
  <1> QED
    BY <1>1, <1>8 DEF c

LEMMA TickKeeps ==
    ASSUME NEW P, NEW tl, IsList(tl, P)
    PROVE  LET t == AfterTick(tl)
           IN  /\ IsList(t, P)
               /\ \A q : HasTimer(t, q) <=> HasTimer(tl, q) /\ Left(tl, q) # 1
               /\ \A q : Left(t, q) = IF Left(tl, q) = 0 THEN 0 ELSE Left(tl, q) - 1
  <1> DEFINE t == AfterTick(tl)
             c == Counted(tl)
             k == NumFired(tl)
             n == Len(tl)
  <1>0. tl \in Seq(Timer(P)) /\ n \in Nat
    <2>1. tl \in Seq(Timer(P))
      BY DEF IsList
    <2> QED
      BY <2>1
  <1>1. /\ c \in Seq(Timer(P)) /\ Len(c) = n
        /\ \A j \in 1 .. n : c[j].proc = tl[j].proc
        /\ Due(c, 0) = 0
        /\ \A j \in 1 .. n : Due(c, j) = Due(tl, j) - 1
    BY CountedKeeps
  <1>2. /\ k \in 0 .. n
        /\ \A i \in 1 .. k : c[i].expires = 0
        /\ k < n => c[k + 1].expires # 0
    BY FiresPrefix
  <1>3. t = SubSeq(c, k + 1, n)
    BY DEF AfterTick
  <1> HIDE DEF t, c, k
  <1>4. /\ t \in Seq(Timer(P)) /\ Len(t) = n - k
        /\ \A j \in 1 .. n - k : t[j] = c[k + j]
    <2>1. \A i \in k + 1 .. n : c[i] \in Timer(P)
      BY <1>0, <1>1, <1>2
    <2>2. k + 1 \in Int /\ n \in Int
      BY <1>0, <1>2
    <2>3. /\ t \in Seq(Timer(P))
          /\ Len(t) = IF k + 1 <= n THEN n - (k + 1) + 1 ELSE 0
          /\ \A j \in 1 .. n - (k + 1) + 1 : t[j] = c[k + 1 + j - 1]
      BY <1>3, <2>1, <2>2, SubSeqProperties
    <2>4. Len(t) = n - k
      BY <1>0, <1>2, <2>3
    <2>5. n - (k + 1) + 1 = n - k /\ \A j \in 1 .. n - k : k + 1 + j - 1 = k + j
      BY <1>0, <1>2
    <2> QED
      BY <2>3, <2>4, <2>5
  <1>5. \A j \in 1 .. n - k : k + j \in 1 .. n /\ t[j].proc = tl[k + j].proc
    <2>1. \A j \in 1 .. n - k : k + j \in 1 .. n
      BY <1>0, <1>2
    <2> QED
      BY <1>1, <1>4, <2>1
  <1>6. \A x, y \in 1 .. n : tl[x].proc = tl[y].proc => x = y
    BY DEF IsList
  <1>7. ASSUME NEW x \in 1 .. n - k, NEW y \in 1 .. n - k, t[x].proc = t[y].proc
        PROVE  x = y
    <2>1. k + x = k + y
      BY <1>5, <1>6, <1>7
    <2> QED
      BY <1>0, <1>2, <2>1
  <1>8. ASSUME t # << >> PROVE t[1].expires > 0
    <2>1. 1 \in 1 .. n - k /\ k < n
      BY <1>0, <1>2, <1>4, <1>8
    <2>2. t[1].expires \in Nat
      BY <1>4, <2>1, TimerFields
    <2>3. t[1].expires # 0
      BY <1>2, <1>4, <2>1
    <2> QED
      BY <2>2, <2>3
  <1>9. IsList(t, P)
    BY <1>4, <1>7, <1>8 DEF IsList
  (* Those that fire had one tick left. *)
  <1>10. \A j \in 0 .. k : Due(c, j) = 0
    <2> DEFINE Good == {m \in Nat : m <= k => Due(c, m) = 0}
    <2>1. 0 \in Good
      BY <1>1
    <2>2. ASSUME NEW m \in Nat, m \in Good PROVE m + 1 \in Good
      <3>1. CASE m + 1 <= k
        <4>1. m + 1 \in 1 .. k /\ m + 1 \in 1 .. Len(c) /\ (m + 1) - 1 = m /\ m <= k
          BY <1>0, <1>1, <1>2, <3>1
        <4>2. Due(c, m + 1) = Due(c, m) + c[m + 1].expires
          BY <1>1, <4>1, DueAdds
        <4>3. c[m + 1].expires = 0 /\ Due(c, m) = 0
          BY <1>2, <2>2, <4>1
        <4> QED
          BY <4>2, <4>3
      <3> QED
        BY <3>1
    <2> HIDE DEF Good
    <2>3. Nat \subseteq Good
      BY <2>1, <2>2, Induction
    <2> QED
      BY <2>3 DEF Good
  <1>11. \A j \in 1 .. k : Due(tl, j) = 1
    <2>1. ASSUME NEW j \in 1 .. k PROVE Due(tl, j) = 1
      <3>1. j \in 0 .. k /\ j \in 1 .. n /\ j \in 0 .. n
        BY <1>0, <1>2
      <3>2. Due(tl, j) - 1 = 0 /\ Due(tl, j) \in Nat
        BY <1>0, <1>1, <1>10, <3>1, DueGrows
      <3> QED
        BY <3>2
    <2> QED
      BY <2>1
  (* The others keep their sums. *)
  <1> DEFINE g == [j \in 0 .. n - k |-> Due(c, k + j)]
  <1>12. Adds(g, t)
    <2>1. g[0] = 0
      <3>1. 0 \in 0 .. n - k /\ k + 0 = k /\ k \in 0 .. k
        BY <1>0, <1>2
      <3> QED
        BY <1>10, <3>1
    <2>2. ASSUME NEW j \in 1 .. n - k PROVE g[j] = g[j - 1] + t[j].expires
      <3>1. j \in 0 .. n - k /\ j - 1 \in 0 .. n - k /\ k + j \in 1 .. Len(c) /\ (k + j) - 1 = k + (j - 1)
        BY <1>0, <1>1, <1>2
      <3>2. Due(c, k + j) = Due(c, (k + j) - 1) + c[k + j].expires
        BY <1>1, <3>1, DueAdds
      <3> QED
        BY <1>4, <3>1, <3>2
    <2> HIDE DEF g
    <2> QED
      BY <1>4, <2>1, <2>2 DEF Adds
  <1>13. \A j \in 1 .. n - k : Due(t, j) = Due(tl, k + j) - 1
    <2>1. \A j \in 0 .. n - k : Due(t, j) = g[j]
      <3> HIDE DEF g
      <3> QED
        BY <1>4, <1>12, DueIs
    <2>2. \A j \in 1 .. n - k : Due(t, j) = Due(c, k + j)
      BY <2>1
    <2> QED
      BY <1>1, <1>5, <2>2
  <1> HIDE DEF g
  <1>14. ASSUME NEW q, HasTimer(t, q)
         PROVE  HasTimer(tl, q) /\ Left(t, q) = Left(tl, q) - 1 /\ Left(tl, q) \in Nat /\ Left(tl, q) > 1
    <2>1. PICK j \in 1 .. n - k : t[j].proc = q
      BY <1>4, <1>14 DEF HasTimer
    <2>2. Left(t, q) = Due(t, j) /\ Left(t, q) \in Nat \ {0}
      BY <1>4, <1>9, <2>1, LeftIsDue
    <2>3. HasTimer(tl, q) /\ Left(tl, q) = Due(tl, k + j) /\ Left(tl, q) \in Nat \ {0}
      BY <1>5, <2>1, LeftIsDue
    <2>4. Left(t, q) = Left(tl, q) - 1
      BY <1>13, <2>2, <2>3
    <2> QED
      BY <2>2, <2>3, <2>4
  <1>15. ASSUME NEW q, HasTimer(tl, q), ~HasTimer(t, q)
         PROVE  Left(tl, q) = 1
    <2>1. PICK i \in 1 .. n : tl[i].proc = q
      BY <1>15 DEF HasTimer
    <2>2. i <= k
      <3>1. SUFFICES ASSUME ~(i <= k) PROVE FALSE
        OBVIOUS
      <3>2. i - k \in 1 .. n - k /\ k + (i - k) = i
        BY <1>0, <1>2, <3>1
      <3>3. t[i - k].proc = q
        BY <1>5, <2>1, <3>2
      <3> QED
        BY <1>4, <1>15, <3>2, <3>3 DEF HasTimer
    <2>3. Left(tl, q) = Due(tl, i)
      BY <2>1, LeftIsDue
    <2>4. i \in 1 .. k
      BY <1>0, <1>2, <2>2
    <2> QED
      BY <1>11, <2>3, <2>4
  <1>16. ASSUME NEW q PROVE HasTimer(t, q) <=> HasTimer(tl, q) /\ Left(tl, q) # 1
    BY <1>14, <1>15
  <1>17. ASSUME NEW q PROVE Left(t, q) = IF Left(tl, q) = 0 THEN 0 ELSE Left(tl, q) - 1
    <2>1. CASE HasTimer(t, q)
      BY <1>14, <2>1
    <2>2. CASE ~HasTimer(t, q) /\ HasTimer(tl, q)
      <3>1. Left(tl, q) = 1 /\ Left(t, q) = 0
        BY <1>15, <2>2 DEF Left
      <3> QED
        BY <3>1
    <2>3. CASE ~HasTimer(t, q) /\ ~HasTimer(tl, q)
      BY <2>3 DEF Left
    <2> QED
      BY <2>1, <2>2, <2>3
  <1> QED
    BY <1>9, <1>16, <1>17 DEF t
=============================================================================
