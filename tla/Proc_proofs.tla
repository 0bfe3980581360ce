------------------------------ MODULE Proc_proofs ------------------------------
(***************************************************************************)
(* The life of processes, for any number of them, any time slice and any   *)
(* delays: the run queue, the sleepers and whoever is to wake them, and the *)
(* process tree.                                                           *)
(***************************************************************************)
EXTENDS Proc, TimerList_proofs

-----------------------------------------------------------------------------
(* What set_links, remove_links and the loop of do_exit do to the lists of  *)
(* children.                                                               *)
Pointers(P) == [P -> P \cup {None}]
Trees(P) == [parent : Pointers(P), cptr : Pointers(P), optr : Pointers(P), yptr : Pointers(P)]

-----------------------------------------------------------------------------
(* The loop along optr: where it is after each step.                       *)
Hops(t, p, n, g) ==
    g = [i \in 0 .. n |-> IF i = 0 THEN t.cptr[p] ELSE IF g[i - 1] = None THEN None ELSE t.optr[g[i - 1]]]

LEMMA HopsExist ==
    ASSUME NEW t, NEW p, NEW n \in Nat
    PROVE  \E g : Hops(t, p, n, g)
  <1> DEFINE Good == {m \in Nat : \E g : Hops(t, p, m, g)}
  <1>1. 0 \in Good
    <2>1. Hops(t, p, 0, [j \in 0 .. 0 |-> t.cptr[p]])
      BY DEF Hops
    <2> QED
      BY <2>1
  <1>2. ASSUME NEW m \in Nat, m \in Good PROVE m + 1 \in Good
    <2>1. PICK g : Hops(t, p, m, g)
      BY <1>2
    <2> DEFINE last == IF g[m] = None THEN None ELSE t.optr[g[m]]
               h == [j \in 0 .. m + 1 |-> IF j = m + 1 THEN last ELSE g[j]]
    <2>2. ASSUME NEW j \in 0 .. m + 1
          PROVE  h[j] = IF j = 0 THEN t.cptr[p] ELSE IF h[j - 1] = None THEN None ELSE t.optr[h[j - 1]]
      <3>1. CASE j = m + 1
        <4>1. j # 0 /\ j - 1 = m /\ m \in 0 .. m + 1 /\ m # m + 1
          BY <3>1
        <4>2. h[j] = last /\ h[j - 1] = g[m]
          BY <3>1, <4>1
        <4> QED
          BY <4>1, <4>2
      <3>2. CASE j # m + 1
        <4>1. j \in 0 .. m /\ (j # 0 => j - 1 \in 0 .. m + 1 /\ j - 1 # m + 1)
          BY <3>2
        <4>2. h[j] = g[j] /\ (j # 0 => h[j - 1] = g[j - 1])
          BY <3>2, <4>1
        <4>3. g[j] = IF j = 0 THEN t.cptr[p] ELSE IF g[j - 1] = None THEN None ELSE t.optr[g[j - 1]]
          BY <2>1, <4>1 DEF Hops
        <4> QED
          BY <4>2, <4>3
      <3> QED
        BY <3>1, <3>2
    <2>3. h = [j \in 0 .. m + 1 |-> h[j]]
      OBVIOUS
    <2> HIDE DEF h
    <2>4. Hops(t, p, m + 1, h)
      BY <2>2, <2>3 DEF Hops
    <2>5. \E f : Hops(t, p, m + 1, f)
      BY <2>4
    <2> QED
      BY <2>5
  <1> HIDE DEF Good
  <1>3. Nat \subseteq Good
    BY <1>1, <1>2, Induction
  <1> QED
    BY <1>3 DEF Good

LEMMA HopsAre ==
    ASSUME NEW t, NEW p, NEW n \in Nat, NEW g, Hops(t, p, n, g)
    PROVE  /\ g[0] = t.cptr[p]
           /\ \A i \in 1 .. n : g[i] = IF g[i - 1] = None THEN None ELSE t.optr[g[i - 1]]
  <1>1. 0 \in 0 .. n /\ \A i \in 1 .. n : i \in 0 .. n /\ i # 0
    OBVIOUS
  <1> QED
    BY <1>1 DEF Hops

LEMMA HopsTyped ==
    ASSUME NEW P, NEW t \in Trees(P), NEW p \in P, NEW n \in Nat, NEW g, Hops(t, p, n, g)
    PROVE  \A i \in 0 .. n : g[i] \in P \cup {None}
  <1>a. t.cptr \in [P -> P \cup {None}] /\ t.optr \in [P -> P \cup {None}]
    BY DEF Trees, Pointers
  <1>0. \A q \in P : t.cptr[q] \in P \cup {None} /\ t.optr[q] \in P \cup {None}
    BY <1>a
  <1>b. /\ g[0] = t.cptr[p]
        /\ \A i \in 1 .. n : g[i] = IF g[i - 1] = None THEN None ELSE t.optr[g[i - 1]]
    BY HopsAre
  <1> DEFINE Good == {m \in Nat : m <= n => g[m] \in P \cup {None}}
  <1>1. 0 \in Good
    BY <1>0, <1>b
  <1>2. ASSUME NEW m \in Nat, m \in Good PROVE m + 1 \in Good
    <2>1. CASE m + 1 <= n
      <3>1. m + 1 \in 1 .. n /\ (m + 1) - 1 = m /\ m <= n
        BY <2>1
      <3>2. g[m + 1] = IF g[m] = None THEN None ELSE t.optr[g[m]]
        BY <1>b, <3>1
      <3>3. g[m] \in P \cup {None}
        BY <1>2, <3>1
      <3> QED
        BY <1>0, <3>2, <3>3
    <2> QED
      BY <2>1
  <1> HIDE DEF Good
  <1>3. Nat \subseteq Good
    BY <1>1, <1>2, Induction
  <1> QED
    BY <1>3 DEF Good

(* The first place, if any, where the loop meets NULL.                     *)
Stops(g, n, m) == (\A i \in 0 .. m - 1 : g[i] # None) /\ (m < n => g[m] = None)

LEMMA StopExists ==
    ASSUME NEW n \in Nat, NEW g
    PROVE  \E m \in 0 .. n : Stops(g, n, m)
  <1> DEFINE Good == {e \in Nat : \E m \in 0 .. e : Stops(g, e, m)}
  <1>1. 0 \in Good
    BY DEF Stops
  <1>2. ASSUME NEW e \in Nat, e \in Good PROVE e + 1 \in Good
    <2>1. PICK m \in 0 .. e : Stops(g, e, m)
      BY <1>2
    <2>2. CASE m < e
      <3>1. Stops(g, e + 1, m)
        BY <2>1, <2>2 DEF Stops
      <3> QED
        BY <3>1
    <2>3. CASE m = e /\ g[e] = None
      <3>1. Stops(g, e + 1, m)
        BY <2>1, <2>3 DEF Stops
      <3> QED
        BY <3>1
    <2>4. CASE m = e /\ g[e] # None
      <3>1. \A i \in 0 .. (e + 1) - 1 : g[i] # None
        <4> TAKE i \in 0 .. (e + 1) - 1
        <4>1. i = e \/ i \in 0 .. m - 1
          BY <2>4
        <4> QED
          BY <2>1, <2>4, <4>1 DEF Stops
      <3>2. Stops(g, e + 1, e + 1)
        BY <3>1 DEF Stops
      <3> QED
        BY <3>2
    <2> QED
      BY <2>2, <2>3, <2>4
  <1> HIDE DEF Good
  <1>3. Nat \subseteq Good
    BY <1>1, <1>2, Induction
  <1> QED
    BY <1>3 DEF Good

(* Children is what the loop met before it stopped.                        *)
LEMMA ChildrenAreMet ==
    ASSUME NEW P, NEW t \in Trees(P), NEW p \in P, IsFiniteSet(P)
    PROVE  \E g : \E m \in 0 .. Cardinality(P) :
             /\ Hops(t, p, Cardinality(P), g) /\ Stops(g, Cardinality(P), m)
             /\ Children(t, p) = [i \in 1 .. m |-> g[i - 1]]
  <1> DEFINE n == Cardinality(DOMAIN t.parent)
             g == CHOOSE f : Hops(t, p, n, f)
             m == CHOOSE x \in 0 .. n : Stops(g, n, x)
  <1>1. n = Cardinality(P) /\ n \in Nat
    <2>1. t.parent \in [P -> P \cup {None}]
      BY DEF Trees, Pointers
    <2>2. DOMAIN t.parent = P
      BY <2>1
    <2> QED
      BY <2>2, FS_CardinalityType
  <1>2. Children(t, p) = [i \in 1 .. m |-> g[i - 1]]
    BY DEF Children, Hops, Stops
  <1> HIDE DEF n
  <1>3. Hops(t, p, n, g)
    BY <1>1, HopsExist
  <1> HIDE DEF g
  <1>4. m \in 0 .. n /\ Stops(g, n, m)
    BY <1>1, StopExists
  <1> QED
    BY <1>1, <1>2, <1>3, <1>4

LEMMA ChildrenTyped ==
    ASSUME NEW P, NEW t \in Trees(P), NEW p \in P, IsFiniteSet(P)
    PROVE  Children(t, p) \in Seq(P)
  <1> DEFINE n == Cardinality(P)
  <1>0. n \in Nat
    BY FS_CardinalityType
  <1> HIDE DEF n
  <1>1. PICK g : \E m \in 0 .. n :
             /\ Hops(t, p, n, g) /\ Stops(g, n, m)
             /\ Children(t, p) = [i \in 1 .. m |-> g[i - 1]]
    BY ChildrenAreMet DEF n
  <1>m. PICK m \in 0 .. n :
             /\ Hops(t, p, n, g) /\ Stops(g, n, m)
             /\ Children(t, p) = [i \in 1 .. m |-> g[i - 1]]
    BY <1>1
  <1>2. ASSUME NEW i \in 1 .. m PROVE g[i - 1] \in P
    <2>1. i - 1 \in 0 .. n /\ i - 1 \in 0 .. m - 1
      BY <1>0
    <2> QED
      BY <1>0, <1>m, <2>1, HopsTyped DEF Stops
  <1> QED
    BY <1>0, <1>m, <1>2

-----------------------------------------------------------------------------
(* link and remove_links, field by field.                                  *)
Pointed(t, a, b, c, d) == [t EXCEPT !.parent = a, !.cptr = b, !.optr = c, !.yptr = d]

LEMMA TreeFields ==
    ASSUME NEW P, NEW t \in Trees(P), NEW a \in Pointers(P), NEW b \in Pointers(P),
           NEW c \in Pointers(P), NEW d \in Pointers(P)
    PROVE  LET u == Pointed(t, a, b, c, d)
           IN  /\ u \in Trees(P)
               /\ u.parent = a /\ u.cptr = b /\ u.optr = c /\ u.yptr = d
  <1> DEFINE t1 == [t EXCEPT !.parent = a]
             t2 == [t1 EXCEPT !.cptr = b]
             t3 == [t2 EXCEPT !.optr = c]
             t4 == [t3 EXCEPT !.yptr = d]
  <1>1. t1 \in Trees(P) /\ t1.parent = a
    BY DEF Trees
  <1> HIDE DEF t1
  <1>2. t2 \in Trees(P) /\ t2.parent = a /\ t2.cptr = b
    BY <1>1 DEF Trees
  <1> HIDE DEF t2
  <1>3. t3 \in Trees(P) /\ t3.parent = a /\ t3.cptr = b /\ t3.optr = c
    BY <1>2 DEF Trees
  <1> HIDE DEF t3
  <1>4. t4 \in Trees(P) /\ t4.parent = a /\ t4.cptr = b /\ t4.optr = c /\ t4.yptr = d
    BY <1>3 DEF Trees
  <1> HIDE DEF t4
  <1>5. Pointed(t, a, b, c, d) = t4
    BY DEF Pointed, t1, t2, t3, t4
  <1> QED
    BY <1>4, <1>5

LEMMA Typed ==
    ASSUME NEW P, NEW t \in Trees(P)
    PROVE  /\ t.parent \in Pointers(P) /\ t.cptr \in Pointers(P)
           /\ t.optr \in Pointers(P) /\ t.yptr \in Pointers(P)
  BY DEF Trees

Linked(P, t, u, c, p) ==
    /\ u \in Trees(P)
    /\ u.parent = [t.parent EXCEPT ![c] = p]
    /\ u.optr = [t.optr EXCEPT ![c] = t.cptr[p]]
    /\ u.cptr = [t.cptr EXCEPT ![p] = c]
    /\ u.yptr = IF t.cptr[p] = None THEN [t.yptr EXCEPT ![c] = None]
                ELSE [[t.yptr EXCEPT ![c] = None] EXCEPT ![t.cptr[p]] = c]

LEMMA LinkFields ==
    ASSUME NEW P, NEW t \in Trees(P), NEW c \in P, NEW p \in P
    PROVE  Linked(P, t, link(t, c, p), c, p)
  <1> DEFINE alone == [t.yptr EXCEPT ![c] = None]
             parent == [t.parent EXCEPT ![c] = p]
             cptr == [t.cptr EXCEPT ![p] = c]
             optr == [t.optr EXCEPT ![c] = t.cptr[p]]
             yptr == IF t.cptr[p] = None THEN alone ELSE [alone EXCEPT ![t.cptr[p]] = c]
             u == Pointed(t, parent, cptr, optr, yptr)
  <1>1. link(t, c, p) = u
    <2>1. link(t, c, p) = [t EXCEPT !.parent = parent, !.optr = optr, !.cptr = cptr, !.yptr = yptr]
      BY DEF link
    <2> HIDE DEF parent, optr, cptr, yptr
    <2> QED
      BY <2>1 DEF Trees, Pointed
  <1>2. parent \in Pointers(P) /\ cptr \in Pointers(P) /\ optr \in Pointers(P)
    BY Typed DEF Pointers
  <1>3. yptr \in Pointers(P)
    <2>1. alone \in Pointers(P) /\ t.cptr[p] \in P \cup {None}
      BY Typed DEF Pointers
    <2> HIDE DEF alone
    <2> QED
      BY <2>1 DEF Pointers
  <1> HIDE DEF parent, cptr, optr, yptr
  <1>4. u \in Trees(P) /\ u.parent = parent /\ u.cptr = cptr /\ u.optr = optr /\ u.yptr = yptr
    BY <1>2, <1>3, TreeFields
  <1> HIDE DEF u
  <1> QED
    BY <1>1, <1>4 DEF parent, cptr, optr, yptr, Linked

Beside(f, x, y, c) == [IF x = None THEN f ELSE [f EXCEPT ![x] = y] EXCEPT ![c] = None]

Unlinked(P, t, u, c) ==
    /\ u \in Trees(P)
    /\ u.parent = [t.parent EXCEPT ![c] = None]
    /\ u.optr = Beside(t.optr, t.yptr[c], t.optr[c], c)
    /\ u.yptr = Beside(t.yptr, t.optr[c], t.yptr[c], c)
    /\ u.cptr = [t.cptr EXCEPT ![t.parent[c]] = IF t.yptr[c] = None THEN t.optr[c] ELSE @]

LEMMA RemoveFields ==
    ASSUME NEW P, NEW t \in Trees(P), NEW c \in P, t.parent[c] \in P
    PROVE  Unlinked(P, t, remove_links(t, c), c)
  <1> DEFINE p == t.parent[c]
             parent == [t.parent EXCEPT ![c] = None]
             cptr == [t.cptr EXCEPT ![p] = IF t.yptr[c] = None THEN t.optr[c] ELSE @]
             optr == Beside(t.optr, t.yptr[c], t.optr[c], c)
             yptr == Beside(t.yptr, t.optr[c], t.yptr[c], c)
             u == Pointed(t, parent, cptr, optr, yptr)
  <1>1. remove_links(t, c) = u
    <2>1. remove_links(t, c) = [t EXCEPT !.optr = optr, !.yptr = yptr, !.cptr = cptr, !.parent = parent]
      BY DEF remove_links, Beside
    <2> HIDE DEF parent, optr, cptr, yptr
    <2> QED
      BY <2>1 DEF Trees, Pointed
  <1>2. t.yptr[c] \in P \cup {None} /\ t.optr[c] \in P \cup {None} /\ t.cptr[p] \in P \cup {None}
    BY Typed DEF Pointers
  <1>3. ASSUME NEW f \in Pointers(P), NEW x \in P \cup {None}, NEW y \in P \cup {None}
        PROVE  Beside(f, x, y, c) \in Pointers(P)
    <2>1. CASE x = None
      BY <2>1 DEF Beside, Pointers
    <2>2. CASE x # None
      <3>1. [f EXCEPT ![x] = y] \in Pointers(P)
        BY DEF Pointers
      <3> QED
        BY <2>2, <3>1 DEF Beside, Pointers
    <2> QED
      BY <2>1, <2>2
  <1>4. parent \in Pointers(P)
    BY Typed DEF Pointers
  <1>5. cptr \in Pointers(P)
    BY <1>2, Typed DEF Pointers
  <1>6. optr \in Pointers(P) /\ yptr \in Pointers(P)
    BY <1>2, <1>3, Typed
  <1> HIDE DEF parent, cptr, optr, yptr
  <1>7. u \in Trees(P) /\ u.parent = parent /\ u.cptr = cptr /\ u.optr = optr /\ u.yptr = yptr
    BY <1>4, <1>5, <1>6, TreeFields
  <1> HIDE DEF u
  <1> QED
    BY <1>1, <1>7 DEF parent, cptr, optr, yptr, Unlinked

-----------------------------------------------------------------------------
(* cs is the list of the children of p, in both directions.                *)
Lists(P, t, p, cs) ==
    /\ cs \in Seq(P)
    /\ \A i, j \in 1 .. Len(cs) : cs[i] = cs[j] => i = j
    /\ t.cptr[p] = IF Len(cs) = 0 THEN None ELSE cs[1]
    /\ \A i \in 1 .. Len(cs) : t.optr[cs[i]] = IF i = Len(cs) THEN None ELSE cs[i + 1]
    /\ \A i \in 1 .. Len(cs) : t.yptr[cs[i]] = IF i = 1 THEN None ELSE cs[i - 1]
    /\ \A c \in P : t.parent[c] = p <=> \E i \in 1 .. Len(cs) : cs[i] = c

LEMMA UpTo == ASSUME NEW n \in Nat PROVE IsFiniteSet(1 .. n) /\ Cardinality(1 .. n) = n
  <1>1. 1 \in Int /\ n \in Int
    OBVIOUS
  <1>2. IsFiniteSet(1 .. n) /\ Cardinality(1 .. n) = IF 1 > n THEN 0 ELSE n - 1 + 1
    BY <1>1, FS_Interval
  <1> QED
    BY <1>2

(* A sequence without repetitions is not longer than its range is large.   *)
LEMMA DistinctFit ==
    ASSUME NEW P, IsFiniteSet(P), NEW cs \in Seq(P),
           \A i, j \in 1 .. Len(cs) : cs[i] = cs[j] => i = j
    PROVE  Len(cs) <= Cardinality(P)
  <1>1. Len(cs) \in Nat /\ Cardinality(P) \in Nat
    BY FS_CardinalityType
  <1>2. IsFiniteSet(1 .. Len(cs)) /\ Cardinality(1 .. Len(cs)) = Len(cs)
    BY <1>1, UpTo
  <1>3. cs \in [1 .. Len(cs) -> P]
    OBVIOUS
  <1>4. ASSUME Cardinality(P) < Len(cs) PROVE FALSE
    <2> DEFINE S == 1 .. Len(cs)
    <2>1. IsFiniteSet(S) /\ Cardinality(P) < Cardinality(S) /\ cs \in [S -> P]
      BY <1>2, <1>3, <1>4
    <2> HIDE DEF S
    <2>2. \E x, y \in S : x # y /\ cs[x] = cs[y]
      BY <2>1, FS_PigeonHole
    <2> QED
      BY <2>2 DEF S
  <1> QED
    BY <1>1, <1>4

(* Children finds the list.                                                *)
LEMMA ChildrenIsList ==
    ASSUME NEW P, NEW t \in Trees(P), NEW p \in P, IsFiniteSet(P), None \notin P,
           NEW cs, Lists(P, t, p, cs)
    PROVE  Children(t, p) = cs
  <1> DEFINE n == Cardinality(P)
             l == Len(cs)
  <1>0. n \in Nat /\ l \in Nat /\ l <= n /\ cs \in Seq(P)
    BY FS_CardinalityType, DistinctFit DEF Lists
  <1> HIDE DEF n
  <1>1. PICK g : \E m \in 0 .. n :
             /\ Hops(t, p, n, g) /\ Stops(g, n, m)
             /\ Children(t, p) = [i \in 1 .. m |-> g[i - 1]]
    BY ChildrenAreMet DEF n
  <1>2. PICK m \in 0 .. n :
             /\ Hops(t, p, n, g) /\ Stops(g, n, m)
             /\ Children(t, p) = [i \in 1 .. m |-> g[i - 1]]
    BY <1>1
  <1>3. /\ g[0] = t.cptr[p]
        /\ \A i \in 1 .. n : g[i] = IF g[i - 1] = None THEN None ELSE t.optr[g[i - 1]]
    BY <1>0, <1>2, HopsAre
  <1>4. /\ t.cptr[p] = IF l = 0 THEN None ELSE cs[1]
        /\ \A i \in 1 .. l : t.optr[cs[i]] = IF i = l THEN None ELSE cs[i + 1]
    BY DEF Lists
  <1>5. \A i \in 1 .. l : cs[i] \in P /\ cs[i] # None
    BY <1>0
  <1> HIDE DEF l
  <1> DEFINE Good == {i \in Nat : i <= l => g[i] = IF i < l THEN cs[i + 1] ELSE None}
  <1>6. Nat \subseteq Good
    <2>1. 0 \in Good
      BY <1>0, <1>3, <1>4
    <2>2. ASSUME NEW i \in Nat, i \in Good PROVE i + 1 \in Good
      <3>1. CASE i + 1 <= l
        <4>1. i + 1 \in 1 .. n /\ i + 1 \in 1 .. l /\ (i + 1) - 1 = i /\ i < l
          BY <1>0, <3>1
        <4>2. g[i] = cs[i + 1]
          <5>1. i <= l => g[i] = IF i < l THEN cs[i + 1] ELSE None
            BY <2>2
          <5> QED
            BY <1>0, <4>1, <5>1
        <4>3. g[i + 1] = t.optr[cs[i + 1]]
          BY <1>3, <1>5, <4>1, <4>2
        <4>4. g[i + 1] = IF i + 1 = l THEN None ELSE cs[(i + 1) + 1]
          BY <1>4, <4>1, <4>3
        <4> QED
          BY <1>0, <4>1, <4>4
      <3> QED
        BY <3>1
    <2> HIDE DEF Good
    <2> QED
      BY <2>1, <2>2, Induction
  <1>7. ASSUME NEW i \in 0 .. l PROVE g[i] = IF i < l THEN cs[i + 1] ELSE None
    <2>1. i \in Good /\ i <= l
      BY <1>0, <1>6
    <2> QED
      BY <2>1
  <1> HIDE DEF Good
  <1>8. m = l
    <2>1. CASE m < l
      <3>1. m \in 0 .. l /\ m + 1 \in 1 .. l /\ m < n
        BY <1>0, <2>1
      <3>2. g[m] = None
        BY <1>2, <3>1 DEF Stops
      <3> QED
        BY <1>5, <1>7, <2>1, <3>1, <3>2
    <2>2. CASE l < m
      <3>1. l \in 0 .. m - 1 /\ l \in 0 .. l
        BY <1>0, <2>2
      <3>2. g[l] # None
        BY <1>2, <3>1 DEF Stops
      <3> QED
        BY <1>7, <3>1, <3>2
    <2> QED
      BY <1>0, <2>1, <2>2
  <1>9. ASSUME NEW i \in 1 .. l PROVE g[i - 1] = cs[i]
    <2>1. i - 1 \in 0 .. l /\ i - 1 < l /\ (i - 1) + 1 = i
      BY <1>0
    <2> QED
      BY <1>7, <2>1
  <1>10. Children(t, p) = [i \in 1 .. l |-> cs[i]]
    BY <1>2, <1>8, <1>9
  <1>11. cs = [i \in 1 .. l |-> cs[i]]
    BY <1>0 DEF l
  <1> QED
    BY <1>10, <1>11

-----------------------------------------------------------------------------
(* A child is put at the head of one list; the other lists do not change.  *)
LEMMA LinkHead ==
    ASSUME NEW P, NEW t \in Trees(P), None \notin P, NEW p \in P, NEW c \in P,
           NEW cs, Lists(P, t, p, cs), ~\E i \in 1 .. Len(cs) : cs[i] = c
    PROVE  Lists(P, link(t, c, p), p, <<c>> \o cs)
  <1> DEFINE u == link(t, c, p)
             ds == <<c>> \o cs
  <1>0. Linked(P, t, u, c, p)
    BY LinkFields
  <1> HIDE DEF u
  <1>1. /\ u.parent = [t.parent EXCEPT ![c] = p]
        /\ u.optr = [t.optr EXCEPT ![c] = t.cptr[p]]
        /\ u.cptr = [t.cptr EXCEPT ![p] = c]
        /\ u.yptr = IF t.cptr[p] = None THEN [t.yptr EXCEPT ![c] = None]
                    ELSE [[t.yptr EXCEPT ![c] = None] EXCEPT ![t.cptr[p]] = c]
    BY <1>0 DEF Linked
  <1>2. /\ t.parent \in [P -> P \cup {None}] /\ t.cptr \in [P -> P \cup {None}]
        /\ t.optr \in [P -> P \cup {None}] /\ t.yptr \in [P -> P \cup {None}]
    BY Typed DEF Pointers
  <1>3. /\ cs \in Seq(P) /\ Len(cs) \in Nat
        /\ \A i \in 1 .. Len(cs) : cs[i] \in P /\ cs[i] # c /\ cs[i] # None
    BY DEF Lists
  <1>4. ds \in Seq(P) /\ Len(ds) = Len(cs) + 1 /\ ds[1] = c /\ \A i \in 1 .. Len(cs) : ds[i + 1] = cs[i]
    BY <1>3
  <1> HIDE DEF ds
  <1>5. \A i \in 1 .. Len(ds) : i = 1 \/ (i - 1 \in 1 .. Len(cs) /\ ds[i] = cs[i - 1])
    <2> TAKE i \in 1 .. Len(ds)
    <2>1. CASE i # 1
      <3>1. i - 1 \in 1 .. Len(cs) /\ (i - 1) + 1 = i
        BY <1>3, <1>4, <2>1
      <3> QED
        BY <1>4, <3>1
    <2> QED
      BY <2>1
  <1>6. \A i, j \in 1 .. Len(ds) : ds[i] = ds[j] => i = j
    <2> SUFFICES ASSUME NEW i \in 1 .. Len(ds), NEW j \in 1 .. Len(ds), ds[i] = ds[j] PROVE i = j
      OBVIOUS
    <2>1. CASE i = 1 \/ j = 1
      BY <1>3, <1>4, <1>5, <2>1
    <2>2. CASE i # 1 /\ j # 1
      <3>1. cs[i - 1] = cs[j - 1] /\ i - 1 \in 1 .. Len(cs) /\ j - 1 \in 1 .. Len(cs)
        BY <1>5, <2>2
      <3>2. i - 1 = j - 1
        BY <3>1 DEF Lists
      <3> QED
        BY <3>2
    <2> QED
      BY <2>1, <2>2
  <1>7. u.cptr[p] = ds[1] /\ Len(ds) # 0
    BY <1>1, <1>2, <1>3, <1>4
  <1>8. \A i \in 1 .. Len(ds) : u.optr[ds[i]] = IF i = Len(ds) THEN None ELSE ds[i + 1]
    <2> TAKE i \in 1 .. Len(ds)
    <2>1. CASE i = 1
      <3>1. u.optr[c] = t.cptr[p]
        BY <1>1, <1>2
      <3>2. t.cptr[p] = IF Len(cs) = 0 THEN None ELSE cs[1]
        BY DEF Lists
      <3>3. Len(cs) # 0 => 1 \in 1 .. Len(cs) /\ ds[2] = cs[1]
        BY <1>3, <1>4
      <3> QED
        BY <1>3, <1>4, <2>1, <3>1, <3>2, <3>3
    <2>2. CASE i # 1
      <3>1. i - 1 \in 1 .. Len(cs) /\ ds[i] = cs[i - 1] /\ (i - 1) + 1 = i
        BY <1>5, <2>2
      <3>2. t.optr[cs[i - 1]] = IF i - 1 = Len(cs) THEN None ELSE cs[i]
        BY <3>1 DEF Lists
      <3>3. u.optr[ds[i]] = t.optr[cs[i - 1]]
        BY <1>1, <1>2, <1>3, <3>1
      <3>4. i # Len(ds) => ds[i + 1] = cs[i]
        BY <1>3, <1>4, <3>1
      <3> QED
        BY <1>3, <1>4, <3>1, <3>2, <3>3, <3>4
    <2> QED
      BY <2>1, <2>2
  <1>9. \A i \in 1 .. Len(ds) : u.yptr[ds[i]] = IF i = 1 THEN None ELSE ds[i - 1]
    <2> TAKE i \in 1 .. Len(ds)
    <2>0. t.cptr[p] = IF Len(cs) = 0 THEN None ELSE cs[1]
      BY DEF Lists
    <2>a. Len(cs) # 0 => 1 \in 1 .. Len(cs)
      BY <1>3
    <2>b. t.cptr[p] # c
      BY <1>3, <2>0, <2>a
    <2>1. CASE i = 1
      BY <1>1, <1>2, <1>4, <2>b, <2>1
    <2>2. CASE i = 2
      <3>1. 1 \in 1 .. Len(cs) /\ ds[2] = cs[1] /\ t.cptr[p] = cs[1] /\ cs[1] # None /\ cs[1] \in P
        BY <1>3, <1>5, <2>0, <2>2
      <3>2. u.yptr[cs[1]] = c
        BY <1>1, <1>2, <3>1
      <3> QED
        BY <1>4, <2>2, <3>1, <3>2
    <2>3. CASE i \notin {1, 2}
      <3>1. /\ i - 1 \in 1 .. Len(cs) /\ ds[i] = cs[i - 1] /\ i - 1 # 1
            /\ i - 2 \in 1 .. Len(cs) /\ ds[i - 1] = cs[i - 2] /\ 1 \in 1 .. Len(cs)
        <4>1. i - 1 \in 1 .. Len(cs) /\ ds[i] = cs[i - 1] /\ i - 1 # 1
          BY <1>5, <2>3
        <4>2. i - 2 \in 1 .. Len(cs) /\ (i - 2) + 1 = i - 1
          BY <1>3, <4>1
        <4> QED
          BY <1>4, <4>1, <4>2
      <3>2. t.yptr[cs[i - 1]] = cs[i - 2]
        <4>1. (i - 1) - 1 = i - 2
          OBVIOUS
        <4> QED
          BY <3>1, <4>1 DEF Lists
      <3>3. cs[i - 1] # c /\ cs[i - 1] # t.cptr[p] /\ cs[i - 1] \in P
        <4>1. t.cptr[p] = cs[1]
          BY <2>0, <3>1
        <4>2. cs[i - 1] # cs[1]
          BY <3>1 DEF Lists
        <4> QED
          BY <1>3, <3>1, <4>1, <4>2
      <3>4. u.yptr[cs[i - 1]] = t.yptr[cs[i - 1]]
        BY <1>1, <1>2, <3>3
      <3> QED
        BY <2>3, <3>1, <3>2, <3>4
    <2> QED
      BY <2>1, <2>2, <2>3
  <1>10. \A x \in P : u.parent[x] = p <=> \E i \in 1 .. Len(ds) : ds[i] = x
    <2> TAKE x \in P
    <2>1. CASE x = c
      <3>1. u.parent[x] = p
        BY <1>1, <1>2, <2>1
      <3>2. 1 \in 1 .. Len(ds)
        BY <1>3, <1>4
      <3> QED
        BY <1>4, <2>1, <3>1, <3>2
    <2>2. CASE x # c
      <3>1. u.parent[x] = t.parent[x]
        BY <1>1, <1>2, <2>2
      <3>2. t.parent[x] = p <=> \E i \in 1 .. Len(cs) : cs[i] = x
        BY DEF Lists
      <3>3. ASSUME NEW i \in 1 .. Len(cs), cs[i] = x PROVE \E j \in 1 .. Len(ds) : ds[j] = x
        <4>1. i + 1 \in 1 .. Len(ds) /\ ds[i + 1] = x
          BY <1>3, <1>4, <3>3
        <4> QED
          BY <4>1
      <3>4. ASSUME NEW j \in 1 .. Len(ds), ds[j] = x PROVE \E i \in 1 .. Len(cs) : cs[i] = x
        BY <1>4, <1>5, <2>2, <3>4
      <3> QED
        BY <3>1, <3>2, <3>3, <3>4
    <2> QED
      BY <2>1, <2>2
  <1>11. Lists(P, u, p, ds)
    BY <1>4, <1>6, <1>7, <1>8, <1>9, <1>10 DEF Lists
  <1> QED
    BY <1>11 DEF u, ds

LEMMA LinkOther ==
    ASSUME NEW P, NEW t \in Trees(P), None \notin P, NEW p \in P, NEW c \in P, NEW q \in P \ {p},
           NEW cs, Lists(P, t, q, cs), t.parent[c] # q,
           t.cptr[p] # None => t.parent[t.cptr[p]] = p
    PROVE  Lists(P, link(t, c, p), q, cs)
  <1> DEFINE u == link(t, c, p)
  <1>0. Linked(P, t, u, c, p)
    BY LinkFields
  <1> HIDE DEF u
  <1>1. /\ u.parent = [t.parent EXCEPT ![c] = p]
        /\ u.optr = [t.optr EXCEPT ![c] = t.cptr[p]]
        /\ u.cptr = [t.cptr EXCEPT ![p] = c]
        /\ u.yptr = IF t.cptr[p] = None THEN [t.yptr EXCEPT ![c] = None]
                    ELSE [[t.yptr EXCEPT ![c] = None] EXCEPT ![t.cptr[p]] = c]
    BY <1>0 DEF Linked
  <1>2. /\ t.parent \in [P -> P \cup {None}] /\ t.cptr \in [P -> P \cup {None}]
        /\ t.optr \in [P -> P \cup {None}] /\ t.yptr \in [P -> P \cup {None}]
    BY Typed DEF Pointers
  <1>3. /\ cs \in Seq(P) /\ Len(cs) \in Nat
        /\ \A i \in 1 .. Len(cs) : cs[i] \in P /\ t.parent[cs[i]] = q
    BY DEF Lists
  <1>4. \A i \in 1 .. Len(cs) : cs[i] # c /\ cs[i] # t.cptr[p]
    <2> TAKE i \in 1 .. Len(cs)
    <2>1. cs[i] # c
      BY <1>3
    <2>2. cs[i] # t.cptr[p]
      <3>1. CASE t.cptr[p] = None
        BY <1>3, <3>1
      <3>2. CASE t.cptr[p] # None
        BY <1>3, <3>2
      <3> QED
        BY <3>1, <3>2
    <2> QED
      BY <2>1, <2>2
  <1>5. \A i \in 1 .. Len(cs) : u.optr[cs[i]] = t.optr[cs[i]]
    BY <1>1, <1>2, <1>3, <1>4
  <1>6. \A i \in 1 .. Len(cs) : u.yptr[cs[i]] = t.yptr[cs[i]]
    BY <1>1, <1>2, <1>3, <1>4
  <1>7. u.cptr[q] = t.cptr[q]
    BY <1>1, <1>2
  <1>8. \A x \in P : u.parent[x] = q <=> \E i \in 1 .. Len(cs) : cs[i] = x
    <2> TAKE x \in P
    <2>1. CASE x = c
      BY <1>1, <1>2, <1>4, <2>1
    <2>2. CASE x # c
      <3>1. u.parent[x] = t.parent[x]
        BY <1>1, <1>2, <2>2
      <3> QED
        BY <3>1 DEF Lists
    <2> QED
      BY <2>1, <2>2
  <1>9. /\ \A i, j \in 1 .. Len(cs) : cs[i] = cs[j] => i = j
        /\ t.cptr[q] = IF Len(cs) = 0 THEN None ELSE cs[1]
        /\ \A i \in 1 .. Len(cs) : t.optr[cs[i]] = IF i = Len(cs) THEN None ELSE cs[i + 1]
        /\ \A i \in 1 .. Len(cs) : t.yptr[cs[i]] = IF i = 1 THEN None ELSE cs[i - 1]
    BY DEF Lists
  <1>10. /\ u.cptr[q] = IF Len(cs) = 0 THEN None ELSE cs[1]
         /\ \A i \in 1 .. Len(cs) : u.optr[cs[i]] = IF i = Len(cs) THEN None ELSE cs[i + 1]
         /\ \A i \in 1 .. Len(cs) : u.yptr[cs[i]] = IF i = 1 THEN None ELSE cs[i - 1]
    BY <1>5, <1>6, <1>7, <1>9
  <1>11. Lists(P, u, q, cs)
    BY <1>3, <1>8, <1>9, <1>10 DEF Lists
  <1> QED
    BY <1>11 DEF u

-----------------------------------------------------------------------------
(* A child is taken out of its list; the other lists do not change.        *)
Without(cs, e) == [i \in 1 .. Len(cs) - 1 |-> IF i < e THEN cs[i] ELSE cs[i + 1]]

LEMMA RemoveFrom ==
    ASSUME NEW P, NEW t \in Trees(P), None \notin P, NEW p \in P,
           NEW cs, Lists(P, t, p, cs), NEW e \in 1 .. Len(cs)
    PROVE  Lists(P, remove_links(t, cs[e]), p, Without(cs, e))
  <1> DEFINE c == cs[e]
             n == Len(cs)
             u == remove_links(t, c)
             ds == Without(cs, e)
             from(i) == IF i < e THEN i ELSE i + 1
             older == IF e = n THEN None ELSE cs[e + 1]
             younger == IF e = 1 THEN None ELSE cs[e - 1]
  <1>1. /\ cs \in Seq(P) /\ n \in Nat
        /\ \A i \in 1 .. n : cs[i] \in P /\ cs[i] # None
        /\ \A i, j \in 1 .. n : cs[i] = cs[j] => i = j
    BY DEF Lists
  <1>2. /\ t.cptr[p] = IF n = 0 THEN None ELSE cs[1]
        /\ \A i \in 1 .. n : t.optr[cs[i]] = IF i = n THEN None ELSE cs[i + 1]
        /\ \A i \in 1 .. n : t.yptr[cs[i]] = IF i = 1 THEN None ELSE cs[i - 1]
    BY DEF Lists
  <1>3. c \in P /\ t.parent[c] = p /\ t.optr[c] = older /\ t.yptr[c] = younger
    <2>1. c \in P /\ \E i \in 1 .. Len(cs) : cs[i] = c
      BY <1>1
    <2>2. t.parent[c] = p
      BY <2>1 DEF Lists
    <2> QED
      BY <1>2, <2>1, <2>2
  <1>4. Unlinked(P, t, u, c)
    BY <1>3, RemoveFields
  <1> HIDE DEF u
  <1>5. /\ u.parent = [t.parent EXCEPT ![c] = None]
        /\ u.optr = Beside(t.optr, younger, older, c)
        /\ u.yptr = Beside(t.yptr, older, younger, c)
        /\ u.cptr = [t.cptr EXCEPT ![p] = IF younger = None THEN older ELSE @]
    BY <1>3, <1>4 DEF Unlinked
  <1>6. /\ t.parent \in [P -> P \cup {None}] /\ t.cptr \in [P -> P \cup {None}]
        /\ t.optr \in [P -> P \cup {None}] /\ t.yptr \in [P -> P \cup {None}]
    BY Typed DEF Pointers
  <1>7. ASSUME NEW i \in 1 .. n - 1
        PROVE  from(i) \in 1 .. n /\ from(i) # e /\ ds[i] = cs[from(i)]
    BY <1>1 DEF Without
  <1>8. ASSUME NEW x \in P, x # c
        PROVE  /\ u.optr[x] = IF x = younger THEN older ELSE t.optr[x]
               /\ u.yptr[x] = IF x = older THEN younger ELSE t.yptr[x]
               /\ u.parent[x] = t.parent[x]
    <2>1. ASSUME NEW f \in [P -> P \cup {None}], NEW y, NEW z
          PROVE  Beside(f, y, z, c)[x] = IF x = y THEN z ELSE f[x]
      <3>1. CASE y = None
        BY <1>3, <1>8, <3>1 DEF Beside
      <3>2. CASE y # None
        BY <1>3, <1>8, <3>2 DEF Beside
      <3> QED
        BY <3>1, <3>2
    <2>2. u.optr[x] = IF x = younger THEN older ELSE t.optr[x]
      BY <1>5, <1>6, <2>1
    <2>3. u.yptr[x] = IF x = older THEN younger ELSE t.yptr[x]
      BY <1>5, <1>6, <2>1
    <2>4. u.parent[x] = t.parent[x]
      BY <1>5, <1>6, <1>8
    <2> QED
      BY <2>2, <2>3, <2>4
  <1>9. ds \in Seq(P) /\ Len(ds) = n - 1
    <2>1. n - 1 \in Nat
      BY <1>1
    <2>2. ds = [i \in 1 .. n - 1 |-> ds[i]]
      BY DEF Without
    <2> HIDE DEF ds
    <2>3. \A i \in 1 .. n - 1 : ds[i] \in P
      BY <1>1, <1>7
    <2> QED
      BY <2>1, <2>2, <2>3
  <1> HIDE DEF ds
  <1>10. \A i, j \in 1 .. n - 1 : ds[i] = ds[j] => i = j
    <2> SUFFICES ASSUME NEW i \in 1 .. n - 1, NEW j \in 1 .. n - 1, ds[i] = ds[j] PROVE i = j
      OBVIOUS
    <2>1. from(i) = from(j)
      <3>1. cs[from(i)] = cs[from(j)] /\ from(i) \in 1 .. n /\ from(j) \in 1 .. n
        BY <1>7
      <3> HIDE DEF from
      <3> QED
        BY <1>1, <3>1
    <2> QED
      BY <2>1
  <1>11. u.cptr[p] = IF n - 1 = 0 THEN None ELSE ds[1]
    <2>1. u.cptr[p] = IF younger = None THEN older ELSE t.cptr[p]
      BY <1>5, <1>6
    <2>2. CASE e = 1
      <3>1. u.cptr[p] = older
        BY <2>1, <2>2
      <3>2. n - 1 # 0 => 1 \in 1 .. n - 1 /\ from(1) = 2 /\ e + 1 = 2
        BY <1>1, <2>2
      <3>3. n - 1 # 0 => ds[1] = cs[2]
        BY <1>7, <3>2
      <3> QED
        BY <1>1, <2>2, <3>1, <3>2, <3>3
    <2>3. CASE e # 1
      <3>1. e - 1 \in 1 .. n /\ n - 1 # 0 /\ 1 \in 1 .. n - 1 /\ from(1) = 1 /\ n # 0
        BY <1>1, <2>3
      <3>2. younger # None /\ u.cptr[p] = cs[1] /\ ds[1] = cs[1]
        BY <1>1, <1>2, <1>7, <2>1, <2>3, <3>1
      <3> QED
        BY <3>1, <3>2
    <2> QED
      BY <2>2, <2>3
  <1>12. ASSUME NEW i \in 1 .. n - 1 PROVE u.optr[ds[i]] = IF i = n - 1 THEN None ELSE ds[i + 1]
    <2>0. from(i) \in 1 .. n /\ ds[i] = cs[from(i)] /\ ds[i] \in P /\ ds[i] # c
      <3>1. from(i) \in 1 .. n /\ from(i) # e /\ ds[i] = cs[from(i)]
        BY <1>7
      <3> HIDE DEF from
      <3> QED
        BY <1>1, <3>1
    <2>1. CASE i = e - 1
      <3>1. e # 1 /\ from(i) = e - 1
        BY <1>1, <2>1
      <3>2. u.optr[ds[i]] = older
        BY <1>8, <2>0, <3>1
      <3>3. e # n => i + 1 \in 1 .. n - 1 /\ from(i + 1) = e + 1
        BY <1>1, <2>1
      <3>4. e # n => ds[i + 1] = cs[e + 1]
        BY <1>7, <3>3
      <3>5. i = n - 1 <=> e = n
        BY <1>1, <2>1
      <3> QED
        BY <3>2, <3>4, <3>5
    <2>2. CASE i # e - 1
      <3>1. ds[i] # younger
        <4>1. CASE e = 1
          BY <1>1, <2>0, <4>1
        <4>2. CASE e # 1
          <5>1. e - 1 \in 1 .. n /\ from(i) # e - 1
            BY <1>1, <2>2, <4>2
          <5>2. cs[from(i)] # cs[e - 1]
            <6> HIDE DEF from
            <6> QED
              BY <1>1, <2>0, <5>1
          <5> QED
            BY <2>0, <4>2, <5>2
        <4> QED
          BY <4>1, <4>2
      <3>2. u.optr[ds[i]] = t.optr[cs[from(i)]]
        <4> HIDE DEF from, younger
        <4> QED
          BY <1>8, <2>0, <3>1
      <3>3. t.optr[cs[from(i)]] = IF from(i) = n THEN None ELSE cs[from(i) + 1]
        <4> HIDE DEF from
        <4> QED
          BY <1>2, <2>0
      <3>4. from(i) = n <=> i = n - 1
        BY <1>1, <2>2
      <3>5. i # n - 1 => i + 1 \in 1 .. n - 1 /\ from(i + 1) = from(i) + 1
        BY <1>1, <2>2
      <3>6. i # n - 1 => ds[i + 1] = cs[from(i) + 1]
        BY <1>7, <3>5
      <3> HIDE DEF from
      <3> QED
        BY <3>2, <3>3, <3>4, <3>6
    <2> QED
      BY <2>1, <2>2
  <1>13. ASSUME NEW i \in 1 .. n - 1 PROVE u.yptr[ds[i]] = IF i = 1 THEN None ELSE ds[i - 1]
    <2>0. from(i) \in 1 .. n /\ ds[i] = cs[from(i)] /\ ds[i] \in P /\ ds[i] # c
      <3>1. from(i) \in 1 .. n /\ from(i) # e /\ ds[i] = cs[from(i)]
        BY <1>7
      <3> HIDE DEF from
      <3> QED
        BY <1>1, <3>1
    <2>1. CASE i = e
      <3>1. e # n /\ from(i) = e + 1
        BY <1>1, <2>1
      <3>2. u.yptr[ds[i]] = younger
        BY <1>8, <2>0, <3>1
      <3>3. e # 1 => i - 1 \in 1 .. n - 1 /\ from(i - 1) = e - 1
        BY <1>1, <2>1
      <3>4. e # 1 => ds[i - 1] = cs[e - 1]
        BY <1>7, <3>3
      <3> QED
        BY <2>1, <3>2, <3>4
    <2>2. CASE i # e
      <3>1. ds[i] # older
        <4>1. CASE e = n
          BY <1>1, <2>0, <4>1
        <4>2. CASE e # n
          <5>1. e + 1 \in 1 .. n /\ from(i) # e + 1
            BY <1>1, <2>2, <4>2
          <5>2. cs[from(i)] # cs[e + 1]
            <6> HIDE DEF from
            <6> QED
              BY <1>1, <2>0, <5>1
          <5> QED
            BY <2>0, <4>2, <5>2
        <4> QED
          BY <4>1, <4>2
      <3>2. u.yptr[ds[i]] = t.yptr[cs[from(i)]]
        <4> HIDE DEF from, older
        <4> QED
          BY <1>8, <2>0, <3>1
      <3>3. t.yptr[cs[from(i)]] = IF from(i) = 1 THEN None ELSE cs[from(i) - 1]
        <4> HIDE DEF from
        <4> QED
          BY <1>2, <2>0
      <3>4. from(i) = 1 <=> i = 1
        BY <1>1, <2>2
      <3>5. i # 1 => i - 1 \in 1 .. n - 1 /\ from(i - 1) = from(i) - 1
        BY <1>1, <2>2
      <3>6. i # 1 => ds[i - 1] = cs[from(i) - 1]
        BY <1>7, <3>5
      <3> HIDE DEF from
      <3> QED
        BY <3>2, <3>3, <3>4, <3>6
    <2> QED
      BY <2>1, <2>2
  <1>14. ASSUME NEW x \in P PROVE u.parent[x] = p <=> \E i \in 1 .. n - 1 : ds[i] = x
    <2>1. CASE x = c
      <3>1. u.parent[x] # p
        BY <1>5, <1>6, <2>1
      <3>2. ASSUME NEW i \in 1 .. n - 1 PROVE ds[i] # x
        <4>1. from(i) \in 1 .. n /\ from(i) # e /\ ds[i] = cs[from(i)]
          BY <1>7
        <4> HIDE DEF from
        <4> QED
          BY <1>1, <2>1, <4>1
      <3> QED
        BY <3>1, <3>2
    <2>2. CASE x # c
      <3>1. u.parent[x] = t.parent[x]
        BY <1>8, <2>2
      <3>2. t.parent[x] = p <=> \E i \in 1 .. n : cs[i] = x
        BY DEF Lists
      <3>3. ASSUME NEW i \in 1 .. n - 1, ds[i] = x PROVE \E j \in 1 .. n : cs[j] = x
        BY <1>7, <3>3
      <3>4. ASSUME NEW j \in 1 .. n, cs[j] = x PROVE \E i \in 1 .. n - 1 : ds[i] = x
        <4>1. j # e
          BY <2>2, <3>4
        <4>2. CASE j < e
          <5>1. j \in 1 .. n - 1 /\ from(j) = j
            BY <1>1, <4>2
          <5> QED
            BY <1>7, <3>4, <5>1
        <4>3. CASE j > e
          <5>1. j - 1 \in 1 .. n - 1 /\ from(j - 1) = j
            BY <1>1, <4>3
          <5> QED
            BY <1>7, <3>4, <5>1
        <4> QED
          BY <1>1, <4>1, <4>2, <4>3
      <3> QED
        BY <3>1, <3>2, <3>3, <3>4
    <2> QED
      BY <2>1, <2>2
  <1> HIDE DEF from, older, younger, n
  <1>15. Lists(P, u, p, ds)
    BY <1>9, <1>10, <1>11, <1>12, <1>13, <1>14 DEF Lists
  <1> QED
    BY <1>15 DEF u, ds

LEMMA RemoveOther ==
    ASSUME NEW P, NEW t \in Trees(P), None \notin P, NEW c \in P, t.parent[c] \in P,
           NEW bs, Lists(P, t, t.parent[c], bs),
           NEW q \in P \ {t.parent[c]}, NEW cs, Lists(P, t, q, cs)
    PROVE  Lists(P, remove_links(t, c), q, cs)
  <1> DEFINE u == remove_links(t, c)
             p == t.parent[c]
  <1>0. Unlinked(P, t, u, c)
    BY RemoveFields
  <1> HIDE DEF u
  <1>1. /\ u.parent = [t.parent EXCEPT ![c] = None]
        /\ u.optr = Beside(t.optr, t.yptr[c], t.optr[c], c)
        /\ u.yptr = Beside(t.yptr, t.optr[c], t.yptr[c], c)
        /\ u.cptr = [t.cptr EXCEPT ![p] = IF t.yptr[c] = None THEN t.optr[c] ELSE @]
    BY <1>0 DEF Unlinked
  <1>2. /\ t.parent \in [P -> P \cup {None}] /\ t.cptr \in [P -> P \cup {None}]
        /\ t.optr \in [P -> P \cup {None}] /\ t.yptr \in [P -> P \cup {None}]
    BY Typed DEF Pointers
  <1>3. /\ cs \in Seq(P) /\ Len(cs) \in Nat
        /\ \A i \in 1 .. Len(cs) : cs[i] \in P /\ t.parent[cs[i]] = q
    BY DEF Lists
  <1>4. \A x \in {t.optr[c], t.yptr[c]} : x # None => t.parent[x] = p
    <2>1. \E e \in 1 .. Len(bs) : bs[e] = c
      BY DEF Lists
    <2>2. PICK e \in 1 .. Len(bs) : bs[e] = c
      BY <2>1
    <2>3. \A i \in 1 .. Len(bs) : t.parent[bs[i]] = p
      <3>1. /\ bs \in Seq(P)
            /\ \A x \in P : t.parent[x] = p <=> \E i \in 1 .. Len(bs) : bs[i] = x
        BY DEF Lists
      <3> QED
        BY <3>1
    <2>4. t.optr[c] = IF e = Len(bs) THEN None ELSE bs[e + 1]
      BY <2>2 DEF Lists
    <2>5. t.yptr[c] = IF e = 1 THEN None ELSE bs[e - 1]
      BY <2>2 DEF Lists
    <2>6. Len(bs) \in Nat
      BY DEF Lists
    <2>7. (e # Len(bs) => e + 1 \in 1 .. Len(bs)) /\ (e # 1 => e - 1 \in 1 .. Len(bs))
      BY <2>6
    <2>8. t.optr[c] # None => t.parent[t.optr[c]] = p
      BY <2>3, <2>4, <2>7
    <2>9. t.yptr[c] # None => t.parent[t.yptr[c]] = p
      BY <2>3, <2>5, <2>7
    <2> QED
      BY <2>8, <2>9
  <1>5. ASSUME NEW i \in 1 .. Len(cs) PROVE cs[i] \in P /\ cs[i] # c /\ cs[i] \notin {t.optr[c], t.yptr[c]}
    <2>1. cs[i] \in P /\ cs[i] # None /\ t.parent[cs[i]] # p
      BY <1>3
    <2> QED
      BY <1>4, <2>1
  <1>6. ASSUME NEW f \in [P -> P \cup {None}], NEW x \in P, NEW y, NEW z, x # c, x # y
        PROVE  Beside(f, y, z, c)[x] = f[x]
    <2>1. CASE y = None
      BY <1>6, <2>1 DEF Beside
    <2>2. CASE y # None
      BY <1>6, <2>2 DEF Beside
    <2> QED
      BY <2>1, <2>2
  <1>7. \A i \in 1 .. Len(cs) : u.optr[cs[i]] = t.optr[cs[i]] /\ u.yptr[cs[i]] = t.yptr[cs[i]]
    BY <1>1, <1>2, <1>5, <1>6
  <1>8. u.cptr[q] = t.cptr[q]
    BY <1>1, <1>2
  <1>9. /\ \A i, j \in 1 .. Len(cs) : cs[i] = cs[j] => i = j
        /\ t.cptr[q] = IF Len(cs) = 0 THEN None ELSE cs[1]
        /\ \A i \in 1 .. Len(cs) : t.optr[cs[i]] = IF i = Len(cs) THEN None ELSE cs[i + 1]
        /\ \A i \in 1 .. Len(cs) : t.yptr[cs[i]] = IF i = 1 THEN None ELSE cs[i - 1]
    BY DEF Lists
  <1>10. /\ u.cptr[q] = IF Len(cs) = 0 THEN None ELSE cs[1]
         /\ \A i \in 1 .. Len(cs) : u.optr[cs[i]] = IF i = Len(cs) THEN None ELSE cs[i + 1]
         /\ \A i \in 1 .. Len(cs) : u.yptr[cs[i]] = IF i = 1 THEN None ELSE cs[i - 1]
    BY <1>7, <1>8, <1>9
  <1>11. ASSUME NEW x \in P PROVE u.parent[x] = q <=> \E i \in 1 .. Len(cs) : cs[i] = x
    <2>1. CASE x = c
      BY <1>1, <1>2, <1>5, <2>1
    <2>2. CASE x # c
      <3>1. u.parent[x] = t.parent[x]
        BY <1>1, <1>2, <2>2
      <3> QED
        BY <3>1 DEF Lists
    <2> QED
      BY <2>1, <2>2
  <1>12. Lists(P, u, q, cs)
    BY <1>3, <1>9, <1>10, <1>11 DEF Lists
  <1> QED
    BY <1>12 DEF u

-----------------------------------------------------------------------------
(* The loop of do_exit, child by child.                                    *)
Moves(t, p, heir, cs, g) ==
    g = [i \in 0 .. Len(cs) |->
           IF i = 0 THEN t
           ELSE link([g[i - 1] EXCEPT !.cptr[p] = g[i - 1].optr[cs[i]]], cs[i], heir)]

LEMMA MovesExist ==
    ASSUME NEW t, NEW p, NEW heir, NEW P, NEW cs \in Seq(P)
    PROVE  \E g : Moves(t, p, heir, cs, g)
  <1> DEFINE next(u, i) == link([u EXCEPT !.cptr[p] = u.optr[cs[i]]], cs[i], heir)
             Steps(g, m) == g = [i \in 0 .. m |-> IF i = 0 THEN t ELSE next(g[i - 1], i)]
             Good == {m \in Nat : \E g : Steps(g, m)}
  <1>0. Len(cs) \in Nat
    OBVIOUS
  <1>a. ASSUME NEW g PROVE Steps(g, Len(cs)) <=> Moves(t, p, heir, cs, g)
    BY DEF Moves
  <1> HIDE DEF next
  <1>1. 0 \in Good
    <2>1. Steps([j \in 0 .. 0 |-> t], 0)
      OBVIOUS
    <2> QED
      BY <2>1
  <1>2. ASSUME NEW m \in Nat, m \in Good PROVE m + 1 \in Good
    <2>1. PICK g : Steps(g, m)
      BY <1>2
    <2> DEFINE h == [j \in 0 .. m + 1 |-> IF j = m + 1 THEN next(g[m], m + 1) ELSE g[j]]
    <2>2. ASSUME NEW j \in 0 .. m + 1 PROVE h[j] = IF j = 0 THEN t ELSE next(h[j - 1], j)
      <3>1. CASE j = m + 1
        <4>1. j # 0 /\ j - 1 = m /\ m \in 0 .. m + 1 /\ m # m + 1
          BY <3>1
        <4> QED
          BY <3>1, <4>1
      <3>2. CASE j # m + 1
        <4>1. j \in 0 .. m /\ (j # 0 => j - 1 \in 0 .. m + 1 /\ j - 1 # m + 1)
          BY <3>2
        <4>2. g[j] = IF j = 0 THEN t ELSE next(g[j - 1], j)
          BY <2>1, <4>1
        <4> QED
          BY <3>2, <4>1, <4>2
      <3> QED
        BY <3>1, <3>2
    <2>3. h = [j \in 0 .. m + 1 |-> h[j]]
      OBVIOUS
    <2> HIDE DEF h
    <2>4. Steps(h, m + 1)
      BY <2>2, <2>3
    <2> HIDE DEF Steps
    <2>5. \E f : Steps(f, m + 1)
      BY <2>4
    <2> QED
      BY <2>5
  <1> HIDE DEF Good
  <1>3. Nat \subseteq Good
    BY <1>1, <1>2, Induction
  <1>4. \E g : Steps(g, Len(cs))
    BY <1>0, <1>3 DEF Good
  <1> QED
    BY <1>a, <1>4

(* One round of the loop, and as many of them as p has children.           *)
Round(u, p, c, heir) == link([u EXCEPT !.cptr[p] = u.optr[c]], c, heir)

AllRounds(t, p, heir, cs, g) ==
    g[0] = t /\ \A i \in 1 .. Len(cs) : g[i] = Round(g[i - 1], p, cs[i], heir)

LEMMA HandOverMoves ==
    ASSUME NEW P, NEW t, NEW p, NEW heir, NEW cs \in Seq(P), cs = Children(t, p)
    PROVE  \E g : AllRounds(t, p, heir, cs, g) /\ hand_over(t, p, heir) = g[Len(cs)]
  <1> DEFINE d == CHOOSE g : Moves(t, p, heir, cs, g)
  <1>1. hand_over(t, p, heir) = d[Len(cs)]
    BY DEF hand_over, Moves
  <1>2. Len(cs) \in Nat
    OBVIOUS
  <1>3. Moves(t, p, heir, cs, d)
    BY MovesExist
  <1> HIDE DEF d
  <1>4. d[0] = t
    BY <1>2, <1>3 DEF Moves
  <1>5. ASSUME NEW i \in 1 .. Len(cs)
        PROVE  d[i] = Round(d[i - 1], p, cs[i], heir)
    <2>1. i \in 0 .. Len(cs) /\ i # 0
      BY <1>2
    <2> QED
      BY <1>3, <2>1 DEF Moves, Round
  <1>6. AllRounds(t, p, heir, cs, d)
    BY <1>4, <1>5 DEF AllRounds
  <1> QED
    BY <1>1, <1>6

LEMMA RoundFields ==
    ASSUME NEW P, NEW u \in Trees(P), NEW p \in P, NEW c \in P, NEW heir \in P
    PROVE  LET w == [u EXCEPT !.cptr[p] = u.optr[c]]
           IN  /\ Linked(P, w, Round(u, p, c, heir), c, heir) /\ w \in Trees(P)
               /\ w.parent = u.parent /\ w.optr = u.optr /\ w.yptr = u.yptr
               /\ w.cptr = [u.cptr EXCEPT ![p] = u.optr[c]]
  <1> DEFINE cptr == [u.cptr EXCEPT ![p] = u.optr[c]]
             w == [u EXCEPT !.cptr = cptr]
  <1>1. cptr \in Pointers(P)
    BY Typed DEF Pointers
  <1> HIDE DEF cptr
  <1>2. /\ w \in Trees(P) /\ w.parent = u.parent /\ w.optr = u.optr /\ w.yptr = u.yptr
        /\ w.cptr = cptr
    BY <1>1 DEF Trees
  <1>3. w = [u EXCEPT !.cptr[p] = u.optr[c]]
    BY DEF cptr
  <1> HIDE DEF w
  <1>4. Linked(P, w, link(w, c, heir), c, heir)
    BY <1>2, LinkFields
  <1>5. link(w, c, heir) = Round(u, p, c, heir)
    BY <1>3 DEF Round
  <1> QED
    BY <1>2, <1>3, <1>4, <1>5 DEF cptr

(* Whatever the lists are, the loop gives the children another parent.     *)
LEMMA HandOverParents ==
    ASSUME NEW P, IsFiniteSet(P), NEW t \in Trees(P), NEW p \in P, NEW heir \in P
    PROVE  /\ hand_over(t, p, heir) \in Trees(P)
           /\ \A c \in P : hand_over(t, p, heir).parent[c] =
                             IF \E i \in 1 .. Len(Children(t, p)) : Children(t, p)[i] = c
                               THEN heir ELSE t.parent[c]
  <1> DEFINE cs == Children(t, p)
             n == Len(cs)
             Given(i, c) == \E j \in 1 .. i : cs[j] = c
  <1>0. cs \in Seq(P) /\ n \in Nat
    BY ChildrenTyped
  <1>a. PICK g : AllRounds(t, p, heir, cs, g) /\ hand_over(t, p, heir) = g[n]
    BY <1>0, HandOverMoves
  <1>1. /\ hand_over(t, p, heir) = g[n]
        /\ g[0] = t
        /\ \A i \in 1 .. n : g[i] = Round(g[i - 1], p, cs[i], heir)
    BY <1>a DEF AllRounds
  <1> HIDE DEF cs
  <1> DEFINE Fine(i) == /\ g[i] \in Trees(P)
                        /\ \A c \in P : g[i].parent[c] = IF Given(i, c) THEN heir ELSE t.parent[c]
             Good == {i \in Nat : i <= n => Fine(i)}
  <1>2. 0 \in Good
    BY <1>1
  <1>3. ASSUME NEW i \in Nat, i \in Good PROVE i + 1 \in Good
    <2>1. CASE i + 1 <= n
      <3> DEFINE x == cs[i + 1]
                 u == g[i]
                 v == g[i + 1]
                 w == [u EXCEPT !.cptr[p] = u.optr[x]]
      <3>0. i + 1 \in 1 .. n /\ (i + 1) - 1 = i /\ i <= n
        BY <1>0, <2>1
      <3>1. x \in P
        BY <1>0, <3>0
      <3>2. u \in Trees(P) /\ \A c \in P : u.parent[c] = IF Given(i, c) THEN heir ELSE t.parent[c]
        BY <1>3, <3>0
      <3>3. v = Round(u, p, x, heir)
        BY <1>1, <3>0
      <3>a. \A c : Given(i + 1, c) <=> c = x \/ Given(i, c)
        <4> SUFFICES ASSUME NEW c PROVE Given(i + 1, c) <=> c = x \/ Given(i, c)
          OBVIOUS
        <4>1. ASSUME NEW j \in 1 .. i + 1, cs[j] = c PROVE c = x \/ Given(i, c)
          <5>1. j = i + 1 \/ j \in 1 .. i
            OBVIOUS
          <5> QED
            BY <4>1, <5>1
        <4>2. ASSUME c = x \/ Given(i, c) PROVE Given(i + 1, c)
          <5>1. i + 1 \in 1 .. i + 1 /\ \A j \in 1 .. i : j \in 1 .. i + 1
            OBVIOUS
          <5> QED
            BY <4>2, <5>1
        <4> QED
          BY <4>1, <4>2
      <3> HIDE DEF x, u, Given
      <3>4. Linked(P, w, Round(u, p, x, heir), x, heir) /\ w.parent = u.parent
        BY <3>1, <3>2, RoundFields
      <3> HIDE DEF w
      <3>5. v \in Trees(P) /\ v.parent = [u.parent EXCEPT ![x] = heir]
        BY <3>3, <3>4 DEF Linked
      <3> HIDE DEF v
      <3>6. u.parent \in [P -> P \cup {None}]
        BY <3>2, Typed DEF Pointers
      <3>7. \A c \in P : v.parent[c] = IF Given(i + 1, c) THEN heir ELSE t.parent[c]
        BY <3>2, <3>5, <3>6, <3>a
      <3>8. Fine(i + 1)
        BY <3>5, <3>7 DEF v
      <3> QED
        BY <3>8
    <2> QED
      BY <2>1
  <1> HIDE DEF Good, Fine
  <1>4. Nat \subseteq Good
    BY <1>2, <1>3, Induction
  <1>5. Fine(n)
    BY <1>0, <1>4 DEF Good
  <1> QED
    BY <1>1, <1>5 DEF Fine, cs

(* The first child of a list is a child.                                   *)
LEMMA FirstIsChild ==
    ASSUME NEW P, NEW t, NEW p, NEW cs, Lists(P, t, p, cs), t.cptr[p] # None
    PROVE  t.parent[t.cptr[p]] = p
  <1>1. cs \in Seq(P) /\ t.cptr[p] = IF Len(cs) = 0 THEN None ELSE cs[1]
    BY DEF Lists
  <1>2. 1 \in 1 .. Len(cs) /\ t.cptr[p] = cs[1] /\ cs[1] \in P
    BY <1>1
  <1> QED
    BY <1>2 DEF Lists

(* A record that differs in the first child of somebody else.              *)
LEMMA SameList ==
    ASSUME NEW P, NEW t, NEW u, NEW q, NEW cs, Lists(P, t, q, cs),
           u.parent = t.parent, u.optr = t.optr, u.yptr = t.yptr, u.cptr[q] = t.cptr[q]
    PROVE  Lists(P, u, q, cs)
  BY DEF Lists

(* The state of the loop when i of the children cs of p have gone to heir.  *)
(* Only optr leads on from the next one: its yptr still leads back.        *)
Loop(P, t, u, p, heir, cs, i) ==
    /\ u \in Trees(P)
    /\ \A c \in P : u.parent[c] = IF \E j \in 1 .. i : cs[j] = c THEN heir ELSE t.parent[c]
    /\ u.cptr[p] = IF i = Len(cs) THEN None ELSE cs[i + 1]
    /\ \A j \in i + 1 .. Len(cs) : u.optr[cs[j]] = IF j = Len(cs) THEN None ELSE cs[j + 1]
    /\ \E ds : Lists(P, u, heir, ds)
    /\ \A q \in P \ {p, heir} : \A fs : Lists(P, t, q, fs) => Lists(P, u, q, fs)

LEMMA LoopRound ==
    ASSUME NEW P, NEW t \in Trees(P), None \notin P, NEW p \in P, NEW heir \in P \ {p},
           NEW cs, Lists(P, t, p, cs), NEW i \in Nat, i < Len(cs),
           NEW u, Loop(P, t, u, p, heir, cs, i)
    PROVE  Loop(P, t, Round(u, p, cs[i + 1], heir), p, heir, cs, i + 1)
  <1> DEFINE c == cs[i + 1]
             n == Len(cs)
             w == [u EXCEPT !.cptr[p] = u.optr[c]]
             v == Round(u, p, c, heir)
             Given(e, x) == \E j \in 1 .. e : cs[j] = x
  <1>1. /\ cs \in Seq(P) /\ n \in Nat /\ i + 1 \in 1 .. n
        /\ \A j \in 1 .. n : cs[j] \in P /\ t.parent[cs[j]] = p
        /\ \A j, e \in 1 .. n : cs[j] = cs[e] => j = e
    <2>1. /\ cs \in Seq(P)
          /\ \A x \in P : t.parent[x] = p <=> \E j \in 1 .. Len(cs) : cs[j] = x
          /\ \A j, e \in 1 .. n : cs[j] = cs[e] => j = e
      BY DEF Lists
    <2> QED
      BY <2>1
  <1>2. c \in P /\ u \in Trees(P)
    BY <1>1 DEF Loop
  <1>3. \A x \in P : u.parent[x] = IF Given(i, x) THEN heir ELSE t.parent[x]
    BY DEF Loop
  <1>4. u.parent[c] = p
    <2>1. ~Given(i, c)
      BY <1>1
    <2> QED
      BY <1>1, <1>2, <1>3, <2>1
  <1>5. \A x : Given(i + 1, x) <=> x = c \/ Given(i, x)
    <2> SUFFICES ASSUME NEW x PROVE Given(i + 1, x) <=> x = c \/ Given(i, x)
      OBVIOUS
    <2>1. ASSUME NEW j \in 1 .. i + 1, cs[j] = x PROVE x = c \/ Given(i, x)
      <3>1. j = i + 1 \/ j \in 1 .. i
        OBVIOUS
      <3> QED
        BY <2>1, <3>1
    <2>2. ASSUME x = c \/ Given(i, x) PROVE Given(i + 1, x)
      <3>1. i + 1 \in 1 .. i + 1 /\ \A j \in 1 .. i : j \in 1 .. i + 1
        OBVIOUS
      <3> QED
        BY <2>2, <3>1
    <2> QED
      BY <2>1, <2>2
  <1>6. u.optr[c] = IF i + 1 = n THEN None ELSE cs[(i + 1) + 1]
    <2>1. i + 1 \in i + 1 .. n
      BY <1>1
    <2> QED
      BY <2>1 DEF Loop
  <1> HIDE DEF c, w, v
  <1>7. /\ Linked(P, w, v, c, heir) /\ w \in Trees(P)
        /\ w.parent = u.parent /\ w.optr = u.optr /\ w.yptr = u.yptr
        /\ w.cptr = [u.cptr EXCEPT ![p] = u.optr[c]]
    BY <1>2, RoundFields DEF w, v
  <1>8. v = link(w, c, heir)
    BY DEF v, w, Round
  <1>9. /\ u.parent \in [P -> P \cup {None}] /\ u.cptr \in [P -> P \cup {None}]
        /\ u.optr \in [P -> P \cup {None}]
    BY <1>2, Typed DEF Pointers
  <1>10. /\ v \in Trees(P)
         /\ v.parent = [u.parent EXCEPT ![c] = heir]
         /\ v.optr = [u.optr EXCEPT ![c] = w.cptr[heir]]
         /\ v.cptr = [w.cptr EXCEPT ![heir] = c]
    BY <1>7 DEF Linked
  <1>11. \A x \in P : v.parent[x] = IF Given(i + 1, x) THEN heir ELSE t.parent[x]
    <2> HIDE DEF Given
    <2> QED
      BY <1>3, <1>5, <1>9, <1>10
  <1>12. v.cptr[p] = IF i + 1 = n THEN None ELSE cs[(i + 1) + 1]
    <2>1. v.cptr[p] = u.optr[c]
      BY <1>7, <1>9, <1>10
    <2> QED
      BY <1>6, <2>1
  <1>13. \A j \in (i + 1) + 1 .. n : v.optr[cs[j]] = IF j = n THEN None ELSE cs[j + 1]
    <2> TAKE j \in (i + 1) + 1 .. n
    <2>1. j \in 1 .. n /\ j \in i + 1 .. n /\ j # i + 1
      BY <1>1
    <2>2. cs[j] # c /\ cs[j] \in P
      BY <1>1, <2>1 DEF c
    <2>3. v.optr[cs[j]] = u.optr[cs[j]]
      BY <1>9, <1>10, <2>2
    <2> QED
      BY <2>1, <2>3 DEF Loop
  <1>14. PICK ds : Lists(P, u, heir, ds)
    BY DEF Loop
  <1>15. Lists(P, w, heir, ds)
    <2>1. w.cptr[heir] = u.cptr[heir]
      BY <1>7, <1>9
    <2> QED
      BY <1>7, <1>14, <2>1, SameList
  <1>16. \E es : Lists(P, v, heir, es)
    <2>1. ~\E j \in 1 .. Len(ds) : ds[j] = c
      <3>1. u.parent[c] # heir
        BY <1>4
      <3> QED
        BY <1>2, <1>14, <3>1 DEF Lists
    <2>2. Lists(P, v, heir, <<c>> \o ds)
      BY <1>2, <1>7, <1>8, <1>15, <2>1, LinkHead
    <2> QED
      BY <2>2
  <1>17. ASSUME NEW q \in P \ {p, heir}, NEW fs, Lists(P, t, q, fs) PROVE Lists(P, v, q, fs)
    <2>1. Lists(P, u, q, fs)
      BY <1>17 DEF Loop
    <2>2. Lists(P, w, q, fs)
      <3>1. w.cptr[q] = u.cptr[q]
        BY <1>7, <1>9
      <3> QED
        BY <1>7, <2>1, <3>1, SameList
    <2>3. w.parent[c] # q
      BY <1>4, <1>7
    <2>4. w.cptr[heir] # None => w.parent[w.cptr[heir]] = heir
      BY <1>15, FirstIsChild
    <2>5. q \in P \ {heir} /\ heir \in P
      OBVIOUS
    <2> QED
      BY <1>2, <1>7, <1>8, <2>2, <2>3, <2>4, <2>5, LinkOther
  <1>18. Loop(P, t, v, p, heir, cs, i + 1)
    BY <1>10, <1>11, <1>12, <1>13, <1>16, <1>17 DEF Loop
  <1> QED
    BY <1>18 DEF v, c

(* When the loop is done, p has no children, heir has those of both, and   *)
(* nobody else's have changed.                                             *)
HandedOver(P, t, u, p, heir) ==
    /\ Lists(P, u, p, << >>)
    /\ \E ds : Lists(P, u, heir, ds)
    /\ \A q \in P \ {p, heir} : \A fs : Lists(P, t, q, fs) => Lists(P, u, q, fs)

LEMMA HandOverLists ==
    ASSUME NEW P, IsFiniteSet(P), NEW t \in Trees(P), None \notin P, NEW p \in P, NEW heir \in P \ {p},
           NEW cs, Lists(P, t, p, cs), NEW es, Lists(P, t, heir, es)
    PROVE  HandedOver(P, t, hand_over(t, p, heir), p, heir)
  <1> DEFINE n == Len(cs)
             u == hand_over(t, p, heir)
  <1>0. cs \in Seq(P) /\ n \in Nat /\ cs = Children(t, p)
    BY ChildrenIsList DEF Lists
  <1>1. PICK g : AllRounds(t, p, heir, cs, g) /\ u = g[n]
    BY <1>0, HandOverMoves
  <1> DEFINE Good == {i \in Nat : i <= n => Loop(P, t, g[i], p, heir, cs, i)}
  <1>2. 0 \in Good
    <2>1. g[0] = t
      BY <1>1 DEF AllRounds
    <2>2. t.cptr[p] = IF n = 0 THEN None ELSE cs[1]
      BY DEF Lists
    <2>3. \A j \in 1 .. n : t.optr[cs[j]] = IF j = n THEN None ELSE cs[j + 1]
      BY DEF Lists
    <2>4. t.cptr[p] = IF 0 = n THEN None ELSE cs[0 + 1]
      BY <2>2
    <2>5. \A j \in 0 + 1 .. n : t.optr[cs[j]] = IF j = n THEN None ELSE cs[j + 1]
      BY <2>3
    <2>6. \A c \in P : t.parent[c] = IF \E j \in 1 .. 0 : cs[j] = c THEN heir ELSE t.parent[c]
      OBVIOUS
    <2>7. Loop(P, t, t, p, heir, cs, 0)
      BY <2>4, <2>5, <2>6 DEF Loop
    <2> QED
      BY <2>1, <2>7
  <1>3. ASSUME NEW i \in Nat, i \in Good PROVE i + 1 \in Good
    <2>1. CASE i + 1 <= n
      <3>1. i + 1 \in 1 .. n /\ (i + 1) - 1 = i /\ i <= n /\ i < n
        BY <1>0, <2>1
      <3>2. Loop(P, t, g[i], p, heir, cs, i)
        BY <1>3, <3>1
      <3>3. g[i + 1] = Round(g[i], p, cs[i + 1], heir)
        BY <1>1, <3>1 DEF AllRounds
      <3>4. Loop(P, t, g[i + 1], p, heir, cs, i + 1)
        BY <3>1, <3>2, <3>3, LoopRound
      <3> QED
        BY <3>4
    <2> QED
      BY <2>1
  <1> HIDE DEF Good
  <1>4. Nat \subseteq Good
    BY <1>2, <1>3, Induction
  <1>5. Loop(P, t, u, p, heir, cs, n)
    BY <1>0, <1>1, <1>4 DEF Good
  <1> HIDE DEF u
  <1>6. ASSUME NEW c \in P PROVE u.parent[c] # p
    <2>1. u.parent[c] = IF \E j \in 1 .. n : cs[j] = c THEN heir ELSE t.parent[c]
      BY <1>5 DEF Loop
    <2>2. t.parent[c] = p <=> \E j \in 1 .. n : cs[j] = c
      BY DEF Lists
    <2> QED
      BY <2>1, <2>2
  <1>7. Lists(P, u, p, << >>)
    <2>1. u.cptr[p] = None
      BY <1>5 DEF Loop
    <2>2. << >> \in Seq(P) /\ Len(<< >>) = 0 /\ 1 .. 0 = {}
      OBVIOUS
    <2> QED
      BY <1>6, <2>1, <2>2 DEF Lists
  <1>8. HandedOver(P, t, u, p, heir)
    BY <1>5, <1>7 DEF Loop, HandedOver
  <1> QED
    BY <1>8 DEF u

-----------------------------------------------------------------------------
(* Sequences without repetitions.                                          *)
LEMMA SetOf == ASSUME NEW P, NEW s \in Seq(P)
               PROVE  /\ ToSet(s) \subseteq P
                      /\ \A x : x \in ToSet(s) <=> \E i \in 1 .. Len(s) : s[i] = x
  BY DEF ToSet

LEMMA SeqTyped == ASSUME NEW P, NEW s \in Seq(P), NEW S, \A i \in 1 .. Len(s) : s[i] \in S
               PROVE  s \in Seq(S)
  <1>1. s = [i \in 1 .. Len(s) |-> s[i]] /\ Len(s) \in Nat
    OBVIOUS
  <1> QED
    BY <1>1

LEMMA SetEmpty == ASSUME NEW P, NEW s \in Seq(P) PROVE ToSet(s) = {} <=> s = << >>
  <1>1. CASE s = << >>
    <2>1. Len(s) = 0 /\ 1 .. 0 = {}
      BY <1>1
    <2> QED
      BY <1>1, <2>1, SetOf
  <1>2. CASE s # << >>
    <2>1. 1 \in 1 .. Len(s)
      BY <1>2
    <2> QED
      BY <1>2, <2>1, SetOf
  <1> QED
    BY <1>1, <1>2

LEMMA SetAppend ==
    ASSUME NEW P, NEW s \in Seq(P), NEW p \in P, p \notin ToSet(s), Once(s)
    PROVE  Append(s, p) \in Seq(P) /\ Once(Append(s, p)) /\ ToSet(Append(s, p)) = ToSet(s) \cup {p}
  <1> DEFINE a == Append(s, p)
  <1>1. a \in Seq(P) /\ Len(a) = Len(s) + 1 /\ Len(s) \in Nat
    OBVIOUS
  <1>2. a[Len(s) + 1] = p /\ \A i \in 1 .. Len(s) : a[i] = s[i]
    OBVIOUS
  <1> HIDE DEF a
  <1>3. \A i \in 1 .. Len(s) : s[i] # p
    BY SetOf
  <1>4. \A i, j \in 1 .. Len(a) : a[i] = a[j] => i = j
    <2> SUFFICES ASSUME NEW i \in 1 .. Len(a), NEW j \in 1 .. Len(a), a[i] = a[j] PROVE i = j
      OBVIOUS
    <2>1. (i = Len(s) + 1 \/ i \in 1 .. Len(s)) /\ (j = Len(s) + 1 \/ j \in 1 .. Len(s))
      BY <1>1
    <2> QED
      BY <1>2, <1>3, <2>1 DEF Once
  <1>5. ASSUME NEW x PROVE x \in ToSet(a) <=> x \in ToSet(s) \cup {p}
    <2>1. ASSUME NEW i \in 1 .. Len(a), a[i] = x PROVE x \in ToSet(s) \cup {p}
      <3>1. i = Len(s) + 1 \/ i \in 1 .. Len(s)
        BY <1>1
      <3> QED
        BY <1>2, <2>1, <3>1, SetOf
    <2>2. ASSUME NEW i \in 1 .. Len(s), s[i] = x PROVE x \in ToSet(a)
      <3>1. i \in 1 .. Len(a) /\ a[i] = x
        BY <1>1, <1>2, <2>2
      <3> QED
        BY <1>1, <3>1, SetOf
    <2>3. p \in ToSet(a)
      <3>1. Len(s) + 1 \in 1 .. Len(a)
        BY <1>1
      <3> QED
        BY <1>1, <1>2, <3>1, SetOf
    <2> QED
      BY <1>1, <2>1, <2>2, <2>3, SetOf
  <1>6. Once(a) /\ ToSet(a) = ToSet(s) \cup {p}
    BY <1>4, <1>5 DEF Once
  <1> QED
    BY <1>1, <1>6 DEF a

LEMMA SetTail ==
    ASSUME NEW P, NEW s \in Seq(P), s # << >>, Once(s)
    PROVE  /\ Tail(s) \in Seq(P) /\ Once(Tail(s)) /\ Head(s) \in P /\ Head(s) \in ToSet(s)
           /\ ToSet(Tail(s)) = ToSet(s) \ {Head(s)}
  <1> DEFINE t == Tail(s)
             h == Head(s)
  <1>1. t \in Seq(P) /\ Len(t) = Len(s) - 1 /\ Len(s) \in Nat \ {0} /\ h = s[1]
    OBVIOUS
  <1>2. \A i \in 1 .. Len(t) : t[i] = s[i + 1]
    OBVIOUS
  <1> HIDE DEF t, h
  <1>3. \A i \in 1 .. Len(t) : i + 1 \in 1 .. Len(s) /\ i + 1 # 1
    BY <1>1
  <1>4. Once(t)
    <2> SUFFICES ASSUME NEW i \in 1 .. Len(t), NEW j \in 1 .. Len(t), t[i] = t[j] PROVE i = j
      BY DEF Once
    <2>1. s[i + 1] = s[j + 1]
      BY <1>2
    <2>2. i + 1 = j + 1
      BY <1>3, <2>1 DEF Once
    <2> QED
      BY <2>2
  <1>5. 1 \in 1 .. Len(s) /\ h \in P /\ h \in ToSet(s)
    <2>1. 1 \in 1 .. Len(s)
      BY <1>1
    <2> QED
      BY <1>1, <2>1, SetOf
  <1>6. ASSUME NEW i \in 1 .. Len(t) PROVE t[i] \in ToSet(s) \ {h}
    <2>1. t[i] = s[i + 1] /\ i + 1 \in 1 .. Len(s) /\ i + 1 # 1
      BY <1>2, <1>3
    <2>2. s[i + 1] # s[1]
      BY <1>5, <2>1 DEF Once
    <2> QED
      BY <1>1, <2>1, <2>2, SetOf
  <1>7. ASSUME NEW x \in ToSet(s), x # h PROVE x \in ToSet(t)
    <2>1. PICK i \in 1 .. Len(s) : s[i] = x
      BY SetOf
    <2>2. i - 1 \in 1 .. Len(t) /\ (i - 1) + 1 = i
      BY <1>1, <1>7, <2>1
    <2>3. t[i - 1] = x
      BY <1>2, <2>1, <2>2
    <2> QED
      BY <1>1, <2>2, <2>3, SetOf
  <1>8. ToSet(t) = ToSet(s) \ {h}
    <2>1. \A x \in ToSet(t) : \E i \in 1 .. Len(t) : t[i] = x
      BY <1>1, SetOf
    <2> QED
      BY <1>6, <1>7, <2>1
  <1> QED
    BY <1>1, <1>4, <1>5, <1>8 DEF t, h

(* list_del of the head.                                                   *)
LEMMA UnlinkHead ==
    ASSUME NEW P, NEW s \in Seq(P), s # << >>, Once(s)
    PROVE  Unlink(s, Head(s)) = Tail(s)
  <1>1. Head(s) = s[1] /\ Len(s) \in Nat \ {0}
    OBVIOUS
  <1>2. (CHOOSE i \in 1 .. Len(s) : s[i] = Head(s)) = 1
    <2>1. \A i \in 1 .. Len(s) : s[i] = Head(s) => i = 1
      BY <1>1 DEF Once
    <2>2. 1 \in 1 .. Len(s) /\ s[1] = Head(s)
      BY <1>1
    <2> QED
      BY <2>1, <2>2
  <1>3. RemoveAt(s, 1) = SubSeq(s, 1, 0) \o SubSeq(s, 2, Len(s))
    BY <1>1 DEF RemoveAt
  <1>4. SubSeq(s, 1, 0) = << >> /\ SubSeq(s, 2, Len(s)) = Tail(s)
    BY <1>1
  <1>5. << >> \o Tail(s) = Tail(s)
    <2>1. Tail(s) \in Seq(P)
      BY <1>1
    <2> QED
      BY <2>1
  <1>6. RemoveAt(s, 1) = Tail(s)
    BY <1>3, <1>4, <1>5
  <1>7. Unlink(s, Head(s)) = RemoveAt(s, CHOOSE i \in 1 .. Len(s) : s[i] = Head(s))
    BY DEF Unlink
  <1> QED
    BY <1>2, <1>6, <1>7

-----------------------------------------------------------------------------
(* Records of the scheduler, and what holds of them between and within its  *)
(* functions: current need not be able to run while it is dying or about   *)
(* to sleep.                                                               *)
States == {"UNINIT", "SLEEPING", "RUNNABLE", "ZOMBIE"}
Waits == Interruptible \cup {"0"}
Ends == {"none", "initproc exit", "init_main"}

Records ==
    [cur : Procs, rq : Seq(Procs), st : [Procs -> States], ws : [Procs -> Waits],
     slice : [Procs -> 0 .. MAX_TIME_SLICE], resched : [Procs -> BOOLEAN], panic : Ends]

SchedOK(r) ==
    /\ r \in Records
    /\ Once(r.rq)
    /\ ToSet(r.rq) = {p \in Procs \ {Idle, r.cur} : r.st[p] = "RUNNABLE"}
    /\ r.st[Idle] = "RUNNABLE"
    /\ \A p \in Procs : r.st[p] = "SLEEPING" <=> r.ws[p] # "0"

LEMMA RecordFields ==
    ASSUME NEW r \in Records
    PROVE  /\ r.cur \in Procs /\ r.rq \in Seq(Procs) /\ r.st \in [Procs -> States]
           /\ r.ws \in [Procs -> Waits] /\ r.slice \in [Procs -> 0 .. MAX_TIME_SLICE]
           /\ r.resched \in [Procs -> BOOLEAN] /\ r.panic \in Ends
  BY DEF Records

(* m is r but for the queue and perhaps time slices.                       *)
Requeued(r, m, q) ==
    /\ m \in Records /\ m.rq = q
    /\ m.cur = r.cur /\ m.st = r.st /\ m.ws = r.ws /\ m.panic = r.panic

LEMMA EnqueueAppends ==
    ASSUME NEW r \in Records, NEW p \in Procs, p \notin ToSet(r.rq)
    PROVE  Requeued(r, RR_enqueue(r, p), Append(r.rq, p))
  <1> DEFINE left == IF r.slice[p] = 0 \/ r.slice[p] > MAX_TIME_SLICE THEN MAX_TIME_SLICE ELSE r.slice[p]
             slice == [r.slice EXCEPT ![p] = left]
             q == Append(r.rq, p)
             m == [r EXCEPT !.rq = q, !.slice = slice]
  <1>1. RR_enqueue(r, p) = m
    BY DEF RR_enqueue
  <1>2. left \in 0 .. MAX_TIME_SLICE
    BY SliceAssumption, RecordFields
  <1> HIDE DEF left
  <1>3. slice \in [Procs -> 0 .. MAX_TIME_SLICE]
    BY <1>2, RecordFields
  <1>4. q \in Seq(Procs)
    BY RecordFields
  <1> HIDE DEF slice, q
  <1> DEFINE m1 == [r EXCEPT !.rq = q]
             m2 == [m1 EXCEPT !.slice = slice]
  <1>5. m1 \in Records /\ m1.rq = q /\ m1.cur = r.cur /\ m1.st = r.st /\ m1.ws = r.ws /\ m1.panic = r.panic
    BY <1>4 DEF Records
  <1>6. m = m2
    OBVIOUS
  <1> HIDE DEF m, m1
  <1>7. Requeued(r, m2, q)
    BY <1>3, <1>5 DEF Records, Requeued
  <1> QED
    BY <1>1, <1>6, <1>7 DEF q

LEMMA DequeueHead ==
    ASSUME NEW r \in Records, r.rq # << >>, Once(r.rq)
    PROVE  Requeued(r, RR_dequeue(r, Head(r.rq)), Tail(r.rq))
  <1> DEFINE q == Tail(r.rq)
             m == [r EXCEPT !.rq = q]
  <1>1. r.rq \in Seq(Procs)
    BY RecordFields
  <1>2. q \in Seq(Procs) /\ Head(r.rq) \in ToSet(r.rq)
    BY <1>1, SetTail
  <1>3. Unlink(r.rq, Head(r.rq)) = q
    BY <1>1, UnlinkHead
  <1>4. RR_dequeue(r, Head(r.rq)) = m
    BY <1>2, <1>3 DEF RR_dequeue
  <1> HIDE DEF q
  <1>5. Requeued(r, m, q)
    BY <1>2 DEF Records, Requeued
  <1> QED
    BY <1>4, <1>5 DEF q

-----------------------------------------------------------------------------
(* The queue r begins as q does.                                           *)
Extends(r, q) == Len(q) <= Len(r) /\ \A i \in 1 .. Len(q) : r[i] = q[i]

LEMMA ExtendsItself == ASSUME NEW P, NEW q \in Seq(P) PROVE Extends(q, q)
  BY DEF Extends

LEMMA ExtendsMore ==
    ASSUME NEW P, NEW q \in Seq(P), NEW r \in Seq(P), NEW s \in Seq(P), Extends(r, q), Extends(s, r)
    PROVE  Extends(s, q)
  <1>1. Len(q) \in Nat /\ Len(r) \in Nat /\ Len(s) \in Nat
    OBVIOUS
  <1>2. \A i \in 1 .. Len(q) : i \in 1 .. Len(r)
    BY <1>1 DEF Extends
  <1> QED
    BY <1>1, <1>2 DEF Extends

LEMMA ExtendsAppend == ASSUME NEW P, NEW q \in Seq(P), NEW p \in P PROVE Extends(Append(q, p), q)
  BY DEF Extends

(* m is r after the processes of Q have been woken: they and no others can  *)
(* run now, and those that could not before have gone to the tail.         *)
Woken(r, m, Q) ==
    /\ SchedOK(m)
    /\ m.cur = r.cur /\ m.panic = r.panic
    /\ \A p \in Procs : m.st[p] = IF p \in Q THEN "RUNNABLE" ELSE r.st[p]
    /\ \A p \in Procs : m.ws[p] = IF p \in Q THEN "0" ELSE r.ws[p]
    /\ Extends(m.rq, r.rq)

LEMMA WokenNone == ASSUME NEW r, SchedOK(r) PROVE Woken(r, r, {})
  <1>1. r.rq \in Seq(Procs)
    BY RecordFields DEF SchedOK
  <1> QED
    BY <1>1, ExtendsItself DEF Woken

LEMMA WokenMore ==
    ASSUME NEW r, NEW m, NEW n, NEW Q, NEW R, SchedOK(r), Woken(r, m, Q), Woken(m, n, R)
    PROVE  Woken(r, n, Q \cup R)
  <1>1. r.rq \in Seq(Procs) /\ m.rq \in Seq(Procs) /\ n.rq \in Seq(Procs)
    BY RecordFields DEF SchedOK, Woken
  <1>2. Extends(n.rq, r.rq)
    BY <1>1, ExtendsMore DEF Woken
  <1> QED
    BY <1>2 DEF Woken

(* A record with other states and wait states.                             *)
Reset(r, st, ws) == [[r EXCEPT !.st = st] EXCEPT !.ws = ws]

IsReset(r, m, st, ws) ==
    /\ m \in Records /\ m.st = st /\ m.ws = ws
    /\ m.cur = r.cur /\ m.rq = r.rq /\ m.panic = r.panic

LEMMA ResetFields ==
    ASSUME NEW r \in Records, NEW st \in [Procs -> States], NEW ws \in [Procs -> Waits]
    PROVE  IsReset(r, Reset(r, st, ws), st, ws)
  <1> DEFINE m1 == [r EXCEPT !.st = st]
             m2 == [m1 EXCEPT !.ws = ws]
  <1>1. m1 \in Records /\ m1.rq = r.rq /\ m1.cur = r.cur /\ m1.st = st /\ m1.panic = r.panic
    BY DEF Records
  <1> HIDE DEF m1
  <1>2. m2 \in Records /\ m2.rq = r.rq /\ m2.cur = r.cur /\ m2.st = st /\ m2.ws = ws /\ m2.panic = r.panic
    BY <1>1 DEF Records
  <1>3. m2 = Reset(r, st, ws)
    BY DEF m1, Reset
  <1> HIDE DEF m2
  <1> QED
    BY <1>2, <1>3 DEF IsReset

(* wakeup_proc of a process that is not dead.                              *)
LEMMA WakeupWakes ==
    ASSUME NEW r, SchedOK(r), NEW p \in Procs \ {Idle}, r.st[p] # "ZOMBIE"
    PROVE  Woken(r, wakeup_proc(r, p), {p})
  <1> DEFINE m == wakeup_proc(r, p)
             st == [r.st EXCEPT ![p] = "RUNNABLE"]
             ws == [r.ws EXCEPT ![p] = "0"]
             awake == Reset(r, st, ws)
  <1>0. r \in Records /\ r.rq \in Seq(Procs) /\ r.st \in [Procs -> States] /\ r.ws \in [Procs -> Waits]
    BY RecordFields DEF SchedOK
  <1>1. CASE r.st[p] = "RUNNABLE"
    <2>1. m = r
      BY <1>1 DEF wakeup_proc
    <2>2. r.ws[p] = "0"
      BY <1>1 DEF SchedOK
    <2> HIDE DEF m
    <2>3. Extends(r.rq, r.rq)
      BY <1>0, ExtendsItself
    <2>4. Woken(r, m, {p})
      BY <1>1, <2>1, <2>2, <2>3 DEF Woken
    <2> QED
      BY <2>4 DEF m
  <1>2. CASE r.st[p] # "RUNNABLE"
    <2>1. m = IF p = r.cur THEN awake ELSE RR_enqueue(awake, p)
      <3>1. m = LET a == [r EXCEPT !.st[p] = "RUNNABLE", !.ws[p] = "0"]
                IN  IF p = r.cur THEN a ELSE sched_class_enqueue(a, p)
        BY <1>2 DEF wakeup_proc
      <3>2. [r EXCEPT !.st[p] = "RUNNABLE", !.ws[p] = "0"] = awake
        BY DEF Reset
      <3> HIDE DEF awake, m
      <3> QED
        BY <3>1, <3>2 DEF sched_class_enqueue
    <2>2. st \in [Procs -> States] /\ ws \in [Procs -> Waits]
      BY <1>0 DEF States, Waits
    <2>3. /\ \A q \in Procs : st[q] = IF q = p THEN "RUNNABLE" ELSE r.st[q]
          /\ \A q \in Procs : ws[q] = IF q = p THEN "0" ELSE r.ws[q]
      BY <1>0
    <2> HIDE DEF st, ws
    <2>4. /\ awake \in Records /\ awake.rq = r.rq /\ awake.cur = r.cur /\ awake.st = st
          /\ awake.ws = ws /\ awake.panic = r.panic
      BY <1>0, <2>2, ResetFields DEF IsReset
    <2> HIDE DEF awake, m
    <2>5. p \notin ToSet(r.rq)
      BY <1>2 DEF SchedOK
    <2>6. CASE p = r.cur
      <3>1. m = awake
        BY <2>1, <2>6
      <3>2. SchedOK(m)
        <4>1. Once(m.rq) /\ m.st[Idle] = "RUNNABLE"
          BY <2>3, <2>4, <3>1 DEF SchedOK, Procs
        <4>2. ToSet(m.rq) = {q \in Procs \ {Idle, m.cur} : m.st[q] = "RUNNABLE"}
          BY <2>3, <2>4, <2>6, <3>1 DEF SchedOK
        <4>3. \A q \in Procs : m.st[q] = "SLEEPING" <=> m.ws[q] # "0"
          BY <2>3, <2>4, <3>1 DEF SchedOK
        <4> QED
          BY <2>4, <3>1, <4>1, <4>2, <4>3 DEF SchedOK
      <3>3. Woken(r, m, {p})
        BY <1>0, <2>3, <2>4, <3>1, <3>2, ExtendsItself DEF Woken
      <3> QED
        BY <3>3 DEF m
    <2>7. CASE p # r.cur
      <3>1. Requeued(awake, m, Append(r.rq, p))
        BY <2>1, <2>4, <2>5, <2>7, EnqueueAppends
      <3>2. Once(m.rq) /\ ToSet(m.rq) = ToSet(r.rq) \cup {p}
        <4>1. m.rq = Append(r.rq, p)
          BY <3>1 DEF Requeued
        <4>2. Once(r.rq)
          BY DEF SchedOK
        <4>3. Once(Append(r.rq, p)) /\ ToSet(Append(r.rq, p)) = ToSet(r.rq) \cup {p}
          BY <1>0, <2>5, <4>2, SetAppend
        <4> QED
          BY <4>1, <4>3
      <3>a. m \in Records /\ m.cur = r.cur /\ m.st = st /\ m.ws = ws
        BY <2>4, <3>1 DEF Requeued
      <3>3. SchedOK(m)
        <4>1. m.st[Idle] = "RUNNABLE"
          BY <2>3, <3>a DEF SchedOK, Procs
        <4>2. ToSet(m.rq) = {q \in Procs \ {Idle, m.cur} : m.st[q] = "RUNNABLE"}
          BY <2>3, <2>7, <3>2, <3>a DEF SchedOK
        <4>3. \A q \in Procs : m.st[q] = "SLEEPING" <=> m.ws[q] # "0"
          BY <2>3, <3>a DEF SchedOK
        <4> QED
          BY <3>2, <3>a, <4>1, <4>2, <4>3 DEF SchedOK
      <3>4. Extends(m.rq, r.rq)
        BY <1>0, <3>1, ExtendsAppend DEF Requeued
      <3>5. Woken(r, m, {p})
        BY <2>3, <2>4, <3>1, <3>3, <3>4 DEF Woken, Requeued
      <3> QED
        BY <3>5 DEF m
    <2> QED
      BY <2>6, <2>7
  <1> QED
    BY <1>1, <1>2

(* wakeup_proc for one after the other.                                    *)
Wakeups(r, ps, g) ==
    g = [i \in 0 .. Len(ps) |-> IF i = 0 THEN r ELSE wakeup_proc(g[i - 1], ps[i])]

LEMMA WakeupsExist ==
    ASSUME NEW P, NEW r, NEW ps \in Seq(P)
    PROVE  \E g : Wakeups(r, ps, g)
  <1> DEFINE Steps(g, m) == g = [i \in 0 .. m |-> IF i = 0 THEN r ELSE wakeup_proc(g[i - 1], ps[i])]
             Good == {m \in Nat : \E g : Steps(g, m)}
  <1>1. 0 \in Good
    <2>1. Steps([j \in 0 .. 0 |-> r], 0)
      OBVIOUS
    <2> QED
      BY <2>1
  <1>2. ASSUME NEW m \in Nat, m \in Good PROVE m + 1 \in Good
    <2>1. PICK g : Steps(g, m)
      BY <1>2
    <2> DEFINE h == [j \in 0 .. m + 1 |-> IF j = m + 1 THEN wakeup_proc(g[m], ps[m + 1]) ELSE g[j]]
    <2>2. ASSUME NEW j \in 0 .. m + 1 PROVE h[j] = IF j = 0 THEN r ELSE wakeup_proc(h[j - 1], ps[j])
      <3>1. CASE j = m + 1
        <4>1. j # 0 /\ j - 1 = m /\ m \in 0 .. m + 1 /\ m # m + 1
          BY <3>1
        <4> QED
          BY <3>1, <4>1
      <3>2. CASE j # m + 1
        <4>1. j \in 0 .. m /\ (j # 0 => j - 1 \in 0 .. m + 1 /\ j - 1 # m + 1)
          BY <3>2
        <4>2. g[j] = IF j = 0 THEN r ELSE wakeup_proc(g[j - 1], ps[j])
          BY <2>1, <4>1
        <4> QED
          BY <3>2, <4>1, <4>2
      <3> QED
        BY <3>1, <3>2
    <2>3. h = [j \in 0 .. m + 1 |-> h[j]]
      OBVIOUS
    <2> HIDE DEF h
    <2>4. Steps(h, m + 1)
      BY <2>2, <2>3
    <2> HIDE DEF Steps
    <2>5. \E f : Steps(f, m + 1)
      BY <2>4
    <2> QED
      BY <2>5
  <1> HIDE DEF Good
  <1>3. Nat \subseteq Good
    BY <1>1, <1>2, Induction
  <1>4. Len(ps) \in Good
    BY <1>3
  <1> QED
    BY <1>4 DEF Good, Wakeups

LEMMA WakeupEachWakes ==
    ASSUME NEW r, SchedOK(r), NEW ps \in Seq(Procs \ {Idle}),
           \A i \in 1 .. Len(ps) : r.st[ps[i]] # "ZOMBIE"
    PROVE  Woken(r, wakeup_each(r, ps), ToSet(ps))
  <1> DEFINE d == CHOOSE g : Wakeups(r, ps, g)
             first(i) == {ps[j] : j \in 1 .. i}
             Good == {i \in Nat : i <= Len(ps) => Woken(r, d[i], first(i))}
  <1>0. Len(ps) \in Nat
    OBVIOUS
  <1>1. wakeup_each(r, ps) = d[Len(ps)]
    BY DEF wakeup_each, Wakeups
  <1>2. Wakeups(r, ps, d)
    BY WakeupsExist
  <1> HIDE DEF d
  <1>3. d[0] = r
    BY <1>0, <1>2 DEF Wakeups
  <1>4. ASSUME NEW i \in 1 .. Len(ps) PROVE d[i] = wakeup_proc(d[i - 1], ps[i])
    <2>1. i \in 0 .. Len(ps) /\ i # 0
      BY <1>0
    <2> QED
      BY <1>2, <2>1 DEF Wakeups
  <1>5. 0 \in Good
    <2>1. first(0) = {}
      OBVIOUS
    <2> HIDE DEF first
    <2>2. Woken(r, d[0], first(0))
      BY <1>3, <2>1, WokenNone
    <2> QED
      BY <2>2
  <1>6. ASSUME NEW i \in Nat, i \in Good PROVE i + 1 \in Good
    <2>1. CASE i + 1 <= Len(ps)
      <3> DEFINE p == ps[i + 1]
      <3>1. i + 1 \in 1 .. Len(ps) /\ (i + 1) - 1 = i /\ i <= Len(ps)
        BY <1>0, <2>1
      <3>2. Woken(r, d[i], first(i))
        BY <1>6, <3>1
      <3>3. p \in Procs \ {Idle} /\ r.st[p] # "ZOMBIE"
        BY <3>1
      <3>4. first(i + 1) = first(i) \cup {p}
        <4>1. \A j \in 1 .. i + 1 : j = i + 1 \/ j \in 1 .. i
          OBVIOUS
        <4>2. i + 1 \in 1 .. i + 1 /\ \A j \in 1 .. i : j \in 1 .. i + 1
          OBVIOUS
        <4> QED
          BY <4>1, <4>2
      <3>5. d[i + 1] = wakeup_proc(d[i], p)
        BY <1>4, <3>1
      <3> HIDE DEF first, p
      <3>6. SchedOK(d[i]) /\ d[i].st[p] # "ZOMBIE"
        BY <3>2, <3>3 DEF Woken
      <3>7. Woken(d[i], d[i + 1], {p})
        BY <3>3, <3>5, <3>6, WakeupWakes
      <3>8. Woken(r, d[i + 1], first(i + 1))
        BY <3>2, <3>4, <3>7, WokenMore
      <3> QED
        BY <3>8
    <2> QED
      BY <2>1
  <1> HIDE DEF Good
  <1>7. Nat \subseteq Good
    BY <1>5, <1>6, Induction
  <1>a. Len(ps) \in Good
    BY <1>0, <1>7
  <1> HIDE DEF first
  <1>8. Woken(r, d[Len(ps)], first(Len(ps)))
    BY <1>0, <1>a DEF Good
  <1>9. first(Len(ps)) = ToSet(ps)
    BY DEF ToSet, first
  <1> QED
    BY <1>1, <1>8, <1>9

-----------------------------------------------------------------------------
(* m is r after the CPU has gone to the one that has waited longest, behind *)
(* whom everybody else keeps his place.                                    *)
Scheduled(r, m) ==
    /\ SchedOK(m) /\ m.st[m.cur] = "RUNNABLE"
    /\ m.st = r.st /\ m.ws = r.ws /\ m.panic = r.panic
    /\ r.rq # << >> => m.cur = r.rq[1] /\ Extends(m.rq, Tail(r.rq))

(* The part of schedule after the current process has been queued again.   *)
LEMMA PickNext ==
    ASSUME NEW r \in Records, Once(r.rq), r.st[Idle] = "RUNNABLE",
           \A p \in Procs : r.st[p] = "SLEEPING" <=> r.ws[p] # "0",
           ToSet(r.rq) = {p \in Procs \ {Idle} : r.st[p] = "RUNNABLE"}
    PROVE  LET m == IF r.rq = << >> THEN [r EXCEPT !.cur = Idle]
                    ELSE [RR_dequeue(r, Head(r.rq)) EXCEPT !.cur = Head(r.rq)]
           IN  /\ SchedOK(m) /\ m.st[m.cur] = "RUNNABLE"
               /\ m.st = r.st /\ m.ws = r.ws /\ m.panic = r.panic
               /\ r.rq # << >> => m.cur = r.rq[1] /\ m.rq = Tail(r.rq)
  <1> DEFINE h == Head(r.rq)
             out == RR_dequeue(r, h)
             m == IF r.rq = << >> THEN [r EXCEPT !.cur = Idle] ELSE [out EXCEPT !.cur = h]
  <1>0. r.rq \in Seq(Procs) /\ Idle \in Procs
    BY RecordFields DEF Procs
  <1>1. CASE r.rq = << >>
    <2> DEFINE n == [r EXCEPT !.cur = Idle]
    <2>1. n \in Records /\ n.cur = Idle /\ n.rq = r.rq /\ n.st = r.st /\ n.ws = r.ws /\ n.panic = r.panic
      BY <1>0 DEF Records
    <2>2. m = n
      BY <1>1
    <2> HIDE DEF n, m
    <2>3. SchedOK(n)
      BY <2>1 DEF SchedOK
    <2>4. SchedOK(m) /\ m.st[m.cur] = "RUNNABLE" /\ m.st = r.st /\ m.ws = r.ws /\ m.panic = r.panic
      BY <2>1, <2>2, <2>3
    <2> QED
      BY <1>1, <2>4 DEF m
  <1>2. CASE r.rq # << >>
    <2> DEFINE n == [out EXCEPT !.cur = h]
    <2>1. Requeued(r, out, Tail(r.rq))
      BY <1>2, DequeueHead
    <2>2. /\ Once(Tail(r.rq)) /\ h \in Procs /\ h \in ToSet(r.rq)
          /\ ToSet(Tail(r.rq)) = ToSet(r.rq) \ {h} /\ h = r.rq[1]
      BY <1>0, <1>2, SetTail
    <2>3. m = n
      BY <1>2
    <2> HIDE DEF out, h, m
    <2>4. n \in Records /\ n.cur = h /\ n.rq = Tail(r.rq) /\ n.st = r.st /\ n.ws = r.ws /\ n.panic = r.panic
      BY <2>1, <2>2 DEF Requeued, Records
    <2> HIDE DEF n
    <2>5. ToSet(n.rq) = {p \in Procs \ {Idle, h} : n.st[p] = "RUNNABLE"}
      BY <2>2, <2>4
    <2>6. SchedOK(n)
      BY <2>2, <2>4, <2>5 DEF SchedOK
    <2>7. n.st[n.cur] = "RUNNABLE"
      BY <2>2, <2>4
    <2> QED
      BY <1>2, <2>2, <2>3, <2>4, <2>6, <2>7 DEF m, out, h
  <1> QED
    BY <1>1, <1>2

LEMMA ScheduleServes ==
    ASSUME NEW r, SchedOK(r)
    PROVE  Scheduled(r, schedule(r))
  <1> DEFINE m == schedule(r)
             quiet == [r EXCEPT !.resched[r.cur] = FALSE]
             again == IF quiet.st[r.cur] = "RUNNABLE" THEN sched_class_enqueue(quiet, r.cur) ELSE quiet
  <1>0. r \in Records /\ r.rq \in Seq(Procs) /\ r.cur \in Procs
    BY RecordFields DEF SchedOK
  <1>1. Requeued(r, quiet, r.rq)
    <2> DEFINE resched == [r.resched EXCEPT ![r.cur] = FALSE]
               n == [r EXCEPT !.resched = resched]
    <2>1. resched \in [Procs -> BOOLEAN]
      BY <1>0, RecordFields
    <2> HIDE DEF resched
    <2>2. Requeued(r, n, r.rq)
      BY <1>0, <2>1 DEF Requeued, Records
    <2>3. n = quiet
      BY DEF resched
    <2> QED
      BY <2>2, <2>3
  <1>2. quiet.cur = r.cur
    BY <1>1 DEF Requeued
  <1>3. m = IF again.rq = << >> THEN [again EXCEPT !.cur = Idle]
            ELSE [RR_dequeue(again, Head(again.rq)) EXCEPT !.cur = Head(again.rq)]
    BY <1>2 DEF schedule
  <1> HIDE DEF quiet, m
  <1>4. /\ again \in Records /\ again.st = r.st /\ again.ws = r.ws /\ again.panic = r.panic
        /\ Once(again.rq) /\ ToSet(again.rq) = {p \in Procs \ {Idle} : r.st[p] = "RUNNABLE"}
        /\ r.rq # << >> => again.rq # << >> /\ again.rq[1] = r.rq[1] /\ Extends(Tail(again.rq), Tail(r.rq))
    <2>1. CASE r.st[r.cur] = "RUNNABLE" /\ r.cur # Idle
      <3>1. again = RR_enqueue(quiet, r.cur)
        BY <1>1, <2>1 DEF again, sched_class_enqueue, Requeued
      <3>2. r.cur \notin ToSet(r.rq)
        BY DEF SchedOK
      <3>a. quiet \in Records /\ quiet.rq = r.rq
        BY <1>1 DEF Requeued
      <3> HIDE DEF again
      <3>3. Requeued(quiet, again, Append(r.rq, r.cur))
        BY <1>0, <3>1, <3>2, <3>a, EnqueueAppends
      <3>4. Once(Append(r.rq, r.cur)) /\ ToSet(Append(r.rq, r.cur)) = ToSet(r.rq) \cup {r.cur}
        BY <1>0, <3>2, SetAppend DEF SchedOK
      <3>5. ToSet(again.rq) = {p \in Procs \ {Idle} : r.st[p] = "RUNNABLE"}
        BY <1>0, <2>1, <3>3, <3>4 DEF SchedOK, Requeued
      <3>6. ASSUME r.rq # << >>
            PROVE  again.rq # << >> /\ again.rq[1] = r.rq[1] /\ Extends(Tail(again.rq), Tail(r.rq))
        <4> DEFINE q == r.rq
                   a == Append(r.rq, r.cur)
        <4>1. Len(q) \in Nat \ {0} /\ a \in Seq(Procs) /\ Len(a) = Len(q) + 1
          BY <1>0, <3>6
        <4>2. \A i \in 1 .. Len(q) : a[i] = q[i]
          BY <1>0
        <4>3. a # << >> /\ a[1] = q[1]
          BY <4>1, <4>2
        <4>4. /\ Len(Tail(a)) = Len(q) /\ Len(Tail(q)) = Len(q) - 1
              /\ \A i \in 1 .. Len(q) - 1 : Tail(a)[i] = a[i + 1] /\ Tail(q)[i] = q[i + 1]
          <5>1. a # << >> /\ q # << >> /\ a \in Seq(Procs) /\ q \in Seq(Procs)
            BY <1>0, <3>6, <4>1, <4>3
          <5> HIDE DEF a, q
          <5> QED
            BY <4>1, <5>1
        <4>5. \A i \in 1 .. Len(q) - 1 : i + 1 \in 1 .. Len(q)
          BY <4>1
        <4>6. Extends(Tail(a), Tail(q))
          <5> HIDE DEF a, q
          <5> QED
            BY <4>1, <4>2, <4>4, <4>5 DEF Extends
        <4>7. again.rq = a
          BY <3>3 DEF Requeued
        <4> QED
          BY <4>3, <4>6, <4>7
      <3> QED
        BY <1>1, <3>3, <3>4, <3>5, <3>6 DEF Requeued
    <2>2. CASE ~(r.st[r.cur] = "RUNNABLE" /\ r.cur # Idle)
      <3>1. again = quiet
        BY <1>1, <2>2 DEF again, sched_class_enqueue, Requeued
      <3> HIDE DEF again
      <3>2. ToSet(r.rq) = {p \in Procs \ {Idle} : r.st[p] = "RUNNABLE"}
        BY <2>2 DEF SchedOK
      <3>3. r.rq # << >> => Extends(Tail(r.rq), Tail(r.rq))
        <4>1. r.rq # << >> => Tail(r.rq) \in Seq(Procs)
          BY <1>0
        <4> QED
          BY <4>1, ExtendsItself
      <3> QED
        BY <1>1, <3>1, <3>2, <3>3 DEF Requeued, SchedOK
    <2> QED
      BY <2>1, <2>2
  <1> HIDE DEF again
  <1>5. again.st[Idle] = "RUNNABLE" /\ \A p \in Procs : again.st[p] = "SLEEPING" <=> again.ws[p] # "0"
    BY <1>4 DEF SchedOK
  <1>6. ToSet(again.rq) = {p \in Procs \ {Idle} : again.st[p] = "RUNNABLE"}
    BY <1>4
  <1>7. /\ SchedOK(m) /\ m.st[m.cur] = "RUNNABLE"
        /\ m.st = again.st /\ m.ws = again.ws /\ m.panic = again.panic
        /\ again.rq # << >> => m.cur = again.rq[1] /\ m.rq = Tail(again.rq)
    BY <1>3, <1>4, <1>5, <1>6, PickNext
  <1>8. Scheduled(r, m)
    BY <1>4, <1>7 DEF Scheduled
  <1> QED
    BY <1>8 DEF m

(* The current process changes its state before it gives up the CPU.       *)
LEMMA CurrentStops ==
    ASSUME NEW r, SchedOK(r), r.cur # Idle, r.st[r.cur] = "RUNNABLE",
           NEW x \in States \ {"RUNNABLE"}, NEW w \in Waits, x = "SLEEPING" <=> w # "0"
    PROVE  LET st == [r.st EXCEPT ![r.cur] = x]
               ws == [r.ws EXCEPT ![r.cur] = w]
           IN  SchedOK(Reset(r, st, ws)) /\ IsReset(r, Reset(r, st, ws), st, ws)
  <1> DEFINE st == [r.st EXCEPT ![r.cur] = x]
             ws == [r.ws EXCEPT ![r.cur] = w]
             m == Reset(r, st, ws)
  <1>0. r \in Records /\ r.cur \in Procs /\ r.st \in [Procs -> States] /\ r.ws \in [Procs -> Waits]
    BY RecordFields DEF SchedOK
  <1>1. st \in [Procs -> States] /\ ws \in [Procs -> Waits]
    BY <1>0
  <1>2. /\ \A p \in Procs : st[p] = IF p = r.cur THEN x ELSE r.st[p]
        /\ \A p \in Procs : ws[p] = IF p = r.cur THEN w ELSE r.ws[p]
    BY <1>0
  <1> HIDE DEF st, ws
  <1>3. IsReset(r, m, st, ws)
    BY <1>0, <1>1, ResetFields
  <1> HIDE DEF m
  <1>4. m \in Records /\ m.st = st /\ m.ws = ws /\ m.cur = r.cur /\ m.rq = r.rq
    BY <1>3 DEF IsReset
  <1>5. ToSet(m.rq) = {p \in Procs \ {Idle, m.cur} : m.st[p] = "RUNNABLE"}
    BY <1>2, <1>4 DEF SchedOK
  <1>6. m.st[Idle] = "RUNNABLE"
    BY <1>2, <1>4 DEF SchedOK, Procs
  <1>7. \A p \in Procs : m.st[p] = "SLEEPING" <=> m.ws[p] # "0"
    BY <1>2, <1>4 DEF SchedOK
  <1>8. SchedOK(m)
    BY <1>4, <1>5, <1>6, <1>7 DEF SchedOK
  <1> QED
    BY <1>3, <1>8 DEF m, st, ws

(* A dead or fresh process is given the fields of alloc_proc.              *)
LEMMA AllocKeeps ==
    ASSUME NEW r, SchedOK(r), NEW c \in Procs \ {Idle, r.cur}, r.st[c] \in {"UNINIT", "ZOMBIE"}
    PROVE  LET st == [r.st EXCEPT ![c] = "UNINIT"]
               ws == [r.ws EXCEPT ![c] = "0"]
           IN  SchedOK(alloc_proc(r, c)) /\ IsReset(r, alloc_proc(r, c), st, ws)
  <1> DEFINE st == [r.st EXCEPT ![c] = "UNINIT"]
             ws == [r.ws EXCEPT ![c] = "0"]
             slice == [r.slice EXCEPT ![c] = 0]
             resched == [r.resched EXCEPT ![c] = FALSE]
             m1 == Reset(r, st, ws)
             m2 == [m1 EXCEPT !.slice = slice]
             m == [m2 EXCEPT !.resched = resched]
  <1>0. r \in Records /\ r.cur \in Procs /\ r.st \in [Procs -> States] /\ r.ws \in [Procs -> Waits]
    BY RecordFields DEF SchedOK
  <1>1. st \in [Procs -> States] /\ ws \in [Procs -> Waits]
    BY <1>0 DEF States, Waits
  <1>2. /\ \A p \in Procs : st[p] = IF p = c THEN "UNINIT" ELSE r.st[p]
        /\ \A p \in Procs : ws[p] = IF p = c THEN "0" ELSE r.ws[p]
    BY <1>0
  <1>3. slice \in [Procs -> 0 .. MAX_TIME_SLICE] /\ resched \in [Procs -> BOOLEAN]
    <2>1. 0 \in 0 .. MAX_TIME_SLICE
      BY SliceAssumption
    <2> QED
      BY <1>0, <2>1, RecordFields
  <1>a. alloc_proc(r, c) = m
    BY DEF alloc_proc, Reset
  <1> HIDE DEF st, ws, slice, resched
  <1>4. IsReset(r, m1, st, ws)
    BY <1>0, <1>1, ResetFields
  <1> HIDE DEF m1
  <1>5. IsReset(r, m2, st, ws)
    BY <1>3, <1>4 DEF IsReset, Records
  <1> HIDE DEF m2
  <1>6. IsReset(r, m, st, ws)
    BY <1>3, <1>5 DEF IsReset, Records
  <1> HIDE DEF m
  <1>7. m \in Records /\ m.st = st /\ m.ws = ws /\ m.cur = r.cur /\ m.rq = r.rq
    BY <1>6 DEF IsReset
  <1>8. ToSet(m.rq) = {p \in Procs \ {Idle, m.cur} : m.st[p] = "RUNNABLE"}
    BY <1>2, <1>7 DEF SchedOK
  <1>9. m.st[Idle] = "RUNNABLE"
    BY <1>2, <1>7 DEF SchedOK, Procs
  <1>10. \A p \in Procs : m.st[p] = "SLEEPING" <=> m.ws[p] # "0"
    BY <1>2, <1>7 DEF SchedOK
  <1>11. SchedOK(m)
    BY <1>7, <1>8, <1>9, <1>10 DEF SchedOK
  <1> QED
    BY <1>6, <1>11, <1>a DEF st, ws

(* The tick of the class touches time slices and need_resched only.        *)
LEMMA TickFields ==
    ASSUME NEW r, SchedOK(r)
    PROVE  SchedOK(sched_class_proc_tick(r)) /\ Requeued(r, sched_class_proc_tick(r), r.rq)
  <1> DEFINE m == sched_class_proc_tick(r)
  <1>0. r \in Records /\ r.cur \in Procs /\ r.slice \in [Procs -> 0 .. MAX_TIME_SLICE]
        /\ r.resched \in [Procs -> BOOLEAN] /\ Idle \in Procs
    BY RecordFields DEF SchedOK, Procs
  <1>1. Requeued(r, m, r.rq)
    <2>1. CASE r.cur = Idle
      <3> DEFINE resched == [r.resched EXCEPT ![Idle] = TRUE]
                 n == [r EXCEPT !.resched = resched]
      <3>1. resched \in [Procs -> BOOLEAN]
        BY <1>0
      <3>2. m = n
        BY <2>1 DEF sched_class_proc_tick
      <3> HIDE DEF resched
      <3>3. Requeued(r, n, r.rq)
        BY <1>0, <3>1 DEF Requeued, Records
      <3> QED
        BY <3>2, <3>3
    <2>2. CASE r.cur # Idle
      <3> DEFINE p == r.cur
                 left == IF r.slice[p] > 0 THEN r.slice[p] - 1 ELSE r.slice[p]
                 slice == [r.slice EXCEPT ![p] = left]
                 resched == [r.resched EXCEPT ![p] = @ \/ left = 0]
                 n1 == [r EXCEPT !.slice = slice]
                 n == [n1 EXCEPT !.resched = resched]
      <3>1. left \in 0 .. MAX_TIME_SLICE
        BY <1>0, SliceAssumption
      <3>2. m = n
        BY <2>2 DEF sched_class_proc_tick, RR_proc_tick
      <3>a. (left = 0) \in BOOLEAN
        OBVIOUS
      <3> HIDE DEF left
      <3>3. slice \in [Procs -> 0 .. MAX_TIME_SLICE]
        BY <1>0, <3>1
      <3>4. resched \in [Procs -> BOOLEAN]
        BY <1>0
      <3> HIDE DEF slice, resched
      <3>5. Requeued(r, n1, r.rq)
        BY <1>0, <3>3 DEF Requeued, Records
      <3> HIDE DEF n1
      <3>6. Requeued(r, n, r.rq)
        BY <3>4, <3>5 DEF Requeued, Records
      <3> QED
        BY <3>2, <3>6
    <2> QED
      BY <2>1, <2>2
  <1> HIDE DEF m
  <1>2. SchedOK(m)
    BY <1>1 DEF SchedOK, Requeued
  <1> QED
    BY <1>1, <1>2 DEF m

-----------------------------------------------------------------------------
(* The keyboard's wait queue.                                              *)
LEMMA UnlinkOne ==
    ASSUME NEW P, NEW s \in Seq(P), Once(s), NEW x \in ToSet(s)
    PROVE  Unlink(s, x) \in Seq(P) /\ Once(Unlink(s, x)) /\ ToSet(Unlink(s, x)) = ToSet(s) \ {x}
  <1> DEFINE at == CHOOSE i \in 1 .. Len(s) : s[i] = x
             a == SubSeq(s, 1, at - 1)
             b == SubSeq(s, at + 1, Len(s))
             r == Unlink(s, x)
             from(i) == IF i < at THEN i ELSE i + 1
  <1>1. at \in 1 .. Len(s) /\ s[at] = x
    BY SetOf
  <1>2. r = a \o b
    BY DEF Unlink, RemoveAt
  <1> HIDE DEF at, r
  <1>3. Len(s) \in Nat /\ at \in Nat
    BY <1>1
  <1>4. a \in Seq(P) /\ Len(a) = at - 1 /\ \A i \in 1 .. at - 1 : a[i] = s[i]
    BY <1>1, <1>3
  <1>5. b \in Seq(P) /\ Len(b) = Len(s) - at /\ \A i \in 1 .. Len(s) - at : b[i] = s[at + i]
    BY <1>1, <1>3
  <1> HIDE DEF a, b
  <1>6. r \in Seq(P) /\ Len(r) = Len(s) - 1
    <2>1. a \o b \in Seq(P) /\ Len(a \o b) = Len(a) + Len(b)
      BY <1>4, <1>5
    <2>2. Len(a) + Len(b) = Len(s) - 1
      BY <1>3, <1>4, <1>5
    <2> QED
      BY <1>2, <2>1, <2>2
  <1>7. \A i \in 1 .. Len(r) : r[i] = s[from(i)] /\ from(i) \in 1 .. Len(s) /\ from(i) # at
    <2> SUFFICES ASSUME NEW i \in 1 .. Len(r)
                 PROVE  r[i] = s[from(i)] /\ from(i) \in 1 .. Len(s) /\ from(i) # at
      OBVIOUS
    <2>1. from(i) \in 1 .. Len(s) /\ from(i) # at
      BY <1>1, <1>3, <1>6
    <2>2. r[i] = IF i <= at - 1 THEN a[i] ELSE b[i - (at - 1)]
      BY <1>1, <1>2, <1>3, <1>4, <1>5, <1>6
    <2>3. i <= at - 1 => a[i] = s[i]
      BY <1>3, <1>4
    <2>4. i > at - 1 => b[i - (at - 1)] = s[i + 1]
      <3>1. i > at - 1 => i - (at - 1) \in 1 .. Len(s) - at /\ at + (i - (at - 1)) = i + 1
        BY <1>1, <1>3, <1>6
      <3> QED
        BY <1>5, <3>1
    <2> QED
      BY <1>1, <1>3, <2>1, <2>2, <2>3, <2>4
  <1>8. \A i, j \in 1 .. Len(r) : from(i) = from(j) => i = j
    BY <1>3
  <1>9. \A j \in 1 .. Len(s) : j # at => \E i \in 1 .. Len(r) : from(i) = j
    <2> SUFFICES ASSUME NEW j \in 1 .. Len(s), j # at PROVE \E i \in 1 .. Len(r) : from(i) = j
      OBVIOUS
    <2>1. CASE j < at
      <3>1. j \in 1 .. Len(r) /\ from(j) = j
        BY <1>1, <1>3, <1>6, <2>1
      <3> QED
        BY <3>1
    <2>2. CASE j > at
      <3>1. j - 1 \in 1 .. Len(r) /\ from(j - 1) = j
        BY <1>1, <1>3, <1>6, <2>2
      <3> QED
        BY <3>1
    <2> QED
      BY <1>3, <2>1, <2>2
  <1> HIDE DEF from
  <1>10. Once(r)
    <2> SUFFICES ASSUME NEW i \in 1 .. Len(r), NEW j \in 1 .. Len(r), r[i] = r[j] PROVE i = j
      BY DEF Once
    <2>1. from(i) = from(j)
      BY <1>7 DEF Once
    <2> QED
      BY <1>8, <2>1
  <1>11. ASSUME NEW y PROVE y \in ToSet(r) <=> y \in ToSet(s) /\ y # x
    <2>1. ASSUME NEW i \in 1 .. Len(r), r[i] = y PROVE y \in ToSet(s) /\ y # x
      <3>1. s[from(i)] = y /\ from(i) \in 1 .. Len(s) /\ from(i) # at
        BY <1>7, <2>1
      <3>2. y # x
        BY <1>1, <3>1 DEF Once
      <3> QED
        BY <3>1, <3>2, SetOf
    <2>2. ASSUME NEW j \in 1 .. Len(s), s[j] = y, y # x PROVE y \in ToSet(r)
      <3>1. j # at
        BY <1>1, <2>2
      <3>2. PICK i \in 1 .. Len(r) : from(i) = j
        BY <1>9, <3>1
      <3>3. r[i] = y
        BY <1>7, <2>2, <3>2
      <3> QED
        BY <1>6, <3>3, SetOf
    <2> QED
      BY <1>6, <2>1, <2>2, SetOf
  <1>12. ToSet(r) = ToSet(s) \ {x}
    BY <1>11
  <1> QED
    BY <1>6, <1>10, <1>12 DEF r

LEMMA KbdqWithoutKeeps ==
    ASSUME kbdq \in Seq(User), Once(kbdq), NEW p
    PROVE  /\ KbdqWithout(p) \in Seq(User) /\ Once(KbdqWithout(p))
           /\ ToSet(KbdqWithout(p)) = ToSet(kbdq) \ {p}
  <1>1. CASE p \in ToSet(kbdq)
    BY <1>1, UnlinkOne DEF KbdqWithout
  <1>2. CASE p \notin ToSet(kbdq)
    BY <1>2 DEF KbdqWithout
  <1> QED
    BY <1>1, <1>2

LEMMA ExtendsTail ==
    ASSUME NEW P, NEW q \in Seq(P), q # << >>, NEW r \in Seq(P), Extends(r, q)
    PROVE  r # << >> /\ r[1] = q[1] /\ Extends(Tail(r), Tail(q))
  <1>1. Len(q) \in Nat \ {0} /\ Len(r) \in Nat
    OBVIOUS
  <1>2. Len(q) <= Len(r) /\ r[1] = q[1] /\ r # << >>
    BY <1>1 DEF Extends
  <1>3. /\ Len(Tail(q)) = Len(q) - 1 /\ Len(Tail(r)) = Len(r) - 1
        /\ \A i \in 1 .. Len(q) - 1 : Tail(q)[i] = q[i + 1]
        /\ \A i \in 1 .. Len(r) - 1 : Tail(r)[i] = r[i + 1]
    BY <1>2
  <1>4. \A i \in 1 .. Len(q) - 1 : Tail(r)[i] = Tail(q)[i]
    <2> SUFFICES ASSUME NEW i \in 1 .. Len(q) - 1 PROVE Tail(r)[i] = Tail(q)[i]
      OBVIOUS
    <2>1. i \in 1 .. Len(r) - 1 /\ i + 1 \in 1 .. Len(q)
      BY <1>1, <1>2
    <2>2. r[i + 1] = q[i + 1]
      BY <2>1 DEF Extends
    <2> QED
      BY <1>3, <2>1, <2>2
  <1>5. Len(Tail(q)) <= Len(Tail(r))
    BY <1>1, <1>2, <1>3
  <1> QED
    BY <1>2, <1>3, <1>4, <1>5 DEF Extends

-----------------------------------------------------------------------------
(* Where a process may be, and what its state and its wait state say of the *)
(* place: the frame of do_sleep has a timer on the list until the timer has *)
(* fired, the frame of dev_stdin_read an entry in the queue until a key has *)
(* come, and who sleeps is in the function that it sleeps in.              *)
InitPoints == {"initfork", "initsched", "initdone", "wait", "waited", "exit"}
UserPoints == {"none", "user", "trapret", "exit", "wait", "waited", "sleep", "kbd", "kmain"}
Points == {"none", "user", "trapret", "exit", "wait", "waited", "sleep", "kbd",
           "idle", "initfork", "initsched", "initdone", "kmain"}

InPlace(p) ==
    /\ p = Idle => pc[p] = "idle"
    /\ p = Init0 => pc[p] \in InitPoints
    /\ p \in User => pc[p] \in UserPoints

Placed(p) ==
    /\ InPlace(p)
    /\ pc[p] = "none" <=> k.st[p] = "UNINIT"
    /\ k.st[p] = "ZOMBIE" => p \in User /\ pc[p] = "exit"
    /\ k.ws[p] = "WT_CHILD" => pc[p] = "waited"
    /\ k.ws[p] = "WT_TIMER" => pc[p] = "sleep" /\ HasTimer(timers, p)
    /\ k.ws[p] = "WT_KBD" => pc[p] = "kbd" /\ p \in ToSet(kbdq)
    /\ HasTimer(timers, p) => pc[p] = "sleep"
    /\ p \in ToSet(kbdq) => pc[p] = "kbd"
    /\ p # Idle /\ pc[p] # "none" => tree.parent[p] \in Procs

TimersOK == IsList(timers, User) /\ \A q : Left(timers, q) <= MaxTicks
ReadersOK == kbdq \in Seq(User) /\ Once(kbdq) /\ keyed \in [Procs -> BOOLEAN]
RestOK ==
    /\ exiting \in [Procs -> BOOLEAN] /\ pc \in [Procs -> Points]
    /\ waitFor \in [Procs -> User \cup {None}] /\ mm \in [Procs -> BOOLEAN]

SInv ==
    /\ SchedOK(k) /\ k.st[k.cur] = "RUNNABLE"
    /\ TimersOK /\ ReadersOK /\ RestOK /\ tree \in Trees(Procs)
    /\ \A p \in Procs : Placed(p)

(* What a step does to the run queue.                                      *)
Orderly(r, m) ==
    \/ m.cur = r.cur /\ Extends(m.rq, r.rq)
    \/ r.rq # << >> => m.cur = r.rq[1] /\ Extends(m.rq, Tail(r.rq))

(* A process that a step leaves where it is, and may wake.                 *)
LEMMA StaysPlaced ==
    ASSUME NEW p \in Procs, Placed(p), pc'[p] = pc[p],
           \/ k'.st[p] = k.st[p] /\ k'.ws[p] = k.ws[p]
           \/ k'.st[p] = "RUNNABLE" /\ k'.ws[p] = "0" /\ k.st[p] # "UNINIT",
           HasTimer(timers', p) => HasTimer(timers, p),
           k'.ws[p] = "WT_TIMER" /\ HasTimer(timers, p) => HasTimer(timers', p),
           p \in ToSet(kbdq') => p \in ToSet(kbdq),
           k'.ws[p] = "WT_KBD" /\ p \in ToSet(kbdq) => p \in ToSet(kbdq'),
           p # Idle /\ pc[p] # "none" => tree'.parent[p] \in Procs
    PROVE  Placed(p)'
  <1>1. InPlace(p)'
    BY DEF Placed, InPlace
  <1>2. pc'[p] = "none" <=> k'.st[p] = "UNINIT"
    BY DEF Placed
  <1>3. k'.st[p] = "ZOMBIE" => p \in User /\ pc'[p] = "exit"
    BY DEF Placed
  <1>4. /\ k'.ws[p] = "WT_CHILD" => pc'[p] = "waited"
        /\ k'.ws[p] = "WT_TIMER" => pc'[p] = "sleep" /\ HasTimer(timers', p)
        /\ k'.ws[p] = "WT_KBD" => pc'[p] = "kbd" /\ p \in ToSet(kbdq')
    BY DEF Placed
  <1>5. /\ HasTimer(timers', p) => pc'[p] = "sleep"
        /\ p \in ToSet(kbdq') => pc'[p] = "kbd"
        /\ p # Idle /\ pc'[p] # "none" => tree'.parent[p] \in Procs
    BY DEF Placed
  <1> QED
    BY <1>1, <1>2, <1>3, <1>4, <1>5 DEF Placed

(* The process on the CPU goes on to another point.                        *)
Continues(p) ==
    /\ pc' \in [Procs -> Points] /\ InPlace(p)' /\ pc'[p] # "none"
    /\ \A q \in Procs \ {p} : pc'[q] = pc[q]

LEMMA GotoContinues ==
    ASSUME pc \in [Procs -> Points], NEW p \in Procs, NEW x \in Points \ {"none"}, Goto(p, x),
           p = Idle => x = "idle", p = Init0 => x \in InitPoints, p \in User => x \in UserPoints
    PROVE  Continues(p) /\ pc'[p] = x
  BY DEF Goto, Continues, InPlace

LEMMA CurPlaced ==
    ASSUME NEW p \in Procs, Continues(p), k'.st[p] = "RUNNABLE", k'.ws[p] = "0",
           ~HasTimer(timers', p), p \notin ToSet(kbdq'), p # Idle => tree'.parent[p] \in Procs
    PROVE  Placed(p)'
  <1>1. InPlace(p)' /\ pc'[p] # "none"
    BY DEF Continues
  <1>2. k'.st[p] \notin {"UNINIT", "ZOMBIE"} /\ k'.ws[p] \notin {"WT_CHILD", "WT_TIMER", "WT_KBD"}
    OBVIOUS
  <1> QED
    BY <1>1, <1>2 DEF Placed

RestTyped ==
    /\ exiting \in [Procs -> BOOLEAN] /\ waitFor \in [Procs -> User \cup {None}]
    /\ mm \in [Procs -> BOOLEAN]

(* What SInv says of the process on the CPU.                               *)
LEMMA CurRuns ==
    ASSUME SInv
    PROVE  /\ k.cur \in Procs /\ k.st[k.cur] = "RUNNABLE" /\ k.ws[k.cur] = "0" /\ pc[k.cur] # "none"
           /\ k.cur # Idle => tree.parent[k.cur] \in Procs
           /\ HasTimer(timers, k.cur) => pc[k.cur] = "sleep"
           /\ k.cur \in ToSet(kbdq) => pc[k.cur] = "kbd"
           /\ k \in Records
  <1>1. k.cur \in Procs /\ k.st[k.cur] = "RUNNABLE" /\ k \in Records
    BY RecordFields DEF SInv, SchedOK
  <1>2. k.ws[k.cur] = "0"
    BY <1>1 DEF SInv, SchedOK
  <1>3. Placed(k.cur)
    BY <1>1 DEF SInv
  <1> QED
    BY <1>1, <1>2, <1>3 DEF Placed

(* A step after which only the process on the CPU is elsewhere, and awake.  *)
LEMMA LocalStep ==
    ASSUME SInv, NEW p \in Procs, p = k.cur, Continues(p), tree' = tree,
           SchedOK(k'), k'.st[k'.cur] = "RUNNABLE", k'.st = k.st, k'.ws = k.ws,
           TimersOK', ReadersOK', RestTyped',
           \A q : HasTimer(timers', q) <=> q # p /\ HasTimer(timers, q),
           ToSet(kbdq') = ToSet(kbdq) \ {p}
    PROVE  SInv'
  <1>1. Placed(p)'
    <2>1. k'.st[p] = "RUNNABLE" /\ k'.ws[p] = "0" /\ (p # Idle => tree'.parent[p] \in Procs)
      BY CurRuns
    <2>2. ~HasTimer(timers', p) /\ p \notin ToSet(kbdq')
      OBVIOUS
    <2> QED
      BY <2>1, <2>2, CurPlaced
  <1>2. ASSUME NEW q \in Procs, q # p PROVE Placed(q)'
    <2>1. Placed(q) /\ pc'[q] = pc[q]
      BY <1>2 DEF SInv, Continues
    <2>2. /\ HasTimer(timers', q) <=> HasTimer(timers, q)
          /\ q \in ToSet(kbdq') <=> q \in ToSet(kbdq)
      BY <1>2
    <2>3. q # Idle /\ pc[q] # "none" => tree'.parent[q] \in Procs
      BY <2>1 DEF Placed
    <2> QED
      BY <2>1, <2>2, <2>3, StaysPlaced
  <1>3. \A q \in Procs : Placed(q)'
    BY <1>1, <1>2
  <1>4. RestOK' /\ tree' \in Trees(Procs)
    BY DEF RestOK, RestTyped, Continues, SInv
  <1> QED
    BY <1>3, <1>4 DEF SInv

(* The same, where neither timers nor the keyboard are concerned.          *)
LEMMA QuietStep ==
    ASSUME SInv, NEW p \in Procs, p = k.cur, Continues(p), tree' = tree,
           SchedOK(k'), k'.st[k'.cur] = "RUNNABLE", k'.st = k.st, k'.ws = k.ws,
           pc[p] \notin {"sleep", "kbd"}, timers' = timers, kbdq' = kbdq, keyed' = keyed, RestTyped'
    PROVE  SInv'
  <1>1. ~HasTimer(timers, p) /\ p \notin ToSet(kbdq)
    BY CurRuns
  <1>2. \A q : HasTimer(timers', q) <=> q # p /\ HasTimer(timers, q)
    BY <1>1
  <1>3. ToSet(kbdq') = ToSet(kbdq) \ {p}
    BY <1>1
  <1>4. TimersOK' /\ ReadersOK'
    BY DEF SInv, TimersOK, ReadersOK
  <1> QED
    BY <1>2, <1>3, <1>4, LocalStep

LEMMA OrderlyStay == ASSUME SInv, k'.cur = k.cur, k'.rq = k.rq PROVE Orderly(k, k')
  <1>1. k.rq \in Seq(Procs)
    BY CurRuns, RecordFields
  <1> QED
    BY <1>1, ExtendsItself DEF Orderly

LEMMA OrderlyPick ==
    ASSUME SInv, NEW m, SchedOK(m), Extends(m.rq, k.rq), Scheduled(m, k')
    PROVE  Orderly(k, k')
  <1>1. k.rq \in Seq(Procs) /\ m.rq \in Seq(Procs) /\ k'.rq \in Seq(Procs)
    BY CurRuns, RecordFields DEF SchedOK, Scheduled
  <1>2. CASE k.rq # << >>
    <2>1. m.rq # << >> /\ m.rq[1] = k.rq[1] /\ Extends(Tail(m.rq), Tail(k.rq))
      BY <1>1, <1>2, ExtendsTail
    <2>2. k'.cur = m.rq[1] /\ Extends(k'.rq, Tail(m.rq))
      BY <2>1 DEF Scheduled
    <2>3. Tail(m.rq) \in Seq(Procs) /\ Tail(k.rq) \in Seq(Procs)
      BY <1>1, <1>2, <2>1
    <2>4. Extends(k'.rq, Tail(k.rq))
      BY <1>1, <2>1, <2>2, <2>3, ExtendsMore
    <2> QED
      BY <2>1, <2>2, <2>4 DEF Orderly
  <1> QED
    BY <1>2 DEF Orderly

LEMMA ScheduleNow ==
    ASSUME SInv, k' = schedule(k)
    PROVE  /\ SchedOK(k') /\ k'.st[k'.cur] = "RUNNABLE" /\ k'.st = k.st /\ k'.ws = k.ws
           /\ k'.panic = k.panic /\ Orderly(k, k')
  <1>1. SchedOK(k) /\ k.rq \in Seq(Procs)
    BY CurRuns, RecordFields DEF SInv
  <1>2. Scheduled(k, k')
    BY <1>1, ScheduleServes
  <1>3. Orderly(k, k')
    BY <1>1, <1>2, ExtendsItself, OrderlyPick
  <1> QED
    BY <1>2, <1>3 DEF Scheduled

(* The current process falls asleep, in the function that w stands for.    *)
LEMMA SleepStep ==
    ASSUME SInv, NEW p \in Procs \ {Idle}, p = k.cur, Continues(p), tree' = tree,
           NEW w \in Interruptible, k' = schedule([k EXCEPT !.st[p] = "SLEEPING", !.ws[p] = w]),
           TimersOK', ReadersOK', RestTyped',
           w = "WT_CHILD" => pc'[p] = "waited",
           w = "WT_TIMER" => pc'[p] = "sleep",
           w = "WT_KBD" => pc'[p] = "kbd",
           \A q : HasTimer(timers', q) <=> (q # p /\ HasTimer(timers, q)) \/ (q = p /\ w = "WT_TIMER"),
           \A q : q \in ToSet(kbdq') <=> (q # p /\ q \in ToSet(kbdq)) \/ (q = p /\ w = "WT_KBD")
    PROVE  SInv' /\ Orderly(k, k') /\ k'.panic = k.panic
           /\ k'.st = [k.st EXCEPT ![p] = "SLEEPING"] /\ k'.ws = [k.ws EXCEPT ![p] = w]
  <1> DEFINE st == [k.st EXCEPT ![p] = "SLEEPING"]
             ws == [k.ws EXCEPT ![p] = w]
             m == Reset(k, st, ws)
  <1>0. w \in Waits /\ w # "0" /\ "SLEEPING" \in States \ {"RUNNABLE"}
    BY DEF Waits, Interruptible, States
  <1>1. SchedOK(k) /\ k.st[p] = "RUNNABLE" /\ k \in Records /\ k.rq \in Seq(Procs)
        /\ k.st \in [Procs -> States] /\ k.ws \in [Procs -> Waits]
    BY CurRuns, RecordFields DEF SInv
  <1>2. SchedOK(m) /\ IsReset(k, m, st, ws)
    BY <1>0, <1>1, CurrentStops
  <1>3. [k EXCEPT !.st[p] = "SLEEPING", !.ws[p] = w] = m
    BY DEF Reset
  <1>a. /\ \A q \in Procs : st[q] = IF q = p THEN "SLEEPING" ELSE k.st[q]
        /\ \A q \in Procs : ws[q] = IF q = p THEN w ELSE k.ws[q]
    BY <1>1
  <1> HIDE DEF m, st, ws
  <1>4. Scheduled(m, k')
    BY <1>2, <1>3, ScheduleServes
  <1>5. Orderly(k, k')
    <2>1. Extends(m.rq, k.rq)
      BY <1>1, <1>2, ExtendsItself DEF IsReset
    <2> QED
      BY <1>2, <1>4, <2>1, OrderlyPick
  <1>6. /\ SchedOK(k') /\ k'.st[k'.cur] = "RUNNABLE" /\ k'.st = st /\ k'.ws = ws
        /\ k'.panic = k.panic
    BY <1>2, <1>4 DEF Scheduled, IsReset
  <1>7. Placed(p)'
    <2>1. k'.st[p] = "SLEEPING" /\ k'.ws[p] = w
      BY <1>6, <1>a
    <2>2. InPlace(p)' /\ pc'[p] # "none" /\ tree'.parent[p] \in Procs
      BY CurRuns DEF Continues
    <2>3. /\ HasTimer(timers', p) <=> w = "WT_TIMER"
          /\ p \in ToSet(kbdq') <=> w = "WT_KBD"
      OBVIOUS
    <2> QED
      BY <2>1, <2>2, <2>3 DEF Placed
  <1>8. ASSUME NEW q \in Procs, q # p PROVE Placed(q)'
    <2>1. Placed(q) /\ pc'[q] = pc[q]
      BY <1>8 DEF SInv, Continues
    <2>2. /\ HasTimer(timers', q) <=> HasTimer(timers, q)
          /\ q \in ToSet(kbdq') <=> q \in ToSet(kbdq)
      BY <1>8
    <2>3. q # Idle /\ pc[q] # "none" => tree'.parent[q] \in Procs
      BY <2>1 DEF Placed
    <2>4. k'.st[q] = k.st[q] /\ k'.ws[q] = k.ws[q]
      BY <1>6, <1>8, <1>a
    <2> QED
      BY <2>1, <2>2, <2>3, <2>4, StaysPlaced
  <1>9. \A q \in Procs : Placed(q)'
    BY <1>7, <1>8
  <1>10. RestOK' /\ tree' \in Trees(Procs)
    BY DEF RestOK, RestTyped, Continues, SInv
  <1>11. SInv'
    BY <1>6, <1>9, <1>10 DEF SInv
  <1> QED
    BY <1>5, <1>6, <1>11 DEF st, ws

-----------------------------------------------------------------------------
(* The steps, one by one.                                                  *)
Kept == SInv' /\ Orderly(k, k')

LEMMA UserIsCurrent ==
    ASSUME SInv, pc[k.cur] \in {"user", "trapret", "sleep", "kbd", "kmain"}
    PROVE  k.cur \in User
  <1>1. InPlace(k.cur)
    BY CurRuns DEF SInv, Placed
  <1> QED
    BY <1>1, CurRuns DEF InPlace, InitPoints, Procs

LEMMA QuietGoto ==
    ASSUME SInv, NEW p \in Procs, p = k.cur, NEW x \in Points \ {"none"}, Goto(p, x),
           p = Idle => x = "idle", p = Init0 => x \in InitPoints, p \in User => x \in UserPoints,
           pc[p] \notin {"sleep", "kbd"}, UNCHANGED <<k, timers, kbdq, keyed, tree>>, RestTyped'
    PROVE  Kept
  <1>1. Continues(p)
    BY GotoContinues DEF SInv, RestOK
  <1>2. SchedOK(k') /\ k'.st[k'.cur] = "RUNNABLE" /\ k'.st = k.st /\ k'.ws = k.ws
    BY DEF SInv
  <1>3. SInv'
    BY <1>1, <1>2, QuietStep
  <1>4. Orderly(k, k')
    BY OrderlyStay
  <1> QED
    BY <1>3, <1>4 DEF Kept

LEMMA RestStays == ASSUME SInv PROVE RestTyped
  BY DEF SInv, RestOK, RestTyped

(* The calls of a user process that change nothing of the scheduler.       *)
LEMMA UserGoto ==
    ASSUME SInv, pc[k.cur] \in {"user", "kmain", "trapret"}, NEW x \in UserPoints \ {"none"}, Goto(k.cur, x),
           UNCHANGED <<k, timers, kbdq, keyed, tree>>, RestTyped'
    PROVE  Kept
  <1>1. k.cur \in User
    BY UserIsCurrent
  <1> PICK p \in Procs : p = k.cur
    BY CurRuns
  <1>2. x \in Points \ {"none"} /\ p # Idle /\ p # Init0
    BY <1>1, ProcAssumption DEF UserPoints, Points
  <1> QED
    BY <1>2, QuietGoto

LEMMA sys_exit_keeps == ASSUME SInv, sys_exit PROVE Kept
  <1>1. pc[k.cur] = "user" /\ Goto(k.cur, "exit") /\ UNCHANGED <<k, timers, kbdq, keyed, tree>>
    BY DEF sys_exit, Calling, At
  <1>2. RestTyped'
    BY RestStays DEF sys_exit, RestTyped
  <1> QED
    BY <1>1, <1>2, UserGoto DEF UserPoints

LEMMA sys_wait_keeps == ASSUME SInv, sys_wait PROVE Kept
  <1>1. pc[k.cur] = "user" /\ Goto(k.cur, "wait") /\ UNCHANGED <<k, timers, kbdq, keyed, tree>>
    BY DEF sys_wait, Calling, At
  <1>2. RestTyped'
    BY RestStays, CurRuns DEF sys_wait, RestTyped
  <1> QED
    BY <1>1, <1>2, UserGoto DEF UserPoints

LEMMA do_execve_fails_keeps == ASSUME SInv, do_execve_fails PROVE Kept
  <1>1. /\ pc[k.cur] \in {"user", "kmain"} /\ Goto(k.cur, "exit")
        /\ UNCHANGED <<k, timers, kbdq, keyed, tree>>
    BY DEF do_execve_fails, Calling, At
  <1>2. RestTyped'
    BY RestStays, CurRuns DEF do_execve_fails, RestTyped
  <1> QED
    BY <1>1, <1>2, UserGoto DEF UserPoints

LEMMA do_execve_no_page_keeps == ASSUME SInv, do_execve_no_page PROVE Kept
  <1>1. pc[k.cur] = "user" /\ Goto(k.cur, "trapret") /\ UNCHANGED <<k, timers, kbdq, keyed, tree>>
    BY DEF do_execve_no_page, Calling, At
  <1>2. RestTyped'
    BY RestStays, CurRuns DEF do_execve_no_page, RestTyped
  <1> QED
    BY <1>1, <1>2, UserGoto DEF UserPoints

LEMMA do_execve_keeps == ASSUME SInv, do_execve PROVE Kept
  <1>1. pc[k.cur] \in {"user", "kmain"} /\ UNCHANGED <<k, timers, kbdq, keyed, tree>>
    BY DEF do_execve, Calling, At
  <1>2. RestTyped'
    BY RestStays, CurRuns DEF do_execve, RestTyped
  <1>3. Goto(k.cur, "user") \/ Goto(k.cur, "trapret")
    BY DEF do_execve
  <1> QED
    BY <1>1, <1>2, <1>3, UserGoto DEF UserPoints

LEMMA sys_other_keeps == ASSUME SInv, sys_other \/ fault PROVE Kept
  <1>1. pc[k.cur] = "user" /\ Goto(k.cur, "trapret") /\ UNCHANGED <<k, timers, kbdq, keyed, tree>>
    BY DEF sys_other, fault, Calling, At
  <1>2. RestTyped'
    BY RestStays DEF sys_other, fault, RestTyped
  <1> QED
    BY <1>1, <1>2, UserGoto DEF UserPoints

LEMMA do_yield_keeps == ASSUME SInv, do_yield PROVE Kept
  <1> PICK p \in Procs : p = k.cur
    BY CurRuns
  <1>1. pc[p] = "user" /\ Goto(p, "trapret") /\ UNCHANGED <<timers, kbdq, keyed, tree>>
    BY DEF do_yield, Calling, At
  <1>2. p \in User
    BY <1>1, UserIsCurrent
  <1>3. Continues(p)
    BY <1>1, <1>2, GotoContinues, ProcAssumption DEF SInv, RestOK, Points, UserPoints
  <1>4. RestTyped'
    BY RestStays DEF do_yield, RestTyped
  <1> DEFINE resched == [k.resched EXCEPT ![p] = TRUE]
  <1>5. k' = [k EXCEPT !.resched = resched] /\ k \in Records
    BY CurRuns DEF do_yield
  <1>6. resched \in [Procs -> BOOLEAN]
    BY <1>5, RecordFields
  <1> HIDE DEF resched
  <1>7. Requeued(k, k', k.rq)
    BY <1>5, <1>6 DEF Records, Requeued
  <1>8. SchedOK(k') /\ k'.st[k'.cur] = "RUNNABLE" /\ k'.st = k.st /\ k'.ws = k.ws
    BY <1>7 DEF SInv, SchedOK, Requeued
  <1>9. SInv'
    BY <1>1, <1>3, <1>4, <1>8, QuietStep
  <1>10. Orderly(k, k')
    BY <1>7, OrderlyStay DEF Requeued
  <1> QED
    BY <1>9, <1>10 DEF Kept

LEMMA trap_return_keeps == ASSUME SInv, trap_return PROVE Kept
  <1> PICK p \in Procs : p = k.cur
    BY CurRuns
  <1>1. pc[p] = "trapret" /\ UNCHANGED <<timers, kbdq, keyed, tree>>
    BY DEF trap_return, At
  <1>2. p \in User
    BY <1>1, UserIsCurrent
  <1>3. RestTyped'
    BY RestStays DEF trap_return, RestTyped
  <1>4. CASE UNCHANGED k
    <2>1. Goto(p, "exit") \/ Goto(p, "user")
      BY DEF trap_return
    <2> QED
      BY <1>1, <1>3, <1>4, <2>1, UserGoto DEF UserPoints
  <1>5. CASE Goto(p, "user") /\ k' = schedule(k)
    <2>1. Continues(p)
      BY <1>2, <1>5, GotoContinues, ProcAssumption DEF SInv, RestOK, Points, UserPoints
    <2>2. SchedOK(k') /\ k'.st[k'.cur] = "RUNNABLE" /\ k'.st = k.st /\ k'.ws = k.ws /\ Orderly(k, k')
      BY <1>5, ScheduleNow
    <2>3. SInv'
      BY <1>1, <1>3, <2>1, <2>2, QuietStep
    <2> QED
      BY <2>2, <2>3 DEF Kept
  <1> QED
    BY <1>4, <1>5 DEF trap_return

(* A failed assertion leaves everything but panic as it was.               *)
LEMMA PanicKeeps ==
    ASSUME SInv, NEW why \in Ends, k' = Panic(k, why)
    PROVE  /\ SchedOK(k') /\ k'.st[k'.cur] = "RUNNABLE" /\ k'.st = k.st /\ k'.ws = k.ws
           /\ Orderly(k, k')
  <1>1. k \in Records
    BY CurRuns
  <1>2. /\ k' \in Records /\ k'.cur = k.cur /\ k'.rq = k.rq /\ k'.st = k.st /\ k'.ws = k.ws
    <2>1. CASE k.panic # "none"
      BY <1>1, <2>1 DEF Panic
    <2>2. CASE k.panic = "none"
      BY <1>1, <2>2 DEF Panic, Records
    <2> QED
      BY <2>1, <2>2
  <1>3. SchedOK(k')
    BY <1>2 DEF SInv, SchedOK
  <1>4. Orderly(k, k')
    BY <1>2, OrderlyStay
  <1> QED
    BY <1>2, <1>3, <1>4 DEF SInv

(* A step that leaves the process on the CPU where it is.                  *)
LEMMA SameContinues ==
    ASSUME SInv, NEW p \in Procs, p = k.cur, pc' = pc
    PROVE  Continues(p)
  <1>1. InPlace(p) /\ pc[p] # "none"
    BY CurRuns DEF SInv, Placed
  <1> QED
    BY <1>1 DEF Continues, InPlace, SInv, RestOK

LEMMA cpu_idle_keeps == ASSUME SInv, cpu_idle PROVE Kept
  <1> PICK p \in Procs : p = k.cur
    BY CurRuns
  <1>1. pc[p] = "idle" /\ k' = schedule(k) /\ pc' = pc /\ UNCHANGED <<timers, kbdq, keyed, tree>>
    BY DEF cpu_idle, At
  <1>2. RestTyped'
    BY RestStays DEF cpu_idle, RestTyped
  <1>3. SchedOK(k') /\ k'.st[k'.cur] = "RUNNABLE" /\ k'.st = k.st /\ k'.ws = k.ws /\ Orderly(k, k')
    BY <1>1, ScheduleNow
  <1>4. Continues(p)
    BY <1>1, SameContinues
  <1>5. SInv'
    BY <1>1, <1>2, <1>3, <1>4, QuietStep
  <1> QED
    BY <1>3, <1>5 DEF Kept

LEMMA InitIsCurrent ==
    ASSUME SInv, pc[k.cur] \in {"initfork", "initsched", "initdone"}
    PROVE  k.cur = Init0
  <1>1. InPlace(k.cur)
    BY CurRuns DEF SInv, Placed
  <1> QED
    BY <1>1, CurRuns DEF InPlace, UserPoints, Procs

LEMMA init_main_loop_keeps == ASSUME SInv, init_main_loop PROVE Kept
  <1> PICK p \in Procs : p = k.cur
    BY CurRuns
  <1>1. pc[p] = "initsched" /\ k' = schedule(k) /\ UNCHANGED <<timers, kbdq, keyed, tree>>
    BY DEF init_main_loop, At
  <1>2. p = Init0 /\ Goto(p, "wait")
    BY <1>1, InitIsCurrent DEF init_main_loop
  <1>3. RestTyped'
    BY RestStays DEF init_main_loop, RestTyped
  <1>4. SchedOK(k') /\ k'.st[k'.cur] = "RUNNABLE" /\ k'.st = k.st /\ k'.ws = k.ws /\ Orderly(k, k')
    BY <1>1, ScheduleNow
  <1>5. Continues(p)
    BY <1>2, GotoContinues, ProcAssumption DEF SInv, RestOK, Points, InitPoints
  <1>6. SInv'
    BY <1>1, <1>3, <1>4, <1>5, QuietStep
  <1> QED
    BY <1>4, <1>6 DEF Kept

LEMMA init_main_done_keeps == ASSUME SInv, init_main_done PROVE Kept
  <1> PICK p \in Procs : p = k.cur
    BY CurRuns
  <1>1. pc[p] = "initdone" /\ UNCHANGED <<timers, kbdq, keyed, tree>>
    BY DEF init_main_done, At
  <1>2. p = Init0
    BY <1>1, InitIsCurrent
  <1>3. RestTyped'
    BY RestStays DEF init_main_done, RestTyped
  <1>4. CASE Goto(p, "exit") /\ UNCHANGED k
    BY <1>1, <1>2, <1>3, <1>4, QuietGoto, ProcAssumption DEF Points, InitPoints
  <1>5. CASE k' = Panic(k, "init_main") /\ UNCHANGED pc
    <2>1. SchedOK(k') /\ k'.st[k'.cur] = "RUNNABLE" /\ k'.st = k.st /\ k'.ws = k.ws /\ Orderly(k, k')
      BY <1>5, PanicKeeps DEF Ends
    <2>2. Continues(p)
      BY <1>5, SameContinues
    <2>3. SInv'
      BY <1>1, <1>3, <2>1, <2>2, QuietStep
    <2> QED
      BY <2>1, <2>3 DEF Kept
  <1> QED
    BY <1>2, <1>4, <1>5 DEF init_main_done

LEMMA do_wait_resume_keeps == ASSUME SInv, do_wait_resume PROVE Kept
  <1> PICK p \in Procs : p = k.cur
    BY CurRuns
  <1>1. pc[p] = "waited" /\ UNCHANGED <<k, timers, kbdq, keyed, tree>>
    BY DEF do_wait_resume, At
  <1>2. p # Idle
    BY <1>1, CurRuns DEF SInv, Placed, InPlace
  <1>3. RestTyped'
    BY RestStays, CurRuns DEF do_wait_resume, RestTyped
  <1>4. Goto(p, "exit") \/ Goto(p, "wait")
    BY DEF do_wait_resume
  <1> QED
    BY <1>1, <1>2, <1>3, <1>4, QuietGoto DEF Points, InitPoints, UserPoints

LEMMA do_sleep_keeps == ASSUME SInv, NEW ticks \in 1 .. MaxTicks, do_sleep(ticks) PROVE Kept
  <1> PICK p \in Procs : p = k.cur
    BY CurRuns
  <1>1. /\ pc[p] = "user" /\ Goto(p, "sleep") /\ UNCHANGED <<kbdq, keyed, tree>>
        /\ timers' = add_timer(timers, p, ticks)
        /\ k' = schedule([k EXCEPT !.st[p] = "SLEEPING", !.ws[p] = "WT_TIMER"])
    BY DEF do_sleep, Calling, At
  <1>2. p \in User
    BY <1>1, UserIsCurrent
  <1>3. Continues(p) /\ pc'[p] = "sleep"
    BY <1>1, <1>2, GotoContinues, ProcAssumption DEF SInv, RestOK, Points, UserPoints
  <1>4. ~HasTimer(timers, p) /\ p \notin ToSet(kbdq) /\ ticks \in Nat \ {0} /\ ticks <= MaxTicks
    BY <1>1, CurRuns, ProcAssumption
  <1>5. /\ IsList(timers', User)
        /\ \A q : HasTimer(timers', q) <=> q = p \/ HasTimer(timers, q)
        /\ \A q : Left(timers', q) = IF q = p THEN ticks ELSE Left(timers, q)
    BY <1>1, <1>2, <1>4, AddKeeps DEF SInv, TimersOK
  <1>6. TimersOK'
    BY <1>4, <1>5 DEF SInv, TimersOK
  <1>7. RestTyped' /\ ReadersOK'
    BY <1>1, RestStays DEF do_sleep, RestTyped, SInv, ReadersOK
  <1>8. \A q : HasTimer(timers', q) <=> (q # p /\ HasTimer(timers, q)) \/ (q = p /\ "WT_TIMER" = "WT_TIMER")
    BY <1>5
  <1>9. \A q : q \in ToSet(kbdq') <=> (q # p /\ q \in ToSet(kbdq)) \/ (q = p /\ "WT_TIMER" = "WT_KBD")
    BY <1>1, <1>4
  <1>10. SInv' /\ Orderly(k, k')
    BY <1>1, <1>2, <1>3, <1>6, <1>7, <1>8, <1>9, SleepStep, ProcAssumption DEF Interruptible
  <1> QED
    BY <1>10 DEF Kept

LEMMA do_sleep_resume_keeps == ASSUME SInv, do_sleep_resume PROVE Kept
  <1> PICK p \in Procs : p = k.cur
    BY CurRuns
  <1>1. /\ pc[p] = "sleep" /\ Goto(p, "trapret") /\ UNCHANGED <<k, kbdq, keyed, tree>>
        /\ timers' = del_timer(timers, p)
    BY DEF do_sleep_resume, At
  <1>2. p \in User
    BY <1>1, UserIsCurrent
  <1>3. Continues(p)
    BY <1>1, <1>2, GotoContinues, ProcAssumption DEF SInv, RestOK, Points, UserPoints
  <1>4. /\ IsList(timers', User)
        /\ \A q : HasTimer(timers', q) <=> q # p /\ HasTimer(timers, q)
        /\ \A q : Left(timers', q) = IF q = p THEN 0 ELSE Left(timers, q)
    BY <1>1, DelKeeps DEF SInv, TimersOK
  <1>5. TimersOK'
    BY <1>4, ProcAssumption DEF SInv, TimersOK
  <1>6. ToSet(kbdq') = ToSet(kbdq) \ {p}
    BY <1>1, CurRuns
  <1>7. RestTyped' /\ ReadersOK'
    BY <1>1, RestStays DEF do_sleep_resume, RestTyped, SInv, ReadersOK
  <1>8. SchedOK(k') /\ k'.st[k'.cur] = "RUNNABLE" /\ k'.st = k.st /\ k'.ws = k.ws /\ tree' = tree
    BY <1>1 DEF SInv
  <1>9. SInv'
    BY <1>3, <1>4, <1>5, <1>6, <1>7, <1>8, LocalStep
  <1>10. Orderly(k, k')
    BY <1>1, OrderlyStay
  <1> QED
    BY <1>9, <1>10 DEF Kept

LEMMA stdin_wait_keeps == ASSUME SInv, stdin_wait, pc[k.cur] \in {"user", "kbd"} PROVE Kept
  <1> PICK p \in Procs : p = k.cur
    BY CurRuns
  <1>1. /\ Goto(p, "kbd") /\ UNCHANGED <<timers, tree>> /\ kbdq' = Append(KbdqWithout(p), p)
        /\ keyed' = [keyed EXCEPT ![p] = FALSE]
        /\ k' = schedule([k EXCEPT !.st[p] = "SLEEPING", !.ws[p] = "WT_KBD"])
    BY DEF stdin_wait
  <1>2. p \in User
    BY UserIsCurrent
  <1>3. Continues(p) /\ pc'[p] = "kbd"
    BY <1>1, <1>2, GotoContinues, ProcAssumption DEF SInv, RestOK, Points, UserPoints
  <1>4. /\ KbdqWithout(p) \in Seq(User) /\ Once(KbdqWithout(p))
        /\ ToSet(KbdqWithout(p)) = ToSet(kbdq) \ {p}
    BY KbdqWithoutKeeps DEF SInv, ReadersOK
  <1>5. kbdq' \in Seq(User) /\ Once(kbdq') /\ ToSet(kbdq') = (ToSet(kbdq) \ {p}) \cup {p}
    <2> DEFINE s == KbdqWithout(p)
    <2>1. p \notin ToSet(s)
      BY <1>4
    <2> HIDE DEF s
    <2>2. Append(s, p) \in Seq(User) /\ Once(Append(s, p)) /\ ToSet(Append(s, p)) = ToSet(s) \cup {p}
      BY <1>2, <1>4, <2>1, SetAppend DEF s
    <2> QED
      BY <1>1, <1>4, <2>2 DEF s
  <1>6. TimersOK' /\ ReadersOK' /\ RestTyped'
    BY <1>1, <1>5, RestStays DEF stdin_wait, RestTyped, SInv, ReadersOK, TimersOK
  <1>7. \A q : HasTimer(timers', q) <=> (q # p /\ HasTimer(timers, q)) \/ (q = p /\ "WT_KBD" = "WT_TIMER")
    BY <1>1, CurRuns
  <1>8. \A q : q \in ToSet(kbdq') <=> (q # p /\ q \in ToSet(kbdq)) \/ (q = p /\ "WT_KBD" = "WT_KBD")
    BY <1>5
  <1>9. SInv' /\ Orderly(k, k')
    BY <1>1, <1>2, <1>3, <1>6, <1>7, <1>8, SleepStep, ProcAssumption DEF Interruptible
  <1> QED
    BY <1>9 DEF Kept

LEMMA sys_read_empty_keeps == ASSUME SInv, sys_read_empty PROVE Kept
  BY stdin_wait_keeps DEF sys_read_empty, Calling, At

LEMMA stdin_resume_keeps == ASSUME SInv, stdin_resume PROVE Kept
  <1> PICK p \in Procs : p = k.cur
    BY CurRuns
  <1>1. pc[p] = "kbd"
    BY DEF stdin_resume, At
  <1>2. CASE stdin_wait
    BY <1>1, <1>2, stdin_wait_keeps
  <1>3. CASE ~stdin_wait
    <2>1. /\ kbdq' = KbdqWithout(p) /\ keyed' = [keyed EXCEPT ![p] = FALSE] /\ Goto(p, "trapret")
          /\ UNCHANGED <<k, timers, tree, exiting, waitFor, mm>>
      BY <1>3 DEF stdin_resume
    <2>2. p \in User
      BY <1>1, UserIsCurrent
    <2>3. Continues(p)
      BY <2>1, <2>2, GotoContinues, ProcAssumption DEF SInv, RestOK, Points, UserPoints
    <2>4. kbdq' \in Seq(User) /\ Once(kbdq') /\ ToSet(kbdq') = ToSet(kbdq) \ {p}
      BY <2>1, KbdqWithoutKeeps DEF SInv, ReadersOK
    <2>5. TimersOK' /\ ReadersOK' /\ RestTyped'
      BY <2>1, <2>4, RestStays DEF RestTyped, SInv, ReadersOK, TimersOK
    <2>6. \A q : HasTimer(timers', q) <=> q # p /\ HasTimer(timers, q)
      BY <1>1, <2>1, CurRuns
    <2>7. SchedOK(k') /\ k'.st[k'.cur] = "RUNNABLE" /\ k'.st = k.st /\ k'.ws = k.ws
      BY <2>1 DEF SInv
    <2>8. SInv'
      BY <2>1, <2>3, <2>4, <2>5, <2>6, <2>7, LocalStep
    <2>9. Orderly(k, k')
      BY <2>1, OrderlyStay
    <2> QED
      BY <2>8, <2>9 DEF Kept
  <1> QED
    BY <1>2, <1>3

(* A step that wakes the processes of Q, which exist and are not dead.     *)
LEMMA WakeStep ==
    ASSUME SInv, NEW p \in Procs, p = k.cur, Continues(p), tree' = tree, pc[p] \notin {"sleep", "kbd"},
           NEW Q, SchedOK(k'), k'.st[k'.cur] = "RUNNABLE",
           \A q \in Procs : k'.st[q] = IF q \in Q THEN "RUNNABLE" ELSE k.st[q],
           \A q \in Procs : k'.ws[q] = IF q \in Q THEN "0" ELSE k.ws[q],
           \A q \in Procs : q \in Q => k.st[q] # "UNINIT",
           TimersOK', ReadersOK', RestTyped',
           \A q : HasTimer(timers', q) => HasTimer(timers, q),
           \A q : HasTimer(timers, q) /\ q \notin Q => HasTimer(timers', q),
           \A q : q \in ToSet(kbdq') => q \in ToSet(kbdq),
           \A q : q \in ToSet(kbdq) /\ q \notin Q => q \in ToSet(kbdq')
    PROVE  SInv'
  <1>1. Placed(p)'
    <2>1. k'.st[p] = "RUNNABLE" /\ k'.ws[p] = "0" /\ (p # Idle => tree'.parent[p] \in Procs)
      BY CurRuns
    <2>2. ~HasTimer(timers', p) /\ p \notin ToSet(kbdq')
      BY CurRuns
    <2> QED
      BY <2>1, <2>2, CurPlaced
  <1>2. ASSUME NEW q \in Procs, q # p PROVE Placed(q)'
    <2>1. Placed(q) /\ pc'[q] = pc[q]
      BY <1>2 DEF SInv, Continues
    <2>2. \/ k'.st[q] = k.st[q] /\ k'.ws[q] = k.ws[q]
          \/ k'.st[q] = "RUNNABLE" /\ k'.ws[q] = "0" /\ k.st[q] # "UNINIT"
      OBVIOUS
    <2>3. /\ k'.ws[q] = "WT_TIMER" /\ HasTimer(timers, q) => HasTimer(timers', q)
          /\ k'.ws[q] = "WT_KBD" /\ q \in ToSet(kbdq) => q \in ToSet(kbdq')
      OBVIOUS
    <2>4. q # Idle /\ pc[q] # "none" => tree'.parent[q] \in Procs
      BY <2>1 DEF Placed
    <2> QED
      BY <2>1, <2>2, <2>3, <2>4, StaysPlaced
  <1>3. \A q \in Procs : Placed(q)'
    BY <1>1, <1>2
  <1>4. RestOK' /\ tree' \in Trees(Procs)
    BY DEF RestOK, RestTyped, Continues, SInv
  <1> QED
    BY <1>3, <1>4 DEF SInv

LEMMA SleeperIsLive ==
    ASSUME SInv, NEW q \in Procs, k.ws[q] # "0"
    PROVE  k.st[q] = "SLEEPING" /\ q # Idle /\ q # k.cur
  BY CurRuns DEF SInv, SchedOK

LEMMA do_kill_keeps == ASSUME SInv, NEW q \in Killable, do_kill(q) PROVE Kept
  <1> PICK p \in Procs : p = k.cur
    BY CurRuns
  <1>1. /\ pc[p] = "user" /\ Goto(p, "trapret") /\ UNCHANGED <<timers, kbdq, keyed, tree>>
        /\ k' = IF Interrupts(q) THEN wakeup_proc(k, q) ELSE k
        /\ exiting' = [exiting EXCEPT ![q] = TRUE]
    BY DEF do_kill, Calling, At
  <1>2. p \in User /\ q \in Procs
    BY <1>1, UserIsCurrent, ProcAssumption DEF Procs
  <1>3. RestTyped'
    BY <1>1, RestStays DEF do_kill, RestTyped
  <1>4. CASE Interrupts(q)
    <2>1. k.ws[q] # "0"
      BY <1>4 DEF Interrupts, Interruptible
    <2>2. k.st[q] = "SLEEPING" /\ q # Idle
      BY <1>2, <2>1, SleeperIsLive
    <2>3. Woken(k, k', {q})
      BY <1>1, <1>2, <1>4, <2>2, WakeupWakes DEF SInv
    <2>4. Continues(p)
      BY <1>1, <1>2, GotoContinues, ProcAssumption DEF SInv, RestOK, Points, UserPoints
    <2>5. /\ SchedOK(k') /\ k'.cur = k.cur /\ Extends(k'.rq, k.rq)
          /\ \A r \in Procs : k'.st[r] = IF r \in {q} THEN "RUNNABLE" ELSE k.st[r]
          /\ \A r \in Procs : k'.ws[r] = IF r \in {q} THEN "0" ELSE k.ws[r]
      BY <2>3 DEF Woken
    <2>6. k'.st[k'.cur] = "RUNNABLE"
      BY <2>5, CurRuns
    <2>7. TimersOK' /\ ReadersOK'
      BY <1>1 DEF SInv, TimersOK, ReadersOK
    <2>8. SInv'
      BY <1>1, <1>3, <2>2, <2>4, <2>5, <2>6, <2>7, WakeStep
    <2> QED
      BY <2>5, <2>8 DEF Kept, Orderly
  <1>5. CASE ~Interrupts(q)
    BY <1>1, <1>3, <1>5, UserGoto DEF UserPoints
  <1> QED
    BY <1>4, <1>5

(* The timers that fire, and those that do not.                            *)
LEMMA FiredTyped ==
    ASSUME NEW P, NEW tl, IsList(tl, P)
    PROVE  Fired(tl) \in Seq(P) /\ \A q \in ToSet(Fired(tl)) : q \in P /\ HasTimer(tl, q)
  <1>1. NumFired(tl) \in 0 .. Len(tl) /\ tl \in Seq(Timer(P)) /\ Len(tl) \in Nat
    BY FiresPrefix DEF IsList
  <1>2. \A i \in 1 .. NumFired(tl) : i \in 1 .. Len(tl) /\ tl[i].proc \in P
    BY <1>1, TimerFields
  <1>3. Fired(tl) \in Seq(P) /\ Len(Fired(tl)) = NumFired(tl)
    BY <1>1, <1>2 DEF Fired
  <1>4. \A i \in 1 .. NumFired(tl) : Fired(tl)[i] = tl[i].proc
    BY DEF Fired
  <1>5. ASSUME NEW q \in ToSet(Fired(tl)) PROVE q \in P /\ HasTimer(tl, q)
    <2>1. PICK i \in 1 .. Len(Fired(tl)) : Fired(tl)[i] = q
      BY <1>3, SetOf
    <2> QED
      BY <1>2, <1>3, <1>4, <2>1 DEF HasTimer
  <1> QED
    BY <1>3, <1>5

LEMMA TickLoses ==
    ASSUME NEW P, NEW tl, IsList(tl, P), NEW q, HasTimer(tl, q), q \notin ToSet(Fired(tl))
    PROVE  HasTimer(AfterTick(tl), q)
  <1> DEFINE n == NumFired(tl)
             c == Counted(tl)
             t == SubSeq(c, n + 1, Len(tl))
  <1>1. n \in 0 .. Len(tl) /\ tl \in Seq(Timer(P)) /\ Len(tl) \in Nat
    BY FiresPrefix DEF IsList
  <1>2. c \in Seq(Timer(P)) /\ Len(c) = Len(tl) /\ \A j \in 1 .. Len(tl) : c[j].proc = tl[j].proc
    BY CountedKeeps
  <1>3. PICK i \in 1 .. Len(tl) : tl[i].proc = q
    BY DEF HasTimer
  <1>4. i > n
    <2>1. ASSUME i <= n PROVE FALSE
      <3>1. i \in 1 .. n /\ Fired(tl)[i] = q
        BY <1>1, <1>3, <2>1 DEF Fired
      <3>2. Fired(tl) \in Seq(P) /\ Len(Fired(tl)) = n
        BY <1>1, FiredTyped DEF Fired
      <3> QED
        BY <3>1, <3>2, SetOf
    <2> QED
      BY <1>1, <2>1
  <1>5. AfterTick(tl) = t
    BY DEF AfterTick
  <1> HIDE DEF n, c
  <1>6. Len(t) = Len(tl) - n /\ \A j \in 1 .. Len(tl) - n : t[j] = c[n + j]
    BY <1>1, <1>2
  <1>7. i - n \in 1 .. Len(tl) - n /\ n + (i - n) = i
    BY <1>1, <1>4
  <1> HIDE DEF t
  <1>8. t[i - n].proc = q /\ i - n \in 1 .. Len(t)
    BY <1>2, <1>3, <1>6, <1>7
  <1>9. HasTimer(t, q)
    BY <1>8 DEF HasTimer
  <1> QED
    BY <1>5, <1>9

LEMMA TimersTick == ASSUME TimersOK, timers' = AfterTick(timers) PROVE TimersOK'
  <1>1. /\ IsList(timers', User)
        /\ \A q : Left(timers', q) = IF Left(timers, q) = 0 THEN 0 ELSE Left(timers, q) - 1
    BY TickKeeps DEF TimersOK
  <1>2. ASSUME NEW q PROVE Left(timers', q) <= MaxTicks
    <2>1. Left(timers, q) \in Nat
      <3>1. CASE HasTimer(timers, q)
        <4>1. PICK i \in 1 .. Len(timers) : timers[i].proc = q
          BY <3>1 DEF HasTimer
        <4> QED
          BY <4>1, LeftIsDue DEF TimersOK
      <3>2. CASE ~HasTimer(timers, q)
        BY <3>2 DEF Left
      <3> QED
        BY <3>1, <3>2
    <2> QED
      BY <1>1, <2>1, ProcAssumption DEF TimersOK
  <1> QED
    BY <1>1, <1>2 DEF TimersOK

(* The clock interrupt wakes whom a timer fires for, and perhaps readers.  *)
ClockWakes(Q) ==
    /\ SchedOK(k') /\ k'.cur = k.cur /\ k'.panic = k.panic /\ Extends(k'.rq, k.rq)
    /\ \A q \in Procs : k'.st[q] = IF q \in Q THEN "RUNNABLE" ELSE k.st[q]
    /\ \A q \in Procs : k'.ws[q] = IF q \in Q THEN "0" ELSE k.ws[q]
    /\ \A q \in Procs : q \in Q => k.st[q] \in {"SLEEPING", "RUNNABLE"}
    /\ \A q : q \in ToSet(Fired(timers)) => q \in Q
    /\ \A q : q \in ToSet(kbdq) => q \in Q \/ kbdq' = kbdq
    /\ kbdq' \in {kbdq, << >>}

LEMMA WaiterIsLive ==
    ASSUME SInv, NEW q, HasTimer(timers, q) \/ q \in ToSet(kbdq)
    PROVE  q \in User /\ k.st[q] \in {"SLEEPING", "RUNNABLE"}
  <1>1. q \in User
    <2>1. CASE HasTimer(timers, q)
      <3>1. timers \in Seq(Timer(User))
        BY DEF SInv, TimersOK, IsList
      <3>2. PICK i \in 1 .. Len(timers) : timers[i].proc = q
        BY <2>1 DEF HasTimer
      <3> QED
        BY <3>1, <3>2, TimerFields
    <2>2. CASE q \in ToSet(kbdq)
      BY <2>2, SetOf DEF SInv, ReadersOK
    <2> QED
      BY <2>1, <2>2
  <1>2. q \in Procs /\ Placed(q)
    BY <1>1 DEF SInv, Procs
  <1>3. pc[q] \in {"sleep", "kbd"}
    BY <1>2 DEF Placed
  <1>4. k.st[q] \in States
    BY <1>2, CurRuns, RecordFields
  <1> QED
    BY <1>1, <1>2, <1>3, <1>4 DEF Placed, States

LEMMA ClockDoes == ASSUME SInv, clock PROVE \E Q : ClockWakes(Q)
  <1> DEFINE fired == Fired(timers)
             m1 == wakeup_each(k, fired)
             m2 == sched_class_proc_tick(m1)
             m3 == wakeup_each(m2, kbdq)
  <1>0. SchedOK(k) /\ k \in Records /\ k.rq \in Seq(Procs) /\ User \subseteq Procs \ {Idle}
        /\ kbdq \in Seq(User)
    BY CurRuns, RecordFields, ProcAssumption DEF SInv, Procs, ReadersOK
  <1>1. fired \in Seq(User) /\ \A q \in ToSet(fired) : HasTimer(timers, q)
    BY FiredTyped DEF SInv, TimersOK
  <1>2. \A i \in 1 .. Len(fired) : fired[i] \in ToSet(fired)
    BY <1>1, SetOf
  <1>3. \A q \in ToSet(fired) \cup ToSet(kbdq) : q \in User /\ k.st[q] \in {"SLEEPING", "RUNNABLE"}
    BY <1>1, WaiterIsLive
  <1>4. HeadMayCount(timers)
    <2>1. IsList(timers, User)
      BY DEF SInv, TimersOK
    <2>2. timers # << >> => timers[1].expires > 0 /\ timers[1].expires \in Nat
      <3>1. ASSUME timers # << >> PROVE timers[1].expires \in Nat
        <4>1. timers \in Seq(Timer(User))
          BY <2>1 DEF IsList
        <4>2. 1 \in 1 .. Len(timers)
          BY <3>1, <4>1
        <4> QED
          BY <4>1, <4>2, TimerFields
      <3> QED
        BY <2>1, <3>1 DEF IsList
    <2> QED
      BY <2>2 DEF HeadMayCount
  <1>5. run_timer_assert(k, fired) = k
    <2>1. \A i \in 1 .. Len(fired) : k.ws[fired[i]] \in Interruptible \cup {"0"}
      <3>1. \A i \in 1 .. Len(fired) : fired[i] \in Procs
        BY <1>0, <1>2, <1>3
      <3> QED
        BY <1>0, <3>1, RecordFields DEF Waits
    <2> QED
      BY <2>1 DEF run_timer_assert
  <1>6. PICK key \in BOOLEAN :
          /\ k' = IF key THEN wakeup_each(m2, kbdq) ELSE m2
          /\ kbdq' = IF key THEN << >> ELSE kbdq
    BY <1>4, <1>5 DEF clock
  <1>7. Woken(k, m1, ToSet(fired))
    <2>1. fired \in Seq(Procs \ {Idle})
      BY <1>0, <1>1
    <2>2. \A i \in 1 .. Len(fired) : k.st[fired[i]] # "ZOMBIE"
      BY <1>2, <1>3
    <2> HIDE DEF fired
    <2> QED
      BY <1>0, <2>1, <2>2, WakeupEachWakes
  <1> HIDE DEF m1
  <1>8. SchedOK(m1)
    BY <1>7 DEF Woken
  <1>9. SchedOK(m2) /\ Requeued(m1, m2, m1.rq)
    BY <1>8, TickFields
  <1> HIDE DEF m2
  <1>10. /\ m2.cur = k.cur /\ m2.panic = k.panic
         /\ \A q \in Procs : m2.st[q] = IF q \in ToSet(fired) THEN "RUNNABLE" ELSE k.st[q]
         /\ \A q \in Procs : m2.ws[q] = IF q \in ToSet(fired) THEN "0" ELSE k.ws[q]
         /\ Extends(m2.rq, k.rq)
    BY <1>7, <1>9 DEF Woken, Requeued
  <1>11. CASE ~key
    <2>1. k' = m2 /\ kbdq' = kbdq
      BY <1>6, <1>11
    <2>2. ClockWakes(ToSet(fired))
      BY <1>3, <1>9, <1>10, <2>1 DEF ClockWakes
    <2> QED
      BY <2>2
  <1>12. CASE key
    <2>1. k' = m3 /\ kbdq' = << >>
      BY <1>6, <1>12
    <2>2. Woken(m2, m3, ToSet(kbdq))
      <3>1. kbdq \in Seq(Procs \ {Idle})
        BY <1>0
      <3>2. \A i \in 1 .. Len(kbdq) : kbdq[i] \in ToSet(kbdq)
        BY <1>0, SetOf
      <3>3. \A i \in 1 .. Len(kbdq) : m2.st[kbdq[i]] # "ZOMBIE"
        BY <1>0, <1>3, <1>10, <3>2
      <3> QED
        BY <1>9, <3>1, <3>3, WakeupEachWakes
    <2> HIDE DEF m3
    <2>3. /\ SchedOK(m3) /\ m3.cur = k.cur /\ m3.panic = k.panic
          /\ \A q \in Procs : m3.st[q] = IF q \in ToSet(fired) \cup ToSet(kbdq) THEN "RUNNABLE" ELSE k.st[q]
          /\ \A q \in Procs : m3.ws[q] = IF q \in ToSet(fired) \cup ToSet(kbdq) THEN "0" ELSE k.ws[q]
          /\ Extends(m3.rq, m2.rq)
      BY <1>10, <2>2 DEF Woken
    <2>4. m2.rq \in Seq(Procs) /\ m3.rq \in Seq(Procs)
      BY <1>9, <2>3, RecordFields DEF SchedOK
    <2>5. Extends(m3.rq, k.rq)
      BY <1>0, <1>10, <2>3, <2>4, ExtendsMore
    <2>6. ClockWakes(ToSet(fired) \cup ToSet(kbdq))
      BY <1>3, <2>1, <2>3, <2>5 DEF ClockWakes
    <2> QED
      BY <2>6
  <1> QED
    BY <1>11, <1>12

LEMMA clock_keeps == ASSUME SInv, clock PROVE Kept
  <1> PICK p \in Procs : p = k.cur
    BY CurRuns
  <1>1. /\ InterruptsOn /\ timers' = AfterTick(timers) /\ UNCHANGED <<tree, exiting, waitFor, mm>>
        /\ Goto(p, IF pc[p] = "user" THEN "trapret" ELSE pc[p])
        /\ \E key \in BOOLEAN : keyed' = [q \in Procs |-> keyed[q] \/ (key /\ q \in ToSet(kbdq))]
    BY DEF clock
  <1>2. PICK Q : ClockWakes(Q)
    BY ClockDoes
  <1>3. IsList(timers, User) /\ InPlace(p) /\ pc[p] # "none" /\ pc[p] \in Points
    BY CurRuns DEF SInv, TimersOK, Placed, RestOK
  <1>4. Continues(p)
    <2>1. CASE pc[p] = "user"
      <3>1. p \in User
        BY <2>1, UserIsCurrent
      <3> QED
        BY <1>1, <2>1, <3>1, GotoContinues, ProcAssumption DEF SInv, RestOK, Points, UserPoints
    <2>2. CASE pc[p] # "user"
      <3>1. Goto(p, pc[p])
        BY <1>1, <2>2
      <3>2. pc' = pc
        BY <3>1 DEF Goto, SInv, RestOK
      <3> QED
        BY <3>2, SameContinues
    <2> QED
      BY <2>1, <2>2
  <1>5. TimersOK'
    BY <1>1, TimersTick DEF SInv
  <1>6. kbdq' \in Seq(User) /\ Once(kbdq') /\ (kbdq' = kbdq \/ ToSet(kbdq') = {})
    <2>1. << >> \in Seq(User) /\ Once(<< >>)
      BY DEF Once
    <2>2. ToSet(<< >>) = {}
      BY <2>1, SetEmpty
    <2>3. kbdq \in Seq(User) /\ Once(kbdq)
      BY DEF SInv, ReadersOK
    <2>4. kbdq' = kbdq \/ kbdq' = << >>
      BY <1>2 DEF ClockWakes
    <2>5. CASE kbdq' = kbdq
      BY <2>3, <2>5
    <2>6. CASE kbdq' = << >>
      BY <2>1, <2>2, <2>6
    <2> QED
      BY <2>4, <2>5, <2>6
  <1>7. ReadersOK'
    <2>1. keyed' \in [Procs -> BOOLEAN]
      BY <1>1 DEF SInv, ReadersOK
    <2> QED
      BY <1>6, <2>1 DEF ReadersOK
  <1>8. RestTyped'
    BY <1>1, RestStays DEF RestTyped
  <1>9. \A q : HasTimer(timers', q) => HasTimer(timers, q)
    BY <1>1, <1>3, TickKeeps
  <1>10. \A q : HasTimer(timers, q) /\ q \notin Q => HasTimer(timers', q)
    BY <1>1, <1>2, <1>3, TickLoses DEF ClockWakes
  <1>11. /\ \A q : q \in ToSet(kbdq') => q \in ToSet(kbdq)
         /\ \A q : q \in ToSet(kbdq) /\ q \notin Q => q \in ToSet(kbdq')
    BY <1>2, <1>6 DEF ClockWakes
  <1>12. /\ SchedOK(k') /\ k'.cur = k.cur /\ Extends(k'.rq, k.rq) /\ k'.st[k'.cur] = "RUNNABLE"
         /\ \A q \in Procs : k'.st[q] = IF q \in Q THEN "RUNNABLE" ELSE k.st[q]
         /\ \A q \in Procs : k'.ws[q] = IF q \in Q THEN "0" ELSE k.ws[q]
         /\ \A q \in Procs : q \in Q => k.st[q] # "UNINIT"
    BY <1>2, CurRuns DEF ClockWakes
  <1>13. pc[p] \notin {"sleep", "kbd"} /\ tree' = tree
    BY <1>1 DEF InterruptsOn
  <1>14. SInv'
    BY <1>4, <1>5, <1>7, <1>8, <1>9, <1>10, <1>11, <1>12, <1>13, WakeStep
  <1> QED
    BY <1>12, <1>14 DEF Kept, Orderly

(* A fork: the child c of p can run.                                       *)
Emptied(t, c) == [t EXCEPT !.cptr[c] = None]

LEMMA SetLinks ==
    ASSUME NEW t \in Trees(Procs), NEW c \in Procs, NEW p \in Procs
    PROVE  /\ Emptied(t, c) \in Trees(Procs)
           /\ Emptied(t, c).parent = t.parent /\ Emptied(t, c).optr = t.optr
           /\ Emptied(t, c).yptr = t.yptr /\ Emptied(t, c).cptr = [t.cptr EXCEPT ![c] = None]
           /\ set_links(t, c, p) = link(Emptied(t, c), c, p)
           /\ Linked(Procs, Emptied(t, c), set_links(t, c, p), c, p)
  <1> DEFINE e == Emptied(t, c)
             cptr == [t.cptr EXCEPT ![c] = None]
  <1>1. /\ t.parent \in Pointers(Procs) /\ t.cptr \in Pointers(Procs)
        /\ t.optr \in Pointers(Procs) /\ t.yptr \in Pointers(Procs)
    BY Typed
  <1>2. cptr \in Pointers(Procs) /\ e = [t EXCEPT !.cptr = cptr]
    BY <1>1 DEF Pointers, Emptied
  <1> HIDE DEF cptr
  <1>3. e \in Trees(Procs) /\ e.parent = t.parent /\ e.optr = t.optr /\ e.yptr = t.yptr /\ e.cptr = cptr
    BY <1>2 DEF Trees
  <1>4. set_links(t, c, p) = link(e, c, p)
    BY DEF set_links, Emptied
  <1> HIDE DEF e
  <1>5. Linked(Procs, e, link(e, c, p), c, p)
    BY <1>3, LinkFields
  <1> QED
    BY <1>3, <1>4, <1>5 DEF e, cptr

LEMMA do_fork_does ==
    ASSUME SInv, NEW c \in User, NEW x, do_fork(c, x)
    PROVE  /\ c # k.cur /\ pc[c] = "none" /\ k.st[c] = "UNINIT"
           /\ SchedOK(k') /\ k'.cur = k.cur /\ k'.panic = k.panic /\ Extends(k'.rq, k.rq)
           /\ k'.st = [k.st EXCEPT ![c] = "RUNNABLE"] /\ k'.ws = [k.ws EXCEPT ![c] = "0"]
           /\ tree' = set_links(tree, c, k.cur)
  <1> DEFINE s == alloc_proc(k, c)
             st == [k.st EXCEPT ![c] = "UNINIT"]
             ws == [k.ws EXCEPT ![c] = "0"]
  <1>0. c \in Procs \ {Idle}
    BY ProcAssumption DEF Procs
  <1>1. pc[c] = "none" /\ tree' = set_links(tree, c, k.cur)
    BY DEF do_fork
  <1>2. k.st[c] = "UNINIT" /\ c # k.cur
    <2>1. Placed(c)
      BY <1>0 DEF SInv
    <2> QED
      BY <1>1, <2>1, CurRuns DEF Placed
  <1>3. SchedOK(s) /\ IsReset(k, s, st, ws)
    <2>1. SchedOK(k) /\ c \in Procs \ {Idle, k.cur} /\ k.st[c] \in {"UNINIT", "ZOMBIE"}
      BY <1>0, <1>2 DEF SInv
    <2> QED
      BY <2>1, AllocKeeps
  <1>4. k' = wakeup_proc(s, c)
    BY CurRuns DEF do_fork
  <1>5. k \in Records /\ k.st \in [Procs -> States] /\ k.ws \in [Procs -> Waits] /\ k.rq \in Seq(Procs)
    BY CurRuns, RecordFields
  <1> HIDE DEF s
  <1>6. s.st[c] # "ZOMBIE"
    BY <1>0, <1>3, <1>5 DEF IsReset
  <1>7. Woken(s, k', {c})
    BY <1>0, <1>3, <1>4, <1>6, WakeupWakes
  <1>8. SchedOK(k') /\ k'.cur = k.cur /\ k'.panic = k.panic /\ Extends(k'.rq, k.rq)
    BY <1>3, <1>7 DEF Woken, IsReset
  <1>9. k'.st \in [Procs -> States] /\ k'.ws \in [Procs -> Waits]
    BY <1>8, RecordFields DEF SchedOK
  <1>10. /\ \A q \in Procs : k'.st[q] = IF q = c THEN "RUNNABLE" ELSE st[q]
         /\ \A q \in Procs : k'.ws[q] = IF q = c THEN "0" ELSE ws[q]
    BY <1>3, <1>7 DEF Woken, IsReset
  <1>11. k'.st = [k.st EXCEPT ![c] = "RUNNABLE"] /\ k'.ws = [k.ws EXCEPT ![c] = "0"]
    BY <1>5, <1>9, <1>10
  <1> QED
    BY <1>1, <1>2, <1>8, <1>11

LEMMA do_fork_keeps ==
    ASSUME SInv, NEW c \in User, NEW x \in {"user", "kmain"}, do_fork(c, x),
           pc[k.cur] \in {"user", "initfork"}
    PROVE  Kept
  <1> PICK p \in Procs : p = k.cur
    BY CurRuns
  <1>1. /\ c # p /\ pc[c] = "none" /\ k.st[c] = "UNINIT"
        /\ SchedOK(k') /\ k'.cur = p /\ Extends(k'.rq, k.rq)
        /\ k'.st = [k.st EXCEPT ![c] = "RUNNABLE"] /\ k'.ws = [k.ws EXCEPT ![c] = "0"]
        /\ tree' = set_links(tree, c, p)
    BY do_fork_does
  <1>2. /\ UNCHANGED <<timers, kbdq, keyed, waitFor>> /\ exiting' = [exiting EXCEPT ![c] = FALSE]
        /\ mm' = [mm EXCEPT ![c] = mm[p]]
        /\ pc' = [pc EXCEPT ![c] = x, ![p] = IF p = Init0 THEN "wait" ELSE "trapret"]
    BY DEF do_fork
  <1>3. /\ k.st \in [Procs -> States] /\ k.ws \in [Procs -> Waits] /\ pc \in [Procs -> Points]
        /\ c \in Procs /\ c # Idle /\ c # Init0 /\ tree \in Trees(Procs)
    BY CurRuns, RecordFields, ProcAssumption DEF SInv, RestOK, Procs
  <1>4. /\ pc'[c] = x /\ pc'[p] = IF p = Init0 THEN "wait" ELSE "trapret"
        /\ \A q \in Procs \ {c, p} : pc'[q] = pc[q]
        /\ pc' \in [Procs -> Points]
    BY <1>1, <1>2, <1>3 DEF Points
  <1>5. p = Init0 \/ p \in User
    BY UserIsCurrent, InitIsCurrent
  <1>6. tree' \in Trees(Procs) /\ \A q \in Procs : tree'.parent[q] = IF q = c THEN p ELSE tree.parent[q]
    <2>1. Linked(Procs, Emptied(tree, c), tree', c, p) /\ Emptied(tree, c).parent = tree.parent
      BY <1>1, <1>3, SetLinks
    <2>2. tree.parent \in [Procs -> Procs \cup {None}]
      BY <1>3, Typed DEF Pointers
    <2> QED
      BY <1>3, <2>1, <2>2 DEF Linked
  <1>7. Placed(c)'
    <2>1. k'.st[c] = "RUNNABLE" /\ k'.ws[c] = "0"
      BY <1>1, <1>3
    <2>2. InPlace(c)'
      BY <1>3, <1>4 DEF InPlace, UserPoints
    <2>3. ~HasTimer(timers', c) /\ c \notin ToSet(kbdq')
      BY <1>1, <1>2, <1>3 DEF SInv, Placed
    <2>4. pc'[c] # "none" /\ tree'.parent[c] \in Procs
      BY <1>3, <1>4, <1>6
    <2> QED
      BY <2>1, <2>2, <2>3, <2>4 DEF Placed
  <1>8. Placed(p)'
    <2>1. k'.st[p] = "RUNNABLE" /\ k'.ws[p] = "0"
      BY <1>1, <1>3, CurRuns
    <2>2. InPlace(p)'
      BY <1>4, <1>5, ProcAssumption DEF InPlace, UserPoints, InitPoints
    <2>3. ~HasTimer(timers', p) /\ p \notin ToSet(kbdq')
      BY <1>2, CurRuns
    <2>4. pc'[p] # "none" /\ (p # Idle => tree'.parent[p] \in Procs)
      BY <1>1, <1>4, <1>6, CurRuns
    <2> QED
      BY <2>1, <2>2, <2>3, <2>4 DEF Placed
  <1>9. ASSUME NEW q \in Procs, q # p, q # c PROVE Placed(q)'
    <2>1. Placed(q) /\ pc'[q] = pc[q]
      BY <1>4, <1>9 DEF SInv
    <2>2. k'.st[q] = k.st[q] /\ k'.ws[q] = k.ws[q]
      BY <1>1, <1>3, <1>9
    <2>3. q # Idle /\ pc[q] # "none" => tree'.parent[q] \in Procs
      BY <1>6, <1>9, <2>1 DEF Placed
    <2> QED
      BY <1>2, <2>1, <2>2, <2>3, StaysPlaced
  <1>10. \A q \in Procs : Placed(q)'
    BY <1>7, <1>8, <1>9
  <1>11. TimersOK' /\ ReadersOK'
    BY <1>2 DEF SInv, TimersOK, ReadersOK
  <1>12. RestOK'
    BY <1>2, <1>4 DEF SInv, RestOK
  <1>13. k'.st[k'.cur] = "RUNNABLE"
    BY <1>1, <1>3, CurRuns
  <1>14. SInv'
    BY <1>1, <1>6, <1>10, <1>11, <1>12, <1>13 DEF SInv
  <1> QED
    BY <1>1, <1>14 DEF Kept, Orderly

LEMMA sys_fork_keeps == ASSUME SInv, sys_fork \/ init_main_fork PROVE Kept
  BY do_fork_keeps DEF sys_fork, init_main_fork, Calling, At

(* The first zombie of a sequence, if there is one.                        *)
LEMMA ZombieFound ==
    ASSUME NEW cs \in Seq(Procs)
    PROVE  /\ ZombieAmong(cs) # 0 => ZombieAmong(cs) \in 1 .. Len(cs) /\ k.st[cs[ZombieAmong(cs)]] = "ZOMBIE"
           /\ ZombieAmong(cs) = 0 => \A i \in 1 .. Len(cs) : k.st[cs[i]] # "ZOMBIE"
  <1> DEFINE B == {i \in 1 .. Len(cs) : k.st[cs[i]] = "ZOMBIE"}
  <1>1. ZombieAmong(cs) = IF B # {} THEN Min(B) ELSE 0
    BY DEF ZombieAmong, SelectInSeq
  <1>2. B \in SUBSET (1 .. Len(cs)) /\ Len(cs) \in Nat
    OBVIOUS
  <1>3. CASE B = {}
    BY <1>1, <1>3
  <1>4. CASE B # {}
    <2>1. Min(B) \in B
      BY <1>2, <1>4, MinExists
    <2>2. ZombieAmong(cs) \in B
      BY <1>1, <1>4, <2>1
    <2>3. 0 \notin B
      BY <1>2
    <2> QED
      BY <2>2, <2>3
  <1> QED
    BY <1>3, <1>4

LEMMA ProcsFinite == IsFiniteSet(Procs) /\ None \notin Procs
  <1>1. IsFiniteSet({Idle, Init0})
    <2>1. IsFiniteSet({}) /\ {Idle, Init0} = ({} \cup {Idle}) \cup {Init0}
      BY FS_EmptySet
    <2> QED
      BY <2>1, FS_AddElement
  <1> QED
    BY <1>1, FS_Union, ProcAssumption DEF Procs

LEMMA CandidatesTyped ==
    ASSUME SInv, NEW p \in Procs
    PROVE  Candidates(p, waitFor[p]) \in Seq(Procs)
  <1>1. waitFor[p] \in User \cup {None} /\ tree \in Trees(Procs)
    BY DEF SInv, RestOK
  <1>2. Children(tree, p) \in Seq(Procs)
    BY <1>1, ProcsFinite, ChildrenTyped
  <1>3. waitFor[p] # None => <<waitFor[p]>> \in Seq(Procs)
    BY <1>1 DEF Procs
  <1> QED
    BY <1>2, <1>3 DEF Candidates

(* do_wait that frees a child.                                             *)
LEMMA do_wait_found_does ==
    ASSUME SInv, NEW c \in Procs, k.st[c] = "ZOMBIE", do_wait_found(c)
    PROVE  /\ c # k.cur /\ c \in User /\ pc[c] = "exit" /\ tree.parent[c] \in Procs
           /\ SchedOK(k') /\ k'.cur = k.cur /\ k'.panic = k.panic /\ k'.rq = k.rq
           /\ k'.st = [k.st EXCEPT ![c] = "UNINIT"] /\ k'.ws = [k.ws EXCEPT ![c] = "0"]
           /\ tree' = remove_links(tree, c) /\ Unlinked(Procs, tree, tree', c)
  <1>1. c # k.cur /\ Placed(c)
    BY CurRuns DEF SInv
  <1>2. c \in User /\ c # Idle /\ pc[c] = "exit" /\ tree.parent[c] \in Procs
    BY <1>1, ProcAssumption DEF Placed
  <1>3. k' = alloc_proc(k, c) /\ tree' = remove_links(tree, c)
    BY DEF do_wait_found
  <1>4. SchedOK(k) /\ c \in Procs \ {Idle, k.cur} /\ k.st[c] \in {"UNINIT", "ZOMBIE"}
    BY <1>1, <1>2 DEF SInv
  <1>5. /\ SchedOK(k')
        /\ IsReset(k, k', [k.st EXCEPT ![c] = "UNINIT"], [k.ws EXCEPT ![c] = "0"])
    BY <1>3, <1>4, AllocKeeps
  <1>6. Unlinked(Procs, tree, tree', c)
    BY <1>2, <1>3, RemoveFields DEF SInv
  <1> QED
    BY <1>1, <1>2, <1>3, <1>5, <1>6 DEF IsReset

LEMMA do_wait_found_keeps ==
    ASSUME SInv, pc[k.cur] = "wait", NEW c \in Procs, k.st[c] = "ZOMBIE", do_wait_found(c)
    PROVE  Kept
  <1> PICK p \in Procs : p = k.cur
    BY CurRuns
  <1>1. /\ c # p /\ c \in User /\ pc[c] = "exit" /\ tree.parent[c] \in Procs
        /\ SchedOK(k') /\ k'.cur = p /\ k'.rq = k.rq
        /\ k'.st = [k.st EXCEPT ![c] = "UNINIT"] /\ k'.ws = [k.ws EXCEPT ![c] = "0"]
        /\ Unlinked(Procs, tree, tree', c)
    BY do_wait_found_does
  <1>2. /\ pc' = [pc EXCEPT ![c] = "none", ![p] = IF p = Init0 THEN "initsched" ELSE "trapret"]
        /\ exiting' = [exiting EXCEPT ![c] = FALSE] /\ waitFor' = [waitFor EXCEPT ![p] = None]
        /\ UNCHANGED <<timers, kbdq, keyed, mm>>
    BY DEF do_wait_found
  <1>3. /\ k.st \in [Procs -> States] /\ k.ws \in [Procs -> Waits] /\ pc \in [Procs -> Points]
        /\ c # Idle /\ c # Init0 /\ tree \in Trees(Procs)
    BY <1>1, CurRuns, RecordFields, ProcAssumption DEF SInv, RestOK
  <1>4. /\ pc'[c] = "none" /\ pc'[p] = IF p = Init0 THEN "initsched" ELSE "trapret"
        /\ \A q \in Procs \ {c, p} : pc'[q] = pc[q]
        /\ pc' \in [Procs -> Points]
    BY <1>1, <1>2, <1>3 DEF Points
  <1>5. p = Init0 \/ p \in User
    <2>1. InPlace(p)
      BY CurRuns DEF SInv, Placed
    <2> QED
      BY <2>1 DEF InPlace, Procs
  <1>6. tree' \in Trees(Procs) /\ \A q \in Procs \ {c} : tree'.parent[q] = tree.parent[q]
    <2>1. tree.parent \in [Procs -> Procs \cup {None}]
      BY <1>3, Typed DEF Pointers
    <2> QED
      BY <1>1, <2>1 DEF Unlinked
  <1>7. Placed(c)'
    <2>1. k'.st[c] = "UNINIT" /\ k'.ws[c] = "0"
      BY <1>1, <1>3
    <2>2. InPlace(c)'
      BY <1>3, <1>4 DEF InPlace, UserPoints
    <2>3. ~HasTimer(timers', c) /\ c \notin ToSet(kbdq')
      BY <1>1, <1>2 DEF SInv, Placed
    <2> QED
      BY <1>4, <2>1, <2>2, <2>3 DEF Placed
  <1>8. Placed(p)'
    <2>1. k'.st[p] = "RUNNABLE" /\ k'.ws[p] = "0"
      BY <1>1, <1>3, CurRuns
    <2>2. InPlace(p)'
      BY <1>4, <1>5, ProcAssumption DEF InPlace, UserPoints, InitPoints
    <2>3. ~HasTimer(timers', p) /\ p \notin ToSet(kbdq')
      BY <1>2, CurRuns
    <2>4. pc'[p] # "none" /\ (p # Idle => tree'.parent[p] \in Procs)
      BY <1>1, <1>4, <1>6, CurRuns
    <2> QED
      BY <2>1, <2>2, <2>3, <2>4 DEF Placed
  <1>9. ASSUME NEW q \in Procs, q # p, q # c PROVE Placed(q)'
    <2>1. Placed(q) /\ pc'[q] = pc[q]
      BY <1>4, <1>9 DEF SInv
    <2>2. k'.st[q] = k.st[q] /\ k'.ws[q] = k.ws[q]
      BY <1>1, <1>3, <1>9
    <2>3. q # Idle /\ pc[q] # "none" => tree'.parent[q] \in Procs
      BY <1>6, <1>9, <2>1 DEF Placed
    <2> QED
      BY <1>2, <2>1, <2>2, <2>3, StaysPlaced
  <1>10. \A q \in Procs : Placed(q)'
    BY <1>7, <1>8, <1>9
  <1>11. TimersOK' /\ ReadersOK'
    BY <1>2 DEF SInv, TimersOK, ReadersOK
  <1>12. RestOK'
    BY <1>2, <1>4 DEF SInv, RestOK
  <1>13. k'.st[k'.cur] = "RUNNABLE"
    BY <1>1, <1>3, CurRuns
  <1>14. SInv'
    BY <1>1, <1>6, <1>10, <1>11, <1>12, <1>13 DEF SInv
  <1> QED
    BY <1>1, <1>14, OrderlyStay DEF Kept

LEMMA do_wait_keeps == ASSUME SInv, do_wait PROVE Kept
  <1> PICK p \in Procs : p = k.cur
    BY CurRuns
  <1> DEFINE cs == Candidates(p, waitFor[p])
             z == ZombieAmong(cs)
  <1>1. pc[p] = "wait"
    BY DEF do_wait, At
  <1>2. p # Idle /\ InPlace(p)
    BY <1>1, CurRuns DEF SInv, Placed, InPlace
  <1>3. cs \in Seq(Procs)
    BY CandidatesTyped
  <1>4. CASE z # 0 /\ do_wait_found(cs[z])
    <2>1. z \in 1 .. Len(cs) /\ k.st[cs[z]] = "ZOMBIE"
      BY <1>3, <1>4, ZombieFound
    <2>2. cs[z] \in Procs
      BY <1>3, <2>1
    <2> HIDE DEF cs, z
    <2> QED
      BY <1>1, <1>4, <2>1, <2>2, do_wait_found_keeps
  <1>5. CASE /\ k' = schedule([k EXCEPT !.st[p] = "SLEEPING", !.ws[p] = "WT_CHILD"])
             /\ Goto(p, "waited")
             /\ UNCHANGED <<timers, kbdq, keyed, tree, exiting, waitFor, mm>>
    <2>1. Continues(p) /\ pc'[p] = "waited"
      BY <1>2, <1>5, GotoContinues DEF SInv, RestOK, Points, InitPoints, UserPoints
    <2>2. TimersOK' /\ ReadersOK' /\ RestTyped'
      BY <1>5, RestStays DEF RestTyped, SInv, ReadersOK, TimersOK
    <2>3. \A q : HasTimer(timers', q) <=> (q # p /\ HasTimer(timers, q)) \/ (q = p /\ "WT_CHILD" = "WT_TIMER")
      BY <1>1, <1>5, CurRuns
    <2>4. \A q : q \in ToSet(kbdq') <=> (q # p /\ q \in ToSet(kbdq)) \/ (q = p /\ "WT_CHILD" = "WT_KBD")
      BY <1>1, <1>5, CurRuns
    <2>5. SInv' /\ Orderly(k, k')
      BY <1>2, <1>5, <2>1, <2>2, <2>3, <2>4, SleepStep DEF Interruptible
    <2> QED
      BY <2>5 DEF Kept
  <1>6. CASE /\ Goto(p, IF p = Init0 THEN "initdone" ELSE "trapret")
             /\ waitFor' = [waitFor EXCEPT ![p] = None]
             /\ UNCHANGED <<k, timers, kbdq, keyed, tree, exiting, mm>>
    <2>1. RestTyped'
      BY <1>6, RestStays DEF RestTyped
    <2>2. CASE p = Init0
      BY <1>1, <1>2, <1>6, <2>1, <2>2, QuietGoto, ProcAssumption DEF Points, InitPoints
    <2>3. CASE p # Init0
      BY <1>1, <1>2, <1>6, <2>1, <2>3, QuietGoto DEF Points, UserPoints
    <2> QED
      BY <2>2, <2>3
  <1> QED
    BY <1>4, <1>5, <1>6 DEF do_wait

(* do_exit wakes nobody but sleepers in do_wait: the parent, if it is one,  *)
(* and initproc, if it is one and a child of the dying process is dead.    *)
Dead == [k EXCEPT !.st[k.cur] = "ZOMBIE"]

ExitWakes(Q) ==
    /\ \A q \in Q : q \in Procs /\ k.ws[q] = "WT_CHILD"
    /\ SchedOK(k') /\ k'.st[k'.cur] = "RUNNABLE" /\ k'.panic = k.panic /\ Orderly(k, k')
    /\ \A q \in Procs : k'.st[q] = IF q \in Q THEN "RUNNABLE" ELSE IF q = k.cur THEN "ZOMBIE" ELSE k.st[q]
    /\ \A q \in Procs : k'.ws[q] = IF q \in Q THEN "0" ELSE k.ws[q]
    /\ tree.parent[k.cur] \in Procs
    /\ k.ws[tree.parent[k.cur]] = "WT_CHILD" => tree.parent[k.cur] \in Q
    /\ (k.ws[Init0] = "WT_CHILD" /\ \E c \in ToSet(Children(tree, k.cur)) : k.st[c] = "ZOMBIE")
         => Init0 \in Q

LEMMA DeadFields ==
    ASSUME SInv, k.cur # Idle
    PROVE  /\ SchedOK(Dead) /\ Dead.cur = k.cur /\ Dead.rq = k.rq /\ Dead.panic = k.panic
           /\ Dead.st = [k.st EXCEPT ![k.cur] = "ZOMBIE"] /\ Dead.ws = k.ws
  <1> DEFINE st == [k.st EXCEPT ![k.cur] = "ZOMBIE"]
             ws == [k.ws EXCEPT ![k.cur] = "0"]
  <1>1. SchedOK(k) /\ k.st[k.cur] = "RUNNABLE" /\ k.ws[k.cur] = "0" /\ k \in Records
    BY CurRuns DEF SInv
  <1>2. "ZOMBIE" \in States \ {"RUNNABLE"} /\ "0" \in Waits
    BY DEF States, Waits
  <1>3. SchedOK(Reset(k, st, ws)) /\ IsReset(k, Reset(k, st, ws), st, ws)
    BY <1>1, <1>2, CurrentStops
  <1>4. ws = k.ws
    BY <1>1, RecordFields
  <1> DEFINE d == [k EXCEPT !.st = st]
  <1> HIDE DEF st, ws
  <1>6. d = [d EXCEPT !.ws = k.ws]
    BY <1>1 DEF Records
  <1>7. Reset(k, st, ws) = d
    BY <1>4, <1>6 DEF Reset
  <1>8. Dead = d
    BY DEF Dead, st
  <1> HIDE DEF d
  <1> QED
    BY <1>3, <1>4, <1>7, <1>8 DEF IsReset, st

LEMMA do_exit_does ==
    ASSUME SInv, k.cur \notin {Idle, Init0}, do_exit
    PROVE  \E Q : ExitWakes(Q)
  <1> PICK p \in Procs : p = k.cur
    BY CurRuns
  <1> DEFINE parent == tree.parent[p]
             m1 == TellParent(Dead, p)
             m2 == TellInit(m1, p)
             Q1 == IF k.ws[parent] = "WT_CHILD" THEN {parent} ELSE {}
             Q2 == IF m1.ws[Init0] = "WT_CHILD" /\ \E c \in ToSet(Children(tree, p)) : m1.st[c] = "ZOMBIE"
                     THEN {Init0} ELSE {}
  <1>0. /\ parent \in Procs /\ p # Idle /\ Init0 \in Procs \ {Idle} /\ k \in Records
        /\ k.st \in [Procs -> States] /\ k.ws \in [Procs -> Waits] /\ k.rq \in Seq(Procs)
    BY CurRuns, RecordFields, ProcAssumption DEF Procs
  <1>1. /\ SchedOK(Dead) /\ Dead.cur = p /\ Dead.rq = k.rq /\ Dead.panic = k.panic
        /\ Dead.ws = k.ws /\ \A q \in Procs : Dead.st[q] = IF q = p THEN "ZOMBIE" ELSE k.st[q]
    BY <1>0, DeadFields
  <1>2. k' = schedule(m2)
    BY DEF do_exit, Dead
  <1>3. Woken(Dead, m1, Q1)
    <2>1. CASE k.ws[parent] = "WT_CHILD"
      <3>1. k.st[parent] = "SLEEPING" /\ parent # Idle /\ parent # p
        BY <1>0, <2>1, SleeperIsLive
      <3>2. Woken(Dead, wakeup_proc(Dead, parent), {parent})
        BY <1>0, <1>1, <3>1, WakeupWakes
      <3>3. m1 = wakeup_proc(Dead, parent) /\ Q1 = {parent}
        BY <1>1, <2>1 DEF TellParent
      <3> QED
        BY <3>2, <3>3
    <2>2. CASE k.ws[parent] # "WT_CHILD"
      <3>1. m1 = Dead /\ Q1 = {}
        BY <1>1, <2>2 DEF TellParent
      <3> QED
        BY <1>1, <3>1, WokenNone
    <2> QED
      BY <2>1, <2>2
  <1>4. Q1 \subseteq Procs /\ \A q \in Q1 : k.ws[q] = "WT_CHILD"
    BY <1>0
  <1> HIDE DEF m1, Q1
  <1>5. /\ SchedOK(m1) /\ m1.cur = p /\ m1.panic = k.panic
        /\ \A q \in Procs : m1.st[q] = IF q \in Q1 THEN "RUNNABLE" ELSE Dead.st[q]
        /\ \A q \in Procs : m1.ws[q] = IF q \in Q1 THEN "0" ELSE k.ws[q]
    BY <1>1, <1>3 DEF Woken
  <1>6. Woken(m1, m2, Q2) /\ \A q \in Q2 : q \in Procs /\ k.ws[q] = "WT_CHILD"
    <2>1. CASE m1.ws[Init0] = "WT_CHILD" /\ \E c \in ToSet(Children(tree, p)) : m1.st[c] = "ZOMBIE"
      <3>1. m1.st[Init0] # "ZOMBIE"
        BY <1>0, <1>5, <2>1 DEF SchedOK
      <3>2. Woken(m1, wakeup_proc(m1, Init0), {Init0})
        BY <1>0, <1>5, <3>1, WakeupWakes
      <3>3. m2 = wakeup_proc(m1, Init0) /\ Q2 = {Init0}
        BY <2>1 DEF TellInit
      <3>4. k.ws[Init0] = "WT_CHILD"
        BY <1>0, <1>5, <2>1
      <3> QED
        BY <1>0, <3>2, <3>3, <3>4
    <2>2. CASE ~(m1.ws[Init0] = "WT_CHILD" /\ \E c \in ToSet(Children(tree, p)) : m1.st[c] = "ZOMBIE")
      <3>1. m2 = m1 /\ Q2 = {}
        BY <2>2 DEF TellInit
      <3> QED
        BY <1>5, <3>1, WokenNone
    <2> QED
      BY <2>1, <2>2
  <1>7. (k.ws[Init0] = "WT_CHILD" /\ \E c \in ToSet(Children(tree, p)) : k.st[c] = "ZOMBIE")
          => Init0 \in Q1 \cup Q2
    <2> SUFFICES ASSUME k.ws[Init0] = "WT_CHILD", Init0 \notin Q1,
                        NEW c \in ToSet(Children(tree, p)), k.st[c] = "ZOMBIE"
                 PROVE  Init0 \in Q2
      OBVIOUS
    <2>1. m1.ws[Init0] = "WT_CHILD"
      BY <1>0, <1>5
    <2>2. c \in Procs
      <3>1. Children(tree, p) \in Seq(Procs)
        BY ProcsFinite, ChildrenTyped DEF SInv
      <3> QED
        BY <3>1, SetOf
    <2>3. c \notin Q1
      <3>1. ASSUME c \in Q1 PROVE FALSE
        <4>1. k.ws[c] # "0"
          BY <1>4, <3>1
        <4> QED
          BY <2>2, <4>1, SleeperIsLive
      <3> QED
        BY <3>1
    <2>4. m1.st[c] = "ZOMBIE"
      BY <1>1, <1>5, <2>2, <2>3
    <2> QED
      BY <2>1, <2>4
  <1> HIDE DEF m2, Q2
  <1>8. Woken(Dead, m2, Q1 \cup Q2)
    BY <1>1, <1>3, <1>6, WokenMore
  <1>9. Scheduled(m2, k') /\ SchedOK(m2) /\ Extends(m2.rq, k.rq)
    BY <1>1, <1>2, <1>8, ScheduleServes DEF Woken
  <1>10. Orderly(k, k')
    BY <1>9, OrderlyPick
  <1>11. /\ \A q \in Procs : k'.st[q] = IF q \in Q1 \cup Q2 THEN "RUNNABLE" ELSE IF q = p THEN "ZOMBIE" ELSE k.st[q]
         /\ \A q \in Procs : k'.ws[q] = IF q \in Q1 \cup Q2 THEN "0" ELSE k.ws[q]
         /\ SchedOK(k') /\ k'.st[k'.cur] = "RUNNABLE" /\ k'.panic = k.panic
    <2>1. m2.ws = k'.ws /\ m2.st = k'.st /\ k'.panic = m2.panic /\ SchedOK(k') /\ k'.st[k'.cur] = "RUNNABLE"
      BY <1>9 DEF Scheduled
    <2>2. /\ \A q \in Procs : m2.st[q] = IF q \in Q1 \cup Q2 THEN "RUNNABLE" ELSE Dead.st[q]
          /\ \A q \in Procs : m2.ws[q] = IF q \in Q1 \cup Q2 THEN "0" ELSE Dead.ws[q]
          /\ m2.panic = Dead.panic
      BY <1>8 DEF Woken
    <2> QED
      BY <1>1, <2>1, <2>2
  <1>12. k.ws[parent] = "WT_CHILD" => parent \in Q1 \cup Q2
    BY DEF Q1
  <1>13. ExitWakes(Q1 \cup Q2)
    BY <1>0, <1>4, <1>6, <1>7, <1>10, <1>11, <1>12 DEF ExitWakes
  <1> QED
    BY <1>13

LEMMA do_exit_keeps == ASSUME SInv, do_exit PROVE Kept
  <1> PICK p \in Procs : p = k.cur
    BY CurRuns
  <1>1. pc[p] = "exit" /\ pc' = pc /\ UNCHANGED <<timers, kbdq, keyed, exiting, waitFor>>
    BY DEF do_exit, At
  <1>2. RestOK' /\ TimersOK' /\ ReadersOK'
    BY <1>1 DEF do_exit, SInv, RestOK, TimersOK, ReadersOK
  <1>3. CASE p \in {Idle, Init0}
    <2>1. k' = Panic(k, "initproc exit") /\ tree' = tree
      BY <1>3 DEF do_exit
    <2>2. SchedOK(k') /\ k'.st[k'.cur] = "RUNNABLE" /\ k'.st = k.st /\ k'.ws = k.ws /\ Orderly(k, k')
      BY <2>1, PanicKeeps DEF Ends
    <2>3. Continues(p) /\ RestTyped'
      BY <1>1, <1>2, SameContinues DEF RestOK, RestTyped
    <2>4. SInv'
      BY <1>1, <2>1, <2>2, <2>3, QuietStep
    <2> QED
      BY <2>2, <2>4 DEF Kept
  <1>4. CASE p \notin {Idle, Init0}
    <2>1. PICK Q : ExitWakes(Q)
      BY <1>4, do_exit_does
    <2>2. p \in User /\ tree' = hand_over(tree, p, Init0) /\ Init0 \in Procs
      BY <1>4 DEF do_exit, Procs
    <2>3. tree' \in Trees(Procs) /\ \A q \in Procs : tree'.parent[q] \in {Init0, tree.parent[q]}
      BY <2>2, ProcsFinite, HandOverParents DEF SInv
    <2>4. /\ \A q \in Procs : k'.st[q] = IF q \in Q THEN "RUNNABLE" ELSE IF q = p THEN "ZOMBIE" ELSE k.st[q]
          /\ \A q \in Procs : k'.ws[q] = IF q \in Q THEN "0" ELSE k.ws[q]
          /\ \A q \in Q : q \in Procs /\ k.ws[q] = "WT_CHILD"
      BY <2>1 DEF ExitWakes
    <2>5. \A q \in Q : k.st[q] = "SLEEPING" /\ q # p
      <3>1. \A q \in Q : k.ws[q] # "0" /\ q \in Procs
        BY <2>4
      <3> QED
        BY <3>1, SleeperIsLive
    <2>6. Placed(p)'
      <3>1. k'.st[p] = "ZOMBIE" /\ k'.ws[p] = "0"
        BY <2>4, <2>5, CurRuns
      <3>2. InPlace(p)' /\ pc'[p] = "exit"
        BY <1>1, <2>2, ProcAssumption DEF InPlace, UserPoints
      <3>3. ~HasTimer(timers', p) /\ p \notin ToSet(kbdq')
        BY <1>1, CurRuns
      <3>4. tree'.parent[p] \in Procs
        BY <1>4, <2>2, <2>3, CurRuns
      <3> QED
        BY <2>2, <3>1, <3>2, <3>3, <3>4 DEF Placed
    <2>7. ASSUME NEW q \in Procs, q # p PROVE Placed(q)'
      <3>1. Placed(q) /\ pc'[q] = pc[q]
        BY <1>1 DEF SInv
      <3>2. \/ k'.st[q] = k.st[q] /\ k'.ws[q] = k.ws[q]
            \/ k'.st[q] = "RUNNABLE" /\ k'.ws[q] = "0" /\ k.st[q] # "UNINIT"
        BY <2>4, <2>5, <2>7
      <3>3. q # Idle /\ pc[q] # "none" => tree'.parent[q] \in Procs
        BY <2>2, <2>3, <3>1 DEF Placed
      <3> QED
        BY <1>1, <3>1, <3>2, <3>3, StaysPlaced
    <2>8. \A q \in Procs : Placed(q)'
      BY <2>6, <2>7
    <2>9. SchedOK(k') /\ k'.st[k'.cur] = "RUNNABLE" /\ Orderly(k, k')
      BY <2>1 DEF ExitWakes
    <2>10. SInv'
      BY <1>2, <2>3, <2>8, <2>9 DEF SInv
    <2> QED
      BY <2>9, <2>10 DEF Kept
  <1> QED
    BY <1>3, <1>4

-----------------------------------------------------------------------------
(* SInv holds of the initial state and is kept by every step.              *)
LEMMA InitSched == ASSUME Init PROVE SchedOK(k) /\ k.st[k.cur] = "RUNNABLE"
  <1> DEFINE st == [p \in Procs |-> IF p \in User THEN "UNINIT" ELSE "RUNNABLE"]
             ws == [p \in Procs |-> "0"]
             slice == [p \in Procs |-> IF p = Init0 THEN MAX_TIME_SLICE ELSE 0]
             resched == [p \in Procs |-> p = Idle]
  <1>1. k = [cur |-> Idle, rq |-> <<Init0>>, st |-> st, ws |-> ws, slice |-> slice,
             resched |-> resched, panic |-> "none"]
    BY DEF Init
  <1>2. st \in [Procs -> States] /\ ws \in [Procs -> Waits]
    BY DEF States, Waits
  <1>3. slice \in [Procs -> 0 .. MAX_TIME_SLICE] /\ resched \in [Procs -> BOOLEAN]
    BY SliceAssumption
  <1>4. Idle \in Procs /\ Init0 \in Procs \ {Idle} /\ <<Init0>> \in Seq(Procs) /\ "none" \in Ends
    BY ProcAssumption DEF Procs, Ends
  <1>5. \A p \in Procs : st[p] = IF p \in User THEN "UNINIT" ELSE "RUNNABLE"
    OBVIOUS
  <1>6. \A p \in Procs : ws[p] = "0"
    OBVIOUS
  <1> HIDE DEF st, ws, slice, resched
  <1>7. k \in Records
    BY <1>1, <1>2, <1>3, <1>4 DEF Records
  <1>8. k.cur = Idle /\ k.rq = <<Init0>> /\ k.st = st /\ k.ws = ws
    BY <1>1
  <1>9. Once(<<Init0>>) /\ ToSet(<<Init0>>) = {Init0}
    BY DEF Once, ToSet
  <1>10. {p \in Procs \ {Idle, Idle} : st[p] = "RUNNABLE"} = {Init0}
    BY <1>4, <1>5, ProcAssumption DEF Procs
  <1>11. st[Idle] = "RUNNABLE"
    BY <1>4, <1>5, ProcAssumption
  <1>12. \A p \in Procs : st[p] = "SLEEPING" <=> ws[p] # "0"
    BY <1>5, <1>6
  <1> QED
    BY <1>7, <1>8, <1>9, <1>10, <1>11, <1>12 DEF SchedOK

LEMMA NoLinksTyped ==
    NoLinks(Procs) \in Trees(Procs) /\ \A p \in Procs :
      /\ NoLinks(Procs).parent[p] = None /\ NoLinks(Procs).cptr[p] = None
      /\ NoLinks(Procs).optr[p] = None /\ NoLinks(Procs).yptr[p] = None
  BY DEF NoLinks, Trees, Pointers

LEMMA InitTree ==
    ASSUME Init
    PROVE  /\ tree \in Trees(Procs)
           /\ \A p \in Procs : tree.parent[p] = IF p = Init0 THEN Idle ELSE None
  <1> DEFINE t == NoLinks(Procs)
  <1>1. t \in Trees(Procs) /\ \A p \in Procs : t.parent[p] = None
    BY NoLinksTyped
  <1>2. Init0 \in Procs /\ Idle \in Procs
    BY DEF Procs
  <1>3. tree = set_links(t, Init0, Idle)
    BY DEF Init
  <1> HIDE DEF t
  <1>4. Emptied(t, Init0).parent = t.parent /\ Linked(Procs, Emptied(t, Init0), tree, Init0, Idle)
    BY <1>1, <1>2, <1>3, SetLinks
  <1>5. tree \in Trees(Procs) /\ tree.parent = [t.parent EXCEPT ![Init0] = Idle]
    BY <1>4 DEF Linked
  <1>6. t.parent \in [Procs -> Procs \cup {None}]
    BY <1>1, Typed DEF Pointers
  <1> QED
    BY <1>1, <1>2, <1>5, <1>6

LEMMA InitSInv == Init => SInv
  <1> SUFFICES ASSUME Init PROVE SInv
    OBVIOUS
  <1>1. SchedOK(k) /\ k.st[k.cur] = "RUNNABLE"
    BY InitSched
  <1>2. timers = << >> /\ kbdq = << >>
    BY DEF Init
  <1>3. /\ \A q : ~HasTimer(timers, q)
        /\ timers \in Seq(Timer(User)) /\ Len(timers) = 0
    BY <1>2 DEF HasTimer
  <1>4. TimersOK
    BY <1>2, <1>3, ProcAssumption DEF TimersOK, IsList, Left
  <1>5. kbdq \in Seq(User) /\ Once(kbdq) /\ ToSet(kbdq) = {}
    <2>1. kbdq \in Seq(User)
      BY <1>2
    <2>2. Once(kbdq)
      BY <1>2 DEF Once
    <2>3. ToSet(kbdq) = {}
      BY <1>2, <2>1, SetEmpty
    <2> QED
      BY <2>1, <2>2, <2>3
  <1>6. ReadersOK
    BY <1>5 DEF Init, ReadersOK
  <1>7. pc = [p \in Procs |-> CASE p = Idle -> "idle" [] p = Init0 -> "initfork" [] OTHER -> "none"]
    BY DEF Init
  <1>8. \A p \in Procs : /\ p = Idle => pc[p] = "idle"
                         /\ p = Init0 => pc[p] = "initfork"
                         /\ p \in User => pc[p] = "none"
    BY <1>7, ProcAssumption
  <1>9. RestOK
    <2>1. pc \in [Procs -> Points]
      BY <1>7 DEF Points
    <2> QED
      BY <2>1 DEF Init, RestOK
  <1>10. /\ \A p \in Procs : k.st[p] = IF p \in User THEN "UNINIT" ELSE "RUNNABLE"
         /\ \A p \in Procs : k.ws[p] = "0"
    BY DEF Init
  <1>11. ASSUME NEW p \in Procs PROVE Placed(p)
    <2>1. InPlace(p)
      BY <1>8 DEF InPlace, InitPoints, UserPoints
    <2>2. pc[p] = "none" <=> k.st[p] = "UNINIT"
      BY <1>8, <1>10, ProcAssumption DEF Procs
    <2>3. p # Idle /\ pc[p] # "none" => tree.parent[p] \in Procs
      BY <1>8, InitTree DEF Procs
    <2> QED
      BY <1>3, <1>5, <1>10, <2>1, <2>2, <2>3 DEF Placed
  <1> QED
    BY <1>1, <1>4, <1>6, <1>9, <1>11, InitTree DEF SInv

LEMMA SameKept == ASSUME SInv, UNCHANGED vars PROVE Kept
  <1>1. UNCHANGED <<k, timers, kbdq, keyed, tree, exiting, pc, waitFor, mm>>
    BY DEF vars
  <1>2. SchedOK(k') /\ k'.st[k'.cur] = "RUNNABLE" /\ TimersOK' /\ ReadersOK' /\ RestOK' /\ tree' \in Trees(Procs)
    BY <1>1 DEF SInv, TimersOK, ReadersOK, RestOK
  <1>3. ASSUME NEW p \in Procs PROVE Placed(p)'
    BY <1>1 DEF SInv, Placed, InPlace
  <1>4. SInv'
    BY <1>2, <1>3 DEF SInv
  <1> QED
    BY <1>1, <1>4, OrderlyStay DEF Kept

LEMMA NextKeeps == SInv /\ [Next]_vars => Kept
  <1> SUFFICES ASSUME SInv, [Next]_vars PROVE Kept
    OBVIOUS
  <1>1. CASE Syscall
    <2>1. CASE sys_fork
      BY <2>1, sys_fork_keeps
    <2>2. CASE sys_exit
      BY <2>2, sys_exit_keeps
    <2>3. CASE sys_wait
      BY <2>3, sys_wait_keeps
    <2>4. CASE \E q \in Killable : do_kill(q)
      BY <2>4, do_kill_keeps
    <2>5. CASE do_yield
      BY <2>5, do_yield_keeps
    <2>6. CASE \E ticks \in 1 .. MaxTicks : do_sleep(ticks)
      BY <2>6, do_sleep_keeps
    <2>7. CASE do_execve
      BY <2>7, do_execve_keeps
    <2>8. CASE do_execve_fails
      BY <2>8, do_execve_fails_keeps
    <2>9. CASE do_execve_no_page
      BY <2>9, do_execve_no_page_keeps
    <2>10. CASE sys_read_empty
      BY <2>10, sys_read_empty_keeps
    <2>11. CASE sys_other \/ fault
      BY <2>11, sys_other_keeps
    <2> QED
      BY <1>1, <2>1, <2>2, <2>3, <2>4, <2>5, <2>6, <2>7, <2>8, <2>9, <2>10, <2>11 DEF Syscall
  <1>2. CASE Kernel
    <2>1. CASE do_exit
      BY <2>1, do_exit_keeps
    <2>2. CASE do_wait
      BY <2>2, do_wait_keeps
    <2>3. CASE do_wait_resume
      BY <2>3, do_wait_resume_keeps
    <2>4. CASE do_sleep_resume
      BY <2>4, do_sleep_resume_keeps
    <2>5. CASE stdin_resume
      BY <2>5, stdin_resume_keeps
    <2>6. CASE trap_return
      BY <2>6, trap_return_keeps
    <2>7. CASE user_main
      BY <2>7, do_execve_keeps, do_execve_fails_keeps DEF user_main
    <2>8. CASE init_main_fork
      BY <2>8, sys_fork_keeps
    <2>9. CASE init_main_loop
      BY <2>9, init_main_loop_keeps
    <2>10. CASE init_main_done
      BY <2>10, init_main_done_keeps
    <2>11. CASE cpu_idle
      BY <2>11, cpu_idle_keeps
    <2> QED
      BY <1>2, <2>1, <2>2, <2>3, <2>4, <2>5, <2>6, <2>7, <2>8, <2>9, <2>10, <2>11 DEF Kernel
  <1>3. CASE clock
    BY <1>3, clock_keeps
  <1>4. CASE panicked \/ UNCHANGED vars
    BY <1>4, SameKept DEF panicked
  <1> QED
    BY <1>1, <1>2, <1>3, <1>4 DEF Next

(* The invariant of the scheduler, the sleepers and their frames.          *)
THEOREM Scheduling == Spec => []SInv
  <1>1. SInv /\ [Next]_vars => SInv'
    BY NextKeeps DEF Kept
  <1> QED
    BY <1>1, InitSInv, PTL DEF Spec

(* Every field has its type: in particular no time slice, delay or list of  *)
(* timers leaves its bounds.                                               *)
THEOREM TypeCorrect == Spec => []TypeOK
  <1>1. SInv => TypeOK
    <2> SUFFICES ASSUME SInv PROVE TypeOK
      OBVIOUS
    <2>1. k \in [cur : Procs, rq : Seq(Procs),
                 st : [Procs -> {"UNINIT", "SLEEPING", "RUNNABLE", "ZOMBIE"}],
                 ws : [Procs -> Interruptible \cup {"0"}],
                 slice : [Procs -> 0 .. MAX_TIME_SLICE],
                 resched : [Procs -> BOOLEAN],
                 panic : {"none", "RR_enqueue", "RR_dequeue", "wakeup_proc", "run_timer_list",
                          "timer expires 0", "do_fork", "initproc exit", "init_main"}]
      <3>1. k \in Records
        BY CurRuns
      <3>2. Ends \subseteq {"none", "RR_enqueue", "RR_dequeue", "wakeup_proc", "run_timer_list",
                            "timer expires 0", "do_fork", "initproc exit", "init_main"}
        BY DEF Ends
      <3> QED
        BY <3>1, <3>2 DEF Records, States, Waits
    <2>2. timers \in Seq([proc : User, expires : 0 .. MaxTicks])
      <3>1. IsList(timers, User) /\ timers \in Seq(Timer(User)) /\ \A q : Left(timers, q) <= MaxTicks
        BY DEF SInv, TimersOK, IsList
      <3>2. ASSUME NEW i \in 1 .. Len(timers) PROVE timers[i] \in [proc : User, expires : 0 .. MaxTicks]
        <4>1. timers[i] \in Timer(User) /\ timers[i].proc \in User /\ timers[i].expires \in Nat
          BY <3>1, TimerFields
        <4>2. Left(timers, timers[i].proc) = Due(timers, i)
          BY <3>1, LeftIsDue
        <4>3. Due(timers, i) = Due(timers, i - 1) + timers[i].expires
          BY <3>1, DueAdds
        <4>4. Due(timers, i - 1) \in Nat /\ Due(timers, i) \in Nat
          <5>1. i \in 0 .. Len(timers) /\ i - 1 \in 0 .. Len(timers)
            BY <3>1
          <5> QED
            BY <3>1, <5>1, DueGrows
        <4>5. Due(timers, i) <= MaxTicks
          BY <3>1, <4>2
        <4>6. timers[i].expires \in 0 .. MaxTicks
          BY <4>1, <4>3, <4>4, <4>5, ProcAssumption
        <4> QED
          BY <4>1, <4>6 DEF Timer
      <3> QED
        BY <3>1, <3>2, SeqTyped
    <2>3. tree \in LET pointer == [Procs -> Procs \cup {None}]
                   IN  [parent : pointer, cptr : pointer, optr : pointer, yptr : pointer]
      BY DEF SInv, Trees, Pointers
    <2>4. kbdq \in Seq(User) /\ keyed \in [Procs -> BOOLEAN]
      BY DEF SInv, ReadersOK
    <2> QED
      BY <2>1, <2>2, <2>3, <2>4 DEF TypeOK, SInv, RestOK, Points
  <1> QED
    BY <1>1, Scheduling, PTL

(* No runnable process is forgotten, none is queued twice, asleep or dead.  *)
THEOREM RunQueueIsExact == Spec => []RunQueueExact
  <1>1. SInv => RunQueueExact
    BY DEF SInv, SchedOK, RunQueueExact
  <1> QED
    BY <1>1, Scheduling, PTL

(* Whoever is to wake a sleeper finds it.                                  *)
THEOREM SleepersAreFound == Spec => []SleepersCanBeFound
  <1>1. SInv => SleepersCanBeFound
    BY DEF SInv, SchedOK, Placed, SleepersCanBeFound
  <1> QED
    BY <1>1, Scheduling, PTL

(* No timer and no wait entry outlives the frame that it lies in.          *)
THEOREM FramesAreLive == Spec => []NoDanglingFrames
  <1>1. SInv => NoDanglingFrames
    <2> SUFFICES ASSUME SInv PROVE NoDanglingFrames
      OBVIOUS
    <2>1. IsList(timers, User) /\ timers \in Seq(Timer(User)) /\ Len(timers) \in Nat
      BY DEF SInv, TimersOK, IsList
    <2>2. kbdq \in Seq(User) /\ Once(kbdq)
      BY DEF SInv, ReadersOK
    <2>3. ASSUME NEW i \in 1 .. Len(timers) PROVE pc[timers[i].proc] = "sleep"
      <3>1. timers[i].proc \in Procs
        BY <2>1, TimerFields DEF Procs
      <3>2. HasTimer(timers, timers[i].proc)
        BY DEF HasTimer
      <3> QED
        BY <3>1, <3>2 DEF SInv, Placed
    <2>4. ASSUME NEW p \in ToSet(kbdq) PROVE pc[p] = "kbd"
      <3>1. p \in Procs
        BY <2>2, SetOf DEF Procs
      <3> QED
        BY <3>1 DEF SInv, Placed
    <2>5. Once([i \in 1 .. Len(timers) |-> timers[i].proc])
      <3> DEFINE s == [i \in 1 .. Len(timers) |-> timers[i].proc]
      <3>1. Len(s) = Len(timers) /\ \A i \in 1 .. Len(timers) : s[i] = timers[i].proc
        BY <2>1
      <3> HIDE DEF s
      <3> QED
        BY <2>1, <3>1 DEF Once, IsList
    <2> QED
      BY <2>2, <2>3, <2>4, <2>5 DEF NoDanglingFrames
  <1> QED
    BY <1>1, Scheduling, PTL

(* Nobody who waits for the CPU is overtaken by one that came after him.   *)
LEMMA AheadIs ==
    ASSUME NEW P, NEW q \in Seq(P), NEW i \in 1 .. Len(q)
    PROVE  Ahead(q, i) = {q[j] : j \in 1 .. i - 1}
  <1> DEFINE s == SubSeq(q, 1, i - 1)
  <1>1. Len(q) \in Nat /\ i \in Nat /\ i - 1 \in 0 .. Len(q)
    OBVIOUS
  <1>2. s \in Seq(P) /\ Len(s) = i - 1 /\ \A j \in 1 .. i - 1 : s[j] = q[j]
    BY <1>1
  <1> HIDE DEF s
  <1>3. ToSet(s) = {s[j] : j \in 1 .. i - 1}
    BY <1>2 DEF ToSet
  <1>4. {s[j] : j \in 1 .. i - 1} = {q[j] : j \in 1 .. i - 1}
    BY <1>2
  <1>5. Ahead(q, i) = ToSet(s)
    BY DEF Ahead, s
  <1> QED
    BY <1>3, <1>4, <1>5

LEMMA OrderlyServes ==
    ASSUME SInv, SInv', Orderly(k, k')
    PROVE  \A i \in DOMAIN k.rq :
             \/ k'.cur = k.rq[i]
             \/ /\ k'.cur \in Ahead(k.rq, i) \cup {k.cur}
                /\ \E j \in DOMAIN k'.rq :
                     k'.rq[j] = k.rq[i] /\ Ahead(k'.rq, j) \subseteq Ahead(k.rq, i)
  <1> DEFINE q == k.rq
             r == k'.rq
  <1>1. q \in Seq(Procs) /\ r \in Seq(Procs)
    BY RecordFields DEF SInv, SchedOK
  <1>2. DOMAIN q = 1 .. Len(q) /\ DOMAIN r = 1 .. Len(r) /\ Len(q) \in Nat /\ Len(r) \in Nat
    BY <1>1
  <1>3. Orderly(k, k') <=> \/ k'.cur = k.cur /\ Extends(r, q)
                           \/ q # << >> => k'.cur = q[1] /\ Extends(r, Tail(q))
    BY DEF Orderly
  <1> HIDE DEF q, r
  <1> SUFFICES ASSUME NEW i \in 1 .. Len(q), k'.cur # q[i]
               PROVE  /\ k'.cur \in Ahead(q, i) \cup {k.cur}
                      /\ \E j \in 1 .. Len(r) : r[j] = q[i] /\ Ahead(r, j) \subseteq Ahead(q, i)
    BY <1>2 DEF q, r
  <1>4. Ahead(q, i) = {q[j] : j \in 1 .. i - 1}
    BY <1>1, AheadIs
  <1>5. CASE k'.cur = k.cur /\ Extends(r, q)
    <2>1. i \in 1 .. Len(r) /\ \A j \in 1 .. i : r[j] = q[j]
      BY <1>2, <1>5 DEF Extends
    <2>2. Ahead(r, i) = {r[j] : j \in 1 .. i - 1}
      BY <1>1, <2>1, AheadIs
    <2>3. Ahead(r, i) \subseteq Ahead(q, i)
      BY <1>4, <2>1, <2>2
    <2> QED
      BY <1>5, <2>1, <2>3
  <1>6. CASE q # << >> => k'.cur = q[1] /\ Extends(r, Tail(q))
    <2>1. q # << >> /\ i # 1
      BY <1>2, <1>6
    <2>2. Len(Tail(q)) = Len(q) - 1 /\ \A j \in 1 .. Len(q) - 1 : Tail(q)[j] = q[j + 1]
      BY <1>1, <2>1
    <2>3. i - 1 \in 1 .. Len(q) - 1 /\ 1 \in 1 .. i - 1
      BY <1>2, <2>1
    <2>4. k'.cur \in Ahead(q, i)
      BY <1>4, <1>6, <2>1, <2>3
    <2>5. i - 1 \in 1 .. Len(r) /\ \A j \in 1 .. i - 1 : r[j] = q[j + 1]
      BY <1>2, <1>6, <2>1, <2>2, <2>3 DEF Extends
    <2>6. Ahead(r, i - 1) = {r[j] : j \in 1 .. (i - 1) - 1}
      BY <1>1, <2>5, AheadIs
    <2>7. \A j \in 1 .. (i - 1) - 1 : r[j] = q[j + 1] /\ j + 1 \in 1 .. i - 1
      BY <2>3, <2>5
    <2>8. Ahead(r, i - 1) \subseteq Ahead(q, i)
      BY <1>4, <2>6, <2>7
    <2>9. r[i - 1] = q[i]
      BY <2>3, <2>5
    <2> QED
      BY <2>4, <2>5, <2>8, <2>9
  <1> QED
    BY <1>3, <1>5, <1>6

THEOREM FirstComeFirstServed == Spec => NoOvertaking
  <1> DEFINE Serves ==
        \A i \in DOMAIN k.rq :
          \/ k'.cur = k.rq[i]
          \/ /\ k'.cur \in Ahead(k.rq, i) \cup {k.cur}
             /\ \E j \in DOMAIN k'.rq :
                  k'.rq[j] = k.rq[i] /\ Ahead(k'.rq, j) \subseteq Ahead(k.rq, i)
  <1>1. SInv /\ [Next]_vars => Serves
    BY NextKeeps, OrderlyServes DEF Kept
  <1>2. SInv /\ [Next]_vars => [Serves]_vars
    BY <1>1
  <1>3. NoOvertaking <=> [][Serves]_vars
    BY DEF NoOvertaking
  <1> HIDE DEF Serves
  <1> QED
    BY <1>2, <1>3, Scheduling, PTL DEF Spec

-----------------------------------------------------------------------------
(* The process tree.  Everybody is in the list of his parent, who lives;    *)
(* whoever was born later has the higher rank, so that following the        *)
(* parents of a user process leads to initproc, and initproc finds no child *)
(* only when no user process is left.                                      *)
Alive(q) == k.st[q] \in {"SLEEPING", "RUNNABLE"}

Listed == \A p \in Procs : \E cs : Lists(Procs, tree, p, cs)

Fathers ==
    /\ \A c \in Procs : tree.parent[c] # None => Exists(c) /\ Alive(tree.parent[c])
    /\ tree.parent[Idle] = None /\ tree.parent[Init0] = Idle
    /\ \A c \in User : tree.parent[c] # Idle

Ranks(r) ==
    /\ r[Init0] = 0 /\ \A c \in User : r[c] > 0
    /\ \A c \in User : Exists(c) => r[c] > r[tree.parent[c]]

Ranked == \E r \in [Procs -> Nat] : Ranks(r)

NobodyLeft == \A p \in User : ~Exists(p)

Ending ==
    /\ waitFor[Init0] = None
    /\ pc[Init0] = "initdone" => NobodyLeft
    /\ pc[Init0] = "exit" => exiting[Init0] \/ NobodyLeft
    /\ OnlyInitPanics

FInv == Listed /\ Fathers /\ Ranked /\ NoLostChild /\ Ending

(* A step that creates, ends and frees nobody.                             *)
Plain ==
    /\ tree' = tree
    /\ \A q \in Procs : k'.st[q] = k.st[q] \/ {k.st[q], k'.st[q]} \subseteq {"SLEEPING", "RUNNABLE"}
    /\ \A q \in Procs : k'.ws[q] = "WT_CHILD" => k.ws[q] = "WT_CHILD" /\ waitFor'[q] = waitFor[q]
    /\ waitFor[Init0] = None => waitFor'[Init0] = None
    /\ pc'[Init0] = "initdone" => pc[Init0] = "initdone"
    /\ pc'[Init0] = "exit" => pc[Init0] = "exit" \/ exiting'[Init0]
    /\ exiting[Init0] => exiting'[Init0]
    /\ k'.panic = k.panic

LEMMA PlainExists ==
    ASSUME SInv, SInv', Plain
    PROVE  \A q \in Procs : (Exists(q)' <=> Exists(q)) /\ (Alive(q)' <=> Alive(q))
  <1> SUFFICES ASSUME NEW q \in Procs PROVE (Exists(q)' <=> Exists(q)) /\ (Alive(q)' <=> Alive(q))
    OBVIOUS
  <1>1. /\ pc[q] = "none" <=> k.st[q] = "UNINIT"
        /\ pc'[q] = "none" <=> k'.st[q] = "UNINIT"
    BY DEF SInv, Placed
  <1>2. k'.st[q] = k.st[q] \/ {k.st[q], k'.st[q]} \subseteq {"SLEEPING", "RUNNABLE"}
    BY DEF Plain
  <1> QED
    BY <1>1, <1>2 DEF Exists, Alive

LEMMA PlainCandidates ==
    ASSUME SInv, SInv', Plain, NEW p \in Procs, k'.ws[p] = "WT_CHILD"
    PROVE  Candidates(p, waitFor[p])' = Candidates(p, waitFor[p])
  <1>1. tree' = tree /\ waitFor'[p] = waitFor[p]
    BY DEF Plain
  <1>2. waitFor[p] \in User \cup {None}
    BY DEF SInv, RestOK
  <1>3. waitFor[p] # None => (Exists(waitFor[p])' <=> Exists(waitFor[p]))
    <2>1. \A q \in Procs : Exists(q)' <=> Exists(q)
      BY PlainExists
    <2>2. \A q \in Procs : pc'[q] # "none" <=> pc[q] # "none"
      BY <2>1 DEF Exists
    <2> QED
      BY <1>1, <1>2, <2>2 DEF Exists, Procs
  <1>4. /\ Candidates(p, waitFor[p])' =
             IF waitFor'[p] = None THEN Children(tree', p)
             ELSE IF pc'[waitFor'[p]] # "none" /\ tree'.parent[waitFor'[p]] = p THEN <<waitFor'[p]>> ELSE << >>
        /\ Candidates(p, waitFor[p]) =
             IF waitFor[p] = None THEN Children(tree, p)
             ELSE IF pc[waitFor[p]] # "none" /\ tree.parent[waitFor[p]] = p THEN <<waitFor[p]>> ELSE << >>
    BY DEF Candidates, Exists
  <1> QED
    BY <1>1, <1>3, <1>4 DEF Exists

(* The tree goes with who exists and who lives.                            *)
Settled ==
    /\ tree' = tree
    /\ \A q \in Procs : (Exists(q)' <=> Exists(q)) /\ (Alive(q)' <=> Alive(q))

LEMMA SameFamily ==
    ASSUME SInv, FInv, Settled
    PROVE  Listed' /\ Fathers' /\ Ranked'
  <1>1. tree' = tree /\ \A q \in Procs : (Exists(q)' <=> Exists(q)) /\ (Alive(q)' <=> Alive(q))
    BY DEF Settled
  <1>2. Listed'
    BY <1>1 DEF FInv, Listed
  <1>3. Fathers'
    <2>1. ASSUME NEW c \in Procs, tree'.parent[c] # None
          PROVE  Exists(c)' /\ Alive(tree.parent[c])'
      <3>1. tree.parent[c] \in Procs \cup {None}
        BY Typed DEF SInv, Pointers
      <3>2. PICK p \in Procs : p = tree.parent[c]
        BY <1>1, <2>1, <3>1
      <3>3. Exists(c) /\ Alive(p)
        BY <1>1, <2>1, <3>2 DEF FInv, Fathers
      <3>4. Exists(c)' /\ Alive(p)'
        BY <1>1, <3>3
      <3> QED
        BY <1>1, <3>2, <3>4 DEF Alive
    <2> QED
      BY <1>1, <2>1 DEF FInv, Fathers
  <1>4. Ranked'
    <2>1. PICK r \in [Procs -> Nat] : Ranks(r)
      BY DEF FInv, Ranked
    <2>2. \A c \in User : Exists(c)' <=> Exists(c)
      BY <1>1 DEF Procs
    <2>3. Ranks(r)'
      BY <1>1, <2>1, <2>2 DEF Ranks
    <2> QED
      BY <2>3 DEF Ranked
  <1> QED
    BY <1>2, <1>3, <1>4

LEMMA PlainKeeps ==
    ASSUME SInv, SInv', FInv, Plain
    PROVE  FInv' /\ Settled
  <1>1. tree' = tree /\ \A q \in Procs : (Exists(q)' <=> Exists(q)) /\ (Alive(q)' <=> Alive(q))
    BY PlainExists DEF Plain
  <1>2. Listed' /\ Fathers' /\ Ranked'
    BY <1>1, SameFamily DEF Settled
  <1>5. NoLostChild'
    <2> SUFFICES ASSUME NEW p \in Procs, k'.ws[p] = "WT_CHILD"
                 PROVE  LET cs == Candidates(p, waitFor[p])'
                        IN  cs # << >> /\ \A i \in 1 .. Len(cs) : k'.st[cs[i]] \in {"SLEEPING", "RUNNABLE"}
      BY DEF NoLostChild
    <2> DEFINE cs == Candidates(p, waitFor[p])
    <2>1. k.ws[p] = "WT_CHILD"
      BY DEF Plain
    <2>2. cs # << >> /\ \A i \in 1 .. Len(cs) : k.st[cs[i]] \in {"SLEEPING", "RUNNABLE"}
      BY <2>1 DEF FInv, NoLostChild
    <2>3. cs \in Seq(Procs)
      BY CandidatesTyped
    <2>4. Candidates(p, waitFor[p])' = cs
      BY PlainCandidates
    <2>5. \A q \in Procs : k.st[q] \in {"SLEEPING", "RUNNABLE"} => k'.st[q] \in {"SLEEPING", "RUNNABLE"}
      BY <1>1 DEF Alive
    <2> HIDE DEF cs
    <2>6. \A i \in 1 .. Len(cs) : k'.st[cs[i]] \in {"SLEEPING", "RUNNABLE"}
      BY <2>2, <2>3, <2>5
    <2> QED
      BY <2>2, <2>4, <2>6
  <1>6. Ending'
    <2>1. NobodyLeft => NobodyLeft'
      BY <1>1 DEF NobodyLeft, Procs
    <2>2. OnlyInitPanics'
      <3>1. k.panic \in {"none", "initproc exit"} /\ (k.panic = "initproc exit" => exiting[Init0] \/ NobodyLeft)
        BY DEF FInv, Ending, OnlyInitPanics, NobodyLeft
      <3>2. k'.panic = k.panic /\ (exiting[Init0] => exiting'[Init0])
        BY DEF Plain
      <3> QED
        BY <2>1, <3>1, <3>2 DEF OnlyInitPanics, NobodyLeft
    <2> QED
      BY <2>1, <2>2 DEF FInv, Ending, Plain
  <1> QED
    BY <1>1, <1>2, <1>5, <1>6 DEF FInv, Settled

(* The steps that leave the tree as it is.                                 *)
LEMMA UserPlain ==
    ASSUME SInv, k.cur \in User, NEW x, Goto(k.cur, x), tree' = tree,
           exiting[Init0] => exiting'[Init0],
           \A q \in Procs \ {k.cur} : waitFor'[q] = waitFor[q],
           k'.panic = k.panic,
           \A q \in Procs : k'.st[q] = k.st[q] \/ {k.st[q], k'.st[q]} \subseteq {"SLEEPING", "RUNNABLE"},
           \A q \in Procs : k'.ws[q] = "WT_CHILD" => k.ws[q] = "WT_CHILD"
    PROVE  Plain
  <1>1. Init0 \in Procs \ {k.cur}
    BY ProcAssumption DEF Procs
  <1>2. pc'[Init0] = pc[Init0]
    BY <1>1 DEF Goto, SInv, RestOK
  <1>3. \A q \in Procs : k'.ws[q] = "WT_CHILD" => k.ws[q] = "WT_CHILD" /\ waitFor'[q] = waitFor[q]
    BY CurRuns
  <1> QED
    BY <1>1, <1>2, <1>3 DEF Plain

LEMMA SameFields ==
    ASSUME SInv, k'.st = k.st, k'.ws = k.ws
    PROVE  /\ \A q \in Procs : k'.st[q] = k.st[q] \/ {k.st[q], k'.st[q]} \subseteq {"SLEEPING", "RUNNABLE"}
           /\ \A q \in Procs : k'.ws[q] = "WT_CHILD" => k.ws[q] = "WT_CHILD"
  OBVIOUS

LEMMA SleepFields ==
    ASSUME SInv, k.cur # Idle, NEW w \in Interruptible,
           k' = schedule([k EXCEPT !.st[k.cur] = "SLEEPING", !.ws[k.cur] = w])
    PROVE  /\ k'.st = [k.st EXCEPT ![k.cur] = "SLEEPING"] /\ k'.ws = [k.ws EXCEPT ![k.cur] = w]
           /\ k'.panic = k.panic
  <1> DEFINE st == [k.st EXCEPT ![k.cur] = "SLEEPING"]
             ws == [k.ws EXCEPT ![k.cur] = w]
             m == Reset(k, st, ws)
  <1>1. w \in Waits /\ w # "0" /\ "SLEEPING" \in States \ {"RUNNABLE"}
    BY DEF Waits, Interruptible, States
  <1>2. SchedOK(k) /\ k.st[k.cur] = "RUNNABLE"
    BY CurRuns DEF SInv
  <1>3. SchedOK(m) /\ IsReset(k, m, st, ws)
    BY <1>1, <1>2, CurrentStops
  <1>4. [k EXCEPT !.st[k.cur] = "SLEEPING", !.ws[k.cur] = w] = m
    BY DEF Reset
  <1> HIDE DEF m, st, ws
  <1>5. Scheduled(m, k')
    BY <1>3, <1>4, ScheduleServes
  <1> QED
    BY <1>3, <1>5 DEF Scheduled, IsReset, st, ws

LEMMA SleepPlain ==
    ASSUME SInv, k.cur \in User, NEW x, Goto(k.cur, x), NEW w \in Interruptible \ {"WT_CHILD"},
           k' = schedule([k EXCEPT !.st[k.cur] = "SLEEPING", !.ws[k.cur] = w]),
           UNCHANGED <<tree, exiting, waitFor>>
    PROVE  Plain
  <1>1. k.cur # Idle
    BY ProcAssumption
  <1>2. /\ k'.st = [k.st EXCEPT ![k.cur] = "SLEEPING"] /\ k'.ws = [k.ws EXCEPT ![k.cur] = w]
        /\ k'.panic = k.panic
    BY <1>1, SleepFields
  <1>3. /\ k.st \in [Procs -> States] /\ k.ws \in [Procs -> Waits] /\ k.cur \in Procs
        /\ k.st[k.cur] = "RUNNABLE"
    BY CurRuns, RecordFields
  <1>4. \A q \in Procs : k'.st[q] = k.st[q] \/ {k.st[q], k'.st[q]} \subseteq {"SLEEPING", "RUNNABLE"}
    BY <1>2, <1>3
  <1>5. \A q \in Procs : k'.ws[q] = "WT_CHILD" => k.ws[q] = "WT_CHILD"
    BY <1>2, <1>3
  <1> QED
    BY <1>2, <1>4, <1>5, UserPlain

LEMMA QuietPlain ==
    ASSUME SInv,
           sys_exit \/ sys_wait \/ do_execve_fails \/ do_execve_no_page \/ do_execve \/ sys_other \/ fault
    PROVE  Plain
  <1>1. pc[k.cur] \in {"user", "kmain"} /\ UNCHANGED <<k, tree, exiting>>
    BY DEF sys_exit, sys_wait, do_execve_fails, do_execve_no_page, do_execve, sys_other, fault, Calling, At
  <1>2. k.cur \in User
    BY <1>1, UserIsCurrent
  <1>3. \A q \in Procs \ {k.cur} : waitFor'[q] = waitFor[q]
    BY CurRuns DEF sys_exit, sys_wait, do_execve_fails, do_execve_no_page, do_execve, sys_other, fault,
                   SInv, RestOK
  <1>4. \E x : Goto(k.cur, x)
    BY DEF sys_exit, sys_wait, do_execve_fails, do_execve_no_page, do_execve, sys_other, fault
  <1> QED
    BY <1>1, <1>2, <1>3, <1>4, SameFields, UserPlain

LEMMA YieldPlain == ASSUME SInv, do_yield \/ trap_return PROVE Plain
  <1>1. k.cur \in User /\ UNCHANGED <<tree, exiting, waitFor>>
    BY UserIsCurrent DEF do_yield, trap_return, Calling, At
  <1>2. \E x : Goto(k.cur, x)
    BY DEF do_yield, trap_return
  <1>3. k'.st = k.st /\ k'.ws = k.ws /\ k'.panic = k.panic
    <2>1. CASE k' = [k EXCEPT !.resched[k.cur] = TRUE]
      BY <2>1, CurRuns DEF Records
    <2>2. CASE k' = schedule(k)
      BY <2>2, ScheduleNow
    <2>3. CASE k' = k
      BY <2>3
    <2> QED
      BY <2>1, <2>2, <2>3 DEF do_yield, trap_return
  <1> QED
    BY <1>1, <1>2, <1>3, SameFields, UserPlain

LEMMA SleepCallPlain ==
    ASSUME SInv, (\E ticks \in 1 .. MaxTicks : do_sleep(ticks)) \/ do_sleep_resume PROVE Plain
  <1>1. k.cur \in User /\ UNCHANGED <<tree, exiting, waitFor>>
    BY UserIsCurrent DEF do_sleep, do_sleep_resume, Calling, At
  <1>2. CASE \E ticks \in 1 .. MaxTicks : do_sleep(ticks)
    <2>1. /\ k' = schedule([k EXCEPT !.st[k.cur] = "SLEEPING", !.ws[k.cur] = "WT_TIMER"])
          /\ Goto(k.cur, "sleep")
      BY <1>2 DEF do_sleep
    <2>2. "WT_TIMER" \in Interruptible \ {"WT_CHILD"}
      BY DEF Interruptible
    <2> QED
      BY <1>1, <2>1, <2>2, SleepPlain
  <1>3. CASE do_sleep_resume
    BY <1>1, <1>3, SameFields, UserPlain DEF do_sleep_resume
  <1> QED
    BY <1>2, <1>3

LEMMA ReadPlain == ASSUME SInv, sys_read_empty \/ stdin_resume PROVE Plain
  <1>1. k.cur \in User /\ UNCHANGED <<tree, exiting, waitFor>>
    BY UserIsCurrent DEF sys_read_empty, stdin_resume, stdin_wait, Calling, At
  <1>2. CASE stdin_wait
    <2>1. /\ k' = schedule([k EXCEPT !.st[k.cur] = "SLEEPING", !.ws[k.cur] = "WT_KBD"])
          /\ Goto(k.cur, "kbd")
      BY <1>2 DEF stdin_wait
    <2>2. "WT_KBD" \in Interruptible \ {"WT_CHILD"}
      BY DEF Interruptible
    <2> QED
      BY <1>1, <2>1, <2>2, SleepPlain
  <1>3. CASE ~stdin_wait
    <2>1. k' = k /\ Goto(k.cur, "trapret")
      BY <1>3 DEF sys_read_empty, stdin_resume
    <2> QED
      BY <1>1, <2>1, SameFields, UserPlain
  <1> QED
    BY <1>2, <1>3

LEMMA KillPlain == ASSUME SInv, NEW q \in Killable, do_kill(q) PROVE Plain
  <1>1. /\ k.cur \in User /\ tree' = tree /\ waitFor' = waitFor /\ Goto(k.cur, "trapret")
        /\ exiting' = [exiting EXCEPT ![q] = TRUE]
        /\ k' = IF Interrupts(q) THEN wakeup_proc(k, q) ELSE k
    BY UserIsCurrent DEF do_kill, Calling, At
  <1>2. q \in Procs /\ Init0 \in Procs
    BY ProcAssumption DEF Procs
  <1>3. exiting[Init0] => exiting'[Init0]
    BY <1>1, <1>2 DEF SInv, RestOK
  <1>4. CASE Interrupts(q)
    <2>1. k.ws[q] # "0"
      BY <1>4 DEF Interrupts, Interruptible
    <2>2. k.st[q] = "SLEEPING" /\ q # Idle
      BY <1>2, <2>1, SleeperIsLive
    <2>3. Woken(k, k', {q})
      BY <1>1, <1>2, <1>4, <2>2, WakeupWakes DEF SInv
    <2>4. \A r \in Procs : k'.st[r] = k.st[r] \/ {k.st[r], k'.st[r]} \subseteq {"SLEEPING", "RUNNABLE"}
      BY <2>2, <2>3 DEF Woken
    <2>5. \A r \in Procs : k'.ws[r] = "WT_CHILD" => k.ws[r] = "WT_CHILD"
      BY <2>3 DEF Woken
    <2>6. k'.panic = k.panic
      BY <2>3 DEF Woken
    <2> QED
      BY <1>1, <1>3, <2>4, <2>5, <2>6, UserPlain
  <1>5. CASE ~Interrupts(q)
    BY <1>1, <1>3, <1>5, SameFields, UserPlain
  <1> QED
    BY <1>4, <1>5

LEMMA ClockPlain == ASSUME SInv, clock PROVE Plain
  <1>1. UNCHANGED <<tree, exiting, waitFor>> /\ Goto(k.cur, IF pc[k.cur] = "user" THEN "trapret" ELSE pc[k.cur])
    BY DEF clock
  <1>2. PICK Q : ClockWakes(Q)
    BY ClockDoes
  <1>3. \A q \in Procs : k'.st[q] = k.st[q] \/ {k.st[q], k'.st[q]} \subseteq {"SLEEPING", "RUNNABLE"}
    BY <1>2 DEF ClockWakes
  <1>4. \A q \in Procs : k'.ws[q] = "WT_CHILD" => k.ws[q] = "WT_CHILD" /\ waitFor'[q] = waitFor[q]
    BY <1>1, <1>2 DEF ClockWakes
  <1>5. pc'[Init0] = pc[Init0] \/ pc'[Init0] = "trapret"
    BY <1>1, CurRuns DEF Goto, SInv, RestOK, Procs
  <1>6. k'.panic = k.panic
    BY <1>2 DEF ClockWakes
  <1> QED
    BY <1>1, <1>3, <1>4, <1>5, <1>6 DEF Plain

LEMMA LoopPlain == ASSUME SInv, init_main_loop \/ cpu_idle PROVE Plain
  <1>1. UNCHANGED <<tree, exiting, waitFor>> /\ k' = schedule(k)
    BY DEF init_main_loop, cpu_idle
  <1>2. k'.st = k.st /\ k'.ws = k.ws /\ k'.panic = k.panic
    BY <1>1, ScheduleNow
  <1>3. pc' = pc \/ pc'[Init0] = "wait"
    BY CurRuns DEF init_main_loop, cpu_idle, Goto, SInv, RestOK, Procs
  <1> QED
    BY <1>1, <1>2, <1>3, SameFields DEF Plain

LEMMA WaitResumePlain == ASSUME SInv, do_wait_resume PROVE Plain
  <1> PICK p \in Procs : p = k.cur
    BY CurRuns
  <1>1. /\ UNCHANGED <<k, tree, exiting>> /\ (Goto(p, "wait") \/ (exiting[p] /\ Goto(p, "exit")))
        /\ (waitFor' = waitFor \/ waitFor' = [waitFor EXCEPT ![p] = None])
    BY DEF do_wait_resume
  <1>2. /\ \A q \in Procs \ {p} : waitFor'[q] = waitFor[q]
        /\ waitFor[Init0] = None => waitFor'[Init0] = None
    BY <1>1 DEF SInv, RestOK, Procs
  <1>3. \A q \in Procs : k'.ws[q] = "WT_CHILD" => k.ws[q] = "WT_CHILD" /\ waitFor'[q] = waitFor[q]
    BY <1>1, <1>2, CurRuns
  <1>4. pc'[Init0] = pc[Init0] \/ pc'[Init0] = "wait" \/ (pc'[Init0] = "exit" /\ exiting'[Init0])
    BY <1>1 DEF Goto, SInv, RestOK, Procs
  <1>5. pc'[Init0] = "initdone" => pc[Init0] = "initdone"
    BY <1>4
  <1>6. pc'[Init0] = "exit" => pc[Init0] = "exit" \/ exiting'[Init0]
    BY <1>4
  <1> QED
    BY <1>1, <1>2, <1>3, <1>5, <1>6, SameFields DEF Plain

(* The loop along optr finds exactly the children.                         *)
LEMMA ChildrenAre ==
    ASSUME NEW t \in Trees(Procs), NEW p \in Procs, NEW cs, Lists(Procs, t, p, cs)
    PROVE  /\ Children(t, p) = cs /\ cs \in Seq(Procs)
           /\ \A c \in Procs : t.parent[c] = p <=> c \in ToSet(cs)
  <1>1. Children(t, p) = cs
    BY ProcsFinite, ChildrenIsList
  <1>2. cs \in Seq(Procs) /\ \A c \in Procs : t.parent[c] = p <=> \E i \in 1 .. Len(cs) : cs[i] = c
    BY DEF Lists
  <1> QED
    BY <1>1, <1>2, SetOf

LEMMA CandidateIsChild ==
    ASSUME SInv, Listed, NEW p \in Procs, NEW c \in ToSet(Candidates(p, waitFor[p]))
    PROVE  c \in Procs /\ tree.parent[c] = p
  <1> DEFINE cs == Candidates(p, waitFor[p])
  <1>1. cs \in Seq(Procs)
    BY CandidatesTyped
  <1>2. c \in Procs /\ \E i \in 1 .. Len(cs) : cs[i] = c
    BY <1>1, SetOf
  <1>3. CASE waitFor[p] = None
    <2>1. PICK bs : Lists(Procs, tree, p, bs)
      BY DEF Listed
    <2>2. cs = Children(tree, p)
      BY <1>3 DEF Candidates
    <2> QED
      BY <1>2, <2>1, <2>2, ChildrenAre DEF SInv
  <1>4. CASE waitFor[p] # None
    <2>1. \/ tree.parent[waitFor[p]] = p /\ cs = <<waitFor[p]>>
          \/ cs = << >>
      BY <1>4 DEF Candidates
    <2>2. CASE tree.parent[waitFor[p]] = p /\ cs = <<waitFor[p]>>
      <3>1. Len(cs) = 1 /\ cs[1] = waitFor[p]
        BY <2>2
      <3>2. c = waitFor[p]
        BY <1>2, <3>1
      <3> QED
        BY <1>2, <2>2, <3>2
    <2>3. CASE cs = << >>
      BY <1>2, <2>3
    <2> QED
      BY <2>1, <2>2, <2>3
  <1> QED
    BY <1>3, <1>4

(* What NoLostChild says of one that waits.                                *)
NotLost(p) ==
    LET cs == Candidates(p, waitFor[p])
    IN  cs # << >> /\ \A i \in 1 .. Len(cs) : k.st[cs[i]] \in {"SLEEPING", "RUNNABLE"}

LEMMA StillWaits ==
    ASSUME SInv, SInv', Listed, NEW q \in Procs, NotLost(q), waitFor'[q] = waitFor[q],
           \A x \in User : (pc'[x] # "none" /\ tree'.parent[x] = q) <=> (pc[x] # "none" /\ tree.parent[x] = q),
           waitFor[q] = None => \A cs : Lists(Procs, tree, q, cs) => Lists(Procs, tree', q, cs),
           \A x \in Procs : Alive(x) /\ tree.parent[x] = q => k'.st[x] \in {"SLEEPING", "RUNNABLE"}
    PROVE  NotLost(q)'
  <1> DEFINE cs == Candidates(q, waitFor[q])
  <1>1. Candidates(q, waitFor[q])' = cs
    <2>1. CASE waitFor[q] = None
      <3>1. PICK bs : Lists(Procs, tree, q, bs)
        BY DEF Listed
      <3>2. Lists(Procs, tree', q, bs)
        BY <2>1, <3>1
      <3>3. Children(tree, q) = bs /\ Children(tree', q) = bs
        BY <3>1, <3>2, ChildrenAre DEF SInv
      <3> QED
        BY <2>1, <3>3 DEF Candidates
    <2>2. CASE waitFor[q] # None
      <3>1. waitFor[q] \in User
        BY <2>2 DEF SInv, RestOK
      <3> QED
        BY <2>2, <3>1 DEF Candidates, Exists
    <2> QED
      BY <2>1, <2>2
  <1>2. cs # << >> /\ \A i \in 1 .. Len(cs) : k.st[cs[i]] \in {"SLEEPING", "RUNNABLE"}
    BY DEF NotLost
  <1>3. cs \in Seq(Procs)
    BY CandidatesTyped
  <1>4. \A i \in 1 .. Len(cs) : cs[i] \in Procs /\ tree.parent[cs[i]] = q
    BY <1>3, SetOf, CandidateIsChild
  <1> HIDE DEF cs
  <1>5. \A i \in 1 .. Len(cs) : k'.st[cs[i]] \in {"SLEEPING", "RUNNABLE"}
    BY <1>2, <1>4 DEF Alive
  <1> QED
    BY <1>1, <1>2, <1>5 DEF NotLost

LEMMA NoLostIs == NoLostChild <=> \A p \in Procs : k.ws[p] = "WT_CHILD" => NotLost(p)
  BY DEF NoLostChild, NotLost

(* A fork links the child in.                                              *)
LEMMA ForkLists ==
    ASSUME SInv, Listed, Fathers, NEW p \in Procs, NEW c \in Procs \ {p}, k.st[c] = "UNINIT", pc[c] = "none"
    PROVE  LET u == set_links(tree, c, p)
           IN  /\ \A q \in Procs : \E cs : Lists(Procs, u, q, cs)
               /\ \A q \in Procs \ {p, c} : \A cs : Lists(Procs, tree, q, cs) => Lists(Procs, u, q, cs)
               /\ u \in Trees(Procs)
               /\ \A q \in Procs : u.parent[q] = IF q = c THEN p ELSE tree.parent[q]
               /\ tree.parent[c] = None /\ \A x \in Procs : tree.parent[x] # c
  <1> DEFINE u == set_links(tree, c, p)
             e == Emptied(tree, c)
  <1>0. tree \in Trees(Procs) /\ None \notin Procs
    BY ProcsFinite DEF SInv
  <1>1. /\ e \in Trees(Procs) /\ e.parent = tree.parent /\ e.optr = tree.optr /\ e.yptr = tree.yptr
        /\ e.cptr = [tree.cptr EXCEPT ![c] = None] /\ u = link(e, c, p) /\ Linked(Procs, e, u, c, p)
    BY <1>0, SetLinks
  <1>2. tree.cptr \in [Procs -> Procs \cup {None}] /\ tree.parent \in [Procs -> Procs \cup {None}]
    BY <1>0, Typed DEF Pointers
  <1>3. tree.parent[c] = None /\ \A x \in Procs : tree.parent[x] # c
    BY <1>0 DEF Fathers, Exists, Alive
  <1> HIDE DEF e, u
  <1>4. ASSUME NEW q \in Procs \ {c}, NEW cs, Lists(Procs, tree, q, cs) PROVE Lists(Procs, e, q, cs)
    <2>1. e.cptr[q] = tree.cptr[q]
      BY <1>1, <1>2
    <2> QED
      BY <1>1, <1>4, <2>1, SameList
  <1>5. Lists(Procs, e, c, << >>)
    <2>1. e.cptr[c] = None
      BY <1>1, <1>2
    <2>2. << >> \in Seq(Procs) /\ Len(<< >>) = 0
      OBVIOUS
    <2> QED
      BY <1>1, <1>3, <2>1, <2>2 DEF Lists
  <1>6. ASSUME NEW q \in Procs \ {p}, NEW cs, Lists(Procs, e, q, cs) PROVE Lists(Procs, u, q, cs)
    <2>1. e.parent[c] # q
      BY <1>0, <1>1, <1>3
    <2>2. PICK bs : Lists(Procs, tree, p, bs)
      BY DEF Listed
    <2>3. Lists(Procs, e, p, bs)
      BY <1>4, <2>2
    <2>4. e.cptr[p] # None => e.parent[e.cptr[p]] = p
      BY <2>3, FirstIsChild
    <2>5. Lists(Procs, link(e, c, p), q, cs)
      BY <1>0, <1>1, <1>6, <2>1, <2>4, LinkOther
    <2> QED
      BY <1>1, <2>5
  <1>7. ASSUME NEW q \in Procs PROVE \E cs : Lists(Procs, u, q, cs)
    <2>1. CASE q = p
      <3>1. PICK bs : Lists(Procs, tree, p, bs)
        BY DEF Listed
      <3>2. Lists(Procs, e, p, bs)
        BY <1>4, <3>1
      <3>3. ~\E i \in 1 .. Len(bs) : bs[i] = c
        BY <1>0, <1>3, <3>1 DEF Lists
      <3>4. Lists(Procs, link(e, c, p), p, <<c>> \o bs)
        BY <1>0, <1>1, <3>2, <3>3, LinkHead
      <3> QED
        BY <1>1, <2>1, <3>4
    <2>2. CASE q = c
      BY <1>5, <1>6, <2>2
    <2>3. CASE q # p /\ q # c
      <3>1. PICK bs : Lists(Procs, tree, q, bs)
        BY DEF Listed
      <3> QED
        BY <1>4, <1>6, <2>3, <3>1
    <2> QED
      BY <2>1, <2>2, <2>3
  <1>8. u \in Trees(Procs) /\ \A q \in Procs : u.parent[q] = IF q = c THEN p ELSE tree.parent[q]
    BY <1>1, <1>2 DEF Linked
  <1>9. \A q \in Procs \ {p, c} : \A cs : Lists(Procs, tree, q, cs) => Lists(Procs, u, q, cs)
    BY <1>4, <1>6
  <1> QED
    BY <1>3, <1>7, <1>8, <1>9 DEF u

(* do_fork: the child is its parent's youngest, below him in rank.          *)
LEMMA ForkFacts ==
    ASSUME SInv, NEW c \in User, NEW x \in {"user", "kmain"}, do_fork(c, x),
           pc[k.cur] \in {"user", "initfork"}
    PROVE  /\ k.cur \in User \cup {Init0} /\ c # k.cur /\ c # Init0
           /\ pc[c] = "none" /\ pc'[c] # "none" /\ pc'[k.cur] # "none"
           /\ \A q \in Procs \ {c, k.cur} : pc'[q] = pc[q]
           /\ k.cur = Init0 => pc'[Init0] = "wait"
           /\ exiting'[Init0] = exiting[Init0] /\ waitFor' = waitFor
  <1>1. k.cur \in User \cup {Init0} /\ k.cur \in Procs
    BY UserIsCurrent, InitIsCurrent, CurRuns
  <1>2. c # k.cur /\ pc[c] = "none" /\ c # Init0 /\ Init0 \in Procs /\ c \in Procs
    BY do_fork_does, ProcAssumption DEF Procs
  <1>3. /\ pc \in [Procs -> Points] /\ exiting \in [Procs -> BOOLEAN]
        /\ pc' = [pc EXCEPT ![c] = x, ![k.cur] = IF k.cur = Init0 THEN "wait" ELSE "trapret"]
        /\ exiting' = [exiting EXCEPT ![c] = FALSE] /\ waitFor' = waitFor
    BY DEF do_fork, SInv, RestOK
  <1> QED
    BY <1>1, <1>2, <1>3

LEMMA ForkKeepsFamily ==
    ASSUME SInv, SInv', FInv, Running, NEW c \in User, NEW x \in {"user", "kmain"}, do_fork(c, x),
           pc[k.cur] \in {"user", "initfork"}
    PROVE  FInv'
  <1> PICK p \in Procs : p = k.cur
    BY CurRuns
  <1>1. /\ p \in User \cup {Init0} /\ c # p /\ c # Init0
        /\ pc[c] = "none" /\ pc'[c] # "none" /\ pc'[p] # "none"
        /\ \A q \in Procs \ {c, p} : pc'[q] = pc[q]
        /\ p = Init0 => pc'[Init0] = "wait"
        /\ exiting'[Init0] = exiting[Init0] /\ waitFor' = waitFor
    BY ForkFacts
  <1>2. /\ k.st[c] = "UNINIT" /\ k'.panic = k.panic /\ tree' = set_links(tree, c, p)
        /\ k'.st = [k.st EXCEPT ![c] = "RUNNABLE"] /\ k'.ws = [k.ws EXCEPT ![c] = "0"]
    BY do_fork_does
  <1>3. /\ k.st \in [Procs -> States] /\ k.ws \in [Procs -> Waits]
        /\ k.st[p] = "RUNNABLE" /\ k.ws[p] = "0" /\ pc[p] # "none"
    BY CurRuns, RecordFields
  <1>4. /\ c \in Procs \ {p} /\ Init0 \in Procs /\ Idle \in Procs /\ Idle # Init0
        /\ None \notin Procs /\ Idle # c
    BY <1>1, ProcsFinite, ProcAssumption DEF Procs
  <1>5. /\ \A q \in Procs : \E cs : Lists(Procs, tree', q, cs)
        /\ \A q \in Procs \ {p, c} : \A cs : Lists(Procs, tree, q, cs) => Lists(Procs, tree', q, cs)
        /\ \A q \in Procs : tree'.parent[q] = IF q = c THEN p ELSE tree.parent[q]
        /\ tree.parent[c] = None /\ \A q \in Procs : tree.parent[q] # c
    BY <1>1, <1>2, <1>4, ForkLists DEF FInv
  <1>6. \A q \in Procs : k'.st[q] = IF q = c THEN "RUNNABLE" ELSE k.st[q]
    BY <1>2, <1>3
  <1>7. \A q \in Procs : k'.ws[q] = IF q = c THEN "0" ELSE k.ws[q]
    BY <1>2, <1>3
  <1>8. \A q \in Procs \ {c} : pc'[q] # "none" <=> pc[q] # "none"
    BY <1>1, <1>3
  <1>9. Listed'
    BY <1>5 DEF Listed
  <1>10. Fathers'
    <2>1. ASSUME NEW y \in Procs, tree'.parent[y] # None
          PROVE  pc'[y] # "none" /\ k'.st[tree'.parent[y]] \in {"SLEEPING", "RUNNABLE"}
      <3>1. CASE y = c
        <4>1. tree'.parent[y] = p
          BY <1>5, <3>1
        <4> QED
          BY <1>1, <1>3, <1>6, <3>1, <4>1
      <3>2. CASE y # c
        <4>1. tree'.parent[y] = tree.parent[y] /\ tree.parent[y] # c
          BY <1>5, <3>2
        <4>2. tree.parent[y] \in Procs
          BY <2>1, <4>1, Typed DEF SInv, Pointers
        <4>3. pc[y] # "none" /\ k.st[tree.parent[y]] \in {"SLEEPING", "RUNNABLE"}
          BY <2>1, <4>1 DEF FInv, Fathers, Exists, Alive
        <4> QED
          BY <1>6, <1>8, <3>2, <4>1, <4>2, <4>3
      <3> QED
        BY <3>1, <3>2
    <2>2. tree'.parent[Idle] = None /\ tree'.parent[Init0] = Idle
      BY <1>1, <1>4, <1>5 DEF FInv, Fathers
    <2>3. \A y \in User : tree'.parent[y] # Idle
      BY <1>1, <1>5, ProcAssumption DEF FInv, Fathers, Procs
    <2> QED
      BY <2>1, <2>2, <2>3 DEF Fathers, Exists, Alive
  <1>11. Ranked'
    <2>1. PICK r \in [Procs -> Nat] : Ranks(r)
      BY DEF FInv, Ranked
    <2> DEFINE s == [r EXCEPT ![c] = r[p] + 1]
    <2>2. s \in [Procs -> Nat] /\ s[c] = r[p] + 1 /\ \A q \in Procs \ {c} : s[q] = r[q]
      BY <1>4
    <2> HIDE DEF s
    <2>3. s[Init0] = 0 /\ \A q \in User : s[q] > 0
      <3>1. s[Init0] = 0
        BY <1>1, <1>4, <2>1, <2>2 DEF Ranks
      <3>2. ASSUME NEW q \in User PROVE s[q] > 0
        <4>1. q \in Procs /\ r[q] > 0 /\ r[p] \in Nat
          BY <2>1 DEF Ranks, Procs
        <4> QED
          BY <2>2, <4>1
      <3> QED
        BY <3>1, <3>2
    <2>4. ASSUME NEW q \in User, pc'[q] # "none" PROVE s[q] > s[tree'.parent[q]]
      <3>1. CASE q = c
        <4>1. tree'.parent[q] = p /\ s[p] = r[p] /\ r[p] \in Nat
          BY <1>1, <1>4, <1>5, <2>2, <3>1
        <4> QED
          BY <2>2, <3>1, <4>1
      <3>2. CASE q # c
        <4>1. q \in Procs /\ pc[q] # "none"
          BY <1>8, <2>4, <3>2 DEF Procs
        <4>2. tree'.parent[q] = tree.parent[q] /\ tree.parent[q] # c /\ tree.parent[q] \in Procs
          BY <1>5, <3>2, <4>1, ProcAssumption DEF SInv, Placed
        <4>3. r[q] > r[tree.parent[q]]
          BY <2>1, <4>1 DEF Ranks, Exists
        <4> QED
          BY <2>2, <3>2, <4>1, <4>2, <4>3
      <3> QED
        BY <3>1, <3>2
    <2>5. Ranks(s)'
      BY <2>3, <2>4 DEF Ranks, Exists
    <2> QED
      BY <2>2, <2>5 DEF Ranked
  <1>12. NoLostChild'
    <2>1. ASSUME NEW q \in Procs, k'.ws[q] = "WT_CHILD" PROVE NotLost(q)'
      <3>1. q # c /\ q # p /\ k.ws[q] = "WT_CHILD"
        BY <1>3, <1>4, <1>7, <2>1
      <3>2. NotLost(q)
        BY <3>1 DEF FInv, NoLostChild, NotLost
      <3>3. \A y \in User : (pc'[y] # "none" /\ tree'.parent[y] = q) <=> (pc[y] # "none" /\ tree.parent[y] = q)
        <4> SUFFICES ASSUME NEW y \in User
                     PROVE  (pc'[y] # "none" /\ tree'.parent[y] = q) <=> (pc[y] # "none" /\ tree.parent[y] = q)
          OBVIOUS
        <4>1. CASE y = c
          BY <1>1, <1>4, <1>5, <3>1, <4>1
        <4>2. CASE y # c
          <5>1. y \in Procs \ {c}
            BY <4>2 DEF Procs
          <5> QED
            BY <1>5, <1>8, <5>1
        <4> QED
          BY <4>1, <4>2
      <3>4. \A cs : Lists(Procs, tree, q, cs) => Lists(Procs, tree', q, cs)
        BY <1>5, <3>1
      <3>5. \A y \in Procs : Alive(y) /\ tree.parent[y] = q => k'.st[y] \in {"SLEEPING", "RUNNABLE"}
        BY <1>6 DEF Alive
      <3>6. Listed /\ waitFor'[q] = waitFor[q]
        BY <1>1 DEF FInv
      <3> QED
        BY <3>2, <3>3, <3>4, <3>5, <3>6, StillWaits
    <2> QED
      BY <2>1 DEF NoLostChild, NotLost
  <1>13. Ending'
    <2>1. waitFor'[Init0] = None
      BY <1>1 DEF FInv, Ending
    <2>2. k'.panic = "none"
      BY <1>2 DEF Running
    <2>3. p # Init0 => ~NobodyLeft /\ pc'[Init0] = pc[Init0]
      BY <1>1, <1>3, <1>4 DEF NobodyLeft, Exists
    <2>4. pc'[Init0] # "initdone"
      BY <1>1, <2>3 DEF FInv, Ending
    <2>5. pc'[Init0] = "exit" => exiting'[Init0]
      BY <1>1, <2>3 DEF FInv, Ending
    <2>6. OnlyInitPanics'
      BY <2>2 DEF OnlyInitPanics
    <2> QED
      BY <2>1, <2>4, <2>5, <2>6 DEF Ending
  <1> QED
    BY <1>9, <1>10, <1>11, <1>12, <1>13 DEF FInv

(* do_wait frees a child that is dead: nobody else is touched.              *)
LEMMA FoundFacts ==
    ASSUME SInv, FInv, pc[k.cur] = "wait", NEW c \in Procs, k.st[c] = "ZOMBIE", tree.parent[c] = k.cur,
           do_wait_found(c)
    PROVE  /\ k.cur \in User \cup {Init0} /\ c \in User /\ c # k.cur /\ c # Init0 /\ pc[c] = "exit"
           /\ pc'[c] = "none" /\ pc'[k.cur] # "none"
           /\ \A q \in Procs \ {c, k.cur} : pc'[q] = pc[q]
           /\ k.cur = Init0 => pc'[Init0] = "initsched"
           /\ exiting'[Init0] = exiting[Init0] /\ waitFor'[Init0] = waitFor[Init0]
           /\ \A q \in Procs \ {k.cur} : waitFor'[q] = waitFor[q]
  <1>1. k.cur \in Procs /\ k.cur # Idle /\ k.cur \in User \cup {Init0}
    <2>1. k.cur \in Procs
      BY CurRuns
    <2>2. k.cur # Idle
      BY <2>1 DEF SInv, Placed, InPlace
    <2> QED
      BY <2>1, <2>2 DEF Procs
  <1>2. c # k.cur /\ c \in User /\ pc[c] = "exit"
    BY do_wait_found_does
  <1>3. c # Init0 /\ Init0 \in Procs
    BY <1>2, ProcAssumption DEF Procs
  <1>4. /\ pc \in [Procs -> Points] /\ exiting \in [Procs -> BOOLEAN]
        /\ waitFor \in [Procs -> User \cup {None}]
        /\ pc' = [pc EXCEPT ![c] = "none", ![k.cur] = IF k.cur = Init0 THEN "initsched" ELSE "trapret"]
        /\ exiting' = [exiting EXCEPT ![c] = FALSE] /\ waitFor' = [waitFor EXCEPT ![k.cur] = None]
    BY DEF do_wait_found, SInv, RestOK
  <1>5. waitFor[Init0] = None
    BY DEF FInv, Ending
  <1> QED
    BY <1>1, <1>2, <1>3, <1>4, <1>5

LEMMA FoundLists ==
    ASSUME SInv, FInv, NEW p \in Procs, NEW c \in Procs, k.st[c] = "ZOMBIE", tree.parent[c] = p
    PROVE  LET u == remove_links(tree, c)
           IN  /\ \A q \in Procs : \E cs : Lists(Procs, u, q, cs)
               /\ \A q \in Procs \ {p} : \A cs : Lists(Procs, tree, q, cs) => Lists(Procs, u, q, cs)
               /\ \A q \in Procs : u.parent[q] = IF q = c THEN None ELSE tree.parent[q]
               /\ \A q \in Procs : tree.parent[q] # c
  <1> DEFINE u == remove_links(tree, c)
  <1>0. tree \in Trees(Procs) /\ None \notin Procs
    BY ProcsFinite DEF SInv
  <1>1. PICK bs : Lists(Procs, tree, p, bs)
    BY DEF FInv, Listed
  <1>2. PICK i \in 1 .. Len(bs) : bs[i] = c
    BY <1>1 DEF Lists
  <1>3. Lists(Procs, remove_links(tree, bs[i]), p, Without(bs, i))
    BY <1>0, <1>1, RemoveFrom
  <1>4. Unlinked(Procs, tree, u, c)
    BY <1>0, RemoveFields
  <1>5. u.parent = [tree.parent EXCEPT ![c] = None] /\ tree.parent \in [Procs -> Procs \cup {None}]
    BY <1>0, <1>4, Typed DEF Unlinked, Pointers
  <1>6. ASSUME NEW q \in Procs \ {p}, NEW cs, Lists(Procs, tree, q, cs) PROVE Lists(Procs, u, q, cs)
    <2>1. tree.parent[c] \in Procs /\ Lists(Procs, tree, tree.parent[c], bs) /\ q \in Procs \ {tree.parent[c]}
      BY <1>1
    <2> QED
      BY <1>0, <1>6, <2>1, RemoveOther
  <1>7. Lists(Procs, u, p, Without(bs, i))
    BY <1>2, <1>3
  <1> HIDE DEF u
  <1>8. ASSUME NEW q \in Procs PROVE \E cs : Lists(Procs, u, q, cs)
    <2>1. CASE q = p
      BY <1>7, <2>1
    <2>2. CASE q # p
      <3>1. PICK cs : Lists(Procs, tree, q, cs)
        BY DEF FInv, Listed
      <3> QED
        BY <1>6, <2>2, <3>1
    <2> QED
      BY <2>1, <2>2
  <1>9. \A q \in Procs : tree.parent[q] # c
    BY <1>0 DEF FInv, Fathers, Alive
  <1>10. \A q \in Procs : u.parent[q] = IF q = c THEN None ELSE tree.parent[q]
    BY <1>5
  <1>11. \A q \in Procs \ {p} : \A cs : Lists(Procs, tree, q, cs) => Lists(Procs, u, q, cs)
    BY <1>6
  <1> QED
    BY <1>8, <1>9, <1>10, <1>11 DEF u

LEMMA FoundKeepsFamily ==
    ASSUME SInv, SInv', FInv, Running, pc[k.cur] = "wait", NEW c \in Procs, k.st[c] = "ZOMBIE",
           tree.parent[c] = k.cur, do_wait_found(c)
    PROVE  FInv'
  <1> PICK p \in Procs : p = k.cur
    BY CurRuns
  <1>1. /\ p \in User \cup {Init0} /\ c \in User /\ c # p /\ c # Init0 /\ pc[c] = "exit"
        /\ pc'[c] = "none" /\ pc'[p] # "none"
        /\ \A q \in Procs \ {c, p} : pc'[q] = pc[q]
        /\ p = Init0 => pc'[Init0] = "initsched"
        /\ exiting'[Init0] = exiting[Init0] /\ waitFor'[Init0] = waitFor[Init0]
        /\ \A q \in Procs \ {p} : waitFor'[q] = waitFor[q]
    BY FoundFacts
  <1>2. /\ k'.panic = k.panic /\ tree' = remove_links(tree, c)
        /\ k'.st = [k.st EXCEPT ![c] = "UNINIT"] /\ k'.ws = [k.ws EXCEPT ![c] = "0"]
    BY do_wait_found_does
  <1>3. /\ k.st \in [Procs -> States] /\ k.ws \in [Procs -> Waits]
        /\ k.st[p] = "RUNNABLE" /\ k.ws[p] = "0" /\ pc[p] # "none"
    BY CurRuns, RecordFields
  <1>4. /\ Init0 \in Procs /\ Idle \in Procs /\ Idle # Init0 /\ None \notin Procs /\ Idle # c
    BY <1>1, ProcsFinite, ProcAssumption DEF Procs
  <1>5. /\ \A q \in Procs : \E cs : Lists(Procs, tree', q, cs)
        /\ \A q \in Procs \ {p} : \A cs : Lists(Procs, tree, q, cs) => Lists(Procs, tree', q, cs)
        /\ \A q \in Procs : tree'.parent[q] = IF q = c THEN None ELSE tree.parent[q]
        /\ \A q \in Procs : tree.parent[q] # c
    BY <1>2, FoundLists
  <1>6. \A q \in Procs : k'.st[q] = IF q = c THEN "UNINIT" ELSE k.st[q]
    BY <1>2, <1>3
  <1>7. \A q \in Procs : k'.ws[q] = IF q = c THEN "0" ELSE k.ws[q]
    BY <1>2, <1>3
  <1>8. \A q \in Procs \ {c} : pc'[q] # "none" <=> pc[q] # "none"
    BY <1>1, <1>3
  <1>9. Listed'
    BY <1>5 DEF Listed
  <1>10. Fathers'
    <2>1. ASSUME NEW y \in Procs, tree'.parent[y] # None
          PROVE  pc'[y] # "none" /\ k'.st[tree'.parent[y]] \in {"SLEEPING", "RUNNABLE"}
      <3>1. y # c /\ tree'.parent[y] = tree.parent[y] /\ tree.parent[y] # c
        BY <1>5, <2>1
      <3>2. tree.parent[y] \in Procs
        BY <2>1, <3>1, Typed DEF SInv, Pointers
      <3>3. pc[y] # "none" /\ k.st[tree.parent[y]] \in {"SLEEPING", "RUNNABLE"}
        BY <2>1, <3>1 DEF FInv, Fathers, Exists, Alive
      <3> QED
        BY <1>6, <1>8, <3>1, <3>2, <3>3
    <2>2. tree'.parent[Idle] = None /\ tree'.parent[Init0] = Idle
      BY <1>1, <1>4, <1>5 DEF FInv, Fathers
    <2>3. \A y \in User : tree'.parent[y] # Idle
      BY <1>4, <1>5 DEF FInv, Fathers, Procs
    <2> QED
      BY <2>1, <2>2, <2>3 DEF Fathers, Exists, Alive
  <1>11. Ranked'
    <2>1. PICK r \in [Procs -> Nat] : Ranks(r)
      BY DEF FInv, Ranked
    <2>2. ASSUME NEW q \in User, pc'[q] # "none" PROVE r[q] > r[tree'.parent[q]]
      <3>1. q \in Procs /\ q # c
        BY <1>1, <2>2 DEF Procs
      <3>2. pc[q] # "none" /\ tree'.parent[q] = tree.parent[q]
        BY <1>5, <1>8, <2>2, <3>1
      <3> QED
        BY <2>1, <3>2 DEF Ranks, Exists
    <2>3. Ranks(r)'
      BY <2>1, <2>2 DEF Ranks, Exists
    <2> QED
      BY <2>3 DEF Ranked
  <1>12. NoLostChild'
    <2>1. ASSUME NEW q \in Procs, k'.ws[q] = "WT_CHILD" PROVE NotLost(q)'
      <3>1. q # c /\ q # p /\ k.ws[q] = "WT_CHILD"
        BY <1>3, <1>7, <2>1
      <3>2. NotLost(q)
        BY <3>1 DEF FInv, NoLostChild, NotLost
      <3>3. \A y \in User : (pc'[y] # "none" /\ tree'.parent[y] = q) <=> (pc[y] # "none" /\ tree.parent[y] = q)
        <4> SUFFICES ASSUME NEW y \in User
                     PROVE  (pc'[y] # "none" /\ tree'.parent[y] = q) <=> (pc[y] # "none" /\ tree.parent[y] = q)
          OBVIOUS
        <4>1. CASE y = c
          BY <1>1, <3>1, <4>1
        <4>2. CASE y # c
          <5>1. y \in Procs \ {c}
            BY <4>2 DEF Procs
          <5> QED
            BY <1>5, <1>8, <5>1
        <4> QED
          BY <4>1, <4>2
      <3>4. \A cs : Lists(Procs, tree, q, cs) => Lists(Procs, tree', q, cs)
        BY <1>5, <3>1
      <3>5. \A y \in Procs : Alive(y) /\ tree.parent[y] = q => k'.st[y] \in {"SLEEPING", "RUNNABLE"}
        BY <1>6, <3>1 DEF Alive
      <3>6. Listed /\ waitFor'[q] = waitFor[q]
        BY <1>1, <3>1 DEF FInv
      <3> QED
        BY <3>2, <3>3, <3>4, <3>5, <3>6, StillWaits
    <2> QED
      BY <2>1 DEF NoLostChild, NotLost
  <1>13. Ending'
    <2>1. waitFor'[Init0] = None
      BY <1>1 DEF FInv, Ending
    <2>2. k'.panic = "none"
      BY <1>2 DEF Running
    <2>3. ~NobodyLeft /\ (p # Init0 => pc'[Init0] = pc[Init0])
      BY <1>1, <1>4 DEF NobodyLeft, Exists
    <2>4. pc'[Init0] # "initdone"
      BY <1>1, <2>3 DEF FInv, Ending
    <2>5. pc'[Init0] = "exit" => exiting'[Init0]
      BY <1>1, <2>3 DEF FInv, Ending
    <2>6. OnlyInitPanics'
      BY <2>2 DEF OnlyInitPanics
    <2> QED
      BY <2>1, <2>4, <2>5, <2>6 DEF Ending
  <1> QED
    BY <1>9, <1>10, <1>11, <1>12, <1>13 DEF FInv

(* Without a child of initproc no user process exists: the one of the lowest *)
(* rank would have no father.                                              *)
LEMMA NoChildNobody ==
    ASSUME SInv, FInv, Children(tree, Init0) = << >>
    PROVE  NobodyLeft
  <1>1. PICK r \in [Procs -> Nat] : Ranks(r)
    BY DEF FInv, Ranked
  <1>2. Init0 \in Procs /\ None \notin Procs
    BY ProcsFinite DEF Procs
  <1>3. ASSUME NEW c \in User, Exists(c)
        PROVE  c \in Procs /\ tree.parent[c] \in User /\ Exists(tree.parent[c])
    <2>1. c \in Procs /\ c # Idle
      BY ProcAssumption DEF Procs
    <2>2. tree.parent[c] \in Procs /\ tree.parent[c] # Idle
      BY <1>3, <2>1 DEF SInv, Placed, FInv, Fathers, Exists
    <2>3. tree.parent[c] # Init0
      <3>1. PICK cs : Lists(Procs, tree, Init0, cs)
        BY <1>2 DEF FInv, Listed
      <3>2. cs = << >>
        BY <1>2, <3>1, ChildrenAre DEF SInv
      <3>3. ~\E i \in 1 .. Len(cs) : cs[i] = c
        BY <3>2
      <3> QED
        BY <2>1, <3>1, <3>3 DEF Lists
    <2>4. Alive(tree.parent[c])
      BY <1>2, <2>1, <2>2 DEF FInv, Fathers
    <2>5. pc[tree.parent[c]] # "none"
      BY <2>2, <2>4 DEF SInv, Placed, Alive
    <2> QED
      BY <2>1, <2>2, <2>3, <2>5 DEF Procs, Exists
  <1> DEFINE Good == {n \in Nat : \A c \in User : Exists(c) => r[c] >= n}
  <1>4. \A c \in User : c \in Procs /\ r[c] \in Nat
    BY DEF Procs
  <1>5. 0 \in Good
    BY <1>4
  <1>6. ASSUME NEW n \in Nat, n \in Good PROVE n + 1 \in Good
    <2> SUFFICES ASSUME NEW c \in User, Exists(c) PROVE r[c] >= n + 1
      OBVIOUS
    <2>1. tree.parent[c] \in User /\ Exists(tree.parent[c])
      BY <1>3
    <2>2. r[tree.parent[c]] >= n /\ r[c] > r[tree.parent[c]]
      BY <1>1, <1>6, <2>1 DEF Ranks
    <2>3. r[tree.parent[c]] \in Nat /\ r[c] \in Nat
      BY <1>4, <2>1
    <2> QED
      BY <2>2, <2>3
  <1>7. ASSUME NEW c \in User, Exists(c) PROVE FALSE
    <2> HIDE DEF Good
    <2>1. Nat \subseteq Good
      BY <1>5, <1>6, Induction
    <2>2. r[c] \in Nat /\ r[c] + 1 \in Nat
      BY <1>4
    <2>3. r[c] + 1 \in Good
      BY <2>1, <2>2
    <2>4. r[c] >= r[c] + 1
      BY <1>7, <2>3 DEF Good
    <2> QED
      BY <2>2, <2>4
  <1> QED
    BY <1>7 DEF NobodyLeft

(* do_wait: the caller sleeps when it has a child and none is dead.         *)
LEMMA WaitSleepKeepsFamily ==
    ASSUME SInv, SInv', FInv, pc[k.cur] = "wait",
           Candidates(k.cur, waitFor[k.cur]) # << >>,
           ZombieAmong(Candidates(k.cur, waitFor[k.cur])) = 0,
           k' = schedule([k EXCEPT !.st[k.cur] = "SLEEPING", !.ws[k.cur] = "WT_CHILD"]),
           Goto(k.cur, "waited"), UNCHANGED <<tree, exiting, waitFor>>
    PROVE  FInv' /\ Settled
  <1> PICK p \in Procs : p = k.cur
    BY CurRuns
  <1> DEFINE cs == Candidates(p, waitFor[p])
  <1>1. p # Idle /\ p \in User \cup {Init0} /\ Init0 \in Procs
    BY DEF SInv, Placed, InPlace, Procs
  <1>2. /\ k'.st = [k.st EXCEPT ![p] = "SLEEPING"] /\ k'.ws = [k.ws EXCEPT ![p] = "WT_CHILD"]
        /\ k'.panic = k.panic
    BY <1>1, SleepFields DEF Interruptible
  <1>3. /\ k.st \in [Procs -> States] /\ k.ws \in [Procs -> Waits]
        /\ k.st[p] = "RUNNABLE" /\ k.ws[p] = "0" /\ pc[p] # "none"
    BY CurRuns, RecordFields
  <1>4. \A q \in Procs : k'.st[q] = IF q = p THEN "SLEEPING" ELSE k.st[q]
    BY <1>2, <1>3
  <1>5. \A q \in Procs : k'.ws[q] = IF q = p THEN "WT_CHILD" ELSE k.ws[q]
    BY <1>2, <1>3
  <1>6. \A q \in Procs : pc'[q] = IF q = p THEN "waited" ELSE pc[q]
    BY DEF Goto, SInv, RestOK
  <1>7. \A q \in Procs : (Exists(q)' <=> Exists(q)) /\ (Alive(q)' <=> Alive(q))
    BY <1>3, <1>4, <1>6 DEF Exists, Alive
  <1>8. Listed' /\ Fathers' /\ Ranked'
    BY <1>7, SameFamily DEF Settled
  <1>9. NoLostChild'
    <2>1. NotLost(p)
      <3>1. cs \in Seq(Procs)
        BY CandidatesTyped
      <3>2. ASSUME NEW i \in 1 .. Len(cs) PROVE k.st[cs[i]] \in {"SLEEPING", "RUNNABLE"}
        <4>1. cs[i] \in Procs /\ tree.parent[cs[i]] = p
          BY <3>1, SetOf, CandidateIsChild DEF FInv
        <4>2. k.st[cs[i]] # "ZOMBIE"
          BY <3>1, ZombieFound
        <4> HIDE DEF cs
        <4>3. pc[cs[i]] # "none"
          BY <4>1, ProcsFinite DEF FInv, Fathers, Exists
        <4>4. k.st[cs[i]] # "UNINIT"
          BY <4>1, <4>3 DEF SInv, Placed
        <4> QED
          BY <1>3, <4>1, <4>2, <4>4 DEF States
      <3> QED
        BY <3>2 DEF NotLost
    <2>2. ASSUME NEW q \in Procs, k'.ws[q] = "WT_CHILD" PROVE NotLost(q)'
      <3>1. NotLost(q)
        <4>1. CASE q = p
          BY <2>1, <4>1
        <4>2. CASE q # p
          BY <1>5, <2>2, <4>2 DEF FInv, NoLostChild, NotLost
        <4> QED
          BY <4>1, <4>2
      <3>2. \A y \in User : (pc'[y] # "none" /\ tree'.parent[y] = q) <=> (pc[y] # "none" /\ tree.parent[y] = q)
        BY <1>7 DEF Exists, Procs
      <3>3. \A bs : Lists(Procs, tree, q, bs) => Lists(Procs, tree', q, bs)
        OBVIOUS
      <3>4. \A y \in Procs : Alive(y) /\ tree.parent[y] = q => k'.st[y] \in {"SLEEPING", "RUNNABLE"}
        BY <1>4 DEF Alive
      <3> QED
        BY <3>1, <3>2, <3>3, <3>4, StillWaits DEF FInv
    <2> QED
      BY <2>2 DEF NoLostChild, NotLost
  <1>10. Ending'
    <2>1. waitFor'[Init0] = None
      BY DEF FInv, Ending
    <2>2. NobodyLeft => NobodyLeft'
      BY <1>7 DEF NobodyLeft, Procs
    <2>3. pc'[Init0] = "waited" \/ pc'[Init0] = pc[Init0]
      BY <1>1, <1>6
    <2>4. OnlyInitPanics'
      BY <1>2, <2>2 DEF FInv, Ending, OnlyInitPanics, NobodyLeft
    <2> QED
      BY <2>1, <2>2, <2>3, <2>4 DEF FInv, Ending
  <1> QED
    BY <1>7, <1>8, <1>9, <1>10 DEF FInv, Settled

(* do_wait: the call fails for want of a child.                            *)
LEMMA WaitNoneKeepsFamily ==
    ASSUME SInv, SInv', FInv, pc[k.cur] = "wait",
           Candidates(k.cur, waitFor[k.cur]) = << >>,
           Goto(k.cur, IF k.cur = Init0 THEN "initdone" ELSE "trapret"),
           waitFor' = [waitFor EXCEPT ![k.cur] = None],
           UNCHANGED <<k, tree, exiting>>
    PROVE  FInv' /\ Settled
  <1> PICK p \in Procs : p = k.cur
    BY CurRuns
  <1>1. p \in User \cup {Init0} /\ Init0 \in Procs
    BY DEF SInv, Placed, InPlace, Procs
  <1>2. CASE p \in User
    <2>1. \A q \in Procs \ {p} : waitFor'[q] = waitFor[q]
      BY DEF SInv, RestOK
    <2>2. Plain
      BY <1>2, <2>1, SameFields, UserPlain
    <2> QED
      BY <2>2, PlainKeeps
  <1>3. CASE p = Init0
    <2>1. waitFor[Init0] = None /\ \A q \in Procs : waitFor'[q] = waitFor[q]
      BY <1>3 DEF FInv, Ending, SInv, RestOK
    <2>2. Children(tree, Init0) = << >>
      BY <1>3, <2>1 DEF Candidates
    <2>3. NobodyLeft
      BY <2>2, NoChildNobody
    <2>4. pc[p] # "none" /\ \A q \in Procs : pc'[q] = IF q = p THEN "initdone" ELSE pc[q]
      BY <1>3 DEF Goto, SInv, RestOK
    <2>5. \A q \in Procs : (Exists(q)' <=> Exists(q)) /\ (Alive(q)' <=> Alive(q))
      BY <2>4 DEF Exists, Alive
    <2>6. Listed' /\ Fathers' /\ Ranked'
      BY <2>5, SameFamily DEF Settled
    <2>7. ASSUME NEW q \in Procs, k'.ws[q] = "WT_CHILD" PROVE NotLost(q)'
      <3>1. NotLost(q)
        BY <2>7 DEF FInv, NoLostChild, NotLost
      <3>2. \A y \in User : (pc'[y] # "none" /\ tree'.parent[y] = q) <=> (pc[y] # "none" /\ tree.parent[y] = q)
        BY <2>5 DEF Exists, Procs
      <3>3. \A bs : Lists(Procs, tree, q, bs) => Lists(Procs, tree', q, bs)
        OBVIOUS
      <3>4. \A y \in Procs : Alive(y) /\ tree.parent[y] = q => k'.st[y] \in {"SLEEPING", "RUNNABLE"}
        BY DEF Alive
      <3> QED
        BY <2>1, <3>1, <3>2, <3>3, <3>4, StillWaits DEF FInv
    <2>8. NoLostChild'
      BY <2>7 DEF NoLostChild, NotLost
    <2>9. NobodyLeft'
      BY <2>3, <2>5 DEF NobodyLeft, Procs
    <2>10. OnlyInitPanics'
      BY <2>9 DEF FInv, Ending, OnlyInitPanics, NobodyLeft
    <2>11. Ending'
      BY <1>1, <2>1, <2>9, <2>10 DEF Ending
    <2> QED
      BY <2>5, <2>6, <2>8, <2>11 DEF FInv, Settled
  <1> QED
    BY <1>1, <1>2, <1>3

Frees == \E c \in Procs : k.st[c] = "ZOMBIE" /\ tree.parent[c] = k.cur /\ do_wait_found(c) /\ pc[k.cur] = "wait"

LEMMA do_wait_family == ASSUME SInv, SInv', FInv, do_wait PROVE FInv' /\ (Settled \/ Frees)
  <1> PICK p \in Procs : p = k.cur
    BY CurRuns
  <1> DEFINE cs == Candidates(p, waitFor[p])
             z == ZombieAmong(cs)
  <1>1. pc[p] = "wait" /\ Running
    BY DEF do_wait, At
  <1>2. cs \in Seq(Procs)
    BY CandidatesTyped
  <1>3. CASE z # 0 /\ do_wait_found(cs[z])
    <2>1. z \in 1 .. Len(cs) /\ k.st[cs[z]] = "ZOMBIE"
      BY <1>2, <1>3, ZombieFound
    <2>2. cs[z] \in Procs /\ cs[z] \in ToSet(cs)
      BY <1>2, <2>1, SetOf
    <2>3. tree.parent[cs[z]] = p
      BY <2>2, CandidateIsChild DEF FInv
    <2> HIDE DEF cs, z
    <2> QED
      BY <1>1, <1>3, <2>1, <2>2, <2>3, FoundKeepsFamily DEF Frees
  <1>4. CASE /\ z = 0 /\ cs # << >>
             /\ k' = schedule([k EXCEPT !.st[p] = "SLEEPING", !.ws[p] = "WT_CHILD"])
             /\ Goto(p, "waited")
             /\ UNCHANGED <<timers, kbdq, keyed, tree, exiting, waitFor, mm>>
    BY <1>1, <1>4, WaitSleepKeepsFamily
  <1>5. CASE /\ cs = << >>
             /\ Goto(p, IF p = Init0 THEN "initdone" ELSE "trapret")
             /\ waitFor' = [waitFor EXCEPT ![p] = None]
             /\ UNCHANGED <<k, timers, kbdq, keyed, tree, exiting, mm>>
    BY <1>1, <1>5, WaitNoneKeepsFamily
  <1> QED
    BY <1>3, <1>4, <1>5 DEF do_wait

(* do_exit of initproc is the panic that ends the system.                  *)
LEMMA InitExitFamily ==
    ASSUME SInv, SInv', FInv, do_exit, k.cur \in {Idle, Init0}
    PROVE  FInv' /\ Settled
  <1> PICK p \in Procs : p = k.cur
    BY CurRuns
  <1>1. /\ pc[p] = "exit" /\ k' = Panic(k, "initproc exit") /\ UNCHANGED <<tree, pc, exiting, waitFor>>
        /\ k.panic = "none"
    BY DEF do_exit, At, Running
  <1>2. p = Init0
    BY <1>1 DEF SInv, Placed, InPlace
  <1>3. k'.st = k.st /\ k'.ws = k.ws
    BY <1>1, PanicKeeps DEF Ends
  <1>4. k'.panic = "initproc exit"
    BY <1>1, CurRuns DEF Panic, Records
  <1>5. \A q \in Procs : (Exists(q)' <=> Exists(q)) /\ (Alive(q)' <=> Alive(q))
    BY <1>1, <1>3 DEF Exists, Alive
  <1>6. Listed' /\ Fathers' /\ Ranked'
    BY <1>1, <1>5, SameFamily DEF Settled
  <1>7. NoLostChild'
    <2>1. ASSUME NEW q \in Procs, k'.ws[q] = "WT_CHILD" PROVE NotLost(q)'
      <3>1. NotLost(q)
        BY <1>3, <2>1 DEF FInv, NoLostChild, NotLost
      <3>2. \A y \in User : (pc'[y] # "none" /\ tree'.parent[y] = q) <=> (pc[y] # "none" /\ tree.parent[y] = q)
        BY <1>1
      <3>3. \A bs : Lists(Procs, tree, q, bs) => Lists(Procs, tree', q, bs)
        BY <1>1
      <3>4. \A y \in Procs : Alive(y) /\ tree.parent[y] = q => k'.st[y] \in {"SLEEPING", "RUNNABLE"}
        BY <1>3 DEF Alive
      <3> QED
        BY <1>1, <3>1, <3>2, <3>3, <3>4, StillWaits DEF FInv
    <2> QED
      BY <2>1 DEF NoLostChild, NotLost
  <1>8. Ending'
    <2>1. exiting[Init0] \/ NobodyLeft
      BY <1>1, <1>2 DEF FInv, Ending
    <2>2. exiting'[Init0] \/ NobodyLeft'
      BY <1>1, <2>1 DEF NobodyLeft, Exists
    <2>3. OnlyInitPanics'
      BY <1>4, <2>2 DEF OnlyInitPanics, NobodyLeft
    <2>4. NobodyLeft => NobodyLeft'
      BY <1>1 DEF NobodyLeft, Exists
    <2>5. /\ waitFor'[Init0] = None
          /\ pc'[Init0] = "initdone" => NobodyLeft'
      BY <1>1, <2>4 DEF FInv, Ending
    <2> QED
      BY <2>2, <2>3, <2>5 DEF Ending
  <1> QED
    BY <1>1, <1>5, <1>6, <1>7, <1>8 DEF FInv, Settled

(* do_exit of any other process hands its children over.                    *)
LEMMA ExitLists ==
    ASSUME SInv, FInv, NEW p \in User, pc[p] # "none"
    PROVE  LET u == hand_over(tree, p, Init0)
           IN  /\ \A q \in Procs : \E cs : Lists(Procs, u, q, cs)
               /\ \A q \in Procs \ {p, Init0} : \A cs : Lists(Procs, tree, q, cs) => Lists(Procs, u, q, cs)
               /\ \A q \in Procs : u.parent[q] = IF tree.parent[q] = p THEN Init0 ELSE tree.parent[q]
               /\ u \in Trees(Procs)
               /\ tree.parent[p] # p
  <1> DEFINE u == hand_over(tree, p, Init0)
  <1>0. tree \in Trees(Procs) /\ None \notin Procs /\ IsFiniteSet(Procs)
    BY ProcsFinite DEF SInv
  <1>1. p \in Procs /\ Init0 \in Procs \ {p}
    BY ProcAssumption DEF Procs
  <1>2. PICK cs : Lists(Procs, tree, p, cs)
    BY <1>1 DEF FInv, Listed
  <1>3. PICK es : Lists(Procs, tree, Init0, es)
    BY <1>1 DEF FInv, Listed
  <1>4. HandedOver(Procs, tree, u, p, Init0)
    BY <1>0, <1>1, <1>2, <1>3, HandOverLists
  <1>5. /\ u \in Trees(Procs)
        /\ \A c \in Procs : u.parent[c] =
             IF \E i \in 1 .. Len(Children(tree, p)) : Children(tree, p)[i] = c
               THEN Init0 ELSE tree.parent[c]
    BY <1>0, <1>1, HandOverParents
  <1>6. Children(tree, p) = cs
    BY <1>0, <1>1, <1>2, ChildrenAre
  <1>7. \A c \in Procs : tree.parent[c] = p <=> \E i \in 1 .. Len(cs) : cs[i] = c
    BY <1>2 DEF Lists
  <1> HIDE DEF u
  <1>8. \A q \in Procs : u.parent[q] = IF tree.parent[q] = p THEN Init0 ELSE tree.parent[q]
    BY <1>5, <1>6, <1>7
  <1>9. ASSUME NEW q \in Procs PROVE \E bs : Lists(Procs, u, q, bs)
    <2>1. CASE q \in {p, Init0}
      BY <1>4, <2>1 DEF HandedOver
    <2>2. CASE q \notin {p, Init0}
      <3>1. PICK bs : Lists(Procs, tree, q, bs)
        BY DEF FInv, Listed
      <3>2. Lists(Procs, u, q, bs)
        BY <1>4, <2>2, <3>1 DEF HandedOver
      <3> QED
        BY <3>2
    <2> QED
      BY <2>1, <2>2
  <1>10. tree.parent[p] # p
    <2>1. PICK r \in [Procs -> Nat] : Ranks(r)
      BY DEF FInv, Ranked
    <2>2. r[p] > r[tree.parent[p]] /\ r[p] \in Nat
      BY <1>1, <2>1 DEF Ranks, Exists
    <2> QED
      BY <2>2
  <1>11. \A q \in Procs \ {p, Init0} : \A bs : Lists(Procs, tree, q, bs) => Lists(Procs, u, q, bs)
    BY <1>4 DEF HandedOver
  <1> QED
    BY <1>5, <1>8, <1>9, <1>10, <1>11 DEF u

LEMMA InitAlive == ASSUME SInv PROVE Init0 \in Procs /\ Alive(Init0) /\ pc[Init0] # "none"
  <1>1. Init0 \in Procs /\ Init0 \notin User
    BY ProcAssumption DEF Procs
  <1>2. pc[Init0] # "none" /\ k.st[Init0] \notin {"UNINIT", "ZOMBIE"}
    BY <1>1 DEF SInv, Placed, InPlace, InitPoints
  <1>3. k.st[Init0] \in States
    BY <1>1, CurRuns, RecordFields
  <1> QED
    BY <1>1, <1>2, <1>3 DEF States, Alive

(* initproc, which waits for any child, is not left waiting.               *)
LEMMA InitStillWaits ==
    ASSUME SInv, SInv', FInv, Listed', NEW p \in User, pc[p] # "none", tree.parent[p] # p,
           tree.parent[p] # Init0, NotLost(Init0), waitFor' = waitFor,
           \A q \in Procs : tree'.parent[q] = IF tree.parent[q] = p THEN Init0 ELSE tree.parent[q],
           \A q \in Procs \ {p} : Alive(q) => Alive(q)',
           \A q \in Procs : tree.parent[q] = p => k.st[q] # "ZOMBIE"
    PROVE  NotLost(Init0)'
  <1>0. Init0 \in Procs /\ tree \in Trees(Procs) /\ tree' \in Trees(Procs) /\ None \notin Procs
    BY ProcsFinite DEF SInv, Procs
  <1>1. waitFor[Init0] = None
    BY DEF FInv, Ending
  <1>2. PICK es : Lists(Procs, tree, Init0, es)
    BY <1>0 DEF FInv, Listed
  <1>3. PICK ds : Lists(Procs, tree', Init0, ds)
    BY <1>0 DEF Listed
  <1>4. Candidates(Init0, waitFor[Init0]) = es /\ Candidates(Init0, waitFor[Init0])' = ds
    <2>1. Children(tree, Init0) = es /\ Children(tree', Init0) = ds
      BY <1>0, <1>2, <1>3, ChildrenAre
    <2> QED
      BY <1>1, <2>1 DEF Candidates
  <1>5. es # << >> /\ \A i \in 1 .. Len(es) : Alive(es[i])
    BY <1>4 DEF NotLost, Alive
  <1>6. /\ es \in Seq(Procs) /\ ds \in Seq(Procs)
        /\ \A c \in Procs : tree.parent[c] = Init0 <=> \E i \in 1 .. Len(es) : es[i] = c
        /\ \A c \in Procs : tree'.parent[c] = Init0 <=> \E i \in 1 .. Len(ds) : ds[i] = c
    BY <1>2, <1>3 DEF Lists
  <1>7. ds # << >>
    <2>1. 1 \in 1 .. Len(es) /\ es[1] \in Procs
      BY <1>5, <1>6
    <2>2. tree'.parent[es[1]] = Init0
      BY <1>6, <2>1
    <2>3. PICK i \in 1 .. Len(ds) : ds[i] = es[1]
      BY <1>6, <2>1, <2>2
    <2> QED
      BY <2>3
  <1>8. ASSUME NEW i \in 1 .. Len(ds) PROVE Alive(ds[i])'
    <2>1. PICK c \in Procs : c = ds[i]
      BY <1>6
    <2>2. tree'.parent[c] = Init0
      BY <1>6, <2>1
    <2>3. tree.parent[c] \in {Init0, p}
      BY <2>2
    <2>4. c # p /\ Alive(c)
      <3>1. CASE tree.parent[c] = Init0
        BY <1>5, <1>6, <3>1
      <3>2. CASE tree.parent[c] = p
        <4>1. p # None
          BY <1>0 DEF Procs
        <4>2. pc[c] # "none" /\ k.st[c] # "ZOMBIE"
          BY <3>2, <4>1 DEF FInv, Fathers, Exists
        <4>3. k.st[c] # "UNINIT" /\ k.st[c] \in States
          BY <4>2, CurRuns, RecordFields DEF SInv, Placed
        <4> QED
          BY <3>2, <4>2, <4>3 DEF States, Alive
      <3> QED
        BY <2>3, <3>1, <3>2
    <2>5. Alive(c)'
      BY <2>4
    <2> QED
      BY <2>1, <2>5 DEF Alive
  <1>9. \A i \in 1 .. Len(ds) : k'.st[ds[i]] \in {"SLEEPING", "RUNNABLE"}
    BY <1>8 DEF Alive
  <1> QED
    BY <1>4, <1>7, <1>9 DEF NotLost

LEMMA ExitKeepsFamily ==
    ASSUME SInv, SInv', FInv, do_exit, k.cur \in User
    PROVE  FInv'
  <1> PICK p \in User : p = k.cur
    OBVIOUS
  <1>1. /\ UNCHANGED <<pc, exiting, waitFor>> /\ Running /\ tree' = hand_over(tree, p, Init0)
        /\ p # Init0 /\ p \in Procs
    BY ProcAssumption DEF do_exit, At, Procs
  <1>2. pc[p] # "none" /\ k.ws[p] = "0"
    BY CurRuns
  <1>3. PICK Q : ExitWakes(Q)
    BY <1>1, do_exit_does, ProcAssumption
  <1>4. /\ \A q \in Procs : \E cs : Lists(Procs, tree', q, cs)
        /\ \A q \in Procs \ {p, Init0} : \A cs : Lists(Procs, tree, q, cs) => Lists(Procs, tree', q, cs)
        /\ \A q \in Procs : tree'.parent[q] = IF tree.parent[q] = p THEN Init0 ELSE tree.parent[q]
        /\ tree.parent[p] # p
    BY <1>1, <1>2, ExitLists
  <1>5. /\ \A q \in Procs : k'.st[q] = IF q \in Q THEN "RUNNABLE" ELSE IF q = p THEN "ZOMBIE" ELSE k.st[q]
        /\ \A q \in Procs : k'.ws[q] = IF q \in Q THEN "0" ELSE k.ws[q]
        /\ tree.parent[p] \in Procs
        /\ k.ws[tree.parent[p]] = "WT_CHILD" => tree.parent[p] \in Q
        /\ (k.ws[Init0] = "WT_CHILD" /\ \E c \in ToSet(Children(tree, p)) : k.st[c] = "ZOMBIE") => Init0 \in Q
        /\ k'.panic = k.panic
    BY <1>3 DEF ExitWakes
  <1>6. ASSUME NEW q \in Procs \ {p}, Alive(q) PROVE Alive(q)'
    BY <1>5, <1>6 DEF Alive
  <1>7. Init0 \in Procs /\ Alive(Init0) /\ None \notin Procs /\ Idle \in Procs
    BY InitAlive, ProcsFinite DEF Procs
  <1>8. Listed'
    BY <1>4 DEF Listed
  <1>9. Fathers'
    <2>1. ASSUME NEW y \in Procs, tree'.parent[y] # None
          PROVE  pc'[y] # "none" /\ k'.st[tree'.parent[y]] \in {"SLEEPING", "RUNNABLE"}
      <3>1. tree.parent[y] # None
        BY <1>1, <1>4, <1>7, <2>1
      <3>2. tree.parent[y] \in Procs /\ pc[y] # "none" /\ Alive(tree.parent[y])
        BY <3>1, Typed DEF SInv, Pointers, FInv, Fathers, Exists
      <3>3. CASE tree.parent[y] = p
        <4>1. Alive(Init0)'
          BY <1>1, <1>6, <1>7
        <4> QED
          BY <1>1, <1>4, <3>2, <3>3, <4>1 DEF Alive
      <3>4. CASE tree.parent[y] # p
        <4>1. PICK f \in Procs \ {p} : f = tree.parent[y]
          BY <3>2, <3>4
        <4>2. Alive(f)'
          BY <1>6, <3>2, <4>1
        <4> QED
          BY <1>1, <1>4, <3>2, <3>4, <4>1, <4>2 DEF Alive
      <3> QED
        BY <3>3, <3>4
    <2>2. tree'.parent[Idle] = None /\ tree'.parent[Init0] = Idle
      BY <1>1, <1>4, <1>7, ProcAssumption DEF FInv, Fathers
    <2>3. \A y \in User : tree'.parent[y] # Idle
      BY <1>4, ProcAssumption DEF FInv, Fathers, Procs
    <2> QED
      BY <2>1, <2>2, <2>3 DEF Fathers, Exists, Alive
  <1>10. Ranked'
    <2>1. PICK r \in [Procs -> Nat] : Ranks(r)
      BY DEF FInv, Ranked
    <2>2. ASSUME NEW q \in User, pc'[q] # "none" PROVE r[q] > r[tree'.parent[q]]
      <3>1. q \in Procs /\ pc[q] # "none"
        BY <1>1, <2>2 DEF Procs
      <3>2. r[q] > r[tree.parent[q]] /\ r[q] > 0 /\ r[Init0] = 0
        BY <2>1, <3>1 DEF Ranks, Exists
      <3> QED
        BY <1>4, <3>1, <3>2
    <2>3. Ranks(r)'
      BY <2>1, <2>2 DEF Ranks, Exists
    <2> QED
      BY <2>3 DEF Ranked
  <1>11. NoLostChild'
    <2>1. ASSUME NEW q \in Procs, k'.ws[q] = "WT_CHILD" PROVE NotLost(q)'
      <3>1. q \notin Q /\ k.ws[q] = "WT_CHILD" /\ q # p /\ tree.parent[p] # q
        BY <1>2, <1>5, <2>1
      <3>2. NotLost(q)
        BY <3>1 DEF FInv, NoLostChild, NotLost
      <3>3. CASE q = Init0
        <4>1. ASSUME NEW c \in Procs, tree.parent[c] = p PROVE k.st[c] # "ZOMBIE"
          <5>1. PICK cs : Lists(Procs, tree, p, cs)
            BY <1>1 DEF FInv, Listed
          <5>2. c \in ToSet(Children(tree, p))
            BY <1>1, <4>1, <5>1, ChildrenAre DEF SInv
          <5> QED
            BY <1>5, <3>1, <3>3, <5>2
        <4>2. NotLost(Init0)'
          BY <1>1, <1>2, <1>4, <1>6, <1>8, <3>1, <3>2, <3>3, <4>1, InitStillWaits
        <4> QED
          BY <3>3, <4>2
      <3>4. CASE q # Init0
        <4>1. \A y \in User : (pc'[y] # "none" /\ tree'.parent[y] = q) <=> (pc[y] # "none" /\ tree.parent[y] = q)
          BY <1>1, <1>4, <3>1, <3>4 DEF Procs
        <4>2. \A cs : Lists(Procs, tree, q, cs) => Lists(Procs, tree', q, cs)
          BY <1>4, <3>1, <3>4
        <4>3. \A y \in Procs : Alive(y) /\ tree.parent[y] = q => k'.st[y] \in {"SLEEPING", "RUNNABLE"}
          BY <1>6, <3>1 DEF Alive
        <4>4. Listed /\ waitFor'[q] = waitFor[q]
          BY <1>1 DEF FInv
        <4> QED
          BY <3>2, <4>1, <4>2, <4>3, <4>4, StillWaits
      <3> QED
        BY <3>3, <3>4
    <2> QED
      BY <2>1 DEF NoLostChild, NotLost
  <1>12. Ending'
    <2>1. k'.panic = "none"
      BY <1>1, <1>5 DEF Running
    <2>2. NobodyLeft => NobodyLeft'
      BY <1>1 DEF NobodyLeft, Exists
    <2>3. OnlyInitPanics'
      BY <2>1 DEF OnlyInitPanics
    <2> QED
      BY <1>1, <2>2, <2>3 DEF FInv, Ending
  <1> QED
    BY <1>8, <1>9, <1>10, <1>11, <1>12 DEF FInv

Dies == k.cur \in User /\ do_exit

LEMMA do_exit_family == ASSUME SInv, SInv', FInv, do_exit PROVE FInv' /\ (Settled \/ Dies)
  <1>1. k.cur \in Procs
    BY CurRuns
  <1> QED
    BY <1>1, InitExitFamily, ExitKeepsFamily DEF Procs, Dies

(* The assertions at the end of init_main hold: when initproc has found no   *)
(* child, it has none, nor a sibling, and only it and idleproc are left.    *)
LEMMA AssertionsHold ==
    ASSUME SInv, FInv, NobodyLeft
    PROVE  {tree.cptr[Init0], tree.yptr[Init0], tree.optr[Init0]} = {None} /\ nr_process = 2
  <1>1. Init0 \in Procs /\ Idle \in Procs /\ Idle # Init0 /\ None \notin Procs
    BY ProcsFinite, ProcAssumption DEF Procs
  <1>2. ASSUME NEW c \in User PROVE c \in Procs /\ pc[c] = "none" /\ tree.parent[c] = None
    BY DEF Procs, NobodyLeft, FInv, Fathers, Exists
  <1>3. \A c \in Procs : tree.parent[c] # Init0
    <2> TAKE c \in Procs
    <2>1. CASE c \in User
      BY <1>1, <1>2, <2>1
    <2>2. CASE c \notin User
      BY <1>1, <2>2 DEF Procs, FInv, Fathers
    <2> QED
      BY <2>1, <2>2
  <1>4. tree.cptr[Init0] = None
    <2>1. PICK cs : Lists(Procs, tree, Init0, cs)
      BY <1>1 DEF FInv, Listed
    <2>2. /\ cs \in Seq(Procs) /\ tree.cptr[Init0] = IF Len(cs) = 0 THEN None ELSE cs[1]
          /\ \A c \in Procs : tree.parent[c] = Init0 <=> \E i \in 1 .. Len(cs) : cs[i] = c
      BY <2>1 DEF Lists
    <2>3. Len(cs) = 0
      <3>1. CASE Len(cs) # 0
        <4>1. 1 \in 1 .. Len(cs) /\ cs[1] \in Procs
          BY <2>2, <3>1
        <4> QED
          BY <1>3, <2>2, <4>1
      <3> QED
        BY <3>1
    <2> QED
      BY <2>2, <2>3
  <1>5. tree.optr[Init0] = None /\ tree.yptr[Init0] = None
    <2>1. PICK ds : Lists(Procs, tree, Idle, ds)
      BY <1>1 DEF FInv, Listed
    <2>2. /\ ds \in Seq(Procs) /\ \A i, j \in 1 .. Len(ds) : ds[i] = ds[j] => i = j
          /\ \A i \in 1 .. Len(ds) : tree.optr[ds[i]] = IF i = Len(ds) THEN None ELSE ds[i + 1]
          /\ \A i \in 1 .. Len(ds) : tree.yptr[ds[i]] = IF i = 1 THEN None ELSE ds[i - 1]
          /\ \A c \in Procs : tree.parent[c] = Idle <=> \E i \in 1 .. Len(ds) : ds[i] = c
      BY <2>1 DEF Lists
    <2>3. \A c \in Procs : tree.parent[c] = Idle <=> c = Init0
      <3> TAKE c \in Procs
      <3>1. CASE c \in User
        BY <1>1, <1>2, <3>1, ProcAssumption
      <3>2. CASE c \notin User
        BY <1>1, <3>2 DEF Procs, FInv, Fathers
      <3> QED
        BY <3>1, <3>2
    <2>4. PICK i \in 1 .. Len(ds) : ds[i] = Init0
      BY <1>1, <2>2, <2>3
    <2>5. \A j \in 1 .. Len(ds) : j = i
      BY <2>2, <2>3, <2>4
    <2>6. 1 \in 1 .. Len(ds) /\ Len(ds) \in 1 .. Len(ds)
      BY <2>2, <2>4
    <2>7. i = 1 /\ i = Len(ds)
      BY <2>5, <2>6
    <2> QED
      BY <2>2, <2>4, <2>7
  <1>6. nr_process = 2
    <2>1. {p \in Procs : Exists(p)} = {Init0} \cup {Idle}
      <3>1. Exists(Init0) /\ Exists(Idle)
        BY <1>1, InitAlive DEF SInv, Placed, InPlace, Exists
      <3> QED
        BY <1>1, <1>2, <3>1 DEF Procs, Exists
    <2>2. IsFiniteSet({Init0}) /\ Cardinality({Init0}) = 1
      BY FS_Singleton
    <2>3. Idle \notin {Init0}
      BY <1>1
    <2>4. Cardinality({Init0} \cup {Idle}) = Cardinality({Init0}) + 1
      BY <2>2, <2>3, FS_AddElement
    <2> QED
      BY <2>1, <2>2, <2>4 DEF nr_process
  <1> QED
    BY <1>4, <1>5, <1>6

LEMMA DoneFamily == ASSUME SInv, SInv', FInv, init_main_done PROVE FInv' /\ Settled
  <1>1. k.cur = Init0 /\ pc[Init0] = "initdone" /\ Init0 \in Procs /\ Running
    BY InitIsCurrent DEF init_main_done, At, Procs
  <1>2. NobodyLeft
    BY <1>1 DEF FInv, Ending
  <1>3. Goto(Init0, "exit") /\ UNCHANGED <<k, tree, exiting, waitFor>>
    BY <1>2, AssertionsHold DEF init_main_done
  <1>4. \A q \in Procs : pc'[q] = IF q = Init0 THEN "exit" ELSE pc[q]
    BY <1>3 DEF Goto, SInv, RestOK
  <1>5. \A q \in Procs : (Exists(q)' <=> Exists(q)) /\ (Alive(q)' <=> Alive(q))
    BY <1>1, <1>3, <1>4 DEF Exists, Alive
  <1>6. Listed' /\ Fathers' /\ Ranked'
    BY <1>3, <1>5, SameFamily DEF Settled
  <1>7. NoLostChild'
    <2>1. ASSUME NEW q \in Procs, k'.ws[q] = "WT_CHILD" PROVE NotLost(q)'
      <3>1. NotLost(q)
        BY <1>3, <2>1 DEF FInv, NoLostChild, NotLost
      <3>2. \A y \in User : (pc'[y] # "none" /\ tree'.parent[y] = q) <=> (pc[y] # "none" /\ tree.parent[y] = q)
        BY <1>3, <1>5 DEF Exists, Procs
      <3>3. \A bs : Lists(Procs, tree, q, bs) => Lists(Procs, tree', q, bs)
        BY <1>3
      <3>4. \A y \in Procs : Alive(y) /\ tree.parent[y] = q => k'.st[y] \in {"SLEEPING", "RUNNABLE"}
        BY <1>3 DEF Alive
      <3> QED
        BY <1>3, <3>1, <3>2, <3>3, <3>4, StillWaits DEF FInv
    <2> QED
      BY <2>1 DEF NoLostChild, NotLost
  <1>8. Ending'
    <2>1. NobodyLeft'
      BY <1>2, <1>5 DEF NobodyLeft, Procs
    <2>2. OnlyInitPanics'
      BY <1>3, <2>1 DEF FInv, Ending, OnlyInitPanics, NobodyLeft
    <2>3. waitFor'[Init0] = None
      BY <1>3 DEF FInv, Ending
    <2> QED
      BY <2>1, <2>2, <2>3 DEF Ending
  <1> QED
    BY <1>3, <1>5, <1>6, <1>7, <1>8 DEF FInv, Settled

(* Of the initial state: idleproc has one child, initproc.                  *)
LEMMA InitFInv == Init => FInv
  <1> SUFFICES ASSUME Init PROVE FInv
    OBVIOUS
  <1>0. SInv
    BY InitSInv
  <1>1. /\ Init0 \in Procs /\ Idle \in Procs /\ Idle # Init0 /\ None \notin Procs
        /\ \A c \in User : c \in Procs /\ c # Init0 /\ c # Idle
    BY ProcsFinite, ProcAssumption DEF Procs
  <1>2. tree \in Trees(Procs) /\ \A p \in Procs : tree.parent[p] = IF p = Init0 THEN Idle ELSE None
    BY InitTree
  <1>3. Listed
    <2> DEFINE t == NoLinks(Procs)
               e == Emptied(t, Init0)
    <2>1. /\ t \in Trees(Procs) /\ \A p \in Procs :
               t.parent[p] = None /\ t.cptr[p] = None /\ t.optr[p] = None /\ t.yptr[p] = None
      BY NoLinksTyped
    <2>2. tree = set_links(t, Init0, Idle)
      BY DEF Init
    <2> HIDE DEF t
    <2>3. /\ e \in Trees(Procs) /\ e.parent = t.parent /\ e.optr = t.optr /\ e.yptr = t.yptr
          /\ e.cptr = [t.cptr EXCEPT ![Init0] = None] /\ tree = link(e, Init0, Idle)
      BY <1>1, <2>1, <2>2, SetLinks
    <2>4. t.cptr \in [Procs -> Procs \cup {None}]
      BY <2>1, Typed DEF Pointers
    <2> HIDE DEF e
    <2>5. \A p \in Procs : e.parent[p] = None /\ e.cptr[p] = None
      BY <1>1, <2>1, <2>3, <2>4
    <2>6. ASSUME NEW p \in Procs PROVE Lists(Procs, e, p, << >>)
      <3>1. << >> \in Seq(Procs) /\ Len(<< >>) = 0
        OBVIOUS
      <3>2. \A c \in Procs : e.parent[c] # p
        BY <1>1, <2>5
      <3> QED
        BY <2>5, <3>1, <3>2 DEF Lists
    <2>7. ASSUME NEW p \in Procs PROVE \E cs : Lists(Procs, tree, p, cs)
      <3>1. CASE p = Idle
        <4>1. Lists(Procs, e, Idle, << >>) /\ ~\E i \in 1 .. Len(<< >>) : << >>[i] = Init0
          BY <1>1, <2>6
        <4>2. Lists(Procs, link(e, Init0, Idle), Idle, <<Init0>> \o << >>)
          BY <1>1, <2>3, <4>1, LinkHead
        <4> QED
          BY <2>3, <3>1, <4>2
      <3>2. CASE p # Idle
        <4>1. Lists(Procs, e, p, << >>)
          BY <2>6
        <4>2. e.parent[Init0] # p /\ e.cptr[Idle] = None /\ p \in Procs \ {Idle}
          BY <1>1, <2>5, <3>2
        <4>3. Lists(Procs, link(e, Init0, Idle), p, << >>)
          BY <1>1, <2>3, <4>1, <4>2, LinkOther
        <4> QED
          BY <2>3, <4>3
      <3> QED
        BY <3>1, <3>2
    <2> QED
      BY <2>7 DEF Listed
  <1>4. /\ \A p \in Procs : k.st[p] = IF p \in User THEN "UNINIT" ELSE "RUNNABLE"
        /\ \A p \in Procs : k.ws[p] = "0"
        /\ k.panic = "none" /\ waitFor[Init0] = None
    BY <1>1 DEF Init
  <1>5. /\ pc[Idle] = "idle" /\ pc[Init0] = "initfork" /\ \A p \in User : pc[p] = "none"
    BY <1>1 DEF Init
  <1>6. Fathers
    BY <1>1, <1>2, <1>4, <1>5, ProcAssumption DEF Fathers, Exists, Alive
  <1>7. Ranked
    <2> DEFINE r == [p \in Procs |-> IF p = Init0 THEN 0 ELSE 1]
    <2>1. r \in [Procs -> Nat] /\ r[Init0] = 0 /\ \A c \in User : r[c] > 0
      BY <1>1
    <2> HIDE DEF r
    <2>2. Ranks(r)
      BY <1>5, <2>1 DEF Ranks, Exists
    <2> QED
      BY <2>1, <2>2 DEF Ranked
  <1>8. NoLostChild /\ Ending
    BY <1>4, <1>5 DEF NoLostChild, Ending, OnlyInitPanics, NobodyLeft, Exists
  <1> QED
    BY <1>3, <1>6, <1>7, <1>8 DEF FInv

(* Every step keeps FInv; only a fork, an exit and a wait that finds a dead  *)
(* child change the family.                                                *)
Forks == \E c \in User : \E x \in {"user", "kmain"} : do_fork(c, x) /\ pc[k.cur] \in {"user", "initfork"}

Family == FInv' /\ (Settled \/ Forks \/ Frees \/ Dies)

LEMMA ForkFamily == ASSUME SInv, SInv', FInv, sys_fork \/ init_main_fork PROVE Family
  <1>1. PICK c \in User, x \in {"user", "kmain"} : do_fork(c, x) /\ pc[k.cur] \in {"user", "initfork"}
    BY DEF sys_fork, init_main_fork, Calling, At
  <1>2. Running
    BY DEF sys_fork, init_main_fork, Calling, At
  <1> QED
    BY <1>1, <1>2, ForkKeepsFamily DEF Family, Forks

LEMMA StayPlain == ASSUME SInv, UNCHANGED vars PROVE Plain
  <1>1. UNCHANGED <<k, tree, exiting, pc, waitFor>>
    BY DEF vars
  <1> QED
    BY <1>1 DEF Plain

LEMMA NextFamily == SInv /\ SInv' /\ FInv /\ [Next]_vars => Family
  <1> SUFFICES ASSUME SInv, SInv', FInv, [Next]_vars PROVE Family
    OBVIOUS
  <1>1. Plain => Family
    BY PlainKeeps DEF Family
  <1>2. CASE sys_fork \/ init_main_fork
    BY <1>2, ForkFamily
  <1>3. CASE do_wait
    BY <1>3, do_wait_family DEF Family
  <1>4. CASE do_exit
    BY <1>4, do_exit_family DEF Family
  <1>5. CASE init_main_done
    BY <1>5, DoneFamily DEF Family
  <1>6. CASE sys_exit \/ sys_wait \/ do_execve_fails \/ do_execve_no_page \/ do_execve \/ sys_other \/ fault
             \/ user_main
    <2>1. sys_exit \/ sys_wait \/ do_execve_fails \/ do_execve_no_page \/ do_execve \/ sys_other \/ fault
      BY <1>6 DEF user_main
    <2> QED
      BY <1>1, <2>1, QuietPlain
  <1>7. CASE do_yield \/ trap_return
    BY <1>1, <1>7, YieldPlain
  <1>8. CASE (\E ticks \in 1 .. MaxTicks : do_sleep(ticks)) \/ do_sleep_resume
    BY <1>1, <1>8, SleepCallPlain
  <1>9. CASE sys_read_empty \/ stdin_resume
    BY <1>1, <1>9, ReadPlain
  <1>10. CASE \E q \in Killable : do_kill(q)
    BY <1>1, <1>10, KillPlain
  <1>11. CASE clock
    BY <1>1, <1>11, ClockPlain
  <1>12. CASE init_main_loop \/ cpu_idle
    BY <1>1, <1>12, LoopPlain
  <1>13. CASE do_wait_resume
    BY <1>1, <1>13, WaitResumePlain
  <1>14. CASE panicked \/ UNCHANGED vars
    BY <1>1, <1>14, StayPlain DEF panicked
  <1>15. CASE Syscall
    BY <1>15, <1>2, <1>6, <1>7, <1>8, <1>9, <1>10 DEF Syscall
  <1>16. CASE Kernel
    BY <1>16, <1>2, <1>3, <1>4, <1>5, <1>6, <1>7, <1>8, <1>9, <1>12, <1>13 DEF Kernel
  <1> QED
    BY <1>11, <1>14, <1>15, <1>16 DEF Next

(* The invariant of the process tree.                                      *)
THEOREM FamilyInvariant == Spec => []FInv
  <1>1. SInv /\ SInv' /\ FInv /\ [Next]_vars => FInv'
    BY NextFamily DEF Family
  <1> QED
    BY <1>1, InitFInv, Scheduling, PTL DEF Spec

(* A process is among the children of its parent and of nobody else, the    *)
(* list of siblings is the same in both directions, every parent lives, and *)
(* no pointer leads to a freed proc_struct.                                *)
THEOREM TreeIsFamily == Spec => []FamilyIsTree
  <1>1. SInv /\ FInv => FamilyIsTree
    <2> SUFFICES ASSUME SInv, FInv PROVE FamilyIsTree
      OBVIOUS
    <2>1. ASSUME NEW p \in Procs PROVE ListsChildren(tree, p)
      <3>1. PICK cs : Lists(Procs, tree, p, cs)
        BY DEF FInv, Listed
      <3>2. Children(tree, p) = cs /\ cs \in Seq(Procs) /\ \A c \in Procs : tree.parent[c] = p <=> c \in ToSet(cs)
        BY <3>1, ChildrenAre DEF SInv
      <3>3. DOMAIN tree.parent = Procs
        BY Typed DEF SInv, Pointers
      <3>4. ToSet(cs) = {c \in DOMAIN tree.parent : tree.parent[c] = p}
        BY <3>2, <3>3, SetOf
      <3>5. /\ \A i \in 1 .. Len(cs) : tree.optr[cs[i]] = IF i = Len(cs) THEN None ELSE cs[i + 1]
            /\ \A i \in 1 .. Len(cs) : tree.yptr[cs[i]] = IF i = 1 THEN None ELSE cs[i - 1]
        BY <3>1 DEF Lists
      <3>6. DOMAIN cs = 1 .. Len(cs)
        BY <3>2
      <3>7. cs # << >> => tree.optr[Last(cs)] = None
        <4>1. cs # << >> => Len(cs) \in 1 .. Len(cs)
          BY <3>2
        <4> QED
          BY <3>5, <4>1 DEF Last
      <3> QED
        BY <3>2, <3>4, <3>5, <3>6, <3>7 DEF ListsChildren
    <2>2. \A c \in Procs : tree.parent[c] # None =>
                             Exists(c) /\ k.st[tree.parent[c]] \in {"SLEEPING", "RUNNABLE"}
      BY DEF FInv, Fathers, Alive
    <2>3. \A c \in Procs \ {Idle} : Exists(c) => tree.parent[c] # None
      BY ProcsFinite DEF SInv, Placed, Exists
    <2> QED
      BY <2>1, <2>2, <2>3 DEF FamilyIsTree
  <1> QED
    BY <1>1, Scheduling, FamilyInvariant, PTL

(* No lost wakeup between do_exit and do_wait: nobody sleeps in do_wait      *)
(* while a child it waits for is a zombie, and one is left to wake it.      *)
THEOREM NoWakeupLost == Spec => []NoLostChild
  <1>1. FInv => NoLostChild
    BY DEF FInv
  <1> QED
    BY <1>1, FamilyInvariant, PTL

(* The panics and assertions of proc.c, sched.c and the timer list are       *)
(* unreachable, except for the exit of initproc, which comes only when all  *)
(* user processes have been reaped or initproc was killed.                  *)
THEOREM NoOtherPanic == Spec => []OnlyInitPanics
  <1>1. FInv => OnlyInitPanics
    BY DEF FInv, Ending
  <1> QED
    BY <1>1, FamilyInvariant, PTL

(* What fork, exit and wait promise user programs.                         *)
lives == [p \in Procs |-> IF ~Exists(p) THEN "none"
                          ELSE IF k.st[p] = "ZOMBIE" THEN "zombie" ELSE "alive"]

LEMMA SettledStutters == ASSUME SInv, SInv', Settled PROVE UNCHANGED <<lives, tree.parent>>
  <1>1. ASSUME NEW p \in Procs
        PROVE  (Exists(p)' <=> Exists(p)) /\ (Exists(p) => (k'.st[p] = "ZOMBIE" <=> k.st[p] = "ZOMBIE"))
    <2>1. (Exists(p)' <=> Exists(p)) /\ (Alive(p)' <=> Alive(p))
      BY DEF Settled
    <2>2. k.st[p] \in States /\ (Exists(p) => k.st[p] # "UNINIT")
      BY CurRuns, RecordFields DEF SInv, Placed, Exists
    <2>3. k'.st[p] \in States /\ (Exists(p)' => k'.st[p] # "UNINIT")
      <3>1. k' \in Records
        BY DEF SInv, SchedOK
      <3> QED
        BY <3>1, RecordFields DEF SInv, Placed, Exists
    <2> QED
      BY <2>1, <2>2, <2>3 DEF Alive, States
  <1>2. lives' = lives
    BY <1>1 DEF lives
  <1> QED
    BY <1>2 DEF Settled

LEMMA ForkIsFork ==
    ASSUME SInv, SInv', FInv, NEW c \in User, NEW x \in {"user", "kmain"}, do_fork(c, x),
           pc[k.cur] \in {"user", "initfork"}
    PROVE  /\ lives[k.cur] = "alive" /\ lives[c] = "none"
           /\ lives' = [lives EXCEPT ![c] = "alive"]
           /\ tree'.parent = [tree.parent EXCEPT ![c] = k.cur]
  <1> PICK p \in Procs : p = k.cur
    BY CurRuns
  <1>1. /\ c # p /\ c \in Procs /\ pc[c] = "none" /\ pc'[c] # "none" /\ pc'[p] # "none" /\ pc[p] # "none"
        /\ \A q \in Procs \ {c, p} : pc'[q] = pc[q]
    BY ForkFacts, CurRuns DEF Procs
  <1>2. /\ k.st[c] = "UNINIT" /\ tree' = set_links(tree, c, p)
        /\ k'.st = [k.st EXCEPT ![c] = "RUNNABLE"] /\ k.st \in [Procs -> States] /\ k.st[p] = "RUNNABLE"
    BY do_fork_does, CurRuns, RecordFields
  <1>3. \A q \in Procs : k'.st[q] = IF q = c THEN "RUNNABLE" ELSE k.st[q]
    BY <1>2
  <1>4. \A q \in Procs : pc'[q] # "none" <=> q = c \/ pc[q] # "none"
    BY <1>1
  <1>5. lives[p] = "alive" /\ lives[c] = "none"
    BY <1>1, <1>2 DEF lives, Exists
  <1>6. lives' = [lives EXCEPT ![c] = "alive"]
    BY <1>1, <1>3, <1>4 DEF lives, Exists
  <1>7. /\ tree' \in Trees(Procs)
        /\ \A q \in Procs : tree'.parent[q] = IF q = c THEN p ELSE tree.parent[q]
    BY <1>1, <1>2, ForkLists DEF FInv
  <1>8. tree'.parent \in [Procs -> Procs \cup {None}] /\ tree.parent \in [Procs -> Procs \cup {None}]
    BY <1>7, Typed DEF SInv, Pointers
  <1> QED
    BY <1>5, <1>6, <1>7, <1>8

LEMMA FoundIsWait ==
    ASSUME SInv, SInv', FInv, pc[k.cur] = "wait", NEW c \in Procs, k.st[c] = "ZOMBIE",
           tree.parent[c] = k.cur, do_wait_found(c)
    PROVE  /\ lives[k.cur] = "alive" /\ lives[c] = "zombie"
           /\ lives' = [lives EXCEPT ![c] = "none"]
           /\ tree'.parent = [tree.parent EXCEPT ![c] = None]
  <1> PICK p \in Procs : p = k.cur
    BY CurRuns
  <1>1. /\ c # p /\ pc[c] = "exit" /\ pc'[c] = "none" /\ pc'[p] # "none" /\ pc[p] # "none"
        /\ \A q \in Procs \ {c, p} : pc'[q] = pc[q]
    BY FoundFacts, CurRuns
  <1>2. /\ k'.st = [k.st EXCEPT ![c] = "UNINIT"] /\ k.st \in [Procs -> States] /\ k.st[p] = "RUNNABLE"
        /\ Unlinked(Procs, tree, tree', c)
    BY do_wait_found_does, CurRuns, RecordFields
  <1>3. \A q \in Procs : k'.st[q] = IF q = c THEN "UNINIT" ELSE k.st[q]
    BY <1>2
  <1>4. \A q \in Procs : pc'[q] # "none" <=> q # c /\ pc[q] # "none"
    BY <1>1
  <1>5. lives[p] = "alive" /\ lives[c] = "zombie"
    BY <1>1, <1>2 DEF lives, Exists
  <1>6. lives' = [lives EXCEPT ![c] = "none"]
    BY <1>1, <1>3, <1>4 DEF lives, Exists
  <1>7. tree'.parent = [tree.parent EXCEPT ![c] = None]
    BY <1>2 DEF Unlinked
  <1> QED
    BY <1>5, <1>6, <1>7

LEMMA DiesIsExit ==
    ASSUME SInv, SInv', FInv, Dies
    PROVE  /\ lives[k.cur] = "alive" /\ lives' = [lives EXCEPT ![k.cur] = "zombie"]
           /\ tree'.parent = [c \in Procs |-> IF tree.parent[c] = k.cur THEN Init0 ELSE tree.parent[c]]
  <1> PICK p \in User : p = k.cur
    BY DEF Dies
  <1>1. /\ UNCHANGED pc /\ tree' = hand_over(tree, p, Init0)
        /\ p # Init0 /\ p # Idle /\ p \in Procs /\ do_exit
    BY ProcAssumption DEF Dies, do_exit, At, Procs
  <1>2. pc[p] # "none" /\ k.st[p] = "RUNNABLE" /\ k.ws[p] = "0"
    BY CurRuns
  <1>3. PICK Q : ExitWakes(Q)
    BY <1>1, do_exit_does
  <1>4. /\ \A q \in Procs : k'.st[q] = IF q \in Q THEN "RUNNABLE" ELSE IF q = p THEN "ZOMBIE" ELSE k.st[q]
        /\ \A q \in Q : q \in Procs /\ k.ws[q] = "WT_CHILD"
    BY <1>3 DEF ExitWakes
  <1>5. \A q \in Q : k.st[q] = "SLEEPING" /\ q # p
    <2>1. \A q \in Q : k.ws[q] # "0" /\ q \in Procs
      BY <1>4
    <2> QED
      BY <2>1, SleeperIsLive
  <1>6. \A q \in Procs : k'.st[q] = "ZOMBIE" <=> q = p \/ k.st[q] = "ZOMBIE"
    BY <1>4, <1>5
  <1>7. lives[p] = "alive"
    BY <1>1, <1>2 DEF lives, Exists
  <1>8. lives' = [lives EXCEPT ![p] = "zombie"]
    BY <1>1, <1>2, <1>6 DEF lives, Exists
  <1>9. /\ tree' \in Trees(Procs)
        /\ \A q \in Procs : tree'.parent[q] = IF tree.parent[q] = p THEN Init0 ELSE tree.parent[q]
    BY <1>1, <1>2, ExitLists
  <1>10. tree'.parent \in [Procs -> Procs \cup {None}]
    BY <1>9, Typed DEF Pointers
  <1> QED
    BY <1>7, <1>8, <1>9, <1>10

THEOREM ImplementsLife == Spec => LifeSpec
  <1>1. Init => Life!Init
    <2> SUFFICES ASSUME Init PROVE Life!Init
      OBVIOUS
    <2>1. /\ Init0 \in Procs /\ Idle \in Procs /\ Idle # Init0
          /\ \A c \in User : c \in Procs /\ c # Init0 /\ c # Idle
      BY ProcAssumption DEF Procs
    <2>2. /\ \A p \in Procs : pc[p] = "none" <=> p \in User
          /\ \A p \in Procs : k.st[p] # "ZOMBIE"
      BY <2>1, InitSInv DEF Init, Procs
    <2>3. lives = [p \in Procs |-> IF p \in {Init0, Idle} THEN "alive" ELSE "none"]
      BY <2>1, <2>2 DEF lives, Exists, Procs
    <2>4. tree.parent = [p \in Procs |-> IF p = Init0 THEN Idle ELSE None]
      <3>1. tree \in Trees(Procs) /\ \A p \in Procs : tree.parent[p] = IF p = Init0 THEN Idle ELSE None
        BY InitTree
      <3>2. tree.parent \in [Procs -> Procs \cup {None}]
        BY <3>1, Typed DEF Pointers
      <3> QED
        BY <3>1, <3>2
    <2> QED
      BY <2>3, <2>4 DEF Life!Init, lives
  <1>2. SInv /\ SInv' /\ FInv /\ [Next]_vars => [Life!Next]_(Life!vars)
    <2> SUFFICES ASSUME SInv, SInv', FInv, [Next]_vars PROVE [Life!Next]_(Life!vars)
      OBVIOUS
    <2>1. Settled \/ Forks \/ Frees \/ Dies
      BY NextFamily DEF Family
    <2>2. CASE Settled
      <3>1. UNCHANGED <<lives, tree.parent>>
        BY <2>2, SettledStutters
      <3> QED
        BY <3>1 DEF Life!vars, lives
    <2>3. CASE Forks
      <3>1. PICK c \in User, x \in {"user", "kmain"} : do_fork(c, x) /\ pc[k.cur] \in {"user", "initfork"}
        BY <2>3 DEF Forks
      <3>2. c \in Procs /\ k.cur \in Procs
        BY CurRuns DEF Procs
      <3>3. /\ lives[k.cur] = "alive" /\ lives[c] = "none"
            /\ lives' = [lives EXCEPT ![c] = "alive"]
            /\ tree'.parent = [tree.parent EXCEPT ![c] = k.cur]
        BY <3>1, ForkIsFork
      <3>4. lives' # lives
        BY <3>2, <3>3 DEF lives
      <3>5. Life!Fork(k.cur, c)
        BY <3>3 DEF Life!Fork, lives
      <3>6. \E p \in Procs : Life!Exit(p) \/ \E d \in Procs : Life!Fork(p, d) \/ Life!Wait(p, d)
        BY <3>2, <3>5
      <3>7. Life!Next
        BY <3>4, <3>6 DEF Life!Next, lives
      <3> QED
        BY <3>7
    <2>4. CASE Frees
      <3>1. PICK c \in Procs : k.st[c] = "ZOMBIE" /\ tree.parent[c] = k.cur /\ do_wait_found(c) /\ pc[k.cur] = "wait"
        BY <2>4 DEF Frees
      <3>2. k.cur \in Procs
        BY CurRuns
      <3>3. /\ lives[k.cur] = "alive" /\ lives[c] = "zombie"
            /\ lives' = [lives EXCEPT ![c] = "none"]
            /\ tree'.parent = [tree.parent EXCEPT ![c] = None]
        BY <3>1, FoundIsWait
      <3>4. lives' # lives
        BY <3>2, <3>3 DEF lives
      <3>5. Life!Wait(k.cur, c)
        BY <3>1, <3>3 DEF Life!Wait, lives
      <3>6. \E p \in Procs : Life!Exit(p) \/ \E d \in Procs : Life!Fork(p, d) \/ Life!Wait(p, d)
        BY <3>2, <3>5
      <3>7. Life!Next
        BY <3>4, <3>6 DEF Life!Next, lives
      <3> QED
        BY <3>7
    <2>5. CASE Dies
      <3>1. PICK p \in Procs : p = k.cur /\ p \notin {Init0, Idle}
        BY <2>5, ProcAssumption DEF Dies, Procs
      <3>2. /\ lives[p] = "alive" /\ lives' = [lives EXCEPT ![p] = "zombie"]
            /\ tree'.parent = [c \in Procs |-> IF tree.parent[c] = p THEN Init0 ELSE tree.parent[c]]
        BY <2>5, <3>1, DiesIsExit
      <3>3. lives' # lives
        BY <3>1, <3>2 DEF lives
      <3>4. Life!Exit(p)
        BY <3>1, <3>2 DEF Life!Exit, lives
      <3>5. \E q \in Procs : Life!Exit(q) \/ \E c \in Procs : Life!Fork(q, c) \/ Life!Wait(q, c)
        BY <3>1, <3>4
      <3>6. Life!Next
        BY <3>3, <3>5 DEF Life!Next, lives
      <3> QED
        BY <3>6
    <2> QED
      BY <2>1, <2>2, <2>3, <2>4, <2>5
  <1> QED
    BY <1>1, <1>2, Scheduling, FamilyInvariant, PTL DEF Spec, LifeSpec, Life!Spec
=============================================================================
