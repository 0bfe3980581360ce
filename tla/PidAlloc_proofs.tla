---------------------------- MODULE PidAlloc_proofs ----------------------------
(***************************************************************************)
(* For every MAX_PID and MAX_PROCESS that get_pid's static_assert allows:   *)
(* pids are unique, the promise of next_safe holds between calls, and the   *)
(* allocator implements PidSpace.                                           *)
(***************************************************************************)
EXTENDS PidAlloc, TLAPS, SequenceTheorems

-----------------------------------------------------------------------------
(* Taking the i-th element out of a sequence (list_del in remove_links):    *)
(* length, and where each remaining element came from.                      *)
LEMMA RemoveAtFacts ==
    ASSUME NEW S, NEW s \in Seq(S), NEW i \in 1 .. Len(s)
    PROVE  /\ RemoveAt(s, i) \in Seq(S)
           /\ Len(RemoveAt(s, i)) = Len(s) - 1
           /\ \A j \in 1 .. Len(s) - 1 :
                /\ j < i => RemoveAt(s, i)[j] = s[j]
                /\ j >= i => RemoveAt(s, i)[j] = s[j + 1]
  <1>. DEFINE a == SubSeq(s, 1, i - 1)
              b == SubSeq(s, i + 1, Len(s))
  <1>1. \A j \in 1 .. Len(s) : s[j] \in S
    OBVIOUS
  <1>2. /\ a \in Seq(S)
        /\ Len(a) = i - 1
        /\ \A j \in 1 .. i - 1 : a[j] = s[j]
    <2>1. /\ a \in Seq(S)
          /\ Len(a) = IF 1 <= i - 1 THEN (i - 1) - 1 + 1 ELSE 0
          /\ \A j \in 1 .. (i - 1) - 1 + 1 : a[j] = s[1 + j - 1]
      <3>. HIDE DEF a
      <3>. QED  BY <1>1, SubSeqProperties DEF a
    <2>. QED
      BY <2>1
  <1>3. /\ b \in Seq(S)
        /\ Len(b) = Len(s) - i
        /\ \A j \in 1 .. Len(s) - i : b[j] = s[i + j]
    <2>1. /\ b \in Seq(S)
          /\ Len(b) = IF i + 1 <= Len(s) THEN Len(s) - (i + 1) + 1 ELSE 0
          /\ \A j \in 1 .. Len(s) - (i + 1) + 1 : b[j] = s[(i + 1) + j - 1]
      <3>. HIDE DEF b
      <3>. QED  BY <1>1, SubSeqProperties DEF b
    <2>. QED
      BY <2>1
  <1>. HIDE DEF a, b
  <1>4. /\ a \o b \in Seq(S)
        /\ Len(a \o b) = Len(a) + Len(b)
        /\ \A j \in 1 .. Len(a) + Len(b) :
             (a \o b)[j] = IF j <= Len(a) THEN a[j] ELSE b[j - Len(a)]
    BY <1>2, <1>3, ConcatProperties
  <1>5. RemoveAt(s, i) = a \o b
    BY DEF a, b, RemoveAt
  <1>6. Len(s) \in Nat /\ i \in Nat
    OBVIOUS
  <1>7. RemoveAt(s, i) \in Seq(S) /\ Len(RemoveAt(s, i)) = Len(s) - 1
    <2>1. Len(a \o b) = (i - 1) + (Len(s) - i)
      BY <1>2, <1>3, <1>4
    <2>2. (i - 1) + (Len(s) - i) = Len(s) - 1
      BY <1>6
    <2>. QED
      BY <1>4, <1>5, <2>1, <2>2
  <1>8. ASSUME NEW j \in 1 .. Len(s) - 1, j < i PROVE RemoveAt(s, i)[j] = s[j]
    <2>1. j \in 1 .. Len(a) + Len(b) /\ j <= Len(a) /\ j \in 1 .. i - 1
      BY <1>2, <1>3, <1>6, <1>8
    <2>. QED
      BY <1>2, <1>4, <1>5, <2>1
  <1>9. ASSUME NEW j \in 1 .. Len(s) - 1, j >= i PROVE RemoveAt(s, i)[j] = s[j + 1]
    <2>1. /\ j \in 1 .. Len(a) + Len(b)
          /\ ~(j <= Len(a))
          /\ j - Len(a) \in 1 .. Len(s) - i
          /\ i + (j - Len(a)) = j + 1
      BY <1>2, <1>3, <1>6, <1>9
    <2>2. (a \o b)[j] = b[j - Len(a)]
      BY <1>4, <2>1
    <2>3. b[j - Len(a)] = s[i + (j - Len(a))]
      BY <1>3, <2>1
    <2>. QED
      BY <1>5, <2>1, <2>2, <2>3
  <1>. QED
    BY <1>7, <1>8, <1>9

(* Putting an element at the head (list_add in set_links). *)
LEMMA PrependFacts ==
    ASSUME NEW S, NEW s \in Seq(S), NEW x \in S,
           NEW r, r = <<x>> \o s
    PROVE  /\ r \in Seq(S)
           /\ Len(r) = Len(s) + 1
           /\ r[1] = x
           /\ \A j \in 2 .. Len(r) : r[j] = s[j - 1]
  OBVIOUS

-----------------------------------------------------------------------------
(* What is on the list is a pid. *)
LEMMA ListedPids ==
    ASSUME TypeOK PROVE \A i \in 1 .. Len(procList) : procList[i] \in 1 .. MAX_PID - 1
  <1>. DEFINE S == 1 .. MAX_PID - 1
  <1>1. procList \in Seq(S)
    BY DEF TypeOK
  <1>. HIDE DEF S
  <1>2. \A i \in 1 .. Len(procList) : procList[i] \in S
    BY <1>1
  <1>. QED
    BY <1>2 DEF S

(* The allocator starts with an empty list and both statics at MAX_PID.     *)
LEMMA InitIInv == Init => IInv
  BY PidAssumption DEF Init, IInv, TypeOK, GapIsFree, FreshPid, UniquePids, WalkInv, Live

(* A call either stays inside the promise of next_safe or starts a walk.    *)
LEMMA CallIInv ==
    ASSUME IInv, Call PROVE IInv'
  <1>. USE PidAssumption DEF IInv, TypeOK
  <1>. DEFINE wraps == lastPid + 1 >= MAX_PID
              walks == wraps \/ lastPid + 1 >= nextSafe
  <1>1. /\ pc = "idle" /\ at' = 0 /\ procList' = procList
        /\ lastPid' = IF wraps THEN 1 ELSE lastPid + 1
        /\ nextSafe' = IF walks THEN MAX_PID ELSE nextSafe
        /\ pc' = IF walks THEN "scan" ELSE "done"
    BY DEF Call
  <1>2. TypeOK'
    BY <1>1
  <1>3. CASE walks
    BY <1>1, <1>2, <1>3 DEF GapIsFree, FreshPid, UniquePids, WalkInv, MayFork, Call
  <1>4. CASE ~walks
    <2>1. \A i \in 1 .. Len(procList) : procList[i] <= lastPid \/ procList[i] >= nextSafe
      BY <1>1 DEF GapIsFree
    <2>2. WalkInv'
      BY <1>1, <1>4, <2>1 DEF WalkInv, MayFork, Call
    <2>3. FreshPid'
      BY <1>1, <1>4, <2>1 DEF FreshPid, Live
    <2>. QED
      BY <1>1, <1>2, <1>4, <2>2, <2>3 DEF GapIsFree, UniquePids
  <1>. QED
    BY <1>3, <1>4

(* A collision moves last_pid by one, or starts the walk again.             *)
LEMMA CollideIInv ==
    ASSUME IInv, Collide PROVE IInv'
  <1>1. /\ pc = "scan" /\ pc' = pc /\ procList' = procList
        /\ at < Len(procList) /\ procList[at + 1] = lastPid
    BY DEF Collide
  <1>2. TypeOK /\ UniquePids /\ WalkInv
    BY DEF IInv
  <1>3. GapIsFree' /\ FreshPid' /\ UniquePids'
    BY <1>1, <1>2 DEF GapIsFree, FreshPid, UniquePids
  <1>4. CASE lastPid + 1 >= nextSafe
    <2>1. lastPid' = (IF lastPid + 1 >= MAX_PID THEN 1 ELSE lastPid + 1) /\ nextSafe' = MAX_PID /\ at' = 0
      BY <1>4 DEF Collide
    <2>2. TypeOK'
      BY <1>1, <1>2, <2>1, PidAssumption DEF TypeOK
    <2>3. WalkInv'
      BY <1>1, <1>2, <2>1, PidAssumption DEF TypeOK, WalkInv, MayFork
    <2>. QED
      BY <1>3, <2>2, <2>3 DEF IInv
  <1>5. CASE ~(lastPid + 1 >= nextSafe)
    <2>1. lastPid' = lastPid + 1 /\ nextSafe' = nextSafe /\ at' = at + 1
      BY <1>5 DEF Collide
    <2>2. TypeOK'
      BY <1>1, <1>2, <1>5, <2>1, PidAssumption DEF TypeOK
    <2>3. \A i \in 1 .. at : procList[i] < lastPid' \/ procList[i] >= nextSafe
      <3>1. \A i \in 1 .. at : procList[i] \in 1 .. MAX_PID - 1
        BY <1>1, <1>2, ListedPids DEF TypeOK
      <3>. QED
        BY <1>1, <1>2, <2>1, <3>1 DEF TypeOK, WalkInv
    <2>4. WalkInv'
      <3>1. MayFork' /\ lastPid' < nextSafe'
        BY <1>1, <1>2, <1>5, <2>1 DEF TypeOK, WalkInv, MayFork
      <3>2. \A i \in 1 .. at' : i = at + 1 \/ i \in 1 .. at
        BY <1>2, <2>1 DEF TypeOK
      <3>3. procList[at + 1] < lastPid'
        BY <1>1, <1>2, <2>1 DEF TypeOK
      <3>. QED
        BY <1>1, <2>1, <2>3, <3>1, <3>2, <3>3 DEF WalkInv
    <2>. QED
      BY <1>3, <2>2, <2>4 DEF IInv
  <1>. QED
    BY <1>4, <1>5

(* Any other process is left outside [last_pid, next_safe).                 *)
LEMMA PassIInv ==
    ASSUME IInv, Pass PROVE IInv'
  <1>. DEFINE x == procList[at + 1]
  <1>1. /\ pc = "scan" /\ pc' = pc /\ procList' = procList /\ lastPid' = lastPid
        /\ at < Len(procList) /\ at' = at + 1 /\ x # lastPid
        /\ nextSafe' = IF x > lastPid /\ nextSafe > x THEN x ELSE nextSafe
    BY DEF Pass
  <1>2. TypeOK /\ UniquePids /\ WalkInv
    BY DEF IInv
  <1>3. GapIsFree' /\ FreshPid' /\ UniquePids'
    BY <1>1, <1>2 DEF GapIsFree, FreshPid, UniquePids
  <1>4. x \in 1 .. MAX_PID - 1 /\ lastPid \in Nat /\ nextSafe \in Nat /\ at \in Nat
    BY <1>1, <1>2, PidAssumption DEF TypeOK
  <1>. HIDE DEF x
  <1>5. TypeOK'
    BY <1>1, <1>2, <1>4, PidAssumption DEF TypeOK
  <1>6. lastPid < nextSafe /\ nextSafe' <= nextSafe /\ lastPid < nextSafe' /\ (x < lastPid \/ x >= nextSafe')
    BY <1>1, <1>2, <1>4 DEF WalkInv
  <1>7. \A i \in 1 .. at : procList[i] < lastPid \/ procList[i] >= nextSafe'
    <2>1. \A i \in 1 .. at : procList[i] \in 1 .. MAX_PID - 1
      BY <1>1, <1>2, ListedPids DEF TypeOK
    <2>. QED
      BY <1>1, <1>2, <1>4, <1>5, <1>6, <2>1 DEF WalkInv, TypeOK
  <1>8. \A i \in 1 .. at' : i = at + 1 \/ i \in 1 .. at
    BY <1>1, <1>4
  <1>9. WalkInv'
    BY <1>1, <1>2, <1>6, <1>7, <1>8 DEF WalkInv, MayFork, x
  <1>. QED
    BY <1>3, <1>5, <1>9 DEF IInv

(* After a whole walk last_pid is free.                                     *)
LEMMA FinishIInv ==
    ASSUME IInv, Finish PROVE IInv'
  BY PidAssumption
     DEF IInv, TypeOK, GapIsFree, FreshPid, UniquePids, WalkInv, MayFork, Finish, Live

(* The new process takes last_pid, so the open interval stays free.         *)
LEMMA SetLinksIInv ==
    ASSUME IInv, SetLinks PROVE IInv'
  <1>. DEFINE n == Len(procList)
  <1>1. /\ pc = "done" /\ pc' = "idle" /\ at' = 0
        /\ lastPid' = lastPid /\ nextSafe' = nextSafe
        /\ procList' = <<lastPid>> \o procList
    BY DEF SetLinks
  <1>2. TypeOK /\ n \in Nat /\ n + 1 < MAX_PROCESS
    BY <1>1 DEF IInv, TypeOK, WalkInv, MayFork
  <1>3. /\ lastPid \in 1 .. MAX_PID - 1
        /\ \A k \in 1 .. n : procList[k] # lastPid
    BY <1>1 DEF IInv, FreshPid, Live
  <1>4. /\ procList' \in Seq(1 .. MAX_PID - 1)
        /\ Len(procList') = n + 1
        /\ procList'[1] = lastPid
        /\ \A j \in 2 .. n + 1 : procList'[j] = procList[j - 1]
    BY <1>1, <1>2, <1>3, PrependFacts DEF TypeOK
  <1>5. \A j \in 2 .. n + 1 : j - 1 \in 1 .. n
    BY <1>2
  <1>. HIDE DEF n
  <1>6. TypeOK'
    BY <1>1, <1>2, <1>4, PidAssumption DEF TypeOK
  <1>7. UniquePids'
    <2>. SUFFICES ASSUME NEW i \in 1 .. n + 1, NEW j \in 1 .. n + 1,
                         procList'[i] = procList'[j]
                  PROVE  i = j
      BY <1>4 DEF UniquePids
    <2>1. \A k \in 1 .. n + 1 : k = 1 \/ k \in 2 .. n + 1
      BY <1>2
    <2>2. \A k \in 2 .. n + 1 : procList'[k] # procList'[1]
      BY <1>3, <1>4, <1>5
    <2>3. CASE i \in 2 .. n + 1 /\ j \in 2 .. n + 1
      <3>1. procList[i - 1] = procList[j - 1]
        BY <1>4, <2>3
      <3>2. i - 1 = j - 1
        BY <1>5, <2>3, <3>1 DEF IInv, UniquePids, n
      <3>. QED
        BY <1>2, <2>3, <3>2
    <2>. QED
      BY <2>1, <2>2, <2>3
  <1>8. \A j \in 1 .. n + 1 : procList'[j] <= lastPid \/ procList'[j] >= nextSafe
    <2>1. \A k \in 1 .. n : procList[k] < lastPid \/ procList[k] >= nextSafe
      BY <1>1 DEF IInv, WalkInv, n
    <2>2. \A k \in 1 .. n : procList[k] \in Int
      <3>1. procList \in Seq(1 .. MAX_PID - 1)
        BY <1>2 DEF TypeOK
      <3>2. ASSUME NEW k \in 1 .. Len(procList) PROVE procList[k] \in 1 .. MAX_PID - 1
        <4>. DEFINE S == 1 .. MAX_PID - 1
        <4>1. procList \in Seq(S)
          BY <3>1
        <4>. HIDE DEF S
        <4>2. procList[k] \in S
          BY <4>1, ElementOfSeq
        <4>. QED
          BY <4>2 DEF S
      <3>. QED
        BY <3>2, PidAssumption DEF n
    <2>3. \A j \in 2 .. n + 1 : procList'[j] <= lastPid \/ procList'[j] >= nextSafe
      BY <1>2, <1>4, <1>5, <2>1, <2>2 DEF TypeOK
    <2>. QED
      BY <1>2, <1>3, <1>4, <2>3 DEF TypeOK
  <1>. QED
    BY <1>1, <1>4, <1>6, <1>7, <1>8 DEF IInv, GapIsFree, FreshPid, WalkInv

(* Reaping a process can only make the gap emptier.                         *)
LEMMA RemoveLinksIInv ==
    ASSUME IInv, RemoveLinks PROVE IInv'
  <1>. DEFINE n == Len(procList)
  <1>1. PICK i \in 1 .. n : procList' = RemoveAt(procList, i)
    BY DEF RemoveLinks
  <1>2. pc = "idle" /\ UNCHANGED <<lastPid, nextSafe, pc, at>>
    BY DEF RemoveLinks
  <1>3. TypeOK /\ n \in Nat /\ procList \in Seq(1 .. MAX_PID - 1)
    BY DEF IInv, TypeOK
  <1>4. /\ procList' \in Seq(1 .. MAX_PID - 1)
        /\ Len(procList') = n - 1
        /\ \A j \in 1 .. n - 1 : /\ j < i => procList'[j] = procList[j]
                                 /\ j >= i => procList'[j] = procList[j + 1]
    <2>. HIDE DEF n
    <2>. QED  BY <1>1, <1>3, RemoveAtFacts DEF n
  <1>5. \A j \in 1 .. n - 1 : j \in 1 .. n /\ j + 1 \in 1 .. n
    BY <1>3
  <1>6. at = 0
    BY <1>2 DEF IInv, WalkInv
  <1>. HIDE DEF n
  <1>7. TypeOK'
    <2>1. n < MAX_PROCESS /\ MAX_PROCESS \in Nat
      BY <1>3, PidAssumption DEF TypeOK, n
    <2>2. n - 1 < MAX_PROCESS /\ 0 \in 0 .. n - 1
      BY <1>1, <1>3, <2>1
    <2>3. at' \in 0 .. Len(procList') /\ Len(procList') < MAX_PROCESS
      BY <1>2, <1>4, <1>6, <2>2
    <2>. QED
      BY <1>2, <1>3, <1>4, <2>3 DEF TypeOK
  <1>8. GapIsFree'
    <2>1. \A k \in 1 .. n : procList[k] <= lastPid \/ procList[k] >= nextSafe
      BY <1>2 DEF IInv, GapIsFree, n
    <2>. QED
      BY <1>1, <1>2, <1>3, <1>4, <1>5, <2>1 DEF GapIsFree
  <1>9. UniquePids'
    <2>. SUFFICES ASSUME NEW j \in 1 .. n - 1, NEW k \in 1 .. n - 1,
                         procList'[j] = procList'[k]
                  PROVE  j = k
      BY <1>4 DEF UniquePids
    <2>1. \A p, q \in 1 .. n : procList[p] = procList[q] => p = q
      BY DEF IInv, UniquePids, n
    <2>2. /\ j < i \/ j >= i
          /\ k < i \/ k >= i
          /\ j \in Nat /\ k \in Nat /\ i \in Nat
      BY <1>1, <1>3
    <2>3. CASE j < i /\ k < i
      BY <1>4, <1>5, <2>1, <2>3
    <2>4. CASE j >= i /\ k >= i
      <3>1. j + 1 = k + 1
        BY <1>4, <1>5, <2>1, <2>4
      <3>. QED
        BY <2>2, <3>1
    <2>5. CASE j < i /\ k >= i
      <3>1. j = k + 1
        BY <1>4, <1>5, <2>1, <2>5
      <3>. QED
        BY <2>2, <2>5, <3>1
    <2>6. CASE j >= i /\ k < i
      <3>1. j + 1 = k
        BY <1>4, <1>5, <2>1, <2>6
      <3>. QED
        BY <2>2, <2>6, <3>1
    <2>. QED
      BY <2>2, <2>3, <2>4, <2>5, <2>6
  <1>. QED
    BY <1>2, <1>6, <1>7, <1>8, <1>9 DEF IInv, FreshPid, WalkInv

(* One case per action. *)
LEMMA NextIInv == IInv /\ [Next]_vars => IInv'
  <1>. SUFFICES ASSUME IInv, [Next]_vars PROVE IInv'
    OBVIOUS
  <1>1. CASE Call         BY <1>1, CallIInv
  <1>2. CASE Collide      BY <1>2, CollideIInv
  <1>3. CASE Pass         BY <1>3, PassIInv
  <1>4. CASE Finish       BY <1>4, FinishIInv
  <1>5. CASE SetLinks     BY <1>5, SetLinksIInv
  <1>6. CASE RemoveLinks  BY <1>6, RemoveLinksIInv
  <1>7. CASE UNCHANGED vars
    BY <1>7 DEF vars, IInv, TypeOK, GapIsFree, FreshPid, UniquePids, WalkInv, MayFork, Live
  <1>. QED
    BY <1>1, <1>2, <1>3, <1>4, <1>5, <1>6, <1>7 DEF Next

(* Everything the walk and the statics promise holds in every reachable     *)
(* state, whatever the limits.                                              *)
THEOREM Invariance == Spec => []IInv
  BY InitIInv, NextIInv, PTL DEF Spec

(* get_pid: "alloc a unique pid for process" -- the pid it returns is valid  *)
(* and no process on proc_list has it.                                      *)
THEOREM FreshPidTheorem == Spec => []FreshPid
  <1>1. IInv => FreshPid
    BY DEF IInv
  <1>. QED
    BY <1>1, Invariance, PTL

(* No two processes on proc_list share a pid. *)
THEOREM UniquePidsTheorem == Spec => []UniquePids
  <1>1. IInv => UniquePids
    BY DEF IInv
  <1>. QED
    BY <1>1, Invariance, PTL

(* Between calls no process has a pid in the open interval that the next    *)
(* calls will hand out without looking at proc_list.                        *)
THEOREM GapIsFreeTheorem == Spec => []GapIsFree
  <1>1. IInv => GapIsFree
    BY DEF IInv
  <1>. QED
    BY <1>1, Invariance, PTL

-----------------------------------------------------------------------------
(* What unlinking and prepending do to the set of pids in use. *)
LEMMA LiveAfterSetLinks ==
    ASSUME IInv, SetLinks PROVE Live' = Live \cup {lastPid}
  <1>. DEFINE n == Len(procList)
  <1>1. /\ procList' = <<lastPid>> \o procList
        /\ lastPid \in 1 .. MAX_PID - 1 /\ procList \in Seq(1 .. MAX_PID - 1)
    BY DEF IInv, TypeOK, FreshPid, SetLinks
  <1>2. /\ Len(procList') = n + 1
        /\ procList'[1] = lastPid
        /\ \A j \in 2 .. n + 1 : procList'[j] = procList[j - 1]
        /\ n \in Nat
    BY <1>1, PrependFacts
  <1>. HIDE DEF n
  <1>3. Live = {procList[i] : i \in 1 .. n} /\ Live' = {procList'[i] : i \in 1 .. n + 1}
    BY <1>2 DEF Live, n
  <1>4. \A j \in 1 .. n + 1 : j = 1 \/ (j \in 2 .. n + 1 /\ j - 1 \in 1 .. n)
    BY <1>2
  <1>5. \A j \in 1 .. n : j + 1 \in 2 .. n + 1 /\ j + 1 \in 1 .. n + 1 /\ (j + 1) - 1 = j
    BY <1>2
  <1>6. 1 \in 1 .. n + 1
    BY <1>2
  <1>7. ASSUME NEW p \in Live' PROVE p \in Live \cup {lastPid}
    BY <1>2, <1>3, <1>4, <1>7
  <1>8. ASSUME NEW p \in Live PROVE p \in Live'
    <2>1. PICK j \in 1 .. n : p = procList[j]
      BY <1>3, <1>8
    <2>2. procList'[j + 1] = p /\ j + 1 \in 1 .. n + 1
      BY <1>2, <1>5, <2>1
    <2>. QED
      BY <1>3, <2>2
  <1>9. lastPid \in Live'
    BY <1>2, <1>3, <1>6
  <1>. QED
    BY <1>7, <1>8, <1>9

(* remove_links takes exactly one pid out of use. *)
LEMMA LiveAfterRemoveLinks ==
    ASSUME IInv, RemoveLinks PROVE \E p \in Live : Live' = Live \ {p}
  <1>. DEFINE n == Len(procList)
  <1>1. PICK i \in 1 .. n : procList' = RemoveAt(procList, i)
    BY DEF RemoveLinks
  <1>2. n \in Nat /\ procList \in Seq(1 .. MAX_PID - 1)
    BY DEF IInv, TypeOK
  <1>3. /\ Len(procList') = n - 1
        /\ \A j \in 1 .. n - 1 : /\ j < i => procList'[j] = procList[j]
                                 /\ j >= i => procList'[j] = procList[j + 1]
    <2>. HIDE DEF n
    <2>. QED  BY <1>1, <1>2, RemoveAtFacts DEF n
  <1>. HIDE DEF n
  <1>4. Live = {procList[k] : k \in 1 .. n} /\ Live' = {procList'[k] : k \in 1 .. n - 1}
    BY <1>3 DEF Live, n
  <1>5. \A p, q \in 1 .. n : procList[p] = procList[q] => p = q
    BY DEF IInv, UniquePids, n
  <1>6. ASSUME NEW x \in Live' PROVE x \in Live /\ x # procList[i]
    <2>1. PICK j \in 1 .. n - 1 : x = procList'[j]
      BY <1>4, <1>6
    <2>2. j \in 1 .. n /\ j + 1 \in 1 .. n /\ (j < i \/ j >= i) /\ i \in Nat /\ j \in Nat
      BY <1>1, <1>2
    <2>3. CASE j < i
      <3>1. x = procList[j] /\ j # i
        BY <1>3, <2>1, <2>2, <2>3
      <3>. QED
        BY <1>1, <1>4, <1>5, <2>2, <3>1
    <2>4. CASE j >= i
      <3>1. x = procList[j + 1] /\ j + 1 # i
        BY <1>3, <2>1, <2>2, <2>4
      <3>. QED
        BY <1>1, <1>4, <1>5, <2>2, <3>1
    <2>. QED
      BY <2>2, <2>3, <2>4
  <1>7. ASSUME NEW x \in Live, x # procList[i] PROVE x \in Live'
    <2>1. PICK j \in 1 .. n : x = procList[j]
      BY <1>4, <1>7
    <2>2. j # i /\ (j < i \/ j > i) /\ i \in Nat /\ j \in Nat
      BY <1>1, <1>7, <2>1
    <2>3. CASE j < i
      <3>1. j \in 1 .. n - 1
        BY <1>1, <1>2, <2>1, <2>3
      <3>. QED
        BY <1>3, <1>4, <2>1, <2>3, <3>1
    <2>4. CASE j > i
      <3>1. j - 1 \in 1 .. n - 1 /\ j - 1 >= i /\ (j - 1) + 1 = j
        BY <1>1, <1>2, <2>1, <2>4
      <3>. QED
        BY <1>3, <1>4, <2>1, <3>1
    <2>. QED
      BY <2>2, <2>3, <2>4
  <1>8. procList[i] \in Live /\ Live' = Live \ {procList[i]}
    BY <1>1, <1>4, <1>6, <1>7
  <1>. QED
    BY <1>8

(* The steps of the walk are stutters; the step that ends a call grants a   *)
(* pid that is not in use.                                                  *)
LEMMA StepImplementsPidSpace ==
    ASSUME IInv, IInv', [Next]_vars PROVE [Space!Next]_(Space!vars)
  <1>. USE DEF Space!Next, Space!vars, Space!Grant, Space!Enter, Space!Reap
  <1>1. ASSUME pc # "done", pc' = "done", UNCHANGED procList PROVE Space!Grant
    BY <1>1 DEF IInv, FreshPid, Live
  <1>2. CASE Call
    BY <1>1, <1>2 DEF Call, Live
  <1>3. CASE Collide \/ Pass
    BY <1>3 DEF Collide, Pass, Live
  <1>4. CASE Finish
    BY <1>1, <1>4 DEF Finish, Live
  <1>5. CASE SetLinks
    <2>1. pc = "done" /\ pc' = "idle"
      BY <1>5 DEF SetLinks
    <2>. QED
      BY <1>5, <2>1, LiveAfterSetLinks
  <1>6. CASE RemoveLinks
    <2>1. pc = "idle" /\ pc' = "idle"
      BY <1>6 DEF RemoveLinks
    <2>. QED
      BY <1>6, <2>1, LiveAfterRemoveLinks
  <1>7. CASE UNCHANGED vars
    BY <1>7 DEF vars, Live
  <1>. QED
    BY <1>2, <1>3, <1>4, <1>5, <1>6, <1>7 DEF Next

(* The allocator with its walk implements the plain set of used pids that   *)
(* do_fork and do_wait rely on.                                             *)
THEOREM ImplementsPidSpace == Spec => PidSpaceSpec
  <1>1. Init => Space!Init
    BY DEF Init, Space!Init, Live
  <1>2. IInv /\ IInv' /\ [Next]_vars => [Space!Next]_(Space!vars)
    BY StepImplementsPidSpace
  <1>. QED
    BY <1>1, <1>2, Invariance, PTL DEF Spec, PidSpaceSpec, Space!Spec

=============================================================================
