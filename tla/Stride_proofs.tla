----------------------------- MODULE Stride_proofs -----------------------------
(***************************************************************************)
(* For every number of processes, every range of strides and every         *)
(* BIG_STRIDE below half of it: turns never part strides that lie in half   *)
(* the range, and as long as they do, the comparison of wrapped strides     *)
(* finds the process that is least ahead (Shares), however often they have  *)
(* overflowed.  Nothing is assumed of those who join.                      *)
(***************************************************************************)
EXTENDS Stride, TLAPS

-----------------------------------------------------------------------------
(* Machine words.  Off(s, b) is how far s is ahead of b on the circle.     *)
Off(s, b) == Wrap(s - b)

LEMMA OffIsWord ==
    ASSUME NEW s \in Word, NEW b \in Word PROVE Off(s, b) \in Word
  BY StrideAssumption DEF Off, Wrap, Word

LEMMA SumIsWord ==
    ASSUME NEW s \in Word, NEW d \in 0 .. HALF - 1 PROVE Wrap(s + d) \in Word
  BY StrideAssumption DEF Wrap, Word

(* Seen from any b that both are ahead of by less than half the circle, the *)
(* wrapped comparison is the comparison of numbers.                        *)
LEMMA ComparisonIsSound ==
    ASSUME NEW s \in Word, NEW t \in Word, NEW b \in Word,
           Off(s, b) < HALF, Off(t, b) < HALF
    PROVE  proc_stride_comp_f(s, t) # 1 <=> Off(s, b) <= Off(t, b)
  BY StrideAssumption DEF Off, Wrap, Signed, Sign, proc_stride_comp_f, Word

(* Counting from a word that is further ahead, or further behind.          *)
LEMMA Rebase ==
    ASSUME NEW s \in Word, NEW t \in Word, NEW b \in Word, Off(s, b) <= Off(t, b)
    PROVE  Off(t, s) = Off(t, b) - Off(s, b)
  BY StrideAssumption DEF Off, Wrap, Word

LEMMA Advance ==
    ASSUME NEW s \in Word, NEW d \in 0 .. HALF - 1 PROVE Off(Wrap(s + d), s) = d
  BY StrideAssumption DEF Off, Wrap, Word

(* A turn costs something, and less than half the range.                   *)
LEMMA PassIsSmall ==
    ASSUME NEW n \in Nat PROVE Pass(n) \in 1 .. BIG_STRIDE /\ Pass(n) \in 0 .. HALF - 1
  <1>1. CASE n = 0
    BY <1>1, StrideAssumption DEF Pass
  <1>2. CASE n # 0
    <2>1. BIG_STRIDE \div n \in Nat /\ BIG_STRIDE \div n <= BIG_STRIDE
      BY <1>2, StrideAssumption
    <2>. QED
      BY <1>2, <2>1, StrideAssumption DEF Pass
  <1>. QED
    BY <1>1, <1>2

LEMMA DifferenceIsSound ==
    ASSUME NEW s \in Word, NEW t \in Word, NEW b \in Word,
           Off(s, b) < HALF, Off(t, b) < HALF
    PROVE  Signed(Wrap(s - t)) = Off(s, b) - Off(t, b)
  BY StrideAssumption DEF Off, Wrap, Signed, Word

-----------------------------------------------------------------------------
(* Members are processes with a stride.                                    *)
LEMMA MemberFacts ==
    ASSUME TypeOK, NEW q \in Members PROVE q \in Proc /\ stride[q] \in Word
  BY DEF TypeOK, Members, Runnable

LEMMA PickFacts ==
    ASSUME TypeOK, NEW S \in SUBSET Members, NEW p \in S, stride_pick_next(S, p)
    PROVE  /\ Members' = S /\ pool' = S \ {p} /\ current' = p
           /\ p \in Proc /\ priority[p] \in Nat /\ Pass(priority[p]) \in 0 .. HALF - 1
           /\ stride' \in [Proc -> Word] /\ priority' \in [Proc -> Nat]
           /\ stride'[p] = Wrap(stride[p] + Pass(priority[p]))
           /\ \A q \in S : q # p => stride'[q] = stride[q]
  <1>1. p \in Proc /\ stride[p] \in Word /\ priority[p] \in Nat /\ S \subseteq Proc
    BY MemberFacts DEF TypeOK
  <1>2. Pass(priority[p]) \in 0 .. HALF - 1
    BY <1>1, PassIsSmall
  <1>3. Wrap(stride[p] + Pass(priority[p])) \in Word
    BY <1>1, <1>2, SumIsWord
  <1>4. pool' = S \ {p} /\ current' = p
    BY DEF stride_pick_next
  <1>5. Members' = S
    BY <1>1, <1>4, StrideAssumption DEF Members, Runnable
  <1>6. /\ stride' \in [Proc -> Word]
        /\ stride'[p] = Wrap(stride[p] + Pass(priority[p]))
        /\ \A q \in S : q # p => stride'[q] = stride[q]
    BY <1>1, <1>3 DEF stride_pick_next, TypeOK
  <1>7. priority' \in [Proc -> Nat]
    BY <1>1 DEF stride_pick_next, TypeOK
  <1>. QED
    BY <1>1, <1>2, <1>4, <1>5, <1>6, <1>7

LEMMA ScheduleKeepsTypes ==
    ASSUME TypeOK, NEW S \in SUBSET Members, schedule(S),
           asleep' \in SUBSET Proc, asleep' \cap S = {}
    PROVE  TypeOK'
  <1>1. CASE S = {} /\ run_idle
    BY <1>1, StrideAssumption DEF run_idle, TypeOK, Members, Runnable
  <1>2. ASSUME NEW p \in S, stride_pick_next(S, p) PROVE TypeOK'
    <2>1. S \subseteq Proc
      BY MemberFacts
    <2>. QED
      BY <1>2, <2>1, PickFacts DEF TypeOK
  <1>. QED
    BY <1>1, <1>2 DEF schedule

(* What somebody who joins leaves alone.                                   *)
LEMMA JoinFacts ==
    ASSUME TypeOK, NEW p \in Proc, wakeup_proc(p) \/ do_fork(p)
    PROVE  /\ p \notin Members /\ pool' = pool \cup {p} /\ current' = current
           /\ Members' = Members \cup {p}
           /\ \A q \in Members : stride'[q] = stride[q]
           /\ TypeOK'
  <1>1. p \notin Members /\ pool' = pool \cup {p} /\ current' = current
    BY DEF wakeup_proc, do_fork, stride_enqueue, TypeOK
  <1>2. Members' = Members \cup {p}
    BY <1>1 DEF Members, Runnable
  <1>3. \A q \in Members : stride'[q] = stride[q]
    BY <1>1, MemberFacts DEF wakeup_proc, do_fork, TypeOK
  <1>4. stride' \in [Proc -> Word] /\ priority' \in [Proc -> Nat]
    BY StrideAssumption DEF wakeup_proc, do_fork, TypeOK, Word
  <1>5. asleep' \subseteq Proc /\ asleep' \cap (Members \cup {p}) = {}
    BY <1>1 DEF wakeup_proc, do_fork, TypeOK
  <1>6. current' \notin pool'
    BY <1>1, StrideAssumption DEF TypeOK, Members, Runnable
  <1>7. TypeOK'
    BY <1>1, <1>2, <1>4, <1>5, <1>6 DEF TypeOK
  <1>. QED
    BY <1>1, <1>2, <1>3, <1>7

LEMMA InitTypes == Init => TypeOK
  BY StrideAssumption DEF Init, TypeOK, Members, Runnable, Word

LEMMA NextTypes == TypeOK /\ [Next]_vars => TypeOK'
  <1>. SUFFICES ASSUME TypeOK, [Next]_vars PROVE TypeOK'
    OBVIOUS
  <1>1. CASE do_yield
    BY <1>1, ScheduleKeepsTypes DEF do_yield, TypeOK
  <1>2. CASE do_wait
    <2>1. pool \in SUBSET Members /\ asleep' \in SUBSET Proc /\ asleep' \cap pool = {}
      BY <1>2 DEF do_wait, TypeOK, Members, Runnable
    <2>. QED
      BY <1>2, <2>1, ScheduleKeepsTypes DEF do_wait
  <1>3. CASE do_exit
    <2>1. pool \in SUBSET Members /\ asleep' \in SUBSET Proc /\ asleep' \cap pool = {}
      BY <1>3 DEF do_exit, TypeOK, Members, Runnable
    <2>. QED
      BY <1>3, <2>1, ScheduleKeepsTypes DEF do_exit
  <1>4. ASSUME NEW p \in Proc, wakeup_proc(p) \/ do_fork(p) PROVE TypeOK'
    BY <1>4, JoinFacts
  <1>5. ASSUME NEW n \in Priority, lab6_set_priority(n) PROVE TypeOK'
    <2>1. priority' \in [Proc -> Nat]
      BY <1>5, StrideAssumption DEF lab6_set_priority, TypeOK
    <2>. QED
      BY <1>5, <2>1 DEF lab6_set_priority, TypeOK, Members, Runnable
  <1>6. CASE UNCHANGED vars
    BY <1>6 DEF vars, TypeOK, Members, Runnable
  <1>. QED
    BY <1>1, <1>2, <1>3, <1>4, <1>5, <1>6 DEF Next

(* Strides stay 32-bit numbers, and nobody is ready and asleep, or ready    *)
(* and running.                                                            *)
THEOREM TypesCorrect == Spec => []TypeOK
  BY InitTypes, NextTypes, PTL DEF Spec

-----------------------------------------------------------------------------
(* Strides of a part lie together where those of the whole do.             *)
LEMMA PartIsTogether ==
    ASSUME NEW T, NEW S \in SUBSET T, Together(T) PROVE Together(S)
  BY DEF Together, Within

(* The one the comparisons point to is behind nobody, seen from any b that  *)
(* all are ahead of.                                                       *)
LEMMA LeastIsBehind ==
    ASSUME TypeOK, NEW S \in SUBSET Members, NEW p, Least(S, p), NEW b \in Word, Within(S, b)
    PROVE  \A q \in S : Off(stride[p], b) <= Off(stride[q], b)
  <1>. SUFFICES ASSUME NEW q \in S PROVE Off(stride[p], b) <= Off(stride[q], b)
    OBVIOUS
  <1>1. p \in S /\ proc_stride_comp_f(stride[p], stride[q]) # 1
    BY DEF Least
  <1>2. /\ stride[p] \in Word /\ Off(stride[p], b) < HALF
        /\ stride[q] \in Word /\ Off(stride[q], b) < HALF
    BY <1>1, MemberFacts DEF Within, Off
  <1>. QED
    BY <1>1, <1>2, ComparisonIsSound

(* After its turn, all lie ahead of where the one that got it was.         *)
LEMMA PickKeepsTogether ==
    ASSUME TypeOK, NEW S \in SUBSET Members, Together(S),
           NEW p \in S, Least(S, p), stride_pick_next(S, p)
    PROVE  Together(Members)'
  <1>1. PICK b \in Word : Within(S, b)
    BY DEF Together
  <1>2. /\ Members' = S
        /\ stride'[p] = Wrap(stride[p] + Pass(priority[p]))
        /\ Pass(priority[p]) \in 0 .. HALF - 1
        /\ \A q \in S : q # p => stride'[q] = stride[q]
    BY PickFacts
  <1>3. stride[p] \in Word
    BY MemberFacts
  <1>4. ASSUME NEW q \in S PROVE Off(stride'[q], stride[p]) < HALF
    <2>1. CASE q = p
      BY <1>2, <1>3, <2>1, Advance, StrideAssumption
    <2>2. CASE q # p
      <3>1. stride[q] \in Word /\ Off(stride[q], b) < HALF
        BY <1>1, MemberFacts DEF Within, Off
      <3>2. Off(stride[p], b) <= Off(stride[q], b)
        BY <1>1, LeastIsBehind
      <3>3. Off(stride[q], stride[p]) = Off(stride[q], b) - Off(stride[p], b)
        BY <1>3, <3>1, <3>2, Rebase
      <3>4. Off(stride[p], b) \in Word /\ Off(stride[q], b) \in Word
        BY <1>3, <3>1, OffIsWord
      <3>. QED
        BY <1>2, <2>2, <3>1, <3>3, <3>4, StrideAssumption DEF Word
    <2>. QED
      BY <2>1, <2>2
  <1>5. \A q \in Members' : Wrap(stride'[q] - stride[p]) < HALF
    BY <1>2, <1>4 DEF Off
  <1>. QED
    BY <1>3, <1>5 DEF Together, Within

LEMMA ScheduleKeepsTogether ==
    ASSUME TypeOK, NEW S \in SUBSET Members, Together(Members), schedule(S)
    PROVE  Together(Members)'
  <1>1. Together(S)
    BY PartIsTogether
  <1>2. CASE S = {} /\ run_idle
    <2>1. Members' = {}
      BY <1>2 DEF run_idle, Members, Runnable
    <2>2. 0 \in Word
      BY StrideAssumption DEF Word
    <2>. QED
      BY <2>1, <2>2 DEF Together, Within
  <1>3. ASSUME NEW p \in S, Least(S, p), stride_pick_next(S, p) PROVE Together(Members)'
    BY <1>1, <1>3, PickKeepsTogether
  <1>. QED
    BY <1>1, <1>2, <1>3 DEF schedule

(* The pool is part of those who are ready or running.                     *)
LEMMA PoolIsPart == pool \in SUBSET Members
  BY DEF Members

(* However strides overflow, no turn parts them: only somebody who joins    *)
(* the pool, with the stride of long ago or with 0, does.                  *)
THEOREM TurnsDoNotPart == Spec => OnlyJoinersPart
  <1>. DEFINE Step == \/ Together(Members) => Together(Members)'
                     \/ \E p \in Proc \ pool : p \in pool' /\ current' = current
  <1>1. ASSUME TypeOK, [Next]_vars PROVE [Step]_vars
    <2>1. CASE do_yield \/ do_wait \/ do_exit
      BY <1>1, <2>1, ScheduleKeepsTogether, PoolIsPart DEF do_yield, do_wait, do_exit
    <2>2. ASSUME NEW p \in Proc, wakeup_proc(p) \/ do_fork(p) PROVE Step
      <3>1. p \notin Members /\ pool' = pool \cup {p} /\ current' = current
        BY <1>1, <2>2, JoinFacts
      <3>. QED
        BY <3>1, PoolIsPart
    <2>3. ASSUME NEW n \in Priority, lab6_set_priority(n) PROVE Step
      BY <2>3 DEF lab6_set_priority, Together, Within, Members, Runnable
    <2>. QED
      BY <1>1, <2>1, <2>2, <2>3 DEF Next
  <1>2. TypeOK /\ [Next]_vars => [Step]_vars
    BY <1>1
  <1>. QED
    BY <1>2, TypesCorrect, PTL DEF Spec, OnlyJoinersPart

-----------------------------------------------------------------------------
(* While strides lie together, leads are differences of numbers: those of   *)
(* the distances from any b that all are ahead of.                         *)
LEMMA LeadOf ==
    ASSUME TypeOK, NEW b \in Word, Within(Members, b), NEW x \in Members, NEW y \in Members
    PROVE  lead[x][y] = Off(stride[x], b) - Off(stride[y], b)
  <1>1. x \in Proc /\ y \in Proc /\ Together(Members)
    BY MemberFacts DEF Together
  <1>2. lead[x][y] = Signed(Wrap(stride[x] - stride[y]))
    BY <1>1 DEF lead
  <1>3. /\ stride[x] \in Word /\ Off(stride[x], b) < HALF
        /\ stride[y] \in Word /\ Off(stride[y], b) < HALF
    BY MemberFacts DEF Within, Off
  <1>. QED
    BY <1>2, <1>3, DifferenceIsSound

LEMMA LeadsAreBooks ==
    TypeOK /\ Together(Members) => Accounts!Books(lead, Members)
  <1>. SUFFICES ASSUME TypeOK, Together(Members), NEW x \in Members, NEW y \in Members, NEW z \in Members
                PROVE  lead[x][y] + lead[y][z] = lead[x][z]
    BY DEF Accounts!Books
  <1>1. PICK b \in Word : Within(Members, b)
    BY DEF Together
  <1>2. /\ lead[x][y] = Off(stride[x], b) - Off(stride[y], b)
        /\ lead[y][z] = Off(stride[y], b) - Off(stride[z], b)
        /\ lead[x][z] = Off(stride[x], b) - Off(stride[z], b)
    BY <1>1, LeadOf
  <1>3. Off(stride[x], b) \in Word /\ Off(stride[y], b) \in Word /\ Off(stride[z], b) \in Word
    BY MemberFacts, OffIsWord
  <1>. QED
    BY <1>2, <1>3 DEF Word

LEMMA LeadsAreBooksNext ==
    (TypeOK /\ Together(Members))' => Accounts!Books(lead, Members)'
  BY LeadsAreBooks, PTL

(* Elsewhere there are no leads.                                           *)
LEMMA LeadOfNobodyNext == ~Together(Members)' \/ Members' = {} => lead' = Accounts!Nothing
  BY DEF lead, Accounts!Nothing

(* The leads after the turn of p are those of before, with its cost.       *)
LEMMA PickIsEntered ==
    ASSUME TypeOK, NEW S \in SUBSET Members, Together(Members),
           NEW p \in S, Least(S, p), stride_pick_next(S, p)
    PROVE  lead' = Accounts!Entered(S, p, Pass(priority[p]))
  <1>1. PICK b \in Word : Within(Members, b)
    BY DEF Together
  <1>2. /\ Members' = S
        /\ stride'[p] = Wrap(stride[p] + Pass(priority[p]))
        /\ Pass(priority[p]) \in 0 .. HALF - 1
        /\ \A q \in S : q # p => stride'[q] = stride[q]
        /\ stride' \in [Proc -> Word]
    BY PickFacts
  <1>3. stride[p] \in Word /\ S \subseteq Proc
    BY MemberFacts
  <1>4. Together(S)
    BY PartIsTogether
  <1>5. Together(Members)'
    BY <1>4, PickKeepsTogether
  <1>6. ASSUME NEW q \in S
        PROVE  /\ Off(stride'[q], stride[p]) < HALF
               /\ Off(stride'[q], stride[p])
                    = Off(stride[q], b) - Off(stride[p], b) + IF q = p THEN Pass(priority[p]) ELSE 0
               /\ Off(stride[q], b) \in Word /\ stride'[q] \in Word
    <2>1. /\ stride[q] \in Word /\ Off(stride[q], b) < HALF
          /\ Off(stride[q], b) \in Word /\ Off(stride[p], b) \in Word
      BY <1>1, <1>3, MemberFacts, OffIsWord DEF Within, Off
    <2>2. Within(S, b)
      BY <1>1 DEF Within
    <2>3. Off(stride[p], b) <= Off(stride[q], b)
      BY <2>2, LeastIsBehind
    <2>4. CASE q = p
      BY <1>2, <1>3, <2>1, <2>4, Advance, StrideAssumption DEF Word
    <2>5. CASE q # p
      <3>1. Off(stride[q], stride[p]) = Off(stride[q], b) - Off(stride[p], b)
        BY <1>3, <2>1, <2>3, Rebase
      <3>. QED
        BY <1>2, <1>3, <2>1, <2>5, <3>1, StrideAssumption DEF Word
    <2>. QED
      BY <2>4, <2>5
  <1>7. ASSUME NEW x \in S, NEW y \in S
        PROVE  lead'[x][y] = lead[x][y] + (IF x = p THEN Pass(priority[p]) ELSE 0)
                                        - (IF y = p THEN Pass(priority[p]) ELSE 0)
    <2>1. lead[x][y] = Off(stride[x], b) - Off(stride[y], b)
      BY <1>1, LeadOf
    <2>2. lead'[x][y] = Signed(Wrap(stride'[x] - stride'[y]))
      BY <1>2, <1>3, <1>5 DEF lead
    <2>3. Signed(Wrap(stride'[x] - stride'[y])) = Off(stride'[x], stride[p]) - Off(stride'[y], stride[p])
      BY <1>3, <1>6, DifferenceIsSound
    <2>4. Off(stride[p], b) \in Int /\ Off(stride[x], b) \in Int /\ Off(stride[y], b) \in Int
      BY <1>6 DEF Word
    <2>. DEFINE cost == Pass(priority[p])
    <2>5. cost \in Int
      BY <1>2
    <2>6. /\ Off(stride'[x], stride[p]) = Off(stride[x], b) - Off(stride[p], b) + IF x = p THEN cost ELSE 0
          /\ Off(stride'[y], stride[p]) = Off(stride[y], b) - Off(stride[p], b) + IF y = p THEN cost ELSE 0
      BY <1>6
    <2>. HIDE DEF cost
    <2>7. Off(stride'[x], stride[p]) - Off(stride'[y], stride[p])
            = Off(stride[x], b) - Off(stride[y], b) + (IF x = p THEN cost ELSE 0) - (IF y = p THEN cost ELSE 0)
      BY <2>4, <2>5, <2>6
    <2>. QED
      BY <2>1, <2>2, <2>3, <2>7 DEF cost
  <1>8. lead' = [x \in Proc |-> [y \in Proc |-> IF {x, y} \subseteq S THEN lead'[x][y] ELSE 0]]
    BY <1>2, <1>5 DEF lead
  <1>. QED
    BY <1>3, <1>7, <1>8 DEF Accounts!Entered

-----------------------------------------------------------------------------
(* Every step is one of Shares.                                            *)
LEMMA PickIsRun ==
    ASSUME TypeOK, TypeOK', NEW S \in SUBSET Members, NEW p \in S,
           Together(S) => Least(S, p), stride_pick_next(S, p)
    PROVE  Accounts!Run(S, p)
  <1>1. /\ pool' = S \ {p} /\ current' = p
        /\ priority' = [priority EXCEPT ![p] = IF @ = 0 THEN 1 ELSE @]
    BY DEF stride_pick_next
  <1>2. Members' = S
    BY PickFacts
  <1>3. CASE Together(Members)
    <2>1. Least(S, p) /\ Together(S)
      BY <1>3, PartIsTogether
    <2>2. Together(Members)'
      BY <2>1, PickKeepsTogether
    <2>3. lead' = Accounts!Entered(S, p, Pass(priority[p]))
      BY <1>3, <2>1, PickIsEntered
    <2>4. ASSUME NEW q \in S PROVE lead[p][q] <= 0
      <3>1. PICK b \in Word : Within(Members, b)
        BY <1>3 DEF Together
      <3>2. Within(S, b)
        BY <3>1 DEF Within
      <3>3. Off(stride[p], b) <= Off(stride[q], b)
        BY <2>1, <3>2, LeastIsBehind
      <3>4. lead[p][q] = Off(stride[p], b) - Off(stride[q], b)
        BY <3>1, LeadOf
      <3>5. Off(stride[p], b) \in Int /\ Off(stride[q], b) \in Int
        <4>1. stride[p] \in Word /\ stride[q] \in Word
          BY MemberFacts
        <4>2. Off(stride[p], b) \in Word /\ Off(stride[q], b) \in Word
          BY <4>1, OffIsWord
        <4>. QED
          BY <4>2, StrideAssumption DEF Word
      <3>. QED
        BY <3>3, <3>4, <3>5
    <2>. QED
      BY <1>1, <1>3, <2>2, <2>3, <2>4 DEF Accounts!Run
  <1>4. CASE ~Together(Members) /\ Together(Members)'
    <2>1. Accounts!Books(lead', S)
      BY <1>2, <1>4, LeadsAreBooksNext DEF Accounts!Books
    <2>. QED
      BY <1>1, <1>4, <2>1 DEF Accounts!Run
  <1>5. CASE ~Together(Members) /\ ~Together(Members)'
    <2>1. lead' = Accounts!Nothing
      BY <1>5, LeadOfNobodyNext DEF Accounts!Nothing
    <2>. QED
      BY <1>1, <1>5, <2>1 DEF Accounts!Run
  <1>. QED
    BY <1>3, <1>4, <1>5

LEMMA IdleIsRest ==
    ASSUME run_idle PROVE Accounts!Rest({})
  <1>1. Members' = {} /\ pool' = {} /\ current' = idleproc /\ UNCHANGED priority
    BY DEF run_idle, Members, Runnable
  <1>2. 0 \in Word
    BY StrideAssumption DEF Word
  <1>3. Together(Members)'
    BY <1>1, <1>2 DEF Together, Within
  <1>4. lead' = Accounts!Nothing
    BY <1>1, LeadOfNobodyNext DEF Accounts!Nothing
  <1>. QED
    BY <1>1, <1>3, <1>4 DEF Accounts!Rest

LEMMA ScheduleIsSchedule ==
    ASSUME TypeOK, TypeOK', NEW S \in SUBSET Members, schedule(S) PROVE Accounts!Schedule(S)
  BY PickIsRun, IdleIsRest DEF schedule, Accounts!Schedule

LEMMA JoinIsJoin ==
    ASSUME TypeOK, NEW p \in Proc, wakeup_proc(p) \/ do_fork(p)
    PROVE  Accounts!Join(p)
  <1>1. /\ p \notin Members /\ pool' = pool \cup {p} /\ current' = current
        /\ Members' = Members \cup {p}
        /\ \A q \in Members : stride'[q] = stride[q]
        /\ TypeOK'
    BY JoinFacts
  <1>2. Members = pool \cup ({current} \ {idleproc}) /\ Members \subseteq Proc
    BY MemberFacts DEF Members, Runnable
  <1>3. Accounts!Members = Members
    BY <1>2 DEF Accounts!Members
  <1>4. CASE Together(Members)'
    <2>1. Together(Members)
      BY <1>1, <1>4 DEF Together, Within
    <2>2. Accounts!Books(lead', Members \cup {p})
      BY <1>1, <1>4, LeadsAreBooksNext DEF Accounts!Books
    <2>3. \A x, y \in Members : lead'[x][y] = lead[x][y]
      BY <1>1, <1>2, <1>4, <2>1 DEF lead
    <2>. QED
      BY <1>1, <1>3, <1>4, <2>1, <2>2, <2>3 DEF Accounts!Join
  <1>5. CASE ~Together(Members)'
    <2>1. lead' = Accounts!Nothing
      BY <1>5, LeadOfNobodyNext DEF Accounts!Nothing
    <2>2. Members # {}
      <3>1. SUFFICES ASSUME Members = {} PROVE FALSE
        OBVIOUS
      <3>2. Members' = {p} /\ stride'[p] \in Word
        BY <1>1, <3>1 DEF TypeOK
      <3>3. Wrap(stride'[p] - stride'[p]) < HALF
        BY <3>2, StrideAssumption DEF Wrap, Word
      <3>4. Together(Members)'
        BY <3>2, <3>3 DEF Together, Within
      <3>. QED
        BY <1>5, <3>4
    <2>. QED
      BY <1>1, <1>3, <1>5, <2>1, <2>2 DEF Accounts!Join
  <1>. QED
    BY <1>4, <1>5

LEMMA StepImplementsShares ==
    ASSUME TypeOK, TypeOK', [Next]_vars PROVE [Accounts!Next]_(Accounts!vars)
  <1>1. Accounts!Members = Members
    BY DEF Accounts!Members, Members, Runnable
  <1>2. CASE do_yield
    BY <1>1, <1>2, ScheduleIsSchedule DEF do_yield, Accounts!Next, Accounts!Turn
  <1>3. CASE do_wait
    BY <1>3, PoolIsPart, ScheduleIsSchedule DEF do_wait, Accounts!Next, Accounts!Sleep
  <1>4. CASE do_exit
    BY <1>4, PoolIsPart, ScheduleIsSchedule DEF do_exit, Accounts!Next, Accounts!Exit
  <1>5. ASSUME NEW p \in Proc, wakeup_proc(p) PROVE Accounts!Wake(p)
    BY <1>5, JoinIsJoin DEF wakeup_proc, Accounts!Wake
  <1>6. ASSUME NEW p \in Proc, do_fork(p) PROVE Accounts!Fork(p)
    BY <1>6, JoinIsJoin DEF do_fork, Accounts!Fork
  <1>7. ASSUME UNCHANGED <<pool, current, stride>> PROVE UNCHANGED <<Together(Members), lead>>
    <2>1. Members' = Members /\ stride' = stride
      BY <1>7 DEF Members, Runnable
    <2>2. Together(Members)' <=> Together(Members)
      BY <2>1 DEF Together, Within
    <2>3. lead' = lead
      BY <2>1, <2>2 DEF lead
    <2>4. Together(Members)' = Together(Members)
      BY <2>2 DEF Together
    <2>. QED
      BY <2>3, <2>4
  <1>8. ASSUME NEW n \in Priority, lab6_set_priority(n) PROVE Accounts!SetPriority
    BY <1>7, <1>8 DEF lab6_set_priority, Accounts!SetPriority
  <1>9. CASE UNCHANGED vars
    BY <1>7, <1>9 DEF vars, Accounts!vars
  <1>. QED
    BY <1>2, <1>3, <1>4, <1>5, <1>6, <1>8, <1>9 DEF Next, Accounts!Next

LEMMA InitImplementsShares == Init => Accounts!Init
  <1>. SUFFICES ASSUME Init PROVE Accounts!Init
    OBVIOUS
  <1>1. PICK p \in Proc : pool = {p}
    BY DEF Init
  <1>2. Members = {p} /\ stride[p] = 0
    BY <1>1 DEF Init, Members, Runnable
  <1>3. 0 \in Word /\ Wrap(0 - 0) = 0 /\ Signed(0) = 0 /\ 0 < HALF
    BY StrideAssumption DEF Word, Wrap, Signed
  <1>4. Together(Members)
    BY <1>2, <1>3 DEF Together, Within
  <1>5. lead = Accounts!Nothing
    BY <1>1, <1>2, <1>3 DEF lead, Accounts!Nothing
  <1>. QED
    BY <1>1, <1>4, <1>5 DEF Init, Accounts!Init

(* With strides that overflow and are compared by the sign of a difference, *)
(* the scheduler gives the CPU to the process that is least ahead, as long  *)
(* as no joiner has parted the strides, and again once they have come       *)
(* together.                                                               *)
THEOREM ImplementsShares == Spec => SharesSpec
  <1>1. TypeOK /\ TypeOK' /\ [Next]_vars => [Accounts!Next]_(Accounts!vars)
    BY StepImplementsShares
  <1>. QED
    BY <1>1, InitImplementsShares, TypesCorrect, PTL DEF Spec, SharesSpec, Accounts!Spec

=============================================================================
