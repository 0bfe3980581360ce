------------------------------ MODULE Clock_proofs -----------------------------
(***************************************************************************)
(* The clock and those who wait for it, for any number of processes, every *)
(* size of the buffer, every length of a read and of a sleep.              *)
(*                                                                         *)
(* The keyboard device: no reader waits for a character that is there, and *)
(* the ring buffer is a line of characters.  The timer list: no timer      *)
(* outlives its frame, and the sums of the delays are alarms that go off   *)
(* when they should.                                                       *)
(***************************************************************************)
EXTENDS Clock, TimerList_proofs

-----------------------------------------------------------------------------
(* Positions on a circle of 2 * BUFSIZE.  Ahead is how many characters lie  *)
(* between two of them.                                                    *)
Ahead(w, r) == S!Wrap(w + 2 * BUFSIZE - r)

LEMMA AheadIsPosition ==
    ASSUME NEW r \in S!Position, NEW w \in S!Position
    PROVE  Ahead(w, r) \in S!Position
  BY ClockAssumption DEF Ahead, S!Wrap, S!Position

(* n characters are read. *)
LEMMA AheadAfterRead ==
    ASSUME NEW r \in S!Position, NEW w \in S!Position, NEW n \in 0 .. Ahead(w, r)
    PROVE  /\ S!Wrap(r + n) \in S!Position
           /\ Ahead(w, S!Wrap(r + n)) = Ahead(w, r) - n
  BY ClockAssumption DEF Ahead, S!Wrap, S!Position

(* One is typed. *)
LEMMA AheadAfterKey ==
    ASSUME NEW r \in S!Position, NEW w \in S!Position, Ahead(w, r) < BUFSIZE
    PROVE  /\ S!Wrap(w + 1) \in S!Position
           /\ Ahead(S!Wrap(w + 1), r) = Ahead(w, r) + 1
  BY ClockAssumption DEF Ahead, S!Wrap, S!Position

(* Where the i-th unread character is, seen from r and from n characters    *)
(* further on.                                                             *)
LEMMA PlaceIsIndex ==
    ASSUME NEW r \in S!Position PROVE S!Place(r) \in 0 .. BUFSIZE - 1
  BY ClockAssumption DEF S!Place, S!Position

LEMMA PlaceShifts ==
    ASSUME NEW r \in S!Position, NEW n \in 0 .. BUFSIZE, NEW i \in 0 .. BUFSIZE - 1, n + i <= BUFSIZE
    PROVE  S!Wrap(S!Wrap(r + n) + i) = S!Wrap(r + n + i) /\ S!Wrap(r + i) \in S!Position
  BY ClockAssumption DEF S!Wrap, S!Position

(* The place of the next character is that of no unread one, or, when the   *)
(* buffer is full, that of the oldest and of no other.                     *)
LEMMA FreePlace ==
    ASSUME NEW r \in S!Position, NEW w \in S!Position, Ahead(w, r) < BUFSIZE,
           NEW i \in 0 .. Ahead(w, r)
    PROVE  S!Place(S!Wrap(r + i)) = S!Place(w) <=> i = Ahead(w, r)
  BY ClockAssumption DEF Ahead, S!Wrap, S!Position, S!Place

LEMMA OldestPlace ==
    ASSUME NEW r \in S!Position, NEW w \in S!Position, Ahead(w, r) = BUFSIZE,
           NEW i \in 0 .. BUFSIZE - 1
    PROVE  S!Place(S!Wrap(r + i)) = S!Place(w) <=> i = 0
  BY ClockAssumption DEF Ahead, S!Wrap, S!Position, S!Place

-----------------------------------------------------------------------------
(* The wait queue. *)
LEMMA QueueAppend ==
    ASSUME NEW s \in Seq(Proc), NEW p \in Proc, S!IsInjective(s), p \notin S!ToSet(s)
    PROVE  /\ Append(s, p) \in Seq(Proc) /\ S!IsInjective(Append(s, p))
           /\ S!ToSet(Append(s, p)) = S!ToSet(s) \cup {p}
  <1> DEFINE a == Append(s, p)
  <1>1. a \in Seq(Proc) /\ Len(a) = Len(s) + 1 /\ Len(s) \in Nat
    OBVIOUS
  <1>2. a[Len(s) + 1] = p /\ \A i \in 1 .. Len(s) : a[i] = s[i]
    OBVIOUS
  <1>3. DOMAIN a = 1 .. Len(s) + 1 /\ DOMAIN s = 1 .. Len(s)
    BY <1>1
  <1>4. S!ToSet(a) = S!ToSet(s) \cup {p}
    BY <1>1, <1>2, <1>3 DEF S!ToSet
  <1>5. S!IsInjective(a)
    BY <1>1, <1>2, <1>3 DEF S!IsInjective, S!ToSet
  <1> QED
    BY <1>1, <1>4, <1>5

LEMMA QueueWithout ==
    ASSUME NEW s \in Seq(Proc), NEW p \in Proc, S!IsInjective(s)
    PROVE  /\ S!Without(s, p) \in Seq(Proc) /\ S!IsInjective(S!Without(s, p))
           /\ S!ToSet(S!Without(s, p)) = S!ToSet(s) \ {p}
  <1>1. CASE p \notin S!ToSet(s)
    BY <1>1 DEF S!Without
  <1>2. CASE p \in S!ToSet(s)
    <2> DEFINE n == CHOOSE i \in 1 .. Len(s) : s[i] = p
               low == SubSeq(s, 1, n - 1)
               high == SubSeq(s, n + 1, Len(s))
               t == low \o high
    <2>1. Len(s) \in Nat /\ DOMAIN s = 1 .. Len(s)
      OBVIOUS
    <2>2. n \in 1 .. Len(s) /\ s[n] = p
      BY <1>2, <2>1 DEF S!ToSet
    <2>3. S!Without(s, p) = t
      BY <1>2 DEF S!Without, S!RemoveAt
    <2> HIDE DEF n
    <2>4. /\ low \in Seq(Proc) /\ Len(low) = n - 1
          /\ \A i \in 1 .. n - 1 : low[i] = s[i]
      BY <2>1, <2>2
    <2>5. /\ high \in Seq(Proc) /\ Len(high) = Len(s) - n
          /\ \A i \in 1 .. Len(s) - n : high[i] = s[n + i]
      <3>1. n + 1 \in 1 .. Len(s) + 1
        BY <2>1, <2>2
      <3>2. high \in Seq(Proc) /\ Len(high) = Len(s) - (n + 1) + 1
        BY <2>1, <3>1, SubSeqProperties
      <3>3. \A i \in 1 .. Len(s) - (n + 1) + 1 : high[i] = s[n + 1 + i - 1]
        BY <2>1, <3>1, SubSeqProperties
      <3>4. Len(s) - (n + 1) + 1 = Len(s) - n
        BY <2>1, <2>2
      <3>5. \A i \in 1 .. Len(s) - n : n + 1 + i - 1 = n + i
        BY <2>1, <2>2
      <3> QED
        BY <3>2, <3>3, <3>4, <3>5
    <2> HIDE DEF low, high
    <2>6. t \in Seq(Proc) /\ Len(t) = Len(s) - 1
      <3>1. t \in Seq(Proc) /\ Len(t) = Len(low) + Len(high)
        BY <2>4, <2>5, ConcatProperties
      <3> QED
        BY <2>1, <2>2, <2>4, <2>5, <3>1
    <2>7. \A i \in 1 .. Len(s) - 1 : t[i] = IF i < n THEN s[i] ELSE s[i + 1]
      <3> TAKE i \in 1 .. Len(s) - 1
      <3>1. CASE i < n
        BY <2>1, <2>2, <2>4, <2>5, <3>1
      <3>2. CASE ~(i < n)
        <4>1. t[i] = high[i - (n - 1)] /\ i - (n - 1) \in 1 .. Len(s) - n
          BY <2>1, <2>2, <2>4, <2>5, <3>2
        <4>2. n + (i - (n - 1)) = i + 1
          BY <2>2
        <4> QED
          BY <2>5, <3>2, <4>1, <4>2
      <3> QED
        BY <3>1, <3>2
    <2> HIDE DEF t
    <2>8. DOMAIN t = 1 .. Len(s) - 1
      BY <2>6
    <2>9. S!IsInjective(t)
      <3> DEFINE from(i) == IF i < n THEN i ELSE i + 1
      <3>1. ASSUME NEW i \in 1 .. Len(s) - 1 PROVE from(i) \in 1 .. Len(s) /\ t[i] = s[from(i)]
        BY <2>1, <2>2, <2>7
      <3>2. ASSUME NEW i \in 1 .. Len(s) - 1, NEW j \in 1 .. Len(s) - 1, from(i) = from(j) PROVE i = j
        BY <2>1, <2>2, <3>2
      <3>3. DOMAIN s = 1 .. Len(s)
        OBVIOUS
      <3> HIDE DEF from
      <3>4. ASSUME NEW i \in DOMAIN t, NEW j \in DOMAIN t, t[i] = t[j] PROVE i = j
        <4>1. from(i) = from(j)
          BY <2>8, <3>1, <3>3, <3>4 DEF S!IsInjective
        <4> QED
          BY <2>8, <3>2, <3>4, <4>1
      <3> QED
        BY <3>4 DEF S!IsInjective
    <2>10. S!ToSet(t) \subseteq S!ToSet(s) \ {p}
      BY <2>1, <2>2, <2>7, <2>8 DEF S!IsInjective, S!ToSet
    <2>11. ASSUME NEW x \in S!ToSet(s), x # p PROVE x \in S!ToSet(t)
      <3>1. PICK j \in 1 .. Len(s) : s[j] = x
        BY <2>1 DEF S!ToSet
      <3>2. j # n
        BY <2>2, <2>11, <3>1
      <3>3. \E i \in 1 .. Len(s) - 1 : t[i] = x
        <4>1. CASE j < n
          <5>1. j \in 1 .. Len(s) - 1 /\ t[j] = x
            BY <2>1, <2>2, <2>7, <3>1, <4>1
          <5> QED
            BY <5>1
        <4>2. CASE n < j
          <5>1. j - 1 \in 1 .. Len(s) - 1 /\ ~(j - 1 < n) /\ (j - 1) + 1 = j
            BY <2>1, <2>2, <3>1, <4>2
          <5>2. t[j - 1] = x
            BY <2>7, <3>1, <5>1
          <5> QED
            BY <5>1, <5>2
        <4> QED
          BY <2>2, <3>1, <3>2, <4>1, <4>2
      <3> QED
        BY <2>8, <3>3 DEF S!ToSet
    <2> QED
      BY <2>3, <2>6, <2>9, <2>10, <2>11
  <1> QED
    BY <1>1, <1>2

-----------------------------------------------------------------------------
(* The line of characters in the buffer b between the positions r and w.    *)
Key == Char \cup {""}
LineOf(b, r, w) == [i \in 1 .. Ahead(w, r) |-> S!At(b, r + i - 1)]

LEMMA LineIsSeq ==
    ASSUME NEW r \in S!Position, NEW w \in S!Position, Ahead(w, r) <= BUFSIZE,
           NEW b \in [0 .. BUFSIZE - 1 -> Key]
    PROVE  LineOf(b, r, w) \in Seq(Key) /\ Len(LineOf(b, r, w)) = Ahead(w, r)
  <1>1. Ahead(w, r) \in Nat
    BY AheadIsPosition DEF S!Position
  <1>2. ASSUME NEW i \in 1 .. Ahead(w, r) PROVE S!At(b, r + i - 1) \in Key
    <2>1. S!Wrap(r + (i - 1)) \in S!Position /\ r + (i - 1) = r + i - 1
      BY <1>1, ClockAssumption DEF S!Wrap, S!Position
    <2>2. S!Place(S!Wrap(r + i - 1)) \in 0 .. BUFSIZE - 1
      BY <2>1, PlaceIsIndex
    <2> QED
      BY <2>2 DEF S!At
  <1> DEFINE n == Ahead(w, r)
  <1>3. LineOf(b, r, w) \in [1 .. n -> Key]
    BY <1>2 DEF LineOf
  <1> HIDE DEF n
  <1> QED
    BY <1>1, <1>3 DEF n

LEMMA LineAfterRead ==
    ASSUME NEW r \in S!Position, NEW w \in S!Position, Ahead(w, r) <= BUFSIZE,
           NEW b \in [0 .. BUFSIZE - 1 -> Key], NEW n \in 0 .. Ahead(w, r)
    PROVE  LineOf(b, S!Wrap(r + n), w) = SubSeq(LineOf(b, r, w), n + 1, Ahead(w, r))
  <1> DEFINE a == Ahead(w, r)
             line == LineOf(b, r, w)
             rest == LineOf(b, S!Wrap(r + n), w)
  <1>1. a \in Nat /\ n \in Nat /\ n <= a /\ a <= BUFSIZE /\ r \in Int
    BY AheadIsPosition, ClockAssumption DEF S!Position
  <1>2. S!Wrap(r + n) \in S!Position /\ Ahead(w, S!Wrap(r + n)) = a - n
    BY AheadAfterRead
  <1>3. ASSUME NEW i \in 1 .. a - n
        PROVE  S!At(b, S!Wrap(r + n) + i - 1) = S!At(b, r + (i + n) - 1)
    <2>1. n \in 0 .. BUFSIZE /\ i - 1 \in 0 .. BUFSIZE - 1 /\ n + (i - 1) <= BUFSIZE
      BY <1>1, ClockAssumption
    <2>2. S!Wrap(S!Wrap(r + n) + (i - 1)) = S!Wrap(r + n + (i - 1))
      BY <2>1, PlaceShifts
    <2>3. S!Wrap(r + n) + (i - 1) = S!Wrap(r + n) + i - 1 /\ r + n + (i - 1) = r + (i + n) - 1
      BY <1>1, <1>2 DEF S!Position
    <2> QED
      BY <2>2, <2>3 DEF S!At
  <1>4. line \in Seq(Key) /\ Len(line) = a
    BY <1>1, LineIsSeq
  <1>5. rest = [i \in 1 .. a - n |-> S!At(b, r + (i + n) - 1)]
    BY <1>2, <1>3 DEF LineOf
  <1>6. SubSeq(line, n + 1, a) = [i \in 1 .. (a - (n + 1) + 1) |-> line[i + (n + 1) - 1]]
    BY <1>1, <1>4, SMT
  <1>7. a - (n + 1) + 1 = a - n
    BY <1>1
  <1>8. ASSUME NEW i \in 1 .. a - n PROVE line[i + (n + 1) - 1] = S!At(b, r + (i + n) - 1)
    <2>1. i + (n + 1) - 1 = i + n /\ i + n \in 1 .. a
      BY <1>1
    <2> QED
      BY <2>1 DEF LineOf
  <1> HIDE DEF a, line, rest
  <1>9. rest = SubSeq(line, n + 1, a)
    BY <1>5, <1>6, <1>7, <1>8
  <1> QED
    BY <1>9 DEF a, line, rest

LEMMA LineAfterKey ==
    ASSUME NEW r \in S!Position, NEW w \in S!Position, Ahead(w, r) < BUFSIZE,
           NEW b \in [0 .. BUFSIZE - 1 -> Key], NEW c \in Char
    PROVE  LineOf([b EXCEPT ![S!Place(w)] = c], r, S!Wrap(w + 1)) = Append(LineOf(b, r, w), c)
  <1> DEFINE a == Ahead(w, r)
             d == [b EXCEPT ![S!Place(w)] = c]
             line == LineOf(b, r, w)
             longer == LineOf(d, r, S!Wrap(w + 1))
  <1>1. a \in Nat /\ a < BUFSIZE /\ r \in Int /\ BUFSIZE \in Nat
    BY AheadIsPosition, ClockAssumption DEF S!Position
  <1>2. S!Wrap(w + 1) \in S!Position /\ Ahead(S!Wrap(w + 1), r) = a + 1
    BY AheadAfterKey
  <1>3. line \in Seq(Key) /\ Len(line) = a
    BY <1>1, LineIsSeq
  <1>4. c \in Key
    BY DEF Key
  <1>5. d \in [0 .. BUFSIZE - 1 -> Key]
    BY <1>4
  <1>6. longer \in Seq(Key) /\ Len(longer) = a + 1
    <2>1. Ahead(S!Wrap(w + 1), r) <= BUFSIZE
      BY <1>1, <1>2
    <2> HIDE DEF d
    <2> QED
      BY <1>2, <1>5, <2>1, LineIsSeq
  <1>7. Append(line, c) \in Seq(Key) /\ Len(Append(line, c)) = a + 1
    BY <1>3, <1>4
  <1>8. ASSUME NEW i \in 1 .. a + 1 PROVE longer[i] = Append(line, c)[i]
    <2>1. longer[i] = S!At(d, r + i - 1)
      BY <1>2 DEF LineOf
    <2>2. r + (i - 1) = r + i - 1 /\ i - 1 \in 0 .. a /\ i - 1 \in 0 .. BUFSIZE - 1
      BY <1>1
    <2>3. S!Wrap(r + i - 1) \in S!Position
      BY <1>1, <2>2, PlaceShifts, ClockAssumption DEF S!Wrap, S!Position
    <2>4. S!Place(S!Wrap(r + i - 1)) \in 0 .. BUFSIZE - 1
      BY <2>3, PlaceIsIndex
    <2>5. S!Place(S!Wrap(r + i - 1)) = S!Place(w) <=> i - 1 = a
      BY <1>1, <2>2, FreePlace
    <2>6. CASE i = a + 1
      <3>1. longer[i] = c
        BY <1>1, <2>1, <2>4, <2>5, <2>6 DEF S!At
      <3>2. Append(line, c)[a + 1] = c
        BY <1>3
      <3> QED
        BY <2>6, <3>1, <3>2
    <2>7. CASE i # a + 1
      <3>1. i \in 1 .. a /\ i - 1 # a
        BY <1>1, <2>7
      <3>2. longer[i] = S!At(b, r + i - 1)
        BY <2>1, <2>4, <2>5, <3>1 DEF S!At
      <3>3. line[i] = S!At(b, r + i - 1)
        BY <3>1 DEF LineOf
      <3>4. Append(line, c)[i] = line[i]
        BY <1>3, <3>1
      <3> QED
        BY <3>2, <3>3, <3>4
    <2> QED
      BY <2>6, <2>7
  <1> HIDE DEF a, d, line, longer
  <1>9. longer = Append(line, c)
    BY <1>1, <1>6, <1>7, <1>8, SeqEqual
  <1> QED
    BY <1>9 DEF d, line, longer

FirstReplaced(s, c) == [s EXCEPT ![1] = c]

LEMMA LineWhenFull ==
    ASSUME NEW r \in S!Position, NEW w \in S!Position, Ahead(w, r) = BUFSIZE,
           NEW b \in [0 .. BUFSIZE - 1 -> Key], NEW c \in Char
    PROVE  LineOf([b EXCEPT ![S!Place(w)] = c], r, w) = FirstReplaced(LineOf(b, r, w), c)
  <1> DEFINE d == [b EXCEPT ![S!Place(w)] = c]
  <1>1. BUFSIZE \in Nat \ {0} /\ r \in Int
    BY ClockAssumption DEF S!Position
  <1>2. ASSUME NEW i \in 1 .. BUFSIZE
        PROVE  S!At(d, r + i - 1) = IF i = 1 THEN c ELSE S!At(b, r + i - 1)
    <2>1. r + (i - 1) = r + i - 1 /\ i - 1 \in 0 .. BUFSIZE - 1
      BY <1>1
    <2>2. S!Wrap(r + i - 1) \in S!Position
      BY <1>1, <2>1 DEF S!Wrap, S!Position
    <2>3. S!Place(S!Wrap(r + i - 1)) \in 0 .. BUFSIZE - 1
      BY <2>2, PlaceIsIndex
    <2>4. S!Place(S!Wrap(r + i - 1)) = S!Place(w) <=> i - 1 = 0
      BY <2>1, OldestPlace
    <2>5. i - 1 = 0 <=> i = 1
      BY <1>1
    <2> QED
      BY <2>3, <2>4, <2>5 DEF S!At
  <1> QED
    BY <1>1, <1>2 DEF LineOf, FirstReplaced

-----------------------------------------------------------------------------
(* The inductive invariant: the unread characters fit into the buffer,      *)
(* whoever wants something more has a place for it, and WaitersAreHungry.   *)
Frames == [buf : Seq(Key), left : 0 .. MaxLen, woken : {"", "key", "kill"}]
Fits(f) == Len(f.buf) + f.left <= MaxLen /\ (f.left = 0 => f = S!Outside)

BufferOK ==
    /\ p_rpos \in S!Position /\ p_wpos \in S!Position
    /\ S!Unread <= BUFSIZE
    /\ buffer \in [0 .. BUFSIZE - 1 -> Key]

ReadersOK ==
    /\ wait_queue \in Seq(Proc)
    /\ reader \in [Proc -> Frames]
    /\ \A p \in Proc : Fits(reader[p])

IInv == BufferOK /\ ReadersOK /\ WaitersAreHungry

LEMMA UnreadIsAhead == BufferOK => S!Unread \in 0 .. BUFSIZE /\ S!Unread = Ahead(p_wpos, p_rpos)
  <1> SUFFICES ASSUME BufferOK PROVE S!Unread \in 0 .. BUFSIZE /\ S!Unread = Ahead(p_wpos, p_rpos)
    OBVIOUS
  <1>1. S!Unread = Ahead(p_wpos, p_rpos)
    BY DEF S!Unread, Ahead
  <1>2. S!Unread \in S!Position
    BY <1>1, AheadIsPosition DEF BufferOK
  <1> QED
    BY <1>1, <1>2, ClockAssumption DEF BufferOK, S!Position

LEMMA OutsideFits == S!Outside \in Frames /\ Fits(S!Outside) /\ S!Outside.left = 0 /\ S!Outside.buf = << >>
  <1>1. S!Outside = [buf |-> << >>, left |-> 0, woken |-> ""]
    BY DEF S!Outside, S!Frame
  <1>2. << >> \in Seq(Key) /\ Len(<< >>) = 0 /\ MaxLen \in Nat
    BY ClockAssumption
  <1>3. 0 \in 0 .. MaxLen
    BY <1>2
  <1>4. [buf |-> << >>, left |-> 0, woken |-> ""] \in [buf : Seq(Key), left : 0 .. MaxLen, woken : {"", "key", "kill"}]
    BY <1>2, <1>3
  <1>5. S!Outside.left = 0 /\ S!Outside.buf = << >>
    BY <1>1
  <1>6. Len(S!Outside.buf) + S!Outside.left <= MaxLen
    BY <1>2, <1>5
  <1> QED
    BY <1>1, <1>4, <1>5, <1>6 DEF Frames, Fits

(* The loop of dev_stdin_read, from the frame f of p, which is not on queue. *)
Loops(p, f, queue) ==
    /\ f \in Frames /\ Fits(f) /\ f.left > 0
    /\ f.buf = reader[p].buf
    /\ queue \in Seq(Proc) /\ S!IsInjective(queue)
    /\ S!ToSet(queue) = S!ToSet(wait_queue) \ {p}
    /\ S!Take(p, f, queue)
    /\ UNCHANGED <<buffer, p_wpos>>

LEMMA TakenIsLine ==
    ASSUME BufferOK
    PROVE  /\ S!Line = LineOf(buffer, p_rpos, p_wpos)
           /\ S!Line \in Seq(Key) /\ Len(S!Line) = S!Unread
  <1>1. S!Line = LineOf(buffer, p_rpos, p_wpos)
    BY UnreadIsAhead DEF S!Line, LineOf
  <1> QED
    BY <1>1, UnreadIsAhead, LineIsSeq DEF BufferOK

(* It returns, and the rest of the line is left, or it has taken everything  *)
(* and waits.                                                              *)
LEMMA LoopEnds ==
    ASSUME IInv, NEW p \in Proc, NEW f, NEW queue, Loops(p, f, queue)
    PROVE  \/ /\ f.left <= S!Unread
              /\ p_rpos' = S!Wrap(p_rpos + f.left)
              /\ reader' = [reader EXCEPT ![p] = S!Outside]
              /\ wait_queue' = queue
           \/ /\ S!Unread < f.left
              /\ p_rpos' = S!Wrap(p_rpos + S!Unread)
              /\ reader' = [reader EXCEPT ![p] = S!Frame(f.buf \o S!Line, f.left - S!Unread)]
              /\ wait_queue' = Append(queue, p)
  <1>0. f.left \in 0 .. MaxLen
    BY DEF Loops, Frames
  <1>1. S!Unread \in Nat /\ f.left \in Nat
    BY <1>0, UnreadIsAhead, ClockAssumption DEF IInv
  <1>2. CASE f.left <= S!Unread
    BY <1>1, <1>2 DEF Loops, S!Take, S!Forward
  <1>3. CASE ~(f.left <= S!Unread)
    BY <1>1, <1>3 DEF Loops, S!Take, S!Forward, S!Line
  <1> QED
    BY <1>2, <1>3

(* What the loop does to the invariant and to the line. *)
LEMMA FrameSplits ==
    ASSUME NEW f \in Frames
    PROVE  /\ f.buf \in Seq(Key) /\ f.left \in 0 .. MaxLen /\ f.woken \in {"", "key", "kill"}
           /\ f.left \in Nat /\ Len(f.buf) \in Nat
  <1>1. f.buf \in Seq(Key)
    BY DEF Frames
  <1>2. f.left \in 0 .. MaxLen
    BY DEF Frames
  <1>3. f.woken \in {"", "key", "kill"}
    BY DEF Frames
  <1>4. f.left \in Nat
    BY <1>2, ClockAssumption
  <1>5. Len(f.buf) \in Nat
    BY <1>1
  <1> QED
    BY <1>1, <1>2, <1>3, <1>4, <1>5

LEMMA FrameMakes ==
    ASSUME NEW b \in Seq(Key), NEW n \in 1 .. MaxLen, Len(b) + n <= MaxLen
    PROVE  /\ S!Frame(b, n) \in Frames /\ Fits(S!Frame(b, n))
           /\ S!Frame(b, n).buf = b /\ S!Frame(b, n).left = n
           /\ S!Frame(b, n).woken = ""
  <1> DEFINE f == S!Frame(b, n)
  <1>1. f = [buf |-> b, left |-> n, woken |-> ""]
    BY DEF S!Frame
  <1> HIDE DEF f
  <1>2. n \in 0 .. MaxLen /\ n # 0
    BY ClockAssumption
  <1>3. [buf |-> b, left |-> n, woken |-> ""] \in [buf : Seq(Key), left : 0 .. MaxLen, woken : {"", "key", "kill"}]
    BY <1>2
  <1>4. f.buf = b
    BY <1>1
  <1>5. f.left = n
    BY <1>1
  <1>6. f.woken = ""
    BY <1>1
  <1>7. f \in Frames /\ Fits(f)
    BY <1>1, <1>2, <1>3, <1>4, <1>5, <1>6 DEF Frames, Fits
  <1> QED
    BY <1>4, <1>5, <1>6, <1>7 DEF f

LEMMA LoopReturns ==
    ASSUME IInv, NEW p \in Proc, NEW f, NEW queue, Loops(p, f, queue),
           f.left <= S!Unread,
           p_rpos' = S!Wrap(p_rpos + f.left),
           reader' = [reader EXCEPT ![p] = S!Outside],
           wait_queue' = queue
    PROVE  IInv' /\ Typist!Return(p, f.left)
  <1> DEFINE n == f.left
  <1>1. f \in Frames /\ Fits(f) /\ n > 0 /\ n \in Nat /\ n \in 0 .. MaxLen /\ Len(f.buf) \in Nat
    BY FrameSplits DEF Loops
  <1>2. buffer' = buffer /\ p_wpos' = p_wpos
    BY DEF Loops
  <1>3. n \in 0 .. Ahead(p_wpos, p_rpos) /\ S!Unread = Ahead(p_wpos, p_rpos) /\ S!Unread \in Nat /\ S!Unread > 0
    BY <1>1, UnreadIsAhead DEF IInv
  <1>4. p_rpos' \in S!Position /\ S!Unread' = S!Unread - n
    <2>1. S!Unread' = Ahead(p_wpos', p_rpos')
      BY DEF S!Unread, Ahead
    <2> QED
      BY <1>2, <1>3, <2>1, AheadAfterRead DEF IInv, BufferOK
  <1>5. BufferOK'
    BY <1>1, <1>2, <1>3, <1>4, ClockAssumption DEF IInv, BufferOK
  <1>6. reader \in [Proc -> Frames]
    BY DEF IInv, ReadersOK
  <1>7. reader'[p] = S!Outside /\ \A q \in Proc \ {p} : reader'[q] = reader[q]
    BY <1>6
  <1>8. ReadersOK'
    <2>1. reader' \in [Proc -> Frames]
      BY <1>6, OutsideFits
    <2>2. \A q \in Proc : Fits(reader'[q])
      BY <1>7, OutsideFits DEF IInv, ReadersOK
    <2> QED
      BY <2>1, <2>2 DEF ReadersOK, Loops, Fits
  <1>9. WaitersAreHungry'
    <2>1. ASSUME NEW q \in Proc, reader'[q].left > 0, reader'[q].woken = "" PROVE FALSE
      <3>0. reader'[p].left = 0
        BY <1>7, OutsideFits
      <3>1. q # p
        <4>1. ~(0 > 0)
          OBVIOUS
        <4> QED
          BY <2>1, <3>0, <4>1, Zenon
      <3>2. reader[q].left > 0 /\ reader[q].woken = ""
        BY <1>7, <2>1, <3>1
      <3>3. S!Unread = 0
        BY <3>2 DEF IInv, WaitersAreHungry, S!WaitersAreHungry, S!Reading
      <3> QED
        BY <1>3, <3>3
    <2>2. ASSUME NEW q \in S!ToSet(queue) PROVE reader'[q].left > 0
      <3>1. q \in S!ToSet(wait_queue) /\ q # p
        BY DEF Loops
      <3>2. q \in Proc
        BY <3>1 DEF IInv, ReadersOK, S!ToSet
      <3> QED
        BY <1>7, <3>1, <3>2 DEF IInv, WaitersAreHungry, S!WaitersAreHungry, S!Reading
    <2>3. S!IsInjective(wait_queue)' /\ S!ToSet(wait_queue)' = S!ToSet(queue)
      BY DEF Loops, S!IsInjective, S!ToSet
    <2> QED
      BY <2>1, <2>2, <2>3 DEF WaitersAreHungry, S!WaitersAreHungry, S!Reading
  <1>10. Typist!Return(p, n)
    <2>1. Len(S!Line) = S!Unread /\ S!Line = LineOf(buffer, p_rpos, p_wpos)
      BY TakenIsLine DEF IInv
    <2>2. S!Line' = LineOf(buffer, p_rpos', p_wpos)
      <3>1. S!Line' = LineOf(buffer', p_rpos', p_wpos')
        BY DEF S!Line, LineOf, S!Unread, Ahead, S!At
      <3> QED
        BY <1>2, <3>1
    <2>3. S!Line' = SubSeq(S!Line, n + 1, Len(S!Line))
      BY <1>3, <2>1, <2>2, LineAfterRead DEF IInv, BufferOK
    <2>4. Len([q \in Proc |-> reader[q].buf][p]) + n <= MaxLen
      BY <1>1 DEF Loops, Fits
    <2>5. [q \in Proc |-> reader'[q].buf] = [[q \in Proc |-> reader[q].buf] EXCEPT ![p] = << >>]
      <3>1. reader'[p].buf = << >> /\ \A q \in Proc \ {p} : reader'[q].buf = reader[q].buf
        BY <1>7, OutsideFits
      <3> QED
        BY <3>1
    <2> QED
      BY <1>3, <2>1, <2>3, <2>4, <2>5 DEF Typist!Return
  <1> QED
    BY <1>5, <1>8, <1>9, <1>10 DEF IInv

LEMMA LoopWaits ==
    ASSUME IInv, NEW p \in Proc, NEW f, NEW queue, Loops(p, f, queue),
           S!Unread < f.left,
           p_rpos' = S!Wrap(p_rpos + S!Unread),
           reader' = [reader EXCEPT ![p] = S!Frame(f.buf \o S!Line, f.left - S!Unread)],
           wait_queue' = Append(queue, p)
    PROVE  IInv' /\ Typist!Collect(p)
  <1> DEFINE n == S!Unread
             buf == f.buf \o S!Line
             left == f.left - n
  <1>1. /\ f.buf \in Seq(Key) /\ f.left \in Nat /\ Len(f.buf) \in Nat
        /\ Len(f.buf) + f.left <= MaxLen /\ MaxLen \in Nat
    BY FrameSplits, ClockAssumption DEF Loops, Fits
  <1>2. buffer' = buffer /\ p_wpos' = p_wpos
    BY DEF Loops
  <1>3. n = Ahead(p_wpos, p_rpos) /\ n \in Nat /\ n \in 0 .. Ahead(p_wpos, p_rpos)
    BY UnreadIsAhead DEF IInv
  <1>4. p_rpos' \in S!Position /\ S!Unread' = 0
    <2>1. S!Unread' = Ahead(p_wpos', p_rpos')
      BY DEF S!Unread, Ahead
    <2>2. p_rpos' \in S!Position /\ Ahead(p_wpos, p_rpos') = n - n
      BY <1>3, AheadAfterRead DEF IInv, BufferOK
    <2> QED
      BY <1>2, <1>3, <2>1, <2>2
  <1>5. BufferOK'
    BY <1>2, <1>4, ClockAssumption DEF IInv, BufferOK
  <1>6. S!Line \in Seq(Key) /\ Len(S!Line) = n /\ S!Line = LineOf(buffer, p_rpos, p_wpos)
    BY TakenIsLine DEF IInv
  <1>7. buf \in Seq(Key) /\ Len(buf) = Len(f.buf) + n
    BY <1>1, <1>6, ConcatProperties
  <1>8. left \in 1 .. MaxLen /\ Len(buf) + left <= MaxLen
    <2>1. f.left > n
      BY <1>1, <1>3
    <2>2. Len(buf) + left = Len(f.buf) + f.left
      BY <1>1, <1>3, <1>7
    <2>3. left \in Nat /\ left >= 1 /\ left <= f.left
      BY <1>1, <1>3, <2>1
    <2> HIDE DEF left, buf
    <2> QED
      BY <1>1, <2>2, <2>3
  <1> DEFINE g == S!Frame(buf, left)
  <1>9. g \in Frames /\ Fits(g) /\ g.buf = buf /\ g.left = left
    BY <1>7, <1>8, FrameMakes
  <1>10. reader \in [Proc -> Frames]
    BY DEF IInv, ReadersOK
  <1>11. reader' = [reader EXCEPT ![p] = g]
    OBVIOUS
  <1> HIDE DEF g
  <1>12. reader'[p] = g /\ \A q \in Proc \ {p} : reader'[q] = reader[q]
    BY <1>10, <1>11
  <1>13. /\ wait_queue' \in Seq(Proc) /\ S!IsInjective(wait_queue)'
         /\ S!ToSet(wait_queue)' = (S!ToSet(wait_queue) \ {p}) \cup {p}
    <2>1. queue \in Seq(Proc) /\ S!IsInjective(queue) /\ S!ToSet(queue) = S!ToSet(wait_queue) \ {p}
      BY DEF Loops
    <2>2. /\ Append(queue, p) \in Seq(Proc) /\ S!IsInjective(Append(queue, p))
          /\ S!ToSet(Append(queue, p)) = S!ToSet(queue) \cup {p}
      BY <2>1, QueueAppend
    <2>3. S!IsInjective(wait_queue)' = S!IsInjective(wait_queue') /\ S!ToSet(wait_queue)' = S!ToSet(wait_queue')
      BY DEF S!IsInjective, S!ToSet
    <2> QED
      BY <2>1, <2>2, <2>3
  <1>14. ReadersOK'
    <2>1. reader' \in [Proc -> Frames]
      BY <1>9, <1>10, <1>11
    <2>2. \A q \in Proc : Fits(reader'[q])
      BY <1>9, <1>12 DEF IInv, ReadersOK
    <2> QED
      BY <1>13, <2>1, <2>2 DEF ReadersOK, Fits
  <1>15. WaitersAreHungry'
    <2>1. ASSUME NEW q \in Proc, reader'[q].left > 0, reader'[q].woken = ""
          PROVE  q \in S!ToSet(wait_queue)'
      <3>1. CASE q = p
        BY <1>13, <3>1
      <3>2. CASE q # p
        <4>1. reader[q].left > 0 /\ reader[q].woken = ""
          BY <1>12, <2>1, <3>2
        <4>2. q \in S!ToSet(wait_queue)
          BY <4>1 DEF IInv, WaitersAreHungry, S!WaitersAreHungry, S!Reading
        <4> QED
          BY <1>13, <3>2, <4>2
      <3> QED
        BY <3>1, <3>2
    <2>2. ASSUME NEW q \in S!ToSet(wait_queue)' PROVE reader'[q].left > 0
      <3>1. CASE q = p
        BY <1>8, <1>9, <1>12, <3>1
      <3>2. CASE q # p
        <4>1. q \in S!ToSet(wait_queue)
          BY <1>13, <3>2
        <4>2. q \in Proc
          BY <4>1 DEF IInv, ReadersOK, S!ToSet
        <4> QED
          BY <1>12, <3>2, <4>1, <4>2 DEF IInv, WaitersAreHungry, S!WaitersAreHungry, S!Reading
      <3> QED
        BY <3>1, <3>2
    <2> QED
      BY <1>4, <1>13, <2>1, <2>2 DEF WaitersAreHungry, S!WaitersAreHungry, S!Reading
  <1>16. Typist!Collect(p)
    <2>1. S!Line' = << >>
      <3>1. S!Line' = LineOf(buffer', p_rpos', p_wpos')
        BY DEF S!Line, LineOf, S!Unread, Ahead, S!At
      <3>2. Ahead(p_wpos', p_rpos') = 0
        BY <1>4 DEF S!Unread, Ahead
      <3> QED
        BY <3>1, <3>2 DEF LineOf
    <2> DEFINE got == [q \in Proc |-> reader[q].buf]
    <2>2. got[p] = f.buf
      BY DEF Loops
    <2>3. Len(got[p]) + Len(S!Line) < MaxLen
      BY <1>1, <1>3, <1>6, <2>2
    <2>4. got' = [got EXCEPT ![p] = buf]
      <3>1. reader'[p].buf = buf /\ \A q \in Proc \ {p} : reader'[q].buf = reader[q].buf
        BY <1>9, <1>12
      <3> QED
        BY <3>1
    <2>5. got' = [got EXCEPT ![p] = got[p] \o S!Line]
      BY <2>2, <2>4
    <2> QED
      BY <2>1, <2>3, <2>5 DEF Typist!Collect
  <1> QED
    BY <1>5, <1>14, <1>15, <1>16 DEF IInv

LEMMA LoopKeeps ==
    ASSUME IInv, NEW p \in Proc, NEW f, NEW queue, Loops(p, f, queue)
    PROVE  IInv' /\ Typist!Next
  <1>1. f.left \in 0 .. MaxLen
    BY FrameSplits DEF Loops
  <1>2. IInv' /\ (Typist!Return(p, f.left) \/ Typist!Collect(p))
    BY LoopEnds, LoopReturns, LoopWaits
  <1> QED
    BY <1>1, <1>2 DEF Typist!Next

-----------------------------------------------------------------------------
(* The steps. *)
LEMMA ReadKeeps ==
    ASSUME IInv, NEW p \in Proc, NEW len \in 1 .. MaxLen, read(p, len)
    PROVE  IInv' /\ Typist!Next
  <1> DEFINE f == S!Frame(<< >>, len)
  <1>1. << >> \in Seq(Key) /\ Len(<< >>) + len <= MaxLen
    BY ClockAssumption
  <1>2. f \in Frames /\ Fits(f) /\ f.buf = << >> /\ f.left = len
    BY <1>1, FrameMakes
  <1>3. S!Take(p, f, wait_queue) /\ UNCHANGED <<buffer, p_wpos>> /\ ~(reader[p].left > 0)
    BY DEF read, S!dev_stdin_read, S!Reading
  <1> HIDE DEF f
  <1>4. reader[p] \in Frames /\ Fits(reader[p])
    BY DEF IInv, ReadersOK
  <1>5. reader[p].left = 0
    <2>1. reader[p].left \in Nat
      BY <1>4, FrameSplits
    <2> QED
      BY <1>3, <2>1
  <1>6. reader[p].buf = << >>
    BY <1>4, <1>5, OutsideFits DEF Fits
  <1>7. p \notin S!ToSet(wait_queue)
    BY <1>3 DEF IInv, WaitersAreHungry, S!WaitersAreHungry, S!Reading
  <1>8. f.left > 0
    BY <1>2
  <1>9. Loops(p, f, wait_queue)
    BY <1>2, <1>3, <1>6, <1>7, <1>8 DEF Loops, IInv, ReadersOK, WaitersAreHungry, S!WaitersAreHungry
  <1> QED
    BY <1>9, LoopKeeps

(* A reader leaves, the others stay as they are. *)
LEMMA KilledLeaves ==
    ASSUME IInv, NEW p \in Proc, NEW queue,
           queue \in Seq(Proc), S!IsInjective(queue), S!ToSet(queue) = S!ToSet(wait_queue) \ {p},
           reader' = [reader EXCEPT ![p] = S!Outside], wait_queue' = queue,
           UNCHANGED <<buffer, p_rpos, p_wpos>>
    PROVE  IInv' /\ Typist!Next
  <1>1. BufferOK' /\ S!Unread' = S!Unread
    BY DEF IInv, BufferOK, S!Unread
  <1>2. reader \in [Proc -> Frames]
    BY DEF IInv, ReadersOK
  <1>3. reader'[p] = S!Outside /\ \A q \in Proc \ {p} : reader'[q] = reader[q]
    BY <1>2
  <1>4. ReadersOK'
    <2>1. reader' \in [Proc -> Frames]
      BY <1>2, OutsideFits
    <2>2. \A q \in Proc : Fits(reader'[q])
      BY <1>3, OutsideFits DEF IInv, ReadersOK
    <2> QED
      BY <2>1, <2>2 DEF ReadersOK, Fits
  <1>5. WaitersAreHungry'
    <2>1. ASSUME NEW q \in Proc, reader'[q].left > 0, reader'[q].woken = ""
          PROVE  q \in S!ToSet(queue) /\ S!Unread = 0
      <3>0. reader'[p].left = 0
        BY <1>3, OutsideFits
      <3>1. q # p
        <4>1. ~(0 > 0)
          OBVIOUS
        <4> QED
          BY <2>1, <3>0, <4>1, Zenon
      <3>2. reader[q].left > 0 /\ reader[q].woken = ""
        BY <1>3, <2>1, <3>1
      <3> QED
        BY <3>1, <3>2 DEF IInv, WaitersAreHungry, S!WaitersAreHungry, S!Reading
    <2>2. ASSUME NEW q \in S!ToSet(queue) PROVE reader'[q].left > 0
      <3>1. q \in S!ToSet(wait_queue) /\ q # p
        OBVIOUS
      <3>2. q \in Proc
        BY <3>1 DEF IInv, ReadersOK, S!ToSet
      <3> QED
        BY <1>3, <3>1, <3>2 DEF IInv, WaitersAreHungry, S!WaitersAreHungry, S!Reading
    <2>3. S!IsInjective(wait_queue)' /\ S!ToSet(wait_queue)' = S!ToSet(queue)
      BY DEF S!IsInjective, S!ToSet
    <2> QED
      BY <1>1, <2>1, <2>2, <2>3 DEF WaitersAreHungry, S!WaitersAreHungry, S!Reading
  <1>6. Typist!Return(p, 0)
    <2>1. S!Line' = S!Line
      BY DEF S!Line, S!Unread, S!At
    <2>2. S!Line \in Seq(Key) /\ Len(S!Line) = S!Unread /\ Len(S!Line) \in Nat
      BY TakenIsLine, UnreadIsAhead DEF IInv
    <2>3. SubSeq(S!Line, 0 + 1, Len(S!Line)) = S!Line
      BY <2>2
    <2>4. Len(reader[p].buf) + 0 <= MaxLen
      <3>1. reader[p] \in Frames /\ Fits(reader[p])
        BY DEF IInv, ReadersOK
      <3>2. reader[p].left \in Nat /\ Len(reader[p].buf) \in Nat
        BY <3>1, FrameSplits
      <3> QED
        BY <3>1, <3>2, ClockAssumption DEF Fits
    <2>5. [q \in Proc |-> reader'[q].buf] = [[q \in Proc |-> reader[q].buf] EXCEPT ![p] = << >>]
      <3>1. reader'[p].buf = << >> /\ \A q \in Proc \ {p} : reader'[q].buf = reader[q].buf
        BY <1>3, OutsideFits
      <3> QED
        BY <3>1
    <2> QED
      BY <2>1, <2>2, <2>3, <2>4, <2>5 DEF Typist!Return
  <1>7. 0 \in 0 .. MaxLen
    BY ClockAssumption
  <1> QED
    BY <1>1, <1>4, <1>5, <1>6, <1>7 DEF IInv, Typist!Next

LEMMA ResumeKeeps ==
    ASSUME IInv, NEW p \in Proc, read_resume(p)
    PROVE  IInv' /\ Typist!Next
  <1> DEFINE queue == S!Without(wait_queue, p)
  <1>1. queue \in Seq(Proc) /\ S!IsInjective(queue) /\ S!ToSet(queue) = S!ToSet(wait_queue) \ {p}
    BY QueueWithout DEF IInv, ReadersOK, WaitersAreHungry, S!WaitersAreHungry
  <1>2. reader[p] \in Frames /\ Fits(reader[p])
    BY DEF IInv, ReadersOK
  <1>3. reader[p].woken # "" /\ UNCHANGED <<buffer, p_wpos>>
    BY DEF read_resume, S!read_resume
  <1> HIDE DEF queue
  <1>4. CASE reader[p].woken = "key" /\ S!Take(p, reader[p], queue)
    <2>1. S!Outside.woken = ""
      BY DEF S!Outside, S!Frame
    <2>2. reader[p].left # 0
      BY <1>2, <1>3, <2>1 DEF Fits
    <2>3. reader[p].left > 0
      <3>1. reader[p].left \in Nat
        BY <1>2, FrameSplits
      <3> QED
        BY <2>2, <3>1
    <2>4. Loops(p, reader[p], queue)
      BY <1>1, <1>2, <1>3, <1>4, <2>3 DEF Loops
    <2> QED
      BY <2>4, LoopKeeps
  <1>5. CASE reader' = [reader EXCEPT ![p] = S!Outside] /\ wait_queue' = queue /\ UNCHANGED p_rpos
    BY <1>1, <1>3, <1>5, KilledLeaves
  <1> QED
    BY <1>4, <1>5 DEF read_resume, S!read_resume, queue

LEMMA KillKeeps ==
    ASSUME IInv, NEW p \in Proc, kill(p)
    PROVE  IInv' /\ UNCHANGED Typist!vars
  <1>1. /\ reader' = [reader EXCEPT ![p].woken = "kill"]
        /\ UNCHANGED <<buffer, p_rpos, p_wpos, wait_queue>>
        /\ reader[p].left > 0
    BY DEF kill, S!kill, S!Reading
  <1>2. BufferOK' /\ S!Unread' = S!Unread /\ S!Line' = S!Line
    BY <1>1 DEF IInv, BufferOK, S!Unread, S!Line, S!At
  <1>3. reader \in [Proc -> Frames]
    BY DEF IInv, ReadersOK
  <1> DEFINE g == [reader[p] EXCEPT !.woken = "kill"]
  <1>4. reader[p] \in Frames
    BY <1>3
  <1>5. g \in Frames
    BY <1>4 DEF Frames
  <1>6. g.woken = "kill" /\ g.left = reader[p].left /\ g.buf = reader[p].buf
    BY <1>4 DEF Frames
  <1>7. reader' = [reader EXCEPT ![p] = g]
    BY <1>1
  <1> HIDE DEF g
  <1>8. reader'[p] = g /\ \A q \in Proc \ {p} : reader'[q] = reader[q]
    BY <1>3, <1>7
  <1>9. \A q \in Proc : reader'[q].left = reader[q].left /\ reader'[q].buf = reader[q].buf
    BY <1>6, <1>8
  <1>10. reader[p].left # 0
    <2>1. reader[p].left \in Nat
      BY <1>4, FrameSplits
    <2> QED
      BY <1>1, <2>1
  <1>11. ReadersOK'
    <2>1. reader' \in [Proc -> Frames]
      BY <1>3, <1>5, <1>7
    <2>2. ASSUME NEW q \in Proc PROVE Fits(reader'[q])
      <3>1. CASE q = p
        BY <1>9, <1>10, <3>1 DEF IInv, ReadersOK, Fits
      <3>2. CASE q # p
        BY <1>8, <3>2 DEF IInv, ReadersOK
      <3> QED
        BY <3>1, <3>2
    <2> QED
      BY <1>1, <2>1, <2>2 DEF IInv, ReadersOK, Fits
  <1>12. WaitersAreHungry'
    <2>1. ASSUME NEW q \in Proc, reader'[q].left > 0, reader'[q].woken = ""
          PROVE  q \in S!ToSet(wait_queue) /\ S!Unread = 0
      <3>1. q # p
        BY <1>6, <1>8, <2>1
      <3> QED
        BY <1>8, <2>1, <3>1 DEF IInv, WaitersAreHungry, S!WaitersAreHungry, S!Reading
    <2>2. ASSUME NEW q \in S!ToSet(wait_queue) PROVE reader'[q].left > 0
      <3>1. q \in Proc
        BY DEF IInv, ReadersOK, S!ToSet
      <3> QED
        BY <1>9, <3>1 DEF IInv, WaitersAreHungry, S!WaitersAreHungry, S!Reading
    <2>3. S!IsInjective(wait_queue)' /\ S!ToSet(wait_queue)' = S!ToSet(wait_queue)
      BY <1>1 DEF S!IsInjective, S!ToSet, IInv, WaitersAreHungry, S!WaitersAreHungry
    <2> QED
      BY <1>2, <2>1, <2>2, <2>3 DEF WaitersAreHungry, S!WaitersAreHungry, S!Reading
  <1> QED
    BY <1>2, <1>9, <1>11, <1>12 DEF IInv, Typist!vars

(* A key wakes everybody on the queue, so that nobody unwoken is left. *)
LEMMA KeyKeeps ==
    ASSUME IInv, NEW c \in Char, S!dev_stdin_write(c)
    PROVE  IInv' /\ Typist!Type(c)
  <1> DEFINE d == [buffer EXCEPT ![S!Place(p_wpos)] = c]
  <1>1. /\ buffer' = d
        /\ p_wpos' = IF S!Unread < BUFSIZE THEN S!Wrap(p_wpos + 1) ELSE p_wpos
        /\ reader' = S!Woken(reader) /\ wait_queue' = << >> /\ p_rpos' = p_rpos
    BY DEF S!dev_stdin_write, S!Forward
  <1>2. reader \in [Proc -> Frames] /\ S!ToSet(wait_queue) \subseteq Proc
    BY DEF IInv, ReadersOK, S!ToSet
  <1>3. S!Unread = Ahead(p_wpos, p_rpos) /\ S!Unread \in 0 .. BUFSIZE /\ BUFSIZE \in Nat
    BY UnreadIsAhead, ClockAssumption DEF IInv
  <1>4. S!Unread' = Ahead(p_wpos', p_rpos')
    BY DEF S!Unread, Ahead
  <1>5. c \in Key /\ d \in [0 .. BUFSIZE - 1 -> Key]
    BY DEF IInv, BufferOK, Key
  <1>6. S!Line = LineOf(buffer, p_rpos, p_wpos) /\ Len(S!Line) = S!Unread
    BY TakenIsLine DEF IInv
  <1>7. S!Line' = LineOf(d, p_rpos, p_wpos')
    <2>1. S!Line' = LineOf(buffer', p_rpos', p_wpos')
      BY DEF S!Line, LineOf, S!Unread, Ahead, S!At
    <2> QED
      BY <1>1, <2>1
  <1>8. ASSUME NEW q \in Proc
        PROVE  /\ reader'[q] \in Frames /\ Fits(reader'[q])
               /\ reader'[q].buf = reader[q].buf
               /\ ~(reader'[q].left > 0 /\ reader'[q].woken = "")
    <2>1. reader[q] \in Frames /\ Fits(reader[q]) /\ reader[q].left \in Nat
      BY <1>2, FrameSplits DEF IInv, ReadersOK
    <2>2. CASE q \in S!ToSet(wait_queue)
      <3> DEFINE g == [reader[q] EXCEPT !.woken = "key"]
      <3>1. reader'[q] = g
        BY <1>1, <2>2 DEF S!Woken
      <3>2. g \in Frames
        BY <2>1 DEF Frames
      <3>3. g.woken = "key" /\ g.left = reader[q].left /\ g.buf = reader[q].buf
        BY <2>1 DEF Frames
      <3>4. reader[q].left > 0
        BY <2>2 DEF IInv, WaitersAreHungry, S!WaitersAreHungry, S!Reading
      <3>5. reader[q].left # 0
        BY <2>1, <3>4
      <3> HIDE DEF g
      <3>6. Fits(g)
        BY <2>1, <3>3, <3>5 DEF Fits
      <3> QED
        BY <3>1, <3>2, <3>3, <3>6
    <2>3. CASE q \notin S!ToSet(wait_queue)
      <3>1. reader'[q] = reader[q]
        BY <1>1, <2>3 DEF S!Woken
      <3>2. ~(reader[q].left > 0 /\ reader[q].woken = "")
        BY <2>3 DEF IInv, WaitersAreHungry, S!WaitersAreHungry, S!Reading
      <3> QED
        BY <2>1, <3>1, <3>2
    <2> QED
      BY <2>2, <2>3
  <1>9. ReadersOK'
    <2>1. DOMAIN reader' = Proc /\ reader' = [q \in Proc |-> reader'[q]]
      BY <1>1 DEF S!Woken
    <2>2. reader' \in [Proc -> Frames]
      BY <1>8, <2>1
    <2>3. wait_queue' \in Seq(Proc)
      BY <1>1
    <2> QED
      BY <1>8, <2>2, <2>3 DEF ReadersOK, Fits
  <1>10. WaitersAreHungry'
    <2>1. S!ToSet(wait_queue)' = {} /\ S!IsInjective(wait_queue)'
      BY <1>1 DEF S!ToSet, S!IsInjective
    <2> QED
      BY <1>8, <2>1 DEF WaitersAreHungry, S!WaitersAreHungry, S!Reading
  <1>11. [q \in Proc |-> reader'[q].buf] = [q \in Proc |-> reader[q].buf]
    BY <1>8
  <1> HIDE DEF d
  <1>12. CASE S!Unread < BUFSIZE
    <2>1. p_wpos' = S!Wrap(p_wpos + 1) /\ p_wpos' \in S!Position /\ S!Unread' = S!Unread + 1
      BY <1>1, <1>3, <1>4, <1>12, AheadAfterKey DEF IInv, BufferOK
    <2>2. BufferOK'
      BY <1>1, <1>3, <1>5, <1>12, <2>1 DEF IInv, BufferOK
    <2>3. LineOf(d, p_rpos, S!Wrap(p_wpos + 1)) = Append(LineOf(buffer, p_rpos, p_wpos), c)
      BY <1>3, <1>12, LineAfterKey DEF IInv, BufferOK, d
    <2>4. Typist!Type(c)
      BY <1>6, <1>7, <1>11, <1>12, <2>1, <2>3 DEF Typist!Type
    <2> QED
      BY <1>9, <1>10, <2>2, <2>4 DEF IInv
  <1>13. CASE ~(S!Unread < BUFSIZE)
    <2>1. S!Unread = BUFSIZE /\ p_wpos' = p_wpos /\ S!Unread' = S!Unread
      BY <1>1, <1>3, <1>4, <1>13
    <2>2. BufferOK'
      BY <1>1, <1>3, <1>5, <2>1 DEF IInv, BufferOK
    <2>3. LineOf(d, p_rpos, p_wpos) = FirstReplaced(LineOf(buffer, p_rpos, p_wpos), c)
      <3>1. /\ p_rpos \in S!Position /\ p_wpos \in S!Position
            /\ buffer \in [0 .. BUFSIZE - 1 -> Key]
        BY DEF IInv, BufferOK
      <3>2. Ahead(p_wpos, p_rpos) = BUFSIZE
        BY <1>3, <2>1
      <3> QED
        BY <3>1, <3>2, LineWhenFull DEF d
    <2>4. Typist!Type(c)
      BY <1>6, <1>7, <1>11, <1>13, <2>1, <2>3 DEF Typist!Type, FirstReplaced
    <2> QED
      BY <1>9, <1>10, <2>2, <2>4 DEF IInv
  <1> QED
    BY <1>12, <1>13

LEMMA StdinRests ==
    ASSUME IInv, UNCHANGED stdin
    PROVE  IInv' /\ UNCHANGED Typist!vars
  <1>1. /\ buffer' = buffer /\ p_rpos' = p_rpos /\ p_wpos' = p_wpos
        /\ wait_queue' = wait_queue /\ reader' = reader
    BY DEF stdin
  <1>2. BufferOK' /\ ReadersOK'
    BY <1>1 DEF IInv, BufferOK, ReadersOK, S!Unread, Fits
  <1>3. WaitersAreHungry'
    BY <1>1 DEF IInv, WaitersAreHungry, S!WaitersAreHungry, S!Reading, S!Unread, S!ToSet, S!IsInjective
  <1>4. UNCHANGED Typist!vars
    BY <1>1 DEF Typist!vars, S!Line, S!Unread, S!At
  <1> QED
    BY <1>2, <1>3, <1>4 DEF IInv

LEMMA StepKeeps == IInv /\ [Next]_vars => IInv' /\ [Typist!Next]_(Typist!vars)
  <1> SUFFICES ASSUME IInv, [Next]_vars
               PROVE  IInv' /\ (Typist!Next \/ UNCHANGED Typist!vars)
    OBVIOUS
  <1>1. CASE UNCHANGED stdin
    BY <1>1, StdinRests
  <1>2. ASSUME NEW p \in Proc, NEW len \in 1 .. MaxLen, read(p, len) PROVE IInv' /\ Typist!Next
    BY <1>2, ReadKeeps
  <1>3. ASSUME NEW p \in Proc, read_resume(p) PROVE IInv' /\ Typist!Next
    BY <1>3, ResumeKeeps
  <1>4. ASSUME NEW p \in Proc, kill(p) PROVE IInv' /\ UNCHANGED Typist!vars
    BY <1>4, KillKeeps
  <1>5. ASSUME NEW c \in Char, S!dev_stdin_write(c) PROVE IInv' /\ Typist!Next
    BY <1>5, KeyKeeps DEF Typist!Next
  <1>6. ASSUME interrupt PROVE IInv' /\ (Typist!Next \/ UNCHANGED Typist!vars)
    BY <1>1, <1>5, <1>6 DEF interrupt
  <1>7. CASE UNCHANGED vars
    BY <1>1, <1>7 DEF vars
  <1> QED
    BY <1>1, <1>2, <1>3, <1>4, <1>6, <1>7 DEF Next, do_sleep, wake_up

LEMMA InitIsLine == Init => IInv /\ Typist!Init
  <1> SUFFICES ASSUME S!Init PROVE IInv /\ Typist!Init
    BY DEF Init
  <1>1. /\ p_rpos = 0 /\ p_wpos = 0 /\ wait_queue = << >>
        /\ buffer = [i \in 0 .. BUFSIZE - 1 |-> ""]
        /\ reader = [p \in Proc |-> S!Outside]
    BY DEF S!Init
  <1>2. p_rpos \in S!Position /\ p_wpos \in S!Position /\ S!Unread = 0
    <2>1. 0 \in 0 .. 2 * BUFSIZE - 1 /\ 0 + 2 * BUFSIZE - 0 = 2 * BUFSIZE
      BY ClockAssumption
    <2>2. ~(2 * BUFSIZE < 2 * BUFSIZE) /\ 2 * BUFSIZE - 2 * BUFSIZE = 0
      BY ClockAssumption
    <2> QED
      BY <1>1, <2>1, <2>2, Zenon DEF S!Position, S!Unread, S!Wrap
  <1>3. BufferOK
    <2>1. 0 <= BUFSIZE
      BY ClockAssumption
    <2>2. buffer \in [0 .. BUFSIZE - 1 -> Key]
      BY <1>1, Zenon DEF Key
    <2> QED
      BY <1>2, <2>1, <2>2, Zenon DEF BufferOK
  <1>4. \A p \in Proc : reader[p] = S!Outside
    BY <1>1
  <1>5. ReadersOK
    <2>1. reader \in [Proc -> Frames]
      BY <1>1, OutsideFits
    <2>2. wait_queue \in Seq(Proc)
      <3>1. wait_queue = << >>
        BY <1>1
      <3> QED
        BY <3>1
    <2>3. \A p \in Proc : Fits(reader[p])
      BY <1>4, OutsideFits
    <2> QED
      BY <2>1, <2>2, <2>3 DEF ReadersOK
  <1>6. WaitersAreHungry
    <2>0. wait_queue = << >>
      BY <1>1
    <2>1. S!ToSet(wait_queue) = {} /\ S!IsInjective(wait_queue)
      BY <2>0 DEF S!ToSet, S!IsInjective
    <2>2. \A p \in Proc : ~S!Reading(p)
      <3>1. \A p \in Proc : reader[p].left = 0
        BY <1>4, OutsideFits
      <3>2. ~(0 > 0)
        OBVIOUS
      <3> QED
        BY <3>1, <3>2, Zenon DEF S!Reading
    <2> QED
      BY <2>1, <2>2 DEF WaitersAreHungry, S!WaitersAreHungry
  <1>7. Typist!Init
    <2>1. S!Line = << >>
      BY <1>2 DEF S!Line
    <2>2. [p \in Proc |-> reader[p].buf] = [p \in Proc |-> << >>]
      BY <1>4, OutsideFits
    <2> QED
      BY <2>1, <2>2 DEF Typist!Init
  <1> QED
    BY <1>3, <1>5, <1>6, <1>7 DEF IInv

(* No key is lost to a waiting reader (dev_stdin_read and dev_stdin_write):  *)
(* whoever sleeps there and has not been woken is on the queue, and the      *)
(* buffer is empty.                                                        *)
THEOREM NobodyWaitsForAKey == Spec => []WaitersAreHungry
  <1>1. Init => IInv
    BY InitIsLine
  <1>2. IInv /\ [Next]_vars => IInv'
    BY StepKeeps
  <1>3. IInv => WaitersAreHungry
    BY DEF IInv
  <1> QED
    BY <1>1, <1>2, <1>3, PTL DEF Spec

(* The ring buffer of dev_stdin.c implements the line of characters: every   *)
(* one goes to one reader, the oldest first.                               *)
THEOREM ImplementsKeyboard == Spec => KeyboardSpec
  <1>1. Init => IInv /\ Typist!Init
    BY InitIsLine
  <1>2. IInv /\ [Next]_vars => IInv' /\ [Typist!Next]_(Typist!vars)
    BY StepKeeps
  <1> QED
    BY <1>1, <1>2, PTL DEF Spec, KeyboardSpec, Typist!Spec

-----------------------------------------------------------------------------
(* The operators of Timers, in the instance T of Clock, are those of TimerList. *)
LEMMA SameList ==
    /\ \A tl, p : T!HasTimer(tl, p) <=> HasTimer(tl, p)
    /\ \A tl, p : T!TimerOf(tl, p) = TimerOf(tl, p)
    /\ \A tl, i : T!Due(tl, i) = Due(tl, i)
  BY DEF T!HasTimer, HasTimer, T!TimerOf, TimerOf, T!Due, Due

LEMMA SameAdd == \A tl, p, n : T!add_timer(tl, p, n) = add_timer(tl, p, n)
  BY DEF T!add_timer, add_timer, T!Max, Max, T!Due, Due

LEMMA SameDelete == \A tl, p : T!del_timer(tl, p) = del_timer(tl, p)
  BY DEF T!del_timer, del_timer, T!HasTimer, HasTimer, T!TimerOf, TimerOf

LEMMA SameTick == \A tl : T!AfterTick(tl) = AfterTick(tl) /\ (T!HeadMayCount(tl) <=> HeadMayCount(tl))
  BY DEF T!AfterTick, AfterTick, T!Counted, Counted, T!NumFired, NumFired, T!HeadMayCount, HeadMayCount

(* What Clock asks of the timers, in the words of TimerList. *)
LEMMA TimersMean ==
    /\ \A q : T!TicksLeft(q) = Left(timers, q) /\ T!TicksLeft(q)' = Left(timers', q)
    /\ T!Rung = {q \in asleep : ~HasTimer(timers, q)}
    /\ T!Rung' = {q \in asleep' : ~HasTimer(timers', q)}
  BY SameList DEF T!TicksLeft, T!Rung, Left

(* Timers live in the frames of do_sleep. *)
TimersOK ==
    /\ IsList(timers, Proc)
    /\ asleep \subseteq Proc
    /\ \A q : HasTimer(timers, q) => q \in asleep

LEMMA TimersStart == Init => TimersOK /\ AlarmClock!Init
  <1> SUFFICES ASSUME Init PROVE TimersOK /\ AlarmClock!Init
    OBVIOUS
  <1>1. timers = << >> /\ asleep = {} /\ Len(timers) = 0
    BY DEF Init, T!Init
  <1>2. \A q : ~HasTimer(timers, q)
    BY <1>1 DEF HasTimer
  <1>3. IsList(timers, Proc)
    BY <1>1 DEF IsList
  <1>4. \A q : T!TicksLeft(q) = 0
    BY <1>2, TimersMean DEF Left
  <1>5. T!Rung = {}
    BY <1>1, TimersMean
  <1> QED
    BY <1>1, <1>2, <1>3, <1>4, <1>5 DEF TimersOK, AlarmClock!Init

LEMMA AlarmHasTimer ==
    ASSUME TimersOK, NEW q
    PROVE  /\ T!TicksLeft(q) = Left(timers, q)
           /\ Left(timers, q) \in Nat
           /\ Left(timers, q) # 0 <=> HasTimer(timers, q)
  <1>1. T!TicksLeft(q) = Left(timers, q)
    BY TimersMean
  <1>2. CASE HasTimer(timers, q)
    <2>1. PICK i \in 1 .. Len(timers) : timers[i].proc = q
      BY <1>2 DEF HasTimer
    <2>2. Left(timers, q) \in Nat \ {0}
      BY <2>1, LeftIsDue DEF TimersOK
    <2> QED
      BY <1>1, <1>2, <2>2
  <1>3. CASE ~HasTimer(timers, q)
    BY <1>1, <1>3 DEF Left
  <1> QED
    BY <1>2, <1>3

LEMMA SleepSets ==
    ASSUME TimersOK, NEW p \in Proc, NEW ticks \in 1 .. MaxTicks, T!do_sleep(p, ticks)
    PROVE  TimersOK' /\ AlarmClock!Next
  <1>1. p \notin asleep /\ timers' = add_timer(timers, p, ticks) /\ asleep' = asleep \cup {p}
    BY SameAdd DEF T!do_sleep
  <1>2. ~HasTimer(timers, p) /\ ticks \in Nat \ {0}
    BY <1>1, ClockAssumption DEF TimersOK
  <1>3. /\ IsList(timers', Proc)
        /\ \A q : HasTimer(timers', q) <=> q = p \/ HasTimer(timers, q)
        /\ \A q : Left(timers', q) = IF q = p THEN ticks ELSE Left(timers, q)
    BY <1>1, <1>2, AddKeeps DEF TimersOK
  <1>4. TimersOK'
    BY <1>1, <1>3 DEF TimersOK
  <1>5. \A q : T!TicksLeft(q)' = IF q = p THEN ticks ELSE T!TicksLeft(q)
    <2>1. \A q : T!TicksLeft(q)' = Left(timers', q)
      BY TimersMean
    <2> QED
      BY <1>3, <2>1, AlarmHasTimer
  <1>6. T!TicksLeft(p) = 0 /\ p \notin T!Rung
    BY <1>1, <1>2, AlarmHasTimer, TimersMean
  <1>7. T!Rung' = T!Rung
    BY <1>1, <1>3, TimersMean
  <1> DEFINE left == [q \in Proc |-> T!TicksLeft(q)]
  <1>8. left' = [left EXCEPT ![p] = ticks]
    BY <1>5
  <1>9. AlarmClock!Set(p, ticks)
    BY <1>6, <1>7, <1>8 DEF AlarmClock!Set
  <1> QED
    BY <1>4, <1>9 DEF AlarmClock!Next

LEMMA WakeLeaves ==
    ASSUME TimersOK, NEW p \in Proc, T!wake_up(p)
    PROVE  TimersOK' /\ AlarmClock!Next
  <1>1. p \in asleep /\ timers' = del_timer(timers, p) /\ asleep' = asleep \ {p}
    BY SameDelete DEF T!wake_up
  <1>2. /\ IsList(timers', Proc)
        /\ \A q : HasTimer(timers', q) <=> q # p /\ HasTimer(timers, q)
        /\ \A q : Left(timers', q) = IF q = p THEN 0 ELSE Left(timers, q)
    BY <1>1, DelKeeps DEF TimersOK
  <1>3. TimersOK'
    BY <1>1, <1>2 DEF TimersOK
  <1>4. \A q : T!TicksLeft(q)' = IF q = p THEN 0 ELSE T!TicksLeft(q)
    <2>1. \A q : T!TicksLeft(q)' = Left(timers', q)
      BY TimersMean
    <2> QED
      BY <1>2, <2>1, AlarmHasTimer
  <1>5. T!TicksLeft(p) # 0 \/ p \in T!Rung
    BY <1>1, AlarmHasTimer, TimersMean
  <1>6. T!Rung' = T!Rung \ {p}
    BY <1>1, <1>2, TimersMean
  <1> DEFINE left == [q \in Proc |-> T!TicksLeft(q)]
  <1>7. left' = [left EXCEPT ![p] = 0]
    BY <1>4
  <1>8. AlarmClock!Leave(p)
    BY <1>5, <1>6, <1>7 DEF AlarmClock!Leave
  <1> QED
    BY <1>3, <1>8 DEF AlarmClock!Next

LEMMA TickTicks ==
    ASSUME TimersOK, T!run_timer_list
    PROVE  TimersOK' /\ AlarmClock!Next
  <1>1. timers' = AfterTick(timers) /\ asleep' = asleep
    BY SameTick DEF T!run_timer_list
  <1>2. /\ IsList(timers', Proc)
        /\ \A q : HasTimer(timers', q) <=> HasTimer(timers, q) /\ Left(timers, q) # 1
        /\ \A q : Left(timers', q) = IF Left(timers, q) = 0 THEN 0 ELSE Left(timers, q) - 1
    BY <1>1, TickKeeps DEF TimersOK
  <1>3. TimersOK'
    BY <1>1, <1>2 DEF TimersOK
  <1>4. \A q : T!TicksLeft(q)' = IF T!TicksLeft(q) = 0 THEN 0 ELSE T!TicksLeft(q) - 1
    <2>1. \A q : T!TicksLeft(q)' = Left(timers', q)
      BY TimersMean
    <2> QED
      BY <1>2, <2>1, AlarmHasTimer
  <1>5. T!Rung' = T!Rung \cup {q \in Proc : T!TicksLeft(q) = 1}
    <2>1. ASSUME NEW q PROVE q \in T!Rung' <=> q \in T!Rung \/ (q \in Proc /\ T!TicksLeft(q) = 1)
      <3>1. q \in T!Rung' <=> q \in asleep /\ ~HasTimer(timers', q)
        BY <1>1, TimersMean
      <3>2. q \in T!Rung <=> q \in asleep /\ ~HasTimer(timers, q)
        BY TimersMean
      <3>3. T!TicksLeft(q) = 1 => HasTimer(timers, q)
        BY AlarmHasTimer
      <3>4. HasTimer(timers, q) => q \in asleep
        BY DEF TimersOK
      <3>5. asleep \subseteq Proc
        BY DEF TimersOK
      <3> QED
        BY <1>2, <3>1, <3>2, <3>3, <3>4, <3>5, AlarmHasTimer
    <2> QED
      BY <2>1
  <1> DEFINE left == [q \in Proc |-> T!TicksLeft(q)]
  <1>6. left' = [q \in Proc |-> IF left[q] = 0 THEN 0 ELSE left[q] - 1]
    BY <1>4
  <1>7. {q \in Proc : left[q] = 1} = {q \in Proc : T!TicksLeft(q) = 1}
    OBVIOUS
  <1>8. AlarmClock!Tick
    BY <1>5, <1>6, <1>7 DEF AlarmClock!Tick
  <1> QED
    BY <1>3, <1>8 DEF AlarmClock!Next

LEMMA TimersKeep == TimersOK /\ [Next]_vars => TimersOK' /\ [AlarmClock!Next]_(AlarmClock!vars)
  <1> SUFFICES ASSUME TimersOK, [Next]_vars PROVE TimersOK' /\ [AlarmClock!Next]_(AlarmClock!vars)
    OBVIOUS
  <1>1. ASSUME UNCHANGED <<timers, asleep>> PROVE TimersOK' /\ UNCHANGED AlarmClock!vars
    <2>1. TimersOK'
      BY <1>1 DEF TimersOK
    <2>2. T!Rung' = T!Rung /\ \A q : T!TicksLeft(q)' = T!TicksLeft(q)
      BY <1>1, TimersMean
    <2> QED
      BY <2>1, <2>2 DEF AlarmClock!vars
  <1>2. ASSUME NEW p \in Proc, NEW ticks \in 1 .. MaxTicks, do_sleep(p, ticks)
        PROVE  TimersOK' /\ AlarmClock!Next
    BY <1>2, SleepSets DEF do_sleep
  <1>3. ASSUME NEW p \in Proc, wake_up(p) PROVE TimersOK' /\ AlarmClock!Next
    BY <1>3, WakeLeaves DEF wake_up
  <1>4. ASSUME NEW p \in Proc, (\E len \in 1 .. MaxLen : read(p, len)) \/ read_resume(p) \/ kill(p)
        PROVE  UNCHANGED <<timers, asleep>>
    BY <1>4 DEF read, read_resume, kill
  <1>5. ASSUME interrupt PROVE TimersOK' /\ AlarmClock!Next
    BY <1>5, TickTicks DEF interrupt
  <1>6. ASSUME UNCHANGED vars PROVE UNCHANGED <<timers, asleep>>
    BY <1>6 DEF vars
  <1> QED
    BY <1>1, <1>2, <1>3, <1>4, <1>5, <1>6 DEF Next

(* A timer is gone when do_sleep returns, no process has two, and           *)
(* run_timer_list never finds a head that has nothing left to wait for     *)
(* (kern/schedule/sched.c, the assertion of run_timer_list).               *)
THEOREM TimersDoNotDangle == Spec => []NoDanglingTimer
  <1>1. Init => TimersOK
    BY TimersStart
  <1>2. TimersOK /\ [Next]_vars => TimersOK'
    BY TimersKeep
  <1>3. TimersOK => NoDanglingTimer
    <2> SUFFICES ASSUME TimersOK PROVE NoDanglingTimer
      OBVIOUS
    <2>1. \A i \in 1 .. Len(timers) : timers[i].proc \in asleep
      BY DEF TimersOK, HasTimer
    <2>2. \A i, j \in 1 .. Len(timers) : timers[i].proc = timers[j].proc => i = j
      BY DEF TimersOK, IsList
    <2>3. HeadMayCount(timers)
      <3>1. timers \in Seq(Timer(Proc)) /\ (timers # << >> => timers[1].expires > 0)
        BY DEF TimersOK, IsList
      <3>2. CASE timers # << >>
        <4>1. Len(timers) \in Nat /\ Len(timers) # 0
          BY <3>1, <3>2
        <4>2. 1 \in 1 .. Len(timers)
          BY <4>1
        <4>3. timers[1].expires \in Nat
          BY <3>1, <4>2, TimerFields
        <4>4. timers[1].expires # 0
          BY <3>1, <3>2, <4>3
        <4> QED
          BY <4>4 DEF HeadMayCount
      <3> QED
        BY <3>2 DEF HeadMayCount
    <2> QED
      BY <2>1, <2>2, <2>3, SameTick DEF NoDanglingTimer, T!NoDanglingTimer
  <1> QED
    BY <1>1, <1>2, <1>3, PTL DEF Spec

(* Whatever timers are added before it and deleted around it, every sleeper *)
(* is woken by exactly the tick it asked for: the sums of the delays       *)
(* implement one alarm per process.                                       *)
THEOREM ImplementsAlarm == Spec => AlarmSpec
  <1>1. Init => TimersOK /\ AlarmClock!Init
    BY TimersStart
  <1>2. TimersOK /\ [Next]_vars => TimersOK' /\ [AlarmClock!Next]_(AlarmClock!vars)
    BY TimersKeep
  <1> QED
    BY <1>1, <1>2, PTL DEF Spec, AlarmSpec, AlarmClock!Spec
=============================================================================
