-------------------------------- MODULE Keyboard -------------------------------
(***************************************************************************)
(* What readers of stdin: see: characters are typed into a line of limited *)
(* length, and every reader takes some from its front, in one go or in     *)
(* several; no character goes to two readers.  When the line is full the   *)
(* next character takes the place of the oldest one.                       *)
(***************************************************************************)
EXTENDS Integers, Sequences, SequencesExt

CONSTANTS Proc, BUFSIZE, MaxLen, Char

VARIABLES line,   \* typed and not yet read
          got     \* what a reader that wants more has got so far

vars == <<line, got>>

Init == line = <<>> /\ got = [p \in Proc |-> <<>>]

Type(c) ==
    /\ line' = IF Len(line) < BUFSIZE THEN Append(line, c) ELSE [line EXCEPT ![1] = c]
    /\ UNCHANGED got

(* A reader empties the line and wants more, ... *)
Collect(p) ==
    /\ Len(got[p]) + Len(line) < MaxLen
    /\ got' = [got EXCEPT ![p] = @ \o line]
    /\ line' = <<>>

(* ... or it has what it asked for, or it is killed. *)
Return(p, n) ==
    /\ n <= Len(line) /\ Len(got[p]) + n <= MaxLen
    /\ line' = SubSeq(line, n + 1, Len(line))
    /\ got' = [got EXCEPT ![p] = <<>>]

Next ==
    \/ \E c \in Char : Type(c)
    \/ \E p \in Proc : Collect(p) \/ \E n \in 0 .. MaxLen : Return(p, n)

Spec == Init /\ [][Next]_vars
=============================================================================
