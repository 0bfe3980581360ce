------------------------------- MODULE ResourcesMC -------------------------------
(***************************************************************************)
(* Small instances of Resources for TLC.  Pages have two units, page       *)
(* tables four entries and directories two; the stack has a directory of   *)
(* its own, as in the kernel.                                              *)
(***************************************************************************)
EXTENDS Resources

CONSTANTS hello, broken, cut, notes

StackPages == [start |-> 8, end |-> 9]
Sizes == 6 .. 22

Segment(va, filesz, memsz) ==
    [va |-> va, filesz |-> filesz, memsz |-> memsz, header |-> TRUE, there |-> filesz]

(* A page of text and a segment of data and zeros; text, a segment that is  *)
(* larger than all of that and one that is impossible; a program whose      *)
(* pages are in two tables, in a file that ends too soon; and a file that   *)
(* is no program.                                                          *)
Program(data) ==
    [f \in File |->
       LET text == Segment(0, 1, 1)
       IN  CASE f = hello -> <<text, data>>
             [] f = broken -> <<text, Segment(32, 2, 12), [data EXCEPT !.memsz = data.filesz - 1]>>
             [] f = cut -> <<[Segment(0, 10, 10) EXCEPT !.there = 1]>>
             [] f = notes -> <<>>]

(* A full page of data and zeros in two pages behind it, as tools/user.ld   *)
(* lays programs out.                                                      *)
Aligned == Program(Segment(2, 2, 5))

(* The data ends within a page.                                            *)
Unaligned == Program(Segment(2, 1, 2))

(* What the theorems ask of programs is true of those of the first kind.    *)
ASSUME ProgramsAssumption == \A f \in File : Neat(Aligned[f]) /\ Paged(Aligned[f])
=============================================================================
