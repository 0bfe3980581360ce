-------------------------------- MODULE ProcTree -------------------------------
(***************************************************************************)
(* The pointers of the process tree (kern/process/proc.c) as operators on a *)
(* record t: t.parent, t.cptr (the youngest child), t.optr and t.yptr (the  *)
(* next older and the next younger child of the same parent).              *)
(***************************************************************************)
EXTENDS Naturals, Sequences, FiniteSets, SequencesExt

CONSTANT None   \* NULL

NoLinks(P) ==
    LET null == [p \in P |-> None]
    IN  [parent |-> null, cptr |-> null, optr |-> null, yptr |-> null]

(* The children of p as a loop along optr meets them, up to as many as there *)
(* are processes.                                                          *)
Children(t, p) ==
    LET most == Cardinality(DOMAIN t.parent)
        met[i \in 0 .. most] ==
          IF i = 0 THEN t.cptr[p] ELSE IF met[i - 1] = None THEN None ELSE t.optr[met[i - 1]]
        stops(m) == (\A i \in 0 .. m - 1 : met[i] # None) /\ (m < most => met[m] = None)
        many == CHOOSE m \in 0 .. most : stops(m)
    IN  [i \in 1 .. many |-> met[i - 1]]

(* c becomes the youngest child of p. *)
link(t, c, p) ==
    LET older == t.cptr[p]
        alone == [t.yptr EXCEPT ![c] = None]
    IN  [t EXCEPT !.parent[c] = p, !.optr[c] = older, !.cptr[p] = c,
                  !.yptr = IF older = None THEN alone ELSE [alone EXCEPT ![older] = c]]

(* set_links of a proc_struct from alloc_proc. *)
set_links(t, c, p) == link([t EXCEPT !.cptr[c] = None], c, p)

(* remove_links of a proc_struct that is then freed. *)
remove_links_OneWay(t, c) ==
    LET older == t.optr[c]
        younger == t.yptr[c]
    IN  [t EXCEPT !.optr = [IF younger = None THEN @ ELSE [@ EXCEPT ![younger] = older]
                              EXCEPT ![c] = None],
                  !.yptr[c] = None,
                  !.cptr[t.parent[c]] = IF younger = None THEN older ELSE @,
                  !.parent[c] = None]

remove_links(t, c) ==
    LET older == t.optr[c]
        younger == t.yptr[c]
    IN  [t EXCEPT !.optr = [IF younger = None THEN @ ELSE [@ EXCEPT ![younger] = older]
                              EXCEPT ![c] = None],
                  !.yptr = [IF older = None THEN @ ELSE [@ EXCEPT ![older] = younger]
                              EXCEPT ![c] = None],
                  !.cptr[t.parent[c]] = IF younger = None THEN older ELSE @,
                  !.parent[c] = None]

(* The loop of do_exit: the children of p, the youngest first, go one by one *)
(* to the head of another list.                                            *)
hand_over(t, p, heir) ==
    LET cs == Children(t, p)
        moved[i \in 0 .. Len(cs)] ==
          IF i = 0 THEN t
          ELSE LET u == moved[i - 1]
               IN  link([u EXCEPT !.cptr[p] = u.optr[cs[i]]], cs[i], heir)
    IN  moved[Len(cs)]

(* Following optr finds every child of p, each once, and yptr leads back.   *)
ListsChildren(t, p) ==
    LET cs == Children(t, p)
    IN  /\ ToSet(cs) = {c \in DOMAIN t.parent : t.parent[c] = p}
        /\ \A i \in DOMAIN cs : t.yptr[cs[i]] = IF i = 1 THEN None ELSE cs[i - 1]
        /\ cs # <<>> => t.optr[Last(cs)] = None
=============================================================================
