------------------------------- MODULE FileStore -------------------------------
(***************************************************************************)
(* What programs rely on: a file is a sequence of bytes that can be read   *)
(* and written at the position of a descriptor and that grows with zeros.  *)
(* A write may stop early when the disk is full.                           *)
(***************************************************************************)
EXTENDS Integers, Sequences

CONSTANTS File, Fd, BLK, MAX_SIZE, Byte(_, _)

VARIABLES content,   \* of every file
          place      \* <<file, position>> of every descriptor, file 0: closed

vars == <<content, place>>

Least(m, n) == IF m < n THEN m ELSE n
Grown(c, n) == [i \in 1 .. n |-> IF i <= Len(c) THEN c[i] ELSE 0]

Init ==
    /\ content = [f \in File |-> <<>>]
    /\ place = [h \in Fd |-> <<0, 0>>]

Open(h, f) ==
    /\ place[h] = <<0, 0>>
    /\ \E c \in {content[f], <<>>} :
         /\ \E p \in {0, Len(c)} : place' = [place EXCEPT ![h] = <<f, p>>]
         /\ content' = [content EXCEPT ![f] = c]

Close(h) ==
    /\ place' = [place EXCEPT ![h] = <<0, 0>>]
    /\ UNCHANGED content

Dup(h, g) ==
    /\ place[g] = <<0, 0>>
    /\ place' = [place EXCEPT ![g] = place[h]]
    /\ UNCHANGED content

Seek(h, p) ==
    LET f == place[h][1]
    IN  /\ place' = [place EXCEPT ![h][2] = p]
        /\ content' = IF p <= Len(content[f]) THEN content
                      ELSE [content EXCEPT ![f] = Grown(@, p)]

Read(h, n) ==
    LET p == place[h][2]
        c == content[place[h][1]]
    IN  \E k \in 0 .. n :
          /\ place' = [place EXCEPT ![h][2] = p + k]
          /\ k = Len(SubSeq(c, p + 1, Least(p + n, Len(c))))
          /\ UNCHANGED content

Write(h, n) ==
    LET f == place[h][1]
        p == place[h][2]
        whole == Grown(content[f], IF p + n > Len(content[f]) THEN p + n ELSE Len(content[f]))
    IN  /\ place' = [place EXCEPT ![h][2] = p + n]
        /\ content' = [content EXCEPT ![f] =
                         [i \in DOMAIN whole |-> IF i \in p + 1 .. p + n THEN Byte(f, i - 1) ELSE whole[i]]]

Next ==
    \/ \E h \in Fd : \E f \in File : Open(h, f)
    \/ \E h \in Fd : place[h][1] # 0 /\
         \/ Close(h)
         \/ \E g \in Fd : Dup(h, g)
         \/ \E p \in 0 .. MAX_SIZE : Seek(h, p)
         \/ \E n \in 0 .. BLK : Read(h, n) \/ Write(h, n)

Spec == Init /\ [][Next]_vars
=============================================================================
