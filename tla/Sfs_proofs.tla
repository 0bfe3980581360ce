------------------------------- MODULE Sfs_proofs ------------------------------
(***************************************************************************)
(* Who owns the blocks of the disk and what is in the files, for any       *)
(* number of files, descriptors and blocks, and why the assertions of      *)
(* sfs_inode.c hold.                                                       *)
(***************************************************************************)
EXTENDS Sfs, TimerList_proofs

LEMMA Numbers ==
    /\ BLOCKS \in Nat \ {0} /\ BLK \in Nat \ {0} /\ NDIRECT \in Nat \ {0}
    /\ MAX_SIZE \in Nat /\ MAX_SIZE <= (NDIRECT + BLK) * BLK
    /\ 0 \notin Block /\ 0 \notin File /\ File \subseteq Nat
  <1>1. BLOCKS \in Nat \ {0} /\ BLK \in Nat \ {0} /\ NDIRECT \in Nat \ {0}
    BY SfsAssumption
  <1>2. (NDIRECT + BLK) * BLK \in Int
    BY <1>1
  <1> QED
    BY <1>1, <1>2, SfsAssumption DEF Block

-----------------------------------------------------------------------------
(* Places are where a block number may be noted: the entries of an inode   *)
(* and of its indirect block, and the pointer to the indirect block.       *)
Index == 0 .. NDIRECT + BLK - 1
Indirect == -1
Places == File \X (Index \cup {Indirect})

OneOwner(t, F) ==
    /\ t \in [Places -> Block \cup {0}]
    /\ \A x \in Places : t[x] \notin F
    /\ \A x, y \in Places : t[x] # 0 /\ t[x] = t[y] => x = y
    /\ \A b \in Block \ F : \E x \in Places : t[x] = b

LEMMA OwnerTakes ==
    ASSUME NEW t, NEW F, F \subseteq Block, OneOwner(t, F),
           NEW x \in Places, t[x] = 0, NEW b \in F,
           NEW u, u \in [Places -> Block \cup {0}],
           \A y \in Places : u[y] = IF y = x THEN b ELSE t[y]
    PROVE  OneOwner(u, F \ {b})
  <1>1. b \in Block /\ b # 0
    BY Numbers
  <1>2. ASSUME NEW y \in Places PROVE u[y] \notin F \ {b}
    BY DEF OneOwner
  <1>3. ASSUME NEW y \in Places, NEW z \in Places, u[y] # 0, u[y] = u[z] PROVE y = z
    BY <1>3 DEF OneOwner
  <1>4. ASSUME NEW c \in Block \ (F \ {b}) PROVE \E y \in Places : u[y] = c
    <2>1. CASE c = b
      BY <2>1
    <2>2. CASE c # b
      <3>1. PICK y \in Places : t[y] = c
        BY <2>2 DEF OneOwner
      <3>2. y # x
        BY <3>1, Numbers
      <3> QED
        BY <3>1, <3>2
    <2> QED
      BY <2>1, <2>2
  <1> QED
    BY <1>2, <1>3, <1>4 DEF OneOwner

LEMMA OwnerGives ==
    ASSUME NEW t, NEW F, F \subseteq Block, OneOwner(t, F),
           NEW x \in Places, t[x] # 0,
           NEW u, u \in [Places -> Block \cup {0}],
           \A y \in Places : u[y] = IF y = x THEN 0 ELSE t[y]
    PROVE  OneOwner(u, F \cup {t[x]})
  <1>1. t[x] \in Block \ F
    BY DEF OneOwner
  <1>2. ASSUME NEW y \in Places PROVE u[y] \notin F \cup {t[x]}
    BY <1>1, Numbers DEF OneOwner
  <1>3. ASSUME NEW y \in Places, NEW z \in Places, u[y] # 0, u[y] = u[z] PROVE y = z
    BY <1>3 DEF OneOwner
  <1>4. ASSUME NEW c \in Block \ (F \cup {t[x]}) PROVE \E y \in Places : u[y] = c
    <2>1. PICK y \in Places : t[y] = c
      BY DEF OneOwner
    <2> QED
      BY <2>1
  <1> QED
    BY <1>2, <1>3, <1>4 DEF OneOwner

-----------------------------------------------------------------------------
(* States, and what is true of them whenever no operation is under way.    *)
Zeros == [i \in 0 .. BLK - 1 |-> 0]
Junks == [i \in 0 .. BLK - 1 |-> Junk]
Inodes == [size : Nat, blocks : 0 .. NDIRECT + BLK,
           direct : [0 .. NDIRECT - 1 -> Block \cup {0}], indirect : Block \cup {0}]
Whys == {"", "block_alloc", "block_free", "out of range", "block inuse", "index <= blocks",
         "blocks != 0", "blocks == tblks", "tblks == blocks"}
States == [free : SUBSET Block, unused : Nat, cont : [Block -> [0 .. BLK - 1 -> Int]],
           disk : [File -> Inodes \cup {Stale}], din : [File -> Inodes],
           dirty : [File -> BOOLEAN], panic : Whys]

Holds(v) == [x \in Places |-> IF x[2] = Indirect THEN v.din[x[1]].indirect ELSE Pointer(v, x[1], x[2])]

Whole(v) == v \in States /\ v.unused = Cardinality(v.free)
Filled(v) == \A f \in File, i \in Index : Pointer(v, f, i) = 0 <=> i >= v.din[f].blocks
Core(v) == Whole(v) /\ Filled(v) /\ OneOwner(Holds(v), v.free)

LEMMA FieldsTyped ==
    ASSUME NEW v \in States
    PROVE  /\ v.free \subseteq Block /\ v.unused \in Nat /\ v.cont \in [Block -> [0 .. BLK - 1 -> Int]]
           /\ v.disk \in [File -> Inodes \cup {Stale}] /\ v.din \in [File -> Inodes]
           /\ v.dirty \in [File -> BOOLEAN] /\ v.panic \in Whys
  BY DEF States

LEMMA InodeTyped ==
    ASSUME NEW v \in States, NEW f \in File
    PROVE  /\ v.din[f].size \in Nat /\ v.din[f].blocks \in 0 .. NDIRECT + BLK
           /\ v.din[f].direct \in [0 .. NDIRECT - 1 -> Block \cup {0}]
           /\ v.din[f].indirect \in Block \cup {0}
  <1>1. v.din[f] \in Inodes
    BY FieldsTyped
  <1> QED
    BY <1>1 DEF Inodes

LEMMA FreeFinite == ASSUME NEW v \in States PROVE IsFiniteSet(v.free)
  <1>1. IsFiniteSet(Block)
    BY Numbers, FS_Interval DEF Block
  <1> QED
    BY <1>1, FieldsTyped, FS_Subset

(* In terms of files and indices. *)
LEMMA HoldsMeans ==
    ASSUME NEW v, NEW f \in File
    PROVE  /\ <<f, Indirect>> \in Places /\ Holds(v)[<<f, Indirect>>] = v.din[f].indirect
           /\ \A i \in Index : <<f, i>> \in Places /\ Holds(v)[<<f, i>>] = Pointer(v, f, i)
  <1>1. Indirect \notin Index
    BY Numbers DEF Index, Indirect
  <1> QED
    BY <1>1 DEF Holds, Places

LEMMA PlaceIs ==
    ASSUME NEW x \in Places
    PROVE  x = <<x[1], x[2]>> /\ x[1] \in File /\ (x[2] = Indirect \/ x[2] \in Index)
  BY DEF Places

LEMMA Owners ==
    ASSUME NEW v, Core(v), NEW f \in File
    PROVE  /\ v.din[f].indirect \in {0} \cup (Block \ v.free)
           /\ \A i \in Index : Pointer(v, f, i) \in {0} \cup (Block \ v.free)
           /\ \A g \in File : f # g /\ v.din[f].indirect # 0 => v.din[f].indirect # v.din[g].indirect
           /\ \A g \in File, i \in Index : v.din[f].indirect # 0 => v.din[f].indirect # Pointer(v, g, i)
           /\ \A g \in File, i, j \in Index :
                Pointer(v, f, i) # 0 /\ Pointer(v, f, i) = Pointer(v, g, j) => f = g /\ i = j
  <1> DEFINE t == Holds(v)
  <1>1. OneOwner(t, v.free)
    BY DEF Core
  <1>2. ASSUME NEW g \in File
        PROVE  /\ <<g, Indirect>> \in Places /\ t[<<g, Indirect>>] = v.din[g].indirect
               /\ \A i \in Index : <<g, i>> \in Places /\ t[<<g, i>>] = Pointer(v, g, i)
    BY HoldsMeans
  <1>3. Indirect \notin Index
    BY Numbers DEF Index, Indirect
  <1> HIDE DEF t
  <1>4. \A x \in Places : t[x] \in {0} \cup (Block \ v.free)
    BY <1>1 DEF OneOwner
  <1>5. \A x, y \in Places : t[x] # 0 /\ t[x] = t[y] => x = y
    BY <1>1 DEF OneOwner
  <1>6. ASSUME NEW g \in File, f # g, v.din[f].indirect # 0 PROVE v.din[f].indirect # v.din[g].indirect
    BY <1>2, <1>5, <1>6
  <1>7. ASSUME NEW g \in File, NEW i \in Index, v.din[f].indirect # 0 PROVE v.din[f].indirect # Pointer(v, g, i)
    <2>1. <<f, Indirect>> # <<g, i>>
      BY <1>3
    <2>2. <<f, Indirect>> \in Places /\ t[<<f, Indirect>>] = v.din[f].indirect
      BY <1>2
    <2>3. <<g, i>> \in Places /\ t[<<g, i>>] = Pointer(v, g, i)
      BY <1>2
    <2> QED
      BY <1>5, <1>7, <2>1, <2>2, <2>3
  <1>8. ASSUME NEW g \in File, NEW i \in Index, NEW j \in Index,
               Pointer(v, f, i) # 0, Pointer(v, f, i) = Pointer(v, g, j)
        PROVE  f = g /\ i = j
    <2>1. <<f, i>> \in Places /\ t[<<f, i>>] = Pointer(v, f, i)
      BY <1>2
    <2>2. <<g, j>> \in Places /\ t[<<g, j>>] = Pointer(v, g, j)
      BY <1>2
    <2>3. <<f, i>> = <<g, j>>
      BY <1>5, <1>8, <2>1, <2>2
    <2> QED
      BY <2>3
  <1>9. v.din[f].indirect \in {0} \cup (Block \ v.free)
    BY <1>2, <1>4
  <1>10. \A i \in Index : Pointer(v, f, i) \in {0} \cup (Block \ v.free)
    BY <1>2, <1>4
  <1> QED
    BY <1>6, <1>7, <1>8, <1>9, <1>10

-----------------------------------------------------------------------------
(* block_alloc and block_free. *)
Untouched(v, w) == w.disk = v.disk /\ w.din = v.din /\ w.dirty = v.dirty /\ w.panic = v.panic

Takes(v, w, b) ==
    /\ b \in v.free /\ Whole(w) /\ Untouched(v, w)
    /\ w.free = v.free \ {b} /\ w.cont = [v.cont EXCEPT ![b] = Zeros]

Gives(v, w, b) ==
    /\ Whole(w) /\ Untouched(v, w)
    /\ w.free = v.free \cup {b} /\ w.cont = [v.cont EXCEPT ![b] = Junks]

LEMMA AllocTakes ==
    ASSUME NEW v, Whole(v)
    PROVE  \/ block_alloc(v) = Failure(v)
           \/ \E w, b : block_alloc(v) = Success(w, b) /\ Takes(v, w, b)
  <1>1. CASE v.free = {}
    BY <1>1 DEF block_alloc
  <1>2. CASE v.free # {}
    <2> DEFINE b == Min(v.free)
    <2>1. b \in v.free /\ b \in Block
      BY <1>2, MinExists, Numbers, FieldsTyped DEF Block, Whole
    <2>2. /\ v \in States /\ v.unused = Cardinality(v.free) /\ IsFiniteSet(v.free)
          /\ Cardinality(v.free) \in Nat
      BY FreeFinite, FS_CardinalityType DEF Whole
    <2>3. Cardinality(v.free \ {b}) = v.unused - 1
      BY <2>1, <2>2, FS_RemoveElement
    <2>4. v.unused > 0
      BY <2>1, <2>2, FS_EmptySet
    <2> HIDE DEF b
    <2> DEFINE w == [v EXCEPT !.free = @ \ {b}, !.unused = @ - 1, !.cont[b] = Zeros]
    <2>5. block_alloc(v) = Success(w, b)
      BY <1>2, <2>4 DEF block_alloc, Check, b, Zeros
    <2>6. Zeros \in [0 .. BLK - 1 -> Int]
      BY DEF Zeros
    <2>7. /\ w.free = v.free \ {b} /\ w.unused = v.unused - 1 /\ w.cont = [v.cont EXCEPT ![b] = Zeros]
          /\ Untouched(v, w)
      BY <2>2 DEF States, Untouched
    <2>8. w \in States
      <3>1. v.unused - 1 \in Nat
        BY <2>2, <2>4
      <3>2. [v.cont EXCEPT ![b] = Zeros] \in [Block -> [0 .. BLK - 1 -> Int]]
        BY <2>1, <2>2, <2>6, FieldsTyped
      <3> QED
        BY <2>2, <3>1, <3>2 DEF States
    <2> HIDE DEF w
    <2>9. Takes(v, w, b)
      BY <2>1, <2>3, <2>7, <2>8 DEF Takes, Whole
    <2> QED
      BY <2>5, <2>9
  <1> QED
    BY <1>1, <1>2

LEMMA FreeGives ==
    ASSUME NEW v, Whole(v), NEW b \in Block \ v.free
    PROVE  Gives(v, block_free(v, b), b)
  <1>1. /\ v \in States /\ v.unused = Cardinality(v.free) /\ IsFiniteSet(v.free)
        /\ Cardinality(v.free) \in Nat
    BY FreeFinite, FS_CardinalityType DEF Whole
  <1>2. Cardinality(v.free \cup {b}) = v.unused + 1
    BY <1>1, FS_AddElement
  <1> DEFINE w == [v EXCEPT !.free = @ \cup {b}, !.unused = @ + 1, !.cont[b] = Junks]
  <1>3. block_free(v, b) = w
    BY DEF block_free, Check, Junks
  <1>4. Junks \in [0 .. BLK - 1 -> Int]
    BY DEF Junks, Junk
  <1>5. /\ w.free = v.free \cup {b} /\ w.unused = v.unused + 1 /\ w.cont = [v.cont EXCEPT ![b] = Junks]
        /\ Untouched(v, w)
    BY <1>1 DEF States, Untouched
  <1>6. w \in States
    <2>1. [v.cont EXCEPT ![b] = Junks] \in [Block -> [0 .. BLK - 1 -> Int]]
      BY <1>1, <1>4, FieldsTyped
    <2>2. v.free \cup {b} \in SUBSET Block /\ v.unused + 1 \in Nat
      BY <1>1, FieldsTyped
    <2> QED
      BY <1>1, <2>1, <2>2 DEF States
  <1> HIDE DEF w
  <1> QED
    BY <1>2, <1>3, <1>5, <1>6 DEF Gives, Whole

-----------------------------------------------------------------------------
(* Which block numbers are noted, and what changes them.                   *)
LEMMA PointerIs ==
    ASSUME NEW v, NEW f, NEW i \in Index
    PROVE  /\ i < NDIRECT => Pointer(v, f, i) = v.din[f].direct[i]
           /\ i >= NDIRECT /\ v.din[f].indirect = 0 => Pointer(v, f, i) = 0
           /\ i >= NDIRECT /\ v.din[f].indirect # 0 =>
                Pointer(v, f, i) = v.cont[v.din[f].indirect][i - NDIRECT]
  BY Numbers DEF Pointer, Index

LEMMA HoldsTyped ==
    ASSUME NEW v, v \in States, \A f \in File, i \in Index : Pointer(v, f, i) \in Block \cup {0}
    PROVE  Holds(v) \in [Places -> Block \cup {0}]
  <1>1. ASSUME NEW x \in Places
        PROVE  (IF x[2] = Indirect THEN v.din[x[1]].indirect ELSE Pointer(v, x[1], x[2])) \in Block \cup {0}
    BY PlaceIs, InodeTyped
  <1> QED
    BY <1>1 DEF Holds

(* The blocks of all others, and the pointer to f's indirect block. *)
OthersKeep(v, w, f) ==
    \A g \in File : g # f => /\ w.din[g].blocks = v.din[g].blocks /\ w.din[g].indirect = v.din[g].indirect
                             /\ \A i \in Index : Pointer(w, g, i) = Pointer(v, g, i)

(* f's own: block number b at index, 0 for none. *)
NotedAt(v, w, f, index, b) ==
    \A i \in Index : Pointer(w, f, i) = IF i = index THEN b ELSE Pointer(v, f, i)

LEMMA SameBlocks ==
    ASSUME NEW v, Core(v), NEW w, Whole(w), w.free = v.free,
           \A g \in File : /\ w.din[g].blocks = v.din[g].blocks /\ w.din[g].indirect = v.din[g].indirect
                           /\ \A i \in Index : Pointer(w, g, i) = Pointer(v, g, i)
    PROVE  Core(w)
  <1>1. Filled(w)
    BY DEF Core, Filled
  <1>2. ASSUME NEW x \in Places
        PROVE  (IF x[2] = Indirect THEN w.din[x[1]].indirect ELSE Pointer(w, x[1], x[2]))
                 = IF x[2] = Indirect THEN v.din[x[1]].indirect ELSE Pointer(v, x[1], x[2])
    BY PlaceIs
  <1>3. Holds(w) = Holds(v)
    BY <1>2 DEF Holds
  <1> QED
    BY <1>1, <1>3 DEF Core

(* A block more behind the last one of f. *)
LEMMA OneBlockMore ==
    ASSUME NEW v, Core(v), NEW f \in File, NEW w, Whole(w), NEW b \in v.free, w.free = v.free \ {b},
           NEW index \in Index, index = v.din[f].blocks, w.din[f].blocks = index + 1,
           w.din[f].indirect = v.din[f].indirect, OthersKeep(v, w, f),
           NotedAt(v, w, f, index, b)
    PROVE  Core(w)
  <1>0. ASSUME NEW i \in Index PROVE Pointer(w, f, i) = IF i = index THEN b ELSE Pointer(v, f, i)
    BY DEF NotedAt
  <1>1. b \in Block /\ b # 0 /\ v \in States /\ w \in States /\ v.free \subseteq Block
    BY FieldsTyped, Numbers DEF Core, Whole
  <1>2. Filled(w)
    <2>1. ASSUME NEW i \in Index PROVE Pointer(w, f, i) = 0 <=> i >= w.din[f].blocks
      <3>1. Pointer(v, f, i) = 0 <=> i >= index
        BY DEF Core, Filled
      <3> QED
        BY <1>0, <1>1, <3>1 DEF Index
    <2>2. ASSUME NEW g \in File, g # f, NEW i \in Index PROVE Pointer(w, g, i) = 0 <=> i >= w.din[g].blocks
      BY <2>2 DEF Core, Filled, OthersKeep
    <2> QED
      BY <2>1, <2>2 DEF Filled
  <1> DEFINE t == Holds(v)
             u == Holds(w)
             x == <<f, index>>
  <1>3. x \in Places /\ t[x] = 0
    <2>1. Pointer(v, f, index) = 0 <=> index >= index
      BY DEF Core, Filled
    <2>2. x \in Places /\ t[x] = Pointer(v, f, index)
      <3>1. \A i \in Index : <<f, i>> \in Places /\ Holds(v)[<<f, i>>] = Pointer(v, f, i)
        BY HoldsMeans
      <3> QED
        BY <3>1
    <2> QED
      BY <2>1, <2>2 DEF Index
  <1>4. \A g \in File, i \in Index : Pointer(w, g, i) \in Block \cup {0}
    BY <1>0, <1>1, Owners DEF OthersKeep
  <1>5. u \in [Places -> Block \cup {0}]
    BY <1>1, <1>4, HoldsTyped
  <1>6. ASSUME NEW y \in Places PROVE u[y] = IF y = x THEN b ELSE t[y]
    <2>1. PICK g \in File, i \in Index \cup {Indirect} : y = <<g, i>>
      BY DEF Places
    <2>2. Indirect \notin Index
      BY Numbers DEF Index, Indirect
    <2>3. CASE i = Indirect
      <3>1. u[y] = w.din[g].indirect /\ t[y] = v.din[g].indirect /\ y # x
        BY <2>1, <2>2, <2>3, HoldsMeans
      <3> QED
        BY <3>1 DEF OthersKeep
    <2>4. CASE i \in Index
      <3>1. u[y] = Pointer(w, g, i) /\ t[y] = Pointer(v, g, i) /\ (y = x <=> g = f /\ i = index)
        BY <2>1, <2>4, HoldsMeans
      <3> QED
        BY <1>0, <2>4, <3>1 DEF OthersKeep
    <2> QED
      BY <2>3, <2>4
  <1>7. OneOwner(t, v.free)
    BY DEF Core
  <1> HIDE DEF t, u, x
  <1>8. OneOwner(u, v.free \ {b})
    BY <1>1, <1>3, <1>5, <1>6, <1>7, OwnerTakes
  <1> QED
    BY <1>2, <1>8 DEF Core, u

(* The last block of f is given back. *)
LEMMA OneBlockLess ==
    ASSUME NEW v, Core(v), NEW f \in File, NEW w, Whole(w),
           NEW index \in Index, index + 1 = v.din[f].blocks, w.din[f].blocks = index,
           w.free = v.free \cup {Pointer(v, f, index)},
           w.din[f].indirect = v.din[f].indirect, OthersKeep(v, w, f),
           NotedAt(v, w, f, index, 0)
    PROVE  Core(w)
  <1>0. ASSUME NEW i \in Index PROVE Pointer(w, f, i) = IF i = index THEN 0 ELSE Pointer(v, f, i)
    BY DEF NotedAt
  <1>1. v \in States /\ w \in States /\ v.free \subseteq Block
    BY FieldsTyped, Numbers DEF Core, Whole
  <1>2. Filled(w)
    <2>1. ASSUME NEW i \in Index PROVE Pointer(w, f, i) = 0 <=> i >= w.din[f].blocks
      <3>1. Pointer(v, f, i) = 0 <=> i >= index + 1
        BY DEF Core, Filled
      <3> QED
        BY <1>0, <3>1 DEF Index
    <2>2. ASSUME NEW g \in File, g # f, NEW i \in Index PROVE Pointer(w, g, i) = 0 <=> i >= w.din[g].blocks
      BY <2>2 DEF Core, Filled, OthersKeep
    <2> QED
      BY <2>1, <2>2 DEF Filled
  <1> DEFINE t == Holds(v)
             u == Holds(w)
             x == <<f, index>>
  <1>3. x \in Places /\ t[x] = Pointer(v, f, index) /\ t[x] # 0
    <2>1. Pointer(v, f, index) = 0 <=> index >= index + 1
      BY DEF Core, Filled
    <2>2. x \in Places /\ t[x] = Pointer(v, f, index)
      <3>1. \A i \in Index : <<f, i>> \in Places /\ Holds(v)[<<f, i>>] = Pointer(v, f, i)
        BY HoldsMeans
      <3> QED
        BY <3>1
    <2>3. Pointer(v, f, index) # 0
      BY <2>1 DEF Index
    <2> QED
      BY <2>2, <2>3
  <1>4. \A g \in File, i \in Index : Pointer(w, g, i) \in Block \cup {0}
    BY <1>0, <1>1, Owners DEF OthersKeep
  <1>5. u \in [Places -> Block \cup {0}]
    BY <1>1, <1>4, HoldsTyped
  <1>6. ASSUME NEW y \in Places PROVE u[y] = IF y = x THEN 0 ELSE t[y]
    <2>1. PICK g \in File, i \in Index \cup {Indirect} : y = <<g, i>>
      BY DEF Places
    <2>2. Indirect \notin Index
      BY Numbers DEF Index, Indirect
    <2>3. CASE i = Indirect
      <3>1. u[y] = w.din[g].indirect /\ t[y] = v.din[g].indirect /\ y # x
        BY <2>1, <2>2, <2>3, HoldsMeans
      <3> QED
        BY <3>1 DEF OthersKeep
    <2>4. CASE i \in Index
      <3>1. u[y] = Pointer(w, g, i) /\ t[y] = Pointer(v, g, i) /\ (y = x <=> g = f /\ i = index)
        BY <2>1, <2>4, HoldsMeans
      <3> QED
        BY <1>0, <2>4, <3>1 DEF OthersKeep
    <2> QED
      BY <2>3, <2>4
  <1>7. OneOwner(t, v.free)
    BY DEF Core
  <1> HIDE DEF t, u, x
  <1>8. OneOwner(u, v.free \cup {t[x]})
    BY <1>1, <1>3, <1>5, <1>6, <1>7, OwnerGives
  <1>9. OneOwner(u, w.free)
    BY <1>3, <1>8
  <1> QED
    BY <1>2, <1>9 DEF Core, u

-----------------------------------------------------------------------------
(* What is in a file, unit by unit; behind its last block there are zeros. *)
Unit(v, f, n) ==
    IF n \div BLK < v.din[f].blocks THEN v.cont[Pointer(v, f, n \div BLK)][n % BLK] ELSE 0

SameIn(v, w, f) == \A n \in Nat : Unit(w, f, n) = Unit(v, f, n)
SameUnits(v, w) == \A f \in File : SameIn(v, w, f)
OtherUnits(v, w, f) == \A g \in File : g # f => SameIn(v, w, g)

(* The data blocks of g are the ones they were, with what is in them.      *)
SameData(v, w, g) ==
    \A i \in Index : i < v.din[g].blocks =>
        /\ Pointer(w, g, i) = Pointer(v, g, i)
        /\ w.cont[Pointer(v, g, i)] = v.cont[Pointer(v, g, i)]

LEMMA UnitIn ==
    ASSUME NEW v, v \in States, NEW f \in File, NEW n \in Nat
    PROVE  /\ n \div BLK \in Nat /\ n % BLK \in 0 .. BLK - 1
           /\ n \div BLK < v.din[f].blocks => n \div BLK \in Index
  <1>1. /\ n \div BLK \in Nat /\ n % BLK \in 0 .. BLK - 1
    BY Numbers
  <1>2. v.din[f].blocks \in 0 .. NDIRECT + BLK
    BY InodeTyped
  <1>3. NDIRECT \in Nat /\ BLK \in Nat
    BY Numbers
  <1>4. PICK q \in Nat : q = n \div BLK
    BY <1>1
  <1>5. q < v.din[f].blocks => q \in Index
    BY <1>2, <1>3 DEF Index
  <1> QED
    BY <1>1, <1>4, <1>5

LEMMA UnitsStay ==
    ASSUME NEW v, v \in States, NEW g \in File, NEW w, w.din[g].blocks = v.din[g].blocks, SameData(v, w, g)
    PROVE  SameIn(v, w, g)
  <1> SUFFICES ASSUME NEW n \in Nat PROVE Unit(w, g, n) = Unit(v, g, n)
    BY DEF SameIn
  <1>1. n \div BLK < v.din[g].blocks => n \div BLK \in Index
    BY UnitIn
  <1>2. PICK i : i = n \div BLK
    OBVIOUS
  <1> QED
    BY <1>1, <1>2 DEF Unit, SameData

(* A new block makes no difference, because it is cleared.                 *)
LEMMA UnitsGrow ==
    ASSUME NEW v, v \in States, NEW g \in File, NEW w, w \in States, w.din[g].blocks = v.din[g].blocks + 1,
           SameData(v, w, g), w.cont[Pointer(w, g, v.din[g].blocks)] = Zeros
    PROVE  SameIn(v, w, g)
  <1> SUFFICES ASSUME NEW n \in Nat PROVE Unit(w, g, n) = Unit(v, g, n)
    BY DEF SameIn
  <1>1. v.din[g].blocks \in Nat
    BY InodeTyped, Numbers
  <1>2. PICK i \in Nat, o \in 0 .. BLK - 1 : i = n \div BLK /\ o = n % BLK
    BY UnitIn
  <1>3. i < v.din[g].blocks => i \in Index
    BY <1>2, UnitIn
  <1>4. Unit(v, g, n) = IF i < v.din[g].blocks THEN v.cont[Pointer(v, g, i)][o] ELSE 0
    BY <1>2 DEF Unit
  <1>5. Unit(w, g, n) = IF i < v.din[g].blocks + 1 THEN w.cont[Pointer(w, g, i)][o] ELSE 0
    BY <1>2 DEF Unit
  <1>6. CASE i < v.din[g].blocks
    <2>1. i < v.din[g].blocks + 1
      BY <1>1, <1>6
    <2> QED
      BY <1>3, <1>4, <1>5, <1>6, <2>1 DEF SameData
  <1>7. CASE i = v.din[g].blocks
    <2>1. Unit(v, g, n) = 0 /\ Unit(w, g, n) = w.cont[Pointer(w, g, i)][o]
      BY <1>1, <1>4, <1>5, <1>7
    <2>2. w.cont[Pointer(w, g, i)] = Zeros
      BY <1>7
    <2>3. Zeros[o] = 0
      BY DEF Zeros
    <2> QED
      BY <2>1, <2>2, <2>3
  <1>8. CASE i > v.din[g].blocks
    BY <1>1, <1>4, <1>5, <1>8
  <1> QED
    BY <1>1, <1>6, <1>7, <1>8

LEMMA SameInTwice ==
    ASSUME NEW u, NEW v, NEW w, NEW g, SameIn(u, v, g), SameIn(v, w, g)
    PROVE  SameIn(u, w, g)
  BY DEF SameIn

(* The data blocks of g are not free: it is enough that those keep.        *)
CalmBlocks(v, w) == \A c \in Block \ v.free : w.cont[c] = v.cont[c]
SamePointers(v, w, g) == \A i \in Index : Pointer(w, g, i) = Pointer(v, g, i)

LEMMA DataStay ==
    ASSUME NEW v, Core(v), NEW g \in File, NEW w, SamePointers(v, w, g), CalmBlocks(v, w)
    PROVE  SameData(v, w, g)
  <1> SUFFICES ASSUME NEW i \in Index, i < v.din[g].blocks
               PROVE  /\ Pointer(w, g, i) = Pointer(v, g, i)
                      /\ w.cont[Pointer(v, g, i)] = v.cont[Pointer(v, g, i)]
    BY DEF SameData
  <1>1. i \in Nat /\ v.din[g].blocks \in Nat
    BY InodeTyped, Numbers DEF Core, Whole, Index
  <1>2. Pointer(v, g, i) # 0
    BY <1>1 DEF Core, Filled
  <1>3. Pointer(v, g, i) \in Block \ v.free
    BY <1>2, Owners
  <1> QED
    BY <1>3 DEF CalmBlocks, SamePointers

LEMMA SameDataBelow ==
    ASSUME NEW v, Core(v), NEW f \in File, NEW index \in Index, index = v.din[f].blocks, NEW w, NEW b,
           NotedAt(v, w, f, index, b), CalmBlocks(v, w)
    PROVE  SameData(v, w, f)
  <1> SUFFICES ASSUME NEW i \in Index, i < v.din[f].blocks
               PROVE  /\ Pointer(w, f, i) = Pointer(v, f, i)
                      /\ w.cont[Pointer(v, f, i)] = v.cont[Pointer(v, f, i)]
    BY DEF SameData
  <1>1. i \in Nat /\ index \in Nat
    BY Numbers DEF Index
  <1>2. Pointer(v, f, i) # 0 /\ i # index
    BY <1>1 DEF Core, Filled
  <1>3. Pointer(v, f, i) \in Block \ v.free
    BY <1>2, Owners
  <1> QED
    BY <1>2, <1>3 DEF NotedAt, CalmBlocks

-----------------------------------------------------------------------------
(* bmap_load: the block behind the last one is added, or nothing happens.  *)
Aside(v, w, f) ==
    /\ w.disk = v.disk /\ w.panic = v.panic
    /\ \A g \in File : g # f => w.din[g] = v.din[g] /\ w.dirty[g] = v.dirty[g]

Grown(v, w, b, f) ==
    /\ Core(w) /\ Aside(v, w, f)
    /\ w.din[f].size = v.din[f].size /\ w.din[f].blocks = v.din[f].blocks + 1
    /\ b = Pointer(w, f, v.din[f].blocks) /\ SameUnits(v, w)

GrownOrNot(v, g, f) ==
    \/ \E w, b : g = Success(w, b) /\ Grown(v, w, b, f)
    \/ \E w : g = Failure(w) /\ Core(w) /\ Untouched(v, w) /\ SameUnits(v, w)

LEMMA PointersKeep ==
    ASSUME NEW v, Core(v), NEW g \in File, NEW w,
           w.din[g].direct = v.din[g].direct, w.din[g].indirect = v.din[g].indirect,
           v.din[g].indirect \in Block \ v.free => w.cont[v.din[g].indirect] = v.cont[v.din[g].indirect]
    PROVE  \A i \in Index : Pointer(w, g, i) = Pointer(v, g, i)
  <1>1. v.din[g].indirect \in {0} \cup (Block \ v.free)
    BY Owners
  <1> QED
    BY <1>1 DEF Pointer

SameNotes(v, w, g) ==
    /\ w.din[g].direct = v.din[g].direct /\ w.din[g].indirect = v.din[g].indirect
    /\ v.din[g].indirect \in Block \ v.free => w.cont[v.din[g].indirect] = v.cont[v.din[g].indirect]

LEMMA NotesKeep ==
    ASSUME NEW v, Core(v), NEW g \in File, NEW w, SameNotes(v, w, g)
    PROVE  \A i \in Index : Pointer(w, g, i) = Pointer(v, g, i)
  BY PointersKeep DEF SameNotes

(* What bmap_load makes of what it gets. *)
Created(v, f, index) == bmap_get(v, f, index, TRUE)

LEMMA LoadGets ==
    ASSUME NEW v, NEW f, NEW index, index = v.din[f].blocks,
           NEW g, Created(v, f, index) = g
    PROVE  bmap_get(v, f, index, index = v.din[f].blocks) = g
  <1>1. (index = v.din[f].blocks) = TRUE
    OBVIOUS
  <1> QED
    BY <1>1, Zenon DEF Created

LEMMA LoadFails ==
    ASSUME NEW v, v \in States, NEW f \in File, NEW index \in Index, index = v.din[f].blocks,
           NEW w, Created(v, f, index) = Failure(w)
    PROVE  bmap_load(v, f, index) = Failure(w)
  <1>1. ~(index > v.din[f].blocks)
    BY InodeTyped
  <1>2. ~Failure(w).ok
    BY DEF Failure
  <1>3. bmap_get(v, f, index, index = v.din[f].blocks) = Failure(w)
    BY LoadGets
  <1> QED
    BY <1>1, <1>2, <1>3, Zenon DEF bmap_load

OneMore(x, f) == [x EXCEPT !.din[f].blocks = @ + 1]

LEMMA LoadSucceeds ==
    ASSUME NEW v, v \in States, NEW f \in File, NEW index \in Index, index = v.din[f].blocks,
           NEW x, NEW b, b \in Block, b \notin x.free, Created(v, f, index) = Success(x, b)
    PROVE  bmap_load(v, f, index) = Success(OneMore(x, f), b)
  <1>1. ~(index > v.din[f].blocks)
    BY InodeTyped
  <1>2. Success(x, b).ok /\ Success(x, b).v = x /\ Success(x, b).ino = b
    BY DEF Success
  <1>3. bmap_get(v, f, index, index = v.din[f].blocks) = Success(x, b)
    BY LoadGets
  <1> QED
    BY <1>1, <1>2, <1>3, Zenon DEF bmap_load, Check, OneMore

-----------------------------------------------------------------------------
(* Changes of one field. *)
SameBut(u, w) ==
    /\ w \in States /\ w.free = u.free /\ w.unused = u.unused /\ w.cont = u.cont
    /\ w.disk = u.disk /\ w.panic = u.panic

Inode(u, w, f, n) == w.din[f] = n /\ \A g \in File : g # f => w.din[g] = u.din[g]

LEMMA NewInode ==
    ASSUME NEW u \in States, NEW f \in File, NEW n \in Inodes, NEW w,
           w = [u EXCEPT !.din = [u.din EXCEPT ![f] = n]]
    PROVE  SameBut(u, w) /\ Inode(u, w, f, n) /\ w.dirty = u.dirty
  <1>1. [u.din EXCEPT ![f] = n] \in [File -> Inodes]
    BY FieldsTyped
  <1>2. SameBut(u, w) /\ w.din = [u.din EXCEPT ![f] = n] /\ w.dirty = u.dirty
    BY <1>1 DEF States, SameBut
  <1> HIDE DEF States
  <1> QED
    BY <1>2, FieldsTyped DEF Inode

LEMMA NewDirect ==
    ASSUME NEW u \in States, NEW f \in File, NEW i \in 0 .. NDIRECT - 1, NEW b \in Block \cup {0}, NEW w,
           w = [u EXCEPT !.din[f].direct[i] = b]
    PROVE  /\ SameBut(u, w) /\ w.dirty = u.dirty
           /\ Inode(u, w, f, [u.din[f] EXCEPT !.direct = [u.din[f].direct EXCEPT ![i] = b]])
  <1> DEFINE n == [u.din[f] EXCEPT !.direct = [u.din[f].direct EXCEPT ![i] = b]]
  <1>1. n \in Inodes
    <2>1. u.din[f] \in Inodes
      BY FieldsTyped
    <2>2. [u.din[f].direct EXCEPT ![i] = b] \in [0 .. NDIRECT - 1 -> Block \cup {0}]
      BY InodeTyped
    <2> QED
      BY <2>1, <2>2 DEF Inodes
  <1>2. w = [u EXCEPT !.din = [u.din EXCEPT ![f] = n]]
    OBVIOUS
  <1> HIDE DEF n
  <1>3. SameBut(u, w) /\ w.dirty = u.dirty /\ Inode(u, w, f, n)
    BY <1>1, <1>2, NewInode
  <1> QED
    BY <1>3 DEF n

LEMMA NewBlocks ==
    ASSUME NEW u \in States, NEW f \in File, NEW k \in 0 .. NDIRECT + BLK, NEW w,
           w = [u EXCEPT !.din[f].blocks = k]
    PROVE  /\ SameBut(u, w) /\ w.dirty = u.dirty
           /\ Inode(u, w, f, [u.din[f] EXCEPT !.blocks = k])
  <1> DEFINE n == [u.din[f] EXCEPT !.blocks = k]
  <1>1. n \in Inodes
    <2>1. u.din[f] \in Inodes
      BY FieldsTyped
    <2> QED
      BY <2>1 DEF Inodes
  <1>2. w = [u EXCEPT !.din = [u.din EXCEPT ![f] = n]]
    OBVIOUS
  <1> HIDE DEF n
  <1>3. SameBut(u, w) /\ w.dirty = u.dirty /\ Inode(u, w, f, n)
    BY <1>1, <1>2, NewInode
  <1> QED
    BY <1>3 DEF n

LEMMA NewIndirect ==
    ASSUME NEW u \in States, NEW f \in File, NEW b \in Block \cup {0}, NEW w,
           w = [u EXCEPT !.din[f].indirect = b]
    PROVE  /\ SameBut(u, w) /\ w.dirty = u.dirty
           /\ Inode(u, w, f, [u.din[f] EXCEPT !.indirect = b])
  <1> DEFINE n == [u.din[f] EXCEPT !.indirect = b]
  <1>1. n \in Inodes
    <2>1. u.din[f] \in Inodes
      BY FieldsTyped
    <2> QED
      BY <2>1 DEF Inodes
  <1>2. w = [u EXCEPT !.din = [u.din EXCEPT ![f] = n]]
    OBVIOUS
  <1> HIDE DEF n
  <1>3. SameBut(u, w) /\ w.dirty = u.dirty /\ Inode(u, w, f, n)
    BY <1>1, <1>2, NewInode
  <1> QED
    BY <1>3 DEF n

LEMMA NewSize ==
    ASSUME NEW u \in States, NEW f \in File, NEW k \in Nat, NEW w,
           w = [u EXCEPT !.din[f].size = k]
    PROVE  /\ SameBut(u, w) /\ w.dirty = u.dirty
           /\ Inode(u, w, f, [u.din[f] EXCEPT !.size = k])
  <1> DEFINE n == [u.din[f] EXCEPT !.size = k]
  <1>1. n \in Inodes
    <2>1. u.din[f] \in Inodes
      BY FieldsTyped
    <2> QED
      BY <2>1 DEF Inodes
  <1>2. w = [u EXCEPT !.din = [u.din EXCEPT ![f] = n]]
    OBVIOUS
  <1> HIDE DEF n
  <1>3. SameBut(u, w) /\ w.dirty = u.dirty /\ Inode(u, w, f, n)
    BY <1>1, <1>2, NewInode
  <1> QED
    BY <1>3 DEF n

Marked(u, w, f) ==
    /\ SameBut(u, w) /\ w.din = u.din /\ w.dirty[f]
    /\ \A g \in File : g # f => w.dirty[g] = u.dirty[g]

MarkDirty(u, f) == [u EXCEPT !.dirty[f] = TRUE]

LEMMA SetDirty ==
    ASSUME NEW u \in States, NEW f \in File
    PROVE  Marked(u, MarkDirty(u, f), f)
  <1> DEFINE D == [u.dirty EXCEPT ![f] = TRUE]
             w == MarkDirty(u, f)
  <1>1. D \in [File -> BOOLEAN] /\ D[f] /\ \A g \in File : g # f => D[g] = u.dirty[g]
    BY FieldsTyped
  <1>2. w = [u EXCEPT !.dirty = D]
    BY DEF MarkDirty
  <1> HIDE DEF D, w
  <1>3. SameBut(u, w) /\ w.din = u.din /\ w.dirty = D
    BY <1>1, <1>2 DEF States, SameBut
  <1> QED
    BY <1>1, <1>3, Zenon DEF Marked, w

EntrySet(u, w, e, i, b) ==
    /\ w \in States /\ w.free = u.free /\ w.unused = u.unused /\ Untouched(u, w)
    /\ w.cont = [u.cont EXCEPT ![e] = [u.cont[e] EXCEPT ![i] = b]]

SetEntry(u, e, i, b) == [u EXCEPT !.cont[e][i] = b]

LEMMA NewEntry ==
    ASSUME NEW u \in States, NEW e \in Block, NEW i \in 0 .. BLK - 1, NEW b \in Int
    PROVE  EntrySet(u, SetEntry(u, e, i, b), e, i, b)
  <1>1. [u.cont EXCEPT ![e] = [u.cont[e] EXCEPT ![i] = b]] \in [Block -> [0 .. BLK - 1 -> Int]]
    <2>1. u.cont[e] \in [0 .. BLK - 1 -> Int]
      BY FieldsTyped
    <2> QED
      BY <2>1, FieldsTyped
  <1> QED
    BY <1>1 DEF States, Untouched, EntrySet, SetEntry

-----------------------------------------------------------------------------
LEMMA LoadDirect ==
    ASSUME NEW v, Core(v), NEW f \in File, NEW index \in Index, index = v.din[f].blocks, index < NDIRECT
    PROVE  GrownOrNot(v, bmap_load(v, f, index), f)
  <1>0. /\ v \in States /\ Whole(v) /\ Pointer(v, f, index) = 0 /\ index \in 0 .. NDIRECT - 1
        /\ ~(index >= NDIRECT + BLK) /\ ~(index >= NDIRECT)
    <2>1. Pointer(v, f, index) = 0 <=> index >= index
      BY DEF Core, Filled
    <2>2. index \in 0 .. NDIRECT - 1
      BY Numbers DEF Index
    <2> QED
      BY <2>1, <2>2, Numbers DEF Core, Whole
  <1>1. CASE block_alloc(v) = Failure(v)
    <2>1. Created(v, f, index) = Failure(v)
      BY <1>0, <1>1 DEF Created, bmap_get, Failure
    <2>2. bmap_load(v, f, index) = Failure(v)
      BY <1>0, <2>1, LoadFails
    <2> QED
      BY <2>2 DEF GrownOrNot, Untouched, SameUnits, SameIn
  <1>2. ASSUME NEW u, NEW b, block_alloc(v) = Success(u, b), Takes(v, u, b)
        PROVE  GrownOrNot(v, bmap_load(v, f, index), f)
    <2> DEFINE x == [u EXCEPT !.din[f].direct[index] = b, !.dirty[f] = TRUE]
               w == OneMore(x, f)
    <2>1. Created(v, f, index) = Success(x, b)
      BY <1>0, <1>2 DEF Created, bmap_get, Success
    <2>2. /\ u \in States /\ u.din = v.din /\ u.dirty = v.dirty /\ u.disk = v.disk /\ u.panic = v.panic
          /\ u.free = v.free \ {b} /\ b \in v.free /\ b \in Block /\ u.cont = [v.cont EXCEPT ![b] = Zeros]
          /\ u.unused = Cardinality(u.free)
      BY <1>0, <1>2, FieldsTyped DEF Takes, Untouched, Whole
    <2>3. x.free = u.free
      BY <2>2 DEF States
    <2>4. bmap_load(v, f, index) = Success(w, b)
      <3>1. b \in Block /\ b \notin x.free
        BY <2>2, <2>3
      <3> HIDE DEF x
      <3> QED
        BY <1>0, <2>1, <3>1, LoadSucceeds
    <2>5. /\ v.din[f] \in Inodes /\ v.din[f].direct \in [0 .. NDIRECT - 1 -> Block \cup {0}]
          /\ index + 1 \in 0 .. NDIRECT + BLK
      BY <1>0, FieldsTyped, InodeTyped, Numbers DEF Index
    <2> DEFINE m == [v.din[f] EXCEPT !.direct = [v.din[f].direct EXCEPT ![index] = b]]
               y == [u EXCEPT !.din[f].direct[index] = b]
    <2>6. SameBut(u, y) /\ y.dirty = u.dirty /\ Inode(u, y, f, m)
      <3>1. /\ SameBut(u, y) /\ y.dirty = u.dirty
            /\ Inode(u, y, f, [u.din[f] EXCEPT !.direct = [u.din[f].direct EXCEPT ![index] = b]])
        <4> HIDE DEF y
        <4> QED
          BY <1>0, <2>2, NewDirect DEF y
      <3> QED
        BY <2>2, <3>1
    <2>7. x = MarkDirty(y, f)
      BY DEF MarkDirty
    <2> HIDE DEF y, x
    <2>8. /\ SameBut(u, x) /\ Inode(u, x, f, m)
          /\ \A g \in File : g # f => x.dirty[g] = u.dirty[g]
      <3>1. y \in States
        BY <2>6 DEF SameBut
      <3> HIDE DEF w, m
      <3>2. /\ SameBut(y, x) /\ x.din = y.din
            /\ \A g \in File : g # f => x.dirty[g] = y.dirty[g]
        BY <2>7, <3>1, SetDirty DEF Marked
      <3> QED
        BY <2>6, <3>2 DEF SameBut, Inode
    <2>8a. x.din[f].blocks = index /\ m \in Inodes
      BY <2>5, <2>8, <1>0, <2>2 DEF Inode, Inodes
    <2> HIDE DEF m
    <2>8b. /\ SameBut(x, w) /\ w.dirty = x.dirty
           /\ Inode(x, w, f, [x.din[f] EXCEPT !.blocks = index + 1])
      <3>1. w = [x EXCEPT !.din[f].blocks = index + 1]
        BY <2>8a DEF OneMore
      <3> HIDE DEF w
      <3> QED
        BY <2>5, <2>8, <3>1, NewBlocks DEF SameBut
    <2> HIDE DEF w
    <2>8c. /\ w \in States /\ w.free = u.free /\ w.unused = u.unused /\ w.cont = u.cont
           /\ Aside(u, w, f) /\ w.din[f] = [m EXCEPT !.blocks = index + 1]
      BY <2>8, <2>8b DEF SameBut, Inode, Aside
    <2>8d. /\ w.din[f].size = v.din[f].size /\ w.din[f].blocks = index + 1
           /\ w.din[f].indirect = v.din[f].indirect
           /\ w.din[f].direct = [v.din[f].direct EXCEPT ![index] = b]
      BY <2>5, <2>8a, <2>8c DEF m, Inodes
    <2>9. Aside(v, w, f)
      BY <2>2, <2>8c DEF Aside
    <2>10. OthersKeep(v, w, f)
      <3>1. ASSUME NEW o \in File, o # f PROVE \A i \in Index : Pointer(w, o, i) = Pointer(v, o, i)
        <4>1. w.din[o] = v.din[o]
          BY <2>9, <3>1 DEF Aside
        <4>2. ASSUME v.din[o].indirect \in Block \ v.free
              PROVE  w.cont[v.din[o].indirect] = v.cont[v.din[o].indirect]
          BY <2>2, <2>8c, <4>2
        <4> QED
          BY <4>1, <4>2, PointersKeep
      <3> QED
        BY <2>9, <3>1 DEF OthersKeep, Aside
    <2>11. NotedAt(v, w, f, index, b)
      <3> SUFFICES ASSUME NEW i \in Index PROVE Pointer(w, f, i) = IF i = index THEN b ELSE Pointer(v, f, i)
        BY DEF NotedAt
      <3>1. v.din[f].indirect \in {0} \cup (Block \ v.free)
        BY Owners
      <3>2. v.din[f].indirect \in Block \ v.free => w.cont[v.din[f].indirect] = v.cont[v.din[f].indirect]
        BY <2>2, <2>8c
      <3>3. CASE i < NDIRECT
        <4>1. i \in 0 .. NDIRECT - 1
          BY <3>3, Numbers DEF Index
        <4> QED
          BY <2>5, <2>8d, <3>3, <4>1 DEF Pointer
      <3>4. CASE ~(i < NDIRECT)
        BY <1>0, <2>8d, <2>8c, <3>1, <3>2, <3>4 DEF Pointer
      <3> QED
        BY <3>3, <3>4
    <2>12. Whole(w) /\ w.free = v.free \ {b}
      BY <2>2, <2>8c DEF Whole
    <2>13. Core(w)
      BY <2>2, <2>8d, <2>8c, <2>10, <2>11, <2>12, OneBlockMore
    <2>13a. SameUnits(v, w)
      <3>1. CalmBlocks(v, w)
        BY <2>2, <2>8c DEF CalmBlocks
      <3>2. ASSUME NEW g \in File, g # f PROVE SameIn(v, w, g)
        <4>1. w.din[g].blocks = v.din[g].blocks /\ SamePointers(v, w, g)
          BY <2>10, <3>2 DEF OthersKeep, SamePointers
        <4>2. SameData(v, w, g)
          BY <3>1, <4>1, DataStay
        <4> QED
          BY <1>0, <4>1, <4>2, UnitsStay
      <3>3. SameIn(v, w, f)
        <4>1. SameData(v, w, f)
          BY <1>0, <2>11, <3>1, SameDataBelow
        <4>2. w.cont[Pointer(w, f, index)] = Zeros
          <5>1. Pointer(w, f, index) = b
            BY <2>11 DEF NotedAt
          <5> QED
            BY <1>0, <2>2, <2>8c, <5>1, FieldsTyped
        <4> QED
          BY <1>0, <2>8c, <2>8d, <4>1, <4>2, UnitsGrow
      <3> QED
        BY <3>2, <3>3 DEF SameUnits
    <2>14. Grown(v, w, b, f)
      BY <2>8d, <2>9, <2>11, <2>13, <2>13a DEF Grown, NotedAt
    <2> QED
      BY <2>4, <2>14 DEF GrownOrNot
  <1> QED
    BY <1>0, <1>1, <1>2, AllocTakes

(* Into an indirect block e: both the one f has and one that is new.       *)
Noted(d, f, e, entry, b, D) ==
    [d EXCEPT !.cont[e][entry] = b, !.din[f].indirect = e, !.dirty[f] = D]

LEMMA NotedIs ==
    ASSUME NEW u, u \in States, NEW f \in File, NEW e \in Block, NEW entry \in 0 .. BLK - 1, NEW b \in Block,
           NEW D, D \in BOOLEAN
    PROVE  LET w == Noted(u, f, e, entry, b, D)
           IN  /\ w \in States /\ w.free = u.free /\ w.unused = u.unused /\ Aside(u, w, f)
               /\ w.din[f] = [u.din[f] EXCEPT !.indirect = e]
               /\ w.cont = [u.cont EXCEPT ![e] = [u.cont[e] EXCEPT ![entry] = b]]
  <1> DEFINE C == [u.cont EXCEPT ![e] = [u.cont[e] EXCEPT ![entry] = b]]
             n == [u.din[f] EXCEPT !.indirect = e]
             N == [u.din EXCEPT ![f] = n]
             B == [u.dirty EXCEPT ![f] = D]
             w == Noted(u, f, e, entry, b, D)
  <1>1. w = [u EXCEPT !.cont = C, !.din = N, !.dirty = B]
    BY DEF States, Noted
  <1>2. C \in [Block -> [0 .. BLK - 1 -> Int]]
    <2>1. u.cont[e] \in [0 .. BLK - 1 -> Int]
      BY FieldsTyped
    <2>2. b \in Int
      BY DEF Block
    <2> QED
      BY <2>1, <2>2, FieldsTyped
  <1>3. N \in [File -> Inodes] /\ N[f] = n /\ \A g \in File : g # f => N[g] = u.din[g]
    <2>1. u.din[f] \in Inodes
      BY FieldsTyped
    <2>2. n \in Inodes
      BY <2>1 DEF Inodes
    <2> HIDE DEF n
    <2> QED
      BY <2>2, FieldsTyped
  <1>4. B \in [File -> BOOLEAN] /\ \A g \in File : g # f => B[g] = u.dirty[g]
    BY FieldsTyped
  <1> HIDE DEF w, C, N, B
  <1>5. /\ w \in States /\ w.free = u.free /\ w.unused = u.unused /\ w.disk = u.disk /\ w.panic = u.panic
        /\ w.cont = C /\ w.din = N /\ w.dirty = B
    BY <1>1, <1>2, <1>3, <1>4 DEF States
  <1>6. Aside(u, w, f)
    BY <1>3, <1>4, <1>5 DEF Aside
  <1> QED
    BY <1>3, <1>5, <1>6 DEF w, C

(* The block is noted in e, and there is one block more: what bmap_load     *)
(* leaves.                                                                 *)
LEMMA NotedAndCounted ==
    ASSUME NEW u, u \in States, NEW f \in File, NEW e \in Block, NEW entry \in 0 .. BLK - 1, NEW b \in Block,
           NEW D, D \in BOOLEAN, NEW k \in 0 .. NDIRECT + BLK - 1, u.din[f].blocks = k
    PROVE  LET w == OneMore(Noted(u, f, e, entry, b, D), f)
           IN  /\ w \in States /\ w.free = u.free /\ w.unused = u.unused /\ Aside(u, w, f)
               /\ w.din[f].size = u.din[f].size /\ w.din[f].blocks = k + 1
               /\ w.din[f].direct = u.din[f].direct /\ w.din[f].indirect = e
               /\ w.cont = [u.cont EXCEPT ![e] = [u.cont[e] EXCEPT ![entry] = b]]
  <1> DEFINE x == Noted(u, f, e, entry, b, D)
             w == OneMore(x, f)
  <1>1. /\ x \in States /\ x.free = u.free /\ x.unused = u.unused /\ Aside(u, x, f)
        /\ x.din[f] = [u.din[f] EXCEPT !.indirect = e]
        /\ x.cont = [u.cont EXCEPT ![e] = [u.cont[e] EXCEPT ![entry] = b]]
    BY NotedIs
  <1> HIDE DEF x
  <1>2. u.din[f] \in Inodes /\ k + 1 \in 0 .. NDIRECT + BLK
    BY FieldsTyped, Numbers
  <1>3. /\ x.din[f].blocks = k /\ x.din[f].size = u.din[f].size /\ x.din[f].direct = u.din[f].direct
        /\ x.din[f].indirect = e /\ x.din[f] \in Inodes
    BY <1>1, <1>2 DEF Inodes
  <1>4. w = [x EXCEPT !.din[f].blocks = k + 1]
    BY <1>3 DEF OneMore
  <1> HIDE DEF w
  <1>5. SameBut(x, w) /\ w.dirty = x.dirty /\ Inode(x, w, f, [x.din[f] EXCEPT !.blocks = k + 1])
    <2>1. PICK m \in 0 .. NDIRECT + BLK : m = k + 1
      BY <1>2
    <2>2. x \in States /\ w = [x EXCEPT !.din[f].blocks = m]
      BY <1>1, <1>4, <2>1
    <2>3. SameBut(x, w) /\ w.dirty = x.dirty /\ Inode(x, w, f, [x.din[f] EXCEPT !.blocks = m])
      BY <2>2, NewBlocks
    <2> QED
      BY <2>1, <2>3
  <1>6. /\ w.din[f].blocks = k + 1 /\ w.din[f].size = u.din[f].size /\ w.din[f].direct = u.din[f].direct
        /\ w.din[f].indirect = e
    BY <1>3, <1>5 DEF Inode, Inodes
  <1>7. Aside(u, w, f)
    BY <1>1, <1>5 DEF Aside, SameBut, Inode
  <1> QED
    BY <1>1, <1>5, <1>6, <1>7 DEF w, x, SameBut

(* f gets an indirect block without entries. *)
LEMMA IndirectMore ==
    ASSUME NEW v, Core(v), NEW f \in File, v.din[f].indirect = 0, NEW e \in v.free,
           NEW w, Whole(w), w.free = v.free \ {e},
           w.din[f].blocks = v.din[f].blocks, w.din[f].direct = v.din[f].direct, w.din[f].indirect = e,
           \A g \in File : g # f => w.din[g] = v.din[g],
           w.cont = [v.cont EXCEPT ![e] = Zeros]
    PROVE  Core(w) /\ SameUnits(v, w)
  <1>1. e \in Block /\ e # 0 /\ v \in States /\ w \in States /\ v.free \subseteq Block
    BY FieldsTyped, Numbers DEF Core, Whole
  <1>2. ASSUME NEW x \in Block, x # e PROVE w.cont[x] = v.cont[x]
    BY <1>1, <1>2, FieldsTyped
  <1>3. ASSUME NEW i \in 0 .. BLK - 1 PROVE w.cont[e][i] = 0
    BY <1>1, FieldsTyped DEF Zeros
  <1>4. ASSUME NEW g \in File PROVE \A i \in Index : Pointer(w, g, i) = Pointer(v, g, i)
    <2>1. CASE g = f
      <3> SUFFICES ASSUME NEW i \in Index PROVE Pointer(w, g, i) = Pointer(v, g, i)
        OBVIOUS
      <3>1. CASE i < NDIRECT
        BY <2>1, <3>1 DEF Pointer
      <3>2. CASE ~(i < NDIRECT)
        <4>1. i - NDIRECT \in 0 .. BLK - 1
          BY <3>2, Numbers DEF Index
        <4> QED
          BY <1>1, <1>3, <2>1, <3>2, <4>1 DEF Pointer
      <3> QED
        BY <3>1, <3>2
    <2>2. CASE g # f
      <3>1. w.din[g] = v.din[g]
        BY <2>2
      <3>2. v.din[g].indirect \in Block \ v.free => w.cont[v.din[g].indirect] = v.cont[v.din[g].indirect]
        BY <1>2
      <3>3. w.din[g].direct = v.din[g].direct /\ w.din[g].indirect = v.din[g].indirect
        BY <3>1
      <3>4. SameNotes(v, w, g)
        BY <3>2, <3>3 DEF SameNotes
      <3> QED
        BY <3>4, NotesKeep
    <2> QED
      BY <2>1, <2>2
  <1>5. Filled(w)
    <2> SUFFICES ASSUME NEW g \in File, NEW i \in Index PROVE Pointer(w, g, i) = 0 <=> i >= w.din[g].blocks
      BY DEF Filled
    <2>1. w.din[g].blocks = v.din[g].blocks
      BY DEF Core
    <2>2. Pointer(v, g, i) = 0 <=> i >= v.din[g].blocks
      BY DEF Core, Filled
    <2> QED
      BY <1>4, <2>1, <2>2
  <1> DEFINE t == Holds(v)
             u == Holds(w)
             x == <<f, Indirect>>
  <1>6. x \in Places /\ t[x] = 0 /\ u[x] = e
    BY HoldsMeans
  <1>7. u \in [Places -> Block \cup {0}]
    <2>1. \A g \in File, i \in Index : Pointer(w, g, i) \in Block \cup {0}
      BY <1>4, Owners
    <2> QED
      BY <1>1, <2>1, HoldsTyped
  <1>8. ASSUME NEW y \in Places PROVE u[y] = IF y = x THEN e ELSE t[y]
    <2>1. PICK g \in File, i \in Index \cup {Indirect} : y = <<g, i>>
      BY DEF Places
    <2>2. Indirect \notin Index
      BY Numbers DEF Index, Indirect
    <2>3. CASE i = Indirect
      <3>1. u[y] = w.din[g].indirect /\ t[y] = v.din[g].indirect /\ (y = x <=> g = f)
        BY <2>1, <2>2, <2>3, HoldsMeans
      <3> QED
        BY <3>1
    <2>4. CASE i \in Index
      <3>1. u[y] = Pointer(w, g, i)
        <4>1. \A j \in Index : <<g, j>> \in Places /\ Holds(w)[<<g, j>>] = Pointer(w, g, j)
          BY HoldsMeans
        <4> QED
          BY <2>1, <2>4, <4>1
      <3>2. t[y] = Pointer(v, g, i)
        <4>1. \A j \in Index : <<g, j>> \in Places /\ Holds(v)[<<g, j>>] = Pointer(v, g, j)
          BY HoldsMeans
        <4> QED
          BY <2>1, <2>4, <4>1
      <3>3. y # x
        BY <2>1, <2>2, <2>4
      <3> QED
        BY <1>4, <2>1, <2>4, <3>1, <3>2, <3>3
    <2> QED
      BY <2>3, <2>4
  <1>9. OneOwner(t, v.free)
    BY DEF Core
  <1> HIDE DEF t, u, x
  <1>10. OneOwner(u, v.free \ {e})
    BY <1>1, <1>6, <1>7, <1>8, <1>9, OwnerTakes
  <1>11. SameUnits(v, w)
    <2> SUFFICES ASSUME NEW g \in File PROVE SameIn(v, w, g)
      BY DEF SameUnits
    <2>1. SamePointers(v, w, g)
      BY <1>4 DEF SamePointers
    <2>2. CalmBlocks(v, w)
      BY <1>2 DEF CalmBlocks
    <2>3. SameData(v, w, g)
      BY <2>1, <2>2, DataStay
    <2>4. w.din[g].blocks = v.din[g].blocks
      OBVIOUS
    <2> QED
      BY <1>1, <2>3, <2>4, UnitsStay
  <1> QED
    BY <1>5, <1>10, <1>11 DEF Core, u

(* The indirect block of f gets an entry more. *)
EntryIs(v, w, e, index, b) ==
    /\ w.cont[e] = [v.cont[e] EXCEPT ![index - NDIRECT] = b] /\ w.cont[b] = Zeros
    /\ \A x \in Block : x # e /\ x # b => w.cont[x] = v.cont[x]

LEMMA EntryMore ==
    ASSUME NEW v, Core(v), NEW f \in File, NEW e, e = v.din[f].indirect, e # 0,
           NEW index \in Index, index = v.din[f].blocks, index >= NDIRECT, NEW b \in v.free,
           NEW w, Whole(w), w.free = v.free \ {b}, w.din[f].blocks = index + 1,
           w.din[f].direct = v.din[f].direct, w.din[f].indirect = e,
           \A g \in File : g # f => w.din[g] = v.din[g],
           EntryIs(v, w, e, index, b)
    PROVE  Core(w) /\ Pointer(w, f, index) = b /\ SameUnits(v, w)
  <1>1. e \in Block \ v.free /\ v \in States /\ v.free \subseteq Block
    BY FieldsTyped, Owners DEF Core, Whole
  <1>2. OthersKeep(v, w, f)
    <2>1. ASSUME NEW g \in File, g # f PROVE \A i \in Index : Pointer(w, g, i) = Pointer(v, g, i)
      <3>1. w.din[g] = v.din[g] /\ v.din[g].indirect # e
        BY <2>1, Owners
      <3>2. v.din[g].indirect \in Block \ v.free => w.cont[v.din[g].indirect] = v.cont[v.din[g].indirect]
        BY <3>1 DEF EntryIs
      <3> QED
        BY <3>1, <3>2, PointersKeep
    <2> QED
      BY <2>1 DEF OthersKeep
  <1>3. NotedAt(v, w, f, index, b)
    <2> SUFFICES ASSUME NEW i \in Index PROVE Pointer(w, f, i) = IF i = index THEN b ELSE Pointer(v, f, i)
      BY DEF NotedAt
    <2>1. CASE i < NDIRECT
      <3>1. i # index
        BY <2>1, Numbers DEF Index
      <3> QED
        BY <2>1, <3>1 DEF Pointer
    <2>2. CASE ~(i < NDIRECT)
      <3>1. i - NDIRECT \in 0 .. BLK - 1 /\ (i = index <=> i - NDIRECT = index - NDIRECT)
        BY <2>2, Numbers DEF Index
      <3>2. v.cont[e] \in [0 .. BLK - 1 -> Int]
        BY <1>1, FieldsTyped
      <3>3. w.cont[e][i - NDIRECT] = IF i = index THEN b ELSE v.cont[e][i - NDIRECT]
        BY <3>1, <3>2 DEF EntryIs
      <3> QED
        BY <2>2, <3>3 DEF Pointer
    <2> QED
      BY <2>1, <2>2
  <1>4. Core(w)
    BY <1>2, <1>3, OneBlockMore
  <1>5. ASSUME NEW g \in File, NEW i \in Index, i < v.din[g].blocks
        PROVE  /\ Pointer(w, g, i) = Pointer(v, g, i)
               /\ w.cont[Pointer(v, g, i)] = v.cont[Pointer(v, g, i)]
    <2>1. i \in Nat /\ index \in Nat /\ v.din[g].blocks \in Nat
      BY <1>1, InodeTyped, Numbers DEF Index
    <2>2. Pointer(v, g, i) # 0 /\ (g = f => i # index)
      BY <1>5, <2>1 DEF Core, Filled
    <2>3. Pointer(v, g, i) \in Block \ v.free
      BY <2>2, Owners
    <2>4. Pointer(v, g, i) # e
      BY Owners
    <2>5. Pointer(w, g, i) = Pointer(v, g, i)
      BY <1>2, <1>3, <2>2 DEF OthersKeep, NotedAt
    <2> QED
      BY <2>3, <2>4, <2>5 DEF EntryIs
  <1>6. ASSUME NEW g \in File PROVE SameIn(v, w, g)
    <2>1. SameData(v, w, g)
      BY <1>5 DEF SameData
    <2>2. CASE g = f
      <3>1. w.cont[Pointer(w, f, v.din[f].blocks)] = Zeros
        BY <1>3 DEF NotedAt, EntryIs
      <3>2. w \in States /\ w.din[f].blocks = v.din[f].blocks + 1
        BY DEF Whole
      <3> QED
        BY <1>1, <2>1, <2>2, <3>1, <3>2, UnitsGrow
    <2>3. CASE g # f
      <3>1. w.din[g].blocks = v.din[g].blocks
        BY <2>3
      <3> QED
        BY <1>1, <2>1, <3>1, UnitsStay
    <2> QED
      BY <2>2, <2>3
  <1> QED
    BY <1>3, <1>4, <1>6 DEF NotedAt, SameUnits

(* How Noted comes about. *)
LEMMA EnteredIs ==
    ASSUME NEW v, NEW u, u \in States, NEW f \in File, NEW e \in Block, NEW entry \in 0 .. BLK - 1, NEW b \in Block
    PROVE  \E D \in BOOLEAN :
              Entered(Success(v, e), Success(u, b), f, entry) = Success(Noted(u, f, e, entry, b, D), b)
  <1> DEFINE old == v.din[f].indirect
             D == u.dirty[f] \/ e # old
             x == [u EXCEPT !.cont[e][entry] = b, !.din[f].indirect = e, !.dirty[f] = @ \/ e # old]
  <1>1. Entered(Success(v, e), Success(u, b), f, entry) = Success(x, b)
    BY DEF Entered, Success
  <1>2. D \in BOOLEAN
    BY FieldsTyped
  <1>3. x = Noted(u, f, e, entry, b, D)
    BY DEF Noted, States
  <1> HIDE DEF x
  <1> HIDE DEF D
  <1> QED
    BY <1>1, <1>2, <1>3

(* With f's indirect block e in place (in v1, which is v when f has one)    *)
(* the next block b goes into it.                                          *)
InPlace(v, v1, f, e) ==
    /\ Core(v1) /\ v1.din[f].indirect = e /\ e # 0
    /\ v1.din[f].blocks = v.din[f].blocks /\ v1.din[f].direct = v.din[f].direct
    /\ \A g \in File : g # f => v1.din[g] = v.din[g]
    /\ SameUnits(v, v1)

Ready(v, v1, u, b) ==
    /\ b \in v1.free /\ Whole(u) /\ Untouched(v, u)
    /\ u.free = v1.free \ {b} /\ u.cont = [v1.cont EXCEPT ![b] = Zeros]

LEMMA EntryGrown ==
    ASSUME NEW v, Core(v), NEW f \in File, NEW index \in Index, index = v.din[f].blocks, index >= NDIRECT,
           NEW v1, NEW e, InPlace(v, v1, f, e), NEW u, NEW b, Ready(v, v1, u, b), NEW D \in BOOLEAN,
           Created(v, f, index) = Success(Noted(u, f, e, index - NDIRECT, b, D), b)
    PROVE  GrownOrNot(v, bmap_load(v, f, index), f)
  <1> DEFINE entry == index - NDIRECT
             x == Noted(u, f, e, entry, b, D)
             w == OneMore(x, f)
  <1>1. /\ Core(v1) /\ v1 \in States /\ v \in States /\ v1.free \subseteq Block /\ v1.cont \in [Block -> [0 .. BLK - 1 -> Int]]
        /\ v1.din[f].indirect = e /\ e # 0 /\ v1.din[f].blocks = index
    BY FieldsTyped DEF InPlace, Core, Whole
  <1>2. /\ u \in States /\ u.unused = Cardinality(u.free) /\ Untouched(v, u) /\ b \in v1.free /\ b \in Block
        /\ u.free = v1.free \ {b} /\ u.cont = [v1.cont EXCEPT ![b] = Zeros]
    BY <1>1 DEF Ready, Whole
  <1>3. e \in Block \ v1.free
    BY <1>1, Owners
  <1>4. entry \in 0 .. BLK - 1 /\ index \in 0 .. NDIRECT + BLK - 1
    BY Numbers DEF Index
  <1>5. u.din[f].blocks = index /\ u.din = v.din
    BY <1>2 DEF Untouched
  <1>6. /\ x \in States /\ x.free = u.free
    <2> HIDE DEF entry
    <2>1. LET y == Noted(u, f, e, entry, b, D)
          IN  /\ y \in States /\ y.free = u.free /\ y.unused = u.unused /\ Aside(u, y, f)
              /\ y.din[f] = [u.din[f] EXCEPT !.indirect = e]
              /\ y.cont = [u.cont EXCEPT ![e] = [u.cont[e] EXCEPT ![entry] = b]]
      BY <1>2, <1>3, <1>4, NotedIs
    <2> QED
      BY <2>1
  <1> HIDE DEF entry
  <1>7. /\ w \in States /\ w.free = u.free /\ w.unused = u.unused /\ Aside(u, w, f)
        /\ w.din[f].size = u.din[f].size /\ w.din[f].blocks = index + 1
        /\ w.din[f].direct = u.din[f].direct /\ w.din[f].indirect = e
        /\ w.cont = [u.cont EXCEPT ![e] = [u.cont[e] EXCEPT ![entry] = b]]
    BY <1>2, <1>3, <1>4, <1>5, NotedAndCounted
  <1>8. bmap_load(v, f, index) = Success(w, b)
    <2>1. Created(v, f, index) = Success(x, b)
      BY DEF entry
    <2>2. b \in Block /\ b \notin x.free
      BY <1>2, <1>6
    <2> HIDE DEF x
    <2> QED
      BY <1>1, <2>1, <2>2, LoadSucceeds
  <1> HIDE DEF x, w
  <1>9. Aside(v, w, f)
    BY <1>2, <1>7 DEF Aside, Untouched
  <1>10. /\ Whole(w) /\ w.free = v1.free \ {b}
    BY <1>2, <1>7 DEF Whole
  <1>11. w.cont[e] = [v1.cont[e] EXCEPT ![index - NDIRECT] = b]
    <2>1. e # b /\ u.cont[e] = v1.cont[e]
      BY <1>1, <1>2, <1>3
    <2> QED
      BY <1>1, <1>2, <1>3, <1>7, <2>1 DEF entry
  <1>12. ASSUME NEW c \in Block, c # e, c # b PROVE w.cont[c] = v1.cont[c]
    BY <1>1, <1>2, <1>3, <1>7, <1>12
  <1>13. /\ w.din[f].direct = v1.din[f].direct
         /\ \A g \in File : g # f => w.din[g] = v1.din[g]
    BY <1>5, <1>7, <1>9 DEF InPlace, Aside
  <1>14. Core(w) /\ Pointer(w, f, index) = b /\ SameUnits(v1, w)
    <2>1. w.cont[b] = Zeros
      BY <1>1, <1>2, <1>3, <1>7
    <2>2. EntryIs(v1, w, e, index, b)
      BY <1>11, <1>12, <2>1 DEF EntryIs
    <2> QED
      BY <1>1, <1>2, <1>7, <1>10, <1>13, <2>2, EntryMore
  <1>14a. SameUnits(v, w)
    BY <1>14, SameInTwice DEF InPlace, SameUnits
  <1>15. Grown(v, w, b, f)
    BY <1>5, <1>7, <1>9, <1>14, <1>14a DEF Grown
  <1> QED
    BY <1>8, <1>15 DEF GrownOrNot

LEMMA LoadIndirect ==
    ASSUME NEW v, Core(v), NEW f \in File, NEW index \in Index, index = v.din[f].blocks, index >= NDIRECT
    PROVE  GrownOrNot(v, bmap_load(v, f, index), f)
  <1> DEFINE entry == index - NDIRECT
             old == v.din[f].indirect
  <1>1. /\ v \in States /\ Whole(v) /\ Pointer(v, f, index) = 0 /\ entry \in 0 .. BLK - 1
        /\ ~(index >= NDIRECT + BLK) /\ old \in {0} \cup Block
    <2>1. Pointer(v, f, index) = 0 <=> index >= index
      BY DEF Core, Filled
    <2> QED
      BY <2>1, Numbers, Owners DEF Core, Whole, Index
  <1>2. Created(v, f, index) = bmap_get_sub(v, f, entry)
    BY <1>1 DEF Created, bmap_get
  <1> HIDE DEF entry
  <1>3. ASSUME NEW w, Created(v, f, index) = Failure(w), Core(w), Untouched(v, w), SameUnits(v, w)
        PROVE  GrownOrNot(v, bmap_load(v, f, index), f)
    <2>1. bmap_load(v, f, index) = Failure(w)
      BY <1>1, <1>3, LoadFails
    <2> QED
      BY <1>3, <2>1 DEF GrownOrNot
  <1>4. CASE old # 0
    <2>1. bmap_get_sub(v, f, entry) = Entered(Success(v, old), block_alloc(v), f, entry)
      BY <1>4 DEF bmap_get_sub, Success
    <2>2. CASE block_alloc(v) = Failure(v)
      <3>1. Entered(Success(v, old), Failure(v), f, entry) = Failure(v)
        BY DEF Entered, Success, Failure
      <3>2. Created(v, f, index) = Failure(v)
        BY <1>2, <2>1, <2>2, <3>1
      <3>3. Untouched(v, v) /\ SameUnits(v, v)
        BY DEF Untouched, SameUnits, SameIn
      <3> QED
        BY <1>3, <3>2, <3>3
    <2>3. ASSUME NEW u, NEW b, block_alloc(v) = Success(u, b), Takes(v, u, b)
          PROVE  GrownOrNot(v, bmap_load(v, f, index), f)
      <3>1. u \in States /\ b \in Block /\ old \in Block
        BY <1>1, <1>4, <2>3, FieldsTyped DEF Takes, Whole
      <3> HIDE DEF old
      <3>2. PICK D \in BOOLEAN :
              Entered(Success(v, old), Success(u, b), f, entry) = Success(Noted(u, f, old, entry, b, D), b)
        BY <1>1, <3>1, EnteredIs
      <3>3. Created(v, f, index) = Success(Noted(u, f, old, index - NDIRECT, b, D), b)
        BY <1>2, <2>1, <2>3, <3>2 DEF entry
      <3>4. InPlace(v, v, f, old)
        BY <1>4 DEF InPlace, old, SameUnits, SameIn
      <3>5. Ready(v, v, u, b)
        BY <2>3 DEF Ready, Takes
      <3> QED
        BY <3>3, <3>4, <3>5, EntryGrown
    <2> QED
      BY <1>1, <2>2, <2>3, AllocTakes
  <1>5. CASE old = 0
    <2>1. bmap_get_sub(v, f, entry) = Entered(block_alloc(v), block_alloc(block_alloc(v).v), f, entry)
      BY <1>5 DEF bmap_get_sub
    <2>2. CASE block_alloc(v) = Failure(v)
      <3>1. ~block_alloc(v).ok
        BY <2>2 DEF Failure
      <3>2. Created(v, f, index) = Failure(v)
        BY <1>2, <2>1, <2>2, <3>1, Zenon DEF Entered
      <3>3. Untouched(v, v) /\ SameUnits(v, v)
        BY DEF Untouched, SameUnits, SameIn
      <3> QED
        BY <1>3, <3>2, <3>3
    <2>3. ASSUME NEW u1, NEW e, block_alloc(v) = Success(u1, e), Takes(v, u1, e)
          PROVE  GrownOrNot(v, bmap_load(v, f, index), f)
      <3>1. Created(v, f, index) = Entered(Success(u1, e), block_alloc(u1), f, entry)
        <4>1. Success(u1, e).v = u1
          BY DEF Success
        <4> QED
          BY <1>2, <2>1, <2>3, <4>1
      <3>2. /\ u1 \in States /\ Whole(u1) /\ e \in v.free /\ e \in Block /\ e # 0 /\ Untouched(v, u1)
            /\ u1.free = v.free \ {e} /\ u1.cont = [v.cont EXCEPT ![e] = Zeros]
        BY <1>1, <2>3, FieldsTyped, Numbers DEF Takes, Whole
      <3>3. ASSUME NEW c \in Block \ v.free, NEW w, w.cont = [u1.cont EXCEPT ![e] = Junks]
            PROVE  w.cont[c] = v.cont[c]
        BY <1>1, <3>2, <3>3, FieldsTyped
      <3>4. CASE block_alloc(u1) = Failure(u1)
        <4> DEFINE w == block_free(u1, e)
        <4>1. Created(v, f, index) = Failure(w)
          <5>1. u1.din[f].indirect = 0
            BY <1>5, <3>2 DEF Untouched
          <5>2. Entered(Success(u1, e), Failure(u1), f, entry) = Failure(block_free(u1, e))
            BY <3>2, <5>1 DEF Entered, Success, Failure
          <5> QED
            BY <3>1, <3>4, <5>2
        <4>2. Gives(u1, w, e)
          <5>1. e \in Block \ u1.free
            BY <3>2
          <5> QED
            BY <3>2, <5>1, FreeGives
        <4> HIDE DEF w
        <4>3. Whole(w) /\ Untouched(v, w) /\ w.free = v.free /\ w.cont = [u1.cont EXCEPT ![e] = Junks]
          BY <3>2, <4>2 DEF Gives, Untouched
        <4>4. ASSUME NEW g \in File
              PROVE  /\ w.din[g].blocks = v.din[g].blocks /\ w.din[g].indirect = v.din[g].indirect
                     /\ \A i \in Index : Pointer(w, g, i) = Pointer(v, g, i)
          <5>1. w.din[g] = v.din[g]
            BY <4>3 DEF Untouched
          <5>2. SameNotes(v, w, g)
            <6>1. ASSUME NEW c \in Block \ v.free PROVE w.cont[c] = v.cont[c]
              BY <3>3, <4>3
            <6> QED
              BY <5>1, <6>1 DEF SameNotes
          <5>3. \A i \in Index : Pointer(w, g, i) = Pointer(v, g, i)
            BY <5>2, NotesKeep
          <5> QED
            BY <5>1, <5>3
        <4>5. Core(w)
          BY <4>3, <4>4, SameBlocks
        <4>6. SameUnits(v, w)
          <5> SUFFICES ASSUME NEW g \in File PROVE SameIn(v, w, g)
            BY DEF SameUnits
          <5>1. SamePointers(v, w, g) /\ w.din[g].blocks = v.din[g].blocks
            BY <4>4 DEF SamePointers
          <5>2. CalmBlocks(v, w)
            BY <3>3, <4>3 DEF CalmBlocks
          <5>3. SameData(v, w, g)
            BY <5>1, <5>2, DataStay
          <5> QED
            BY <1>1, <5>1, <5>3, UnitsStay
        <4> QED
          BY <1>3, <4>1, <4>3, <4>5, <4>6
      <3>5. ASSUME NEW u, NEW b, block_alloc(u1) = Success(u, b), Takes(u1, u, b)
            PROVE  GrownOrNot(v, bmap_load(v, f, index), f)
        <4>1. u \in States /\ b \in Block /\ b \in u1.free
          BY <3>2, <3>5, FieldsTyped DEF Takes, Whole
        <4>2. PICK D \in BOOLEAN :
                Entered(Success(u1, e), Success(u, b), f, entry) = Success(Noted(u, f, e, entry, b, D), b)
          BY <1>1, <3>2, <4>1, EnteredIs
        <4>3. Created(v, f, index) = Success(Noted(u, f, e, index - NDIRECT, b, D), b)
          BY <3>1, <3>5, <4>2 DEF entry
        <4> DEFINE v1 == [u1 EXCEPT !.din[f].indirect = e]
        <4>4. /\ SameBut(u1, v1) /\ Inode(u1, v1, f, [u1.din[f] EXCEPT !.indirect = e])
          <5> HIDE DEF v1
          <5>1. e \in Block \cup {0}
            BY <3>2
          <5> QED
            BY <3>2, <5>1, NewIndirect DEF v1
        <4> HIDE DEF v1
        <4>5. /\ v1.din[f].blocks = v.din[f].blocks /\ v1.din[f].direct = v.din[f].direct
              /\ v1.din[f].indirect = e /\ \A g \in File : g # f => v1.din[g] = v.din[g]
          <5>1. u1.din = v.din /\ v.din[f] \in Inodes
            BY <1>1, <3>2, FieldsTyped DEF Untouched
          <5> QED
            BY <4>4, <5>1 DEF Inode, Inodes
        <4>6. /\ Whole(v1) /\ v1.free = v.free \ {e} /\ v1.cont = [v.cont EXCEPT ![e] = Zeros]
          BY <3>2, <4>4 DEF SameBut, Whole
        <4>7. Core(v1) /\ SameUnits(v, v1)
          BY <1>5, <3>2, <4>5, <4>6, IndirectMore
        <4>8. InPlace(v, v1, f, e)
          BY <3>2, <4>5, <4>7 DEF InPlace
        <4>9. Ready(v, v1, u, b)
          BY <3>2, <3>5, <4>1, <4>4 DEF Ready, Takes, Untouched, SameBut
        <4> QED
          BY <4>3, <4>8, <4>9, EntryGrown
      <3> QED
        BY <3>2, <3>4, <3>5, AllocTakes
    <2> QED
      BY <1>1, <2>2, <2>3, AllocTakes
  <1> QED
    BY <1>4, <1>5

(* sfs_bmap_load_nolock for the block behind the last one.                 *)
LEMMA LoadMore ==
    ASSUME NEW v, Core(v), NEW f \in File, NEW index \in Index, index = v.din[f].blocks
    PROVE  GrownOrNot(v, bmap_load(v, f, index), f)
  <1>1. index \in Int /\ NDIRECT \in Int
    BY Numbers DEF Index
  <1>2. CASE index < NDIRECT
    BY <1>2, LoadDirect
  <1>3. CASE index >= NDIRECT
    BY <1>3, LoadIndirect
  <1> QED
    BY <1>1, <1>2, <1>3

-----------------------------------------------------------------------------
(* bmap_load for any index: one of f's blocks, if need be one more.        *)
Loaded(v, w, b, f, index) ==
    /\ Core(w) /\ index \in Index /\ index < w.din[f].blocks /\ b = Pointer(w, f, index)
    /\ \/ w = v
       \/ index = v.din[f].blocks /\ Grown(v, w, b, f)

LoadedOrNot(v, g, f, index) ==
    \/ \E w, b : g = Success(w, b) /\ Loaded(v, w, b, f, index)
    \/ \E w : g = Failure(w) /\ Core(w) /\ Untouched(v, w) /\ SameUnits(v, w)

LEMMA LoadOld ==
    ASSUME NEW v, Core(v), NEW f \in File, NEW index \in Nat, index < v.din[f].blocks
    PROVE  /\ index \in Index /\ Pointer(v, f, index) \in Block \ v.free
           /\ bmap_load(v, f, index) = Success(v, Pointer(v, f, index))
  <1> DEFINE p == Pointer(v, f, index)
  <1>1. index \in Index /\ v.din[f].blocks \in Nat
    <2>1. v.din[f].blocks \in 0 .. NDIRECT + BLK
      BY InodeTyped DEF Core, Whole
    <2> QED
      BY <2>1, Numbers DEF Index
  <1>2. p # 0
    <2>1. Pointer(v, f, index) = 0 <=> index >= v.din[f].blocks
      BY <1>1 DEF Core, Filled
    <2> QED
      BY <1>1, <2>1
  <1>3. p \in Block \ v.free
    <2>1. \A i \in Index : Pointer(v, f, i) \in {0} \cup (Block \ v.free)
      BY Owners
    <2> QED
      BY <1>1, <1>2, <2>1
  <1>4. ASSUME NEW c PROVE bmap_get(v, f, index, c) = Success(v, p)
    <2>1. ~(index >= NDIRECT + BLK)
      BY <1>1, Numbers DEF Index
    <2> QED
      BY <1>2, <2>1, Zenon DEF bmap_get
  <1> HIDE DEF p
  <1>5. ~(index > v.din[f].blocks) /\ index # v.din[f].blocks
    BY <1>1
  <1>6. Success(v, p).ok /\ Success(v, p).v = v /\ Success(v, p).ino = p
    BY DEF Success
  <1>7. bmap_load(v, f, index) = Success(v, p)
    BY <1>3, <1>4, <1>5, <1>6, Zenon DEF bmap_load, Check
  <1> QED
    BY <1>1, <1>3, <1>7 DEF p

LEMMA LoadAny ==
    ASSUME NEW v, Core(v), NEW f \in File, NEW index \in Index, index <= v.din[f].blocks
    PROVE  LoadedOrNot(v, bmap_load(v, f, index), f, index)
  <1> DEFINE blocks == v.din[f].blocks
  <1>1. blocks \in 0 .. NDIRECT + BLK /\ index \in Nat
    BY InodeTyped, Numbers DEF Core, Whole, Index
  <1>2. CASE index < blocks
    <2> DEFINE p == Pointer(v, f, index)
    <2>1. bmap_load(v, f, index) = Success(v, p) /\ index \in Index
      BY <1>1, <1>2, LoadOld
    <2>2. Loaded(v, v, p, f, index)
      BY <1>2, <2>1 DEF Loaded
    <2> HIDE DEF p
    <2> QED
      BY <2>1, <2>2 DEF LoadedOrNot
  <1>3. CASE index = blocks
    <2>1. GrownOrNot(v, bmap_load(v, f, index), f)
      BY <1>3, LoadMore
    <2>2. CASE \E w, b : bmap_load(v, f, index) = Success(w, b) /\ Grown(v, w, b, f)
      <3>1. PICK w, b : bmap_load(v, f, index) = Success(w, b) /\ Grown(v, w, b, f)
        BY <2>2
      <3>2. Loaded(v, w, b, f, index)
        BY <1>1, <1>3, <3>1 DEF Loaded, Grown
      <3> QED
        BY <3>1, <3>2 DEF LoadedOrNot
    <2>3. CASE \E w : bmap_load(v, f, index) = Failure(w) /\ Core(w) /\ Untouched(v, w) /\ SameUnits(v, w)
      BY <2>3 DEF LoadedOrNot
    <2> QED
      BY <2>1, <2>2, <2>3 DEF GrownOrNot
  <1> QED
    BY <1>1, <1>2, <1>3

-----------------------------------------------------------------------------
(* sfs_bmap_truncate_nolock *)
Shrunk(v, w, f) ==
    /\ Core(w) /\ Aside(v, w, f) /\ w.dirty[f]
    /\ w.din[f].size = v.din[f].size /\ w.din[f].blocks + 1 = v.din[f].blocks
    /\ OtherUnits(v, w, f)

OtherData(v, w, f) == \A g \in File : g # f => SameData(v, w, g)

(* What is in other files is neither in the block that is freed nor in f's  *)
(* indirect block.                                                         *)
LEMMA OtherDataStay ==
    ASSUME NEW v, Core(v), NEW f \in File, NEW index \in Index, NEW p, p = Pointer(v, f, index), p # 0, NEW w,
           \A g \in File : g # f => \A i \in Index : Pointer(w, g, i) = Pointer(v, g, i),
           \A c \in Block : c # v.din[f].indirect /\ c # p => w.cont[c] = v.cont[c]
    PROVE  OtherData(v, w, f)
  <1> SUFFICES ASSUME NEW g \in File, g # f, NEW i \in Index, i < v.din[g].blocks
               PROVE  w.cont[Pointer(v, g, i)] = v.cont[Pointer(v, g, i)]
    BY DEF OtherData, SameData
  <1>1. i \in Nat /\ v.din[g].blocks \in Nat
    BY InodeTyped, Numbers DEF Core, Whole, Index
  <1>2. Pointer(v, g, i) # 0
    BY <1>1 DEF Core, Filled
  <1>3. Pointer(v, g, i) \in Block \ v.free
    BY <1>2, Owners
  <1>4. Pointer(v, g, i) # p /\ Pointer(v, g, i) # v.din[f].indirect
    <2>1. \A j, k \in Index : Pointer(v, f, j) # 0 /\ Pointer(v, f, j) = Pointer(v, g, k) => f = g
      BY Owners
    <2>2. \A k \in Index : v.din[f].indirect # 0 => v.din[f].indirect # Pointer(v, g, k)
      BY Owners
    <2> QED
      BY <1>2, <2>1, <2>2
  <1> QED
    BY <1>3, <1>4

(* The last block is free and its number gone: where it stood last.        *)
DropDirect(u, f, index) == [u EXCEPT !.din[f].direct[index] = 0]

DirectDropped(v, u, x, f, index) ==
    /\ x \in States /\ x.free = u.free /\ x.unused = u.unused /\ Aside(v, x, f)
    /\ x.din[f].size = v.din[f].size /\ x.din[f].blocks = v.din[f].blocks
    /\ x.din[f].indirect = v.din[f].indirect
    /\ x.din[f].direct = [v.din[f].direct EXCEPT ![index] = 0] /\ x.cont = u.cont

LEMMA ForgottenDirect ==
    ASSUME NEW v, Core(v), NEW f \in File, NEW index \in Index, index < NDIRECT,
           NEW p \in Block, NEW u, Gives(v, u, p)
    PROVE  DirectDropped(v, u, DropDirect(u, f, index), f, index)
  <1> DEFINE x == DropDirect(u, f, index)
  <1>1. /\ u \in States /\ u.din = v.din /\ u.disk = v.disk /\ u.panic = v.panic /\ u.dirty = v.dirty
        /\ v \in States
    BY DEF Gives, Whole, Untouched, Core
  <1>2. index \in 0 .. NDIRECT - 1
    BY Numbers DEF Index
  <1>3. PICK b \in Block \cup {0} : b = 0
    OBVIOUS
  <1>4. /\ SameBut(u, x) /\ x.dirty = u.dirty
        /\ Inode(u, x, f, [u.din[f] EXCEPT !.direct = [u.din[f].direct EXCEPT ![index] = b]])
    <2>1. x = [u EXCEPT !.din[f].direct[index] = b]
      BY <1>3 DEF DropDirect
    <2> HIDE DEF x
    <2> QED
      BY <1>1, <1>2, <2>1, NewDirect
  <1> HIDE DEF x
  <1>5. Aside(v, x, f)
    BY <1>1, <1>4 DEF Aside, SameBut, Inode
  <1>6. v.din[f] \in Inodes
    BY <1>1, FieldsTyped
  <1>7. /\ x.din[f].size = v.din[f].size /\ x.din[f].blocks = v.din[f].blocks
        /\ x.din[f].indirect = v.din[f].indirect
        /\ x.din[f].direct = [v.din[f].direct EXCEPT ![index] = 0]
    BY <1>1, <1>3, <1>4, <1>6 DEF Inode, Inodes
  <1> QED
    BY <1>4, <1>5, <1>7 DEF SameBut, DirectDropped, x

(* The inode: one block less, and dirty. *)
Lessen(x, f, index) == [x EXCEPT !.din[f].blocks = index, !.dirty[f] = TRUE]

Lessened(x, w, f, index) ==
    /\ w \in States /\ w.free = x.free /\ w.unused = x.unused /\ w.cont = x.cont /\ Aside(x, w, f)
    /\ w.dirty[f] /\ w.din[f].size = x.din[f].size /\ w.din[f].blocks = index
    /\ w.din[f].indirect = x.din[f].indirect /\ w.din[f].direct = x.din[f].direct

LEMMA OneLess ==
    ASSUME NEW x, x \in States, NEW f \in File, NEW index \in Index
    PROVE  Lessened(x, Lessen(x, f, index), f, index)
  <1> DEFINE y == [x EXCEPT !.din[f].blocks = index]
             w == Lessen(x, f, index)
  <1>1. w = MarkDirty(y, f)
    BY DEF Lessen, MarkDirty
  <1>2. PICK k \in 0 .. NDIRECT + BLK : k = index
    BY Numbers DEF Index
  <1>3. SameBut(x, y) /\ y.dirty = x.dirty /\ Inode(x, y, f, [x.din[f] EXCEPT !.blocks = k])
    <2>1. y = [x EXCEPT !.din[f].blocks = k]
      BY <1>2
    <2> HIDE DEF y
    <2> QED
      BY <2>1, NewBlocks
  <1> HIDE DEF y, w
  <1>4. /\ SameBut(y, w) /\ w.din = y.din /\ w.dirty[f]
        /\ \A g \in File : g # f => w.dirty[g] = y.dirty[g]
    <2>1. y \in States
      BY <1>3 DEF SameBut
    <2>2. Marked(y, w, f)
      BY <1>1, <2>1, SetDirty
    <2> QED
      BY <2>2 DEF Marked
  <1>5. x.din[f] \in Inodes
    BY FieldsTyped
  <1>6. /\ w.din[f].size = x.din[f].size /\ w.din[f].blocks = index
        /\ w.din[f].indirect = x.din[f].indirect /\ w.din[f].direct = x.din[f].direct
    <2>1. w.din[f] = [x.din[f] EXCEPT !.blocks = k]
      BY <1>3, <1>4 DEF Inode
    <2> QED
      BY <1>2, <1>5, <2>1 DEF Inodes
  <1>7. Aside(x, w, f)
    BY <1>3, <1>4 DEF Aside, SameBut, Inode
  <1> QED
    BY <1>3, <1>4, <1>6, <1>7 DEF SameBut, Lessened, w

DropEntry(u, f, index) == [u EXCEPT !.cont[u.din[f].indirect][index - NDIRECT] = 0]

EntryDropped(v, u, x, p, e, index) ==
    /\ x \in States /\ x.free = u.free /\ x.unused = u.unused /\ Untouched(v, x)
    /\ x.cont[e] = [v.cont[e] EXCEPT ![index - NDIRECT] = 0]
    /\ \A c \in Block : c # e /\ c # p => x.cont[c] = v.cont[c]

LEMMA ForgottenEntry ==
    ASSUME NEW v, Core(v), NEW f \in File, NEW index \in Index, index >= NDIRECT,
           NEW p \in Block, NEW u, Gives(v, u, p), NEW e \in Block, e = v.din[f].indirect, e # p
    PROVE  EntryDropped(v, u, DropEntry(u, f, index), p, e, index)
  <1> DEFINE x == DropEntry(u, f, index)
  <1>1. /\ u \in States /\ u.din = v.din /\ Untouched(v, u) /\ u.cont = [v.cont EXCEPT ![p] = Junks]
        /\ v \in States /\ v.cont \in [Block -> [0 .. BLK - 1 -> Int]]
    BY FieldsTyped DEF Gives, Whole, Untouched, Core
  <1> DEFINE i == index - NDIRECT
  <1>2. i \in 0 .. BLK - 1
    BY Numbers DEF Index
  <1>3. PICK b \in Int : b = 0
    OBVIOUS
  <1>4. x = SetEntry(u, e, i, b)
    BY <1>1, <1>3 DEF DropEntry, SetEntry
  <1> HIDE DEF i, x
  <1>5. /\ x \in States /\ x.free = u.free /\ x.unused = u.unused /\ Untouched(u, x)
        /\ x.cont = [u.cont EXCEPT ![e] = [u.cont[e] EXCEPT ![i] = b]]
    <2>1. EntrySet(u, x, e, i, b)
      BY <1>1, <1>2, <1>4, NewEntry
    <2> QED
      BY <2>1 DEF EntrySet
  <1>6. u.cont[e] = v.cont[e] /\ u.cont \in [Block -> [0 .. BLK - 1 -> Int]]
    BY <1>1, FieldsTyped
  <1>7. x.cont[e] = [v.cont[e] EXCEPT ![i] = b]
    BY <1>5, <1>6
  <1>8. ASSUME NEW c \in Block, c # e, c # p PROVE x.cont[c] = v.cont[c]
    BY <1>1, <1>5, <1>8
  <1>9. Untouched(v, x)
    BY <1>1, <1>5 DEF Untouched
  <1> QED
    BY <1>3, <1>5, <1>7, <1>8, <1>9 DEF i, x, EntryDropped

(* What is left of f when index is gone. *)
LEMMA ShrunkBy ==
    ASSUME NEW v, Core(v), NEW f \in File, NEW index \in Index, index + 1 = v.din[f].blocks,
           NEW x, x \in States, x.unused = Cardinality(x.free),
           x.free = v.free \cup {Pointer(v, f, index)}, Aside(v, x, f),
           x.din[f].size = v.din[f].size, x.din[f].indirect = v.din[f].indirect,
           \A g \in File : g # f => \A i \in Index : Pointer(x, g, i) = Pointer(v, g, i),
           NotedAt(v, x, f, index, 0), OtherData(v, x, f)
    PROVE  Shrunk(v, Lessen(x, f, index), f)
  <1> DEFINE w == Lessen(x, f, index)
  <1>1. /\ w \in States /\ w.free = x.free /\ w.unused = x.unused /\ w.cont = x.cont /\ Aside(x, w, f)
        /\ w.dirty[f] /\ w.din[f].size = x.din[f].size /\ w.din[f].blocks = index
        /\ w.din[f].indirect = x.din[f].indirect /\ w.din[f].direct = x.din[f].direct
    BY OneLess DEF Lessened
  <1> HIDE DEF w
  <1>2. Aside(v, w, f)
    BY <1>1 DEF Aside
  <1>3. ASSUME NEW g \in File PROVE \A i \in Index : Pointer(w, g, i) = Pointer(x, g, i)
    <2>1. w.din[g].direct = x.din[g].direct /\ w.din[g].indirect = x.din[g].indirect
      BY <1>1 DEF Aside
    <2> QED
      BY <1>1, <2>1 DEF Pointer
  <1>4. OthersKeep(v, w, f)
    <2>1. ASSUME NEW g \in File, g # f
          PROVE  w.din[g] = v.din[g] /\ \A i \in Index : Pointer(w, g, i) = Pointer(v, g, i)
      BY <1>2, <1>3, <2>1 DEF Aside
    <2> QED
      BY <2>1 DEF OthersKeep
  <1>5. NotedAt(v, w, f, index, 0)
    BY <1>3 DEF NotedAt
  <1>6. Whole(w) /\ w.free = v.free \cup {Pointer(v, f, index)}
    BY <1>1 DEF Whole
  <1>7. Core(w)
    BY <1>1, <1>4, <1>5, <1>6, OneBlockLess
  <1>8. ASSUME NEW g \in File, g # f PROVE SameIn(v, w, g)
    <2>1. SameData(v, w, g)
      BY <1>1, <1>3, <1>8 DEF OtherData, SameData
    <2>2. w.din[g].blocks = v.din[g].blocks
      BY <1>2, <1>8 DEF Aside
    <2>3. v \in States
      BY DEF Core, Whole
    <2> QED
      BY <2>1, <2>2, <2>3, UnitsStay
  <1> QED
    BY <1>1, <1>2, <1>7, <1>8 DEF Shrunk, OtherUnits, w

LEMMA TruncateShrinks ==
    ASSUME NEW v, Core(v), NEW f \in File, v.din[f].blocks > 0
    PROVE  Shrunk(v, bmap_truncate(v, f), f)
  <1>1. PICK index \in Index : index + 1 = v.din[f].blocks
    <2>1. v.din[f].blocks \in 0 .. NDIRECT + BLK
      BY InodeTyped DEF Core, Whole
    <2>2. v.din[f].blocks - 1 \in Index /\ (v.din[f].blocks - 1) + 1 = v.din[f].blocks
      BY <2>1, Numbers DEF Index
    <2> QED
      BY <2>2
  <1> DEFINE p == Pointer(v, f, index)
             u == block_free(v, p)
             Forgotten == IF index < NDIRECT THEN DropDirect(u, f, index) ELSE DropEntry(u, f, index)
             w == Lessen(Forgotten, f, index)
  <1>2. /\ p \in Block \ v.free /\ p # 0 /\ v \in States /\ Whole(v) /\ index \in Int
        /\ v.din[f].blocks \in Int
    <2>1. index \in Nat /\ index < v.din[f].blocks /\ v.din[f].blocks \in Int
      BY <1>1, Numbers DEF Index
    <2> QED
      BY <2>1, LoadOld, Numbers DEF Core, Whole
  <1>3. bmap_truncate(v, f) = w
    <2>1. v.din[f].blocks - 1 = index /\ ~(index < 0)
      BY <1>1, <1>2
    <2> QED
      BY <1>2, <2>1 DEF bmap_truncate, DropDirect, DropEntry, Lessen
  <1>4. Gives(v, u, p)
    BY <1>2, FreeGives
  <1> HIDE DEF u, p
  <1>5. /\ u \in States /\ Untouched(v, u) /\ u.cont = [v.cont EXCEPT ![p] = Junks] /\ u.free = v.free \cup {p}
        /\ u.unused = Cardinality(u.free)
    BY <1>4 DEF Gives, Whole
  <1>6. ASSUME NEW c \in Block, c # p PROVE u.cont[c] = v.cont[c]
    BY <1>2, <1>5, <1>6, FieldsTyped
  (* No inode has its indirect block at p. *)
  <1>7. ASSUME NEW g \in File PROVE v.din[g].indirect \in {0} \cup (Block \ v.free) /\ v.din[g].indirect # p
    <2>1. /\ v.din[g].indirect \in {0} \cup (Block \ v.free)
          /\ \A h \in File, i \in Index : v.din[g].indirect # 0 => v.din[g].indirect # Pointer(v, h, i)
      BY Owners
    <2> QED
      BY <1>2, <2>1 DEF p
  <1>8. CASE index < NDIRECT
    <2> DEFINE x == DropDirect(u, f, index)
    <2>1. w = Lessen(x, f, index)
      BY <1>8
    <2>2. /\ x \in States /\ x.free = u.free /\ x.unused = u.unused /\ Aside(v, x, f)
          /\ x.din[f].size = v.din[f].size /\ x.din[f].blocks = v.din[f].blocks
          /\ x.din[f].indirect = v.din[f].indirect
          /\ x.din[f].direct = [v.din[f].direct EXCEPT ![index] = 0] /\ x.cont = u.cont
      <3>1. p \in Block
        BY <1>2
      <3> QED
        BY <1>4, <1>8, <3>1, ForgottenDirect DEF DirectDropped
    <2> HIDE DEF x, w
    <2>3. ASSUME NEW g \in File, g # f PROVE \A i \in Index : Pointer(x, g, i) = Pointer(v, g, i)
      <3>1. x.din[g] = v.din[g]
        BY <2>2, <2>3 DEF Aside
      <3>2. SameNotes(v, x, g)
        BY <1>6, <1>7, <2>2, <3>1 DEF SameNotes
      <3> QED
        BY <3>2, NotesKeep
    <2>4. NotedAt(v, x, f, index, 0)
      <3> SUFFICES ASSUME NEW i \in Index PROVE Pointer(x, f, i) = IF i = index THEN 0 ELSE Pointer(v, f, i)
        BY DEF NotedAt
      <3>1. CASE i < NDIRECT
        <4>1. i \in 0 .. NDIRECT - 1 /\ v.din[f].direct \in [0 .. NDIRECT - 1 -> Block \cup {0}]
          BY <1>2, <3>1, InodeTyped, Numbers DEF Index
        <4> QED
          BY <2>2, <3>1, <4>1 DEF Pointer
      <3>2. CASE ~(i < NDIRECT)
        <4>1. i # index
          BY <1>8, <3>2
        <4>2. v.din[f].indirect # 0 => x.cont[v.din[f].indirect] = v.cont[v.din[f].indirect]
          BY <1>6, <1>7, <2>2
        <4> QED
          BY <2>2, <3>2, <4>1, <4>2 DEF Pointer
      <3> QED
        BY <3>1, <3>2
    <2>5. x.unused = Cardinality(x.free) /\ x.free = v.free \cup {Pointer(v, f, index)}
      BY <1>5, <2>2 DEF p
    <2>5a. OtherData(v, x, f)
      <3>1. \A c \in Block : c # v.din[f].indirect /\ c # p => x.cont[c] = v.cont[c]
        BY <1>6, <2>2
      <3> QED
        BY <1>2, <2>3, <3>1, OtherDataStay DEF p
    <2>6. Shrunk(v, w, f)
      BY <1>1, <2>1, <2>2, <2>3, <2>4, <2>5, <2>5a, ShrunkBy
    <2> QED
      BY <1>3, <2>6 DEF w
  <1>9. CASE ~(index < NDIRECT)
    <2> DEFINE x == DropEntry(u, f, index)
               e == v.din[f].indirect
    <2>1. w = Lessen(x, f, index)
      BY <1>9
    <2>2. e \in Block /\ e # p
      <3>1. index >= NDIRECT
        BY <1>2, <1>9, Numbers
      <3>2. e # 0
        BY <1>2, <3>1, PointerIs DEF p
      <3> QED
        BY <1>7, <3>2
    <2>3. /\ x \in States /\ x.free = u.free /\ x.unused = u.unused /\ Untouched(v, x)
          /\ x.cont[e] = [v.cont[e] EXCEPT ![index - NDIRECT] = 0]
          /\ \A c \in Block : c # e /\ c # p => x.cont[c] = v.cont[c]
      <3>1. index >= NDIRECT /\ p \in Block
        BY <1>2, <1>9, Numbers
      <3> QED
        BY <1>4, <2>2, <3>1, ForgottenEntry DEF EntryDropped
    <2> HIDE DEF x, w, e
    <2>4. Aside(v, x, f) /\ x.din = v.din
      BY <2>3 DEF Aside, Untouched
    <2>5. ASSUME NEW g \in File, g # f PROVE \A i \in Index : Pointer(x, g, i) = Pointer(v, g, i)
      <3>1. v.din[g].indirect # 0 => v.din[g].indirect # e
        <4>1. \A h \in File : g # h /\ v.din[g].indirect # 0 => v.din[g].indirect # v.din[h].indirect
          BY Owners
        <4> QED
          BY <2>5, <4>1 DEF e
      <3>2. v.din[g].indirect \in Block \ v.free => x.cont[v.din[g].indirect] = v.cont[v.din[g].indirect]
        BY <1>7, <2>3, <3>1, Numbers
      <3>3. SameNotes(v, x, g)
        BY <2>4, <3>2 DEF SameNotes
      <3> QED
        BY <3>3, NotesKeep
    <2>6. NotedAt(v, x, f, index, 0)
      <3> SUFFICES ASSUME NEW i \in Index PROVE Pointer(x, f, i) = IF i = index THEN 0 ELSE Pointer(v, f, i)
        BY DEF NotedAt
      <3>1. CASE i < NDIRECT
        <4>1. i # index
          BY <1>9, <3>1
        <4> QED
          BY <2>4, <3>1, <4>1 DEF Pointer
      <3>2. CASE ~(i < NDIRECT)
        <4>1. i - NDIRECT \in 0 .. BLK - 1 /\ (i = index <=> i - NDIRECT = index - NDIRECT)
          BY <1>2, <3>2, Numbers DEF Index
        <4>2. v.cont[e] \in [0 .. BLK - 1 -> Int] /\ e # 0
          BY <1>2, <2>2, FieldsTyped, Numbers
        <4>3. x.cont[e][i - NDIRECT] = IF i = index THEN 0 ELSE v.cont[e][i - NDIRECT]
          BY <2>3, <4>1, <4>2
        <4> QED
          BY <2>4, <3>2, <4>2, <4>3 DEF Pointer, e
      <3> QED
        BY <3>1, <3>2
    <2>7. x.unused = Cardinality(x.free) /\ x.free = v.free \cup {Pointer(v, f, index)}
      BY <1>5, <2>3 DEF p
    <2>7a. OtherData(v, x, f)
      BY <1>2, <2>3, <2>5, OtherDataStay DEF p, e
    <2>8. Shrunk(v, w, f)
      BY <1>1, <2>1, <2>3, <2>4, <2>5, <2>6, <2>7, <2>7a, ShrunkBy
    <2> QED
      BY <1>3, <2>8 DEF w
  <1> QED
    BY <1>8, <1>9

-----------------------------------------------------------------------------
(* Whole blocks. *)
LEMMA Blocks ==
    ASSUME NEW n \in Nat
    PROVE  /\ n \div BLK \in Nat /\ n % BLK \in 0 .. BLK - 1
           /\ n = (n \div BLK) * BLK + (n % BLK)
  <1>1. BLK \in Nat \ {0}
    BY Numbers
  <1>2. n \div BLK \in Nat
    BY <1>1
  <1>3. n % BLK \in 0 .. BLK - 1
    BY <1>1
  <1>4. n % BLK = n - BLK * (n \div BLK)
    BY <1>1
  <1> HIDE DEF Block
  <1> QED
    BY <1>1, <1>2, <1>3, <1>4

LEMMA BlocksIs ==
    ASSUME NEW n \in Nat, NEW q \in Int, q * BLK <= n, n < q * BLK + BLK
    PROVE  n \div BLK = q
  <1>1. BLK \in Nat \ {0}
    BY Numbers
  <1>2. BLK * q <= n /\ n < BLK * q + BLK
    BY <1>1
  <1> QED
    BY <1>1, <1>2

LEMMA Times ==
    ASSUME NEW a \in Int, NEW b \in Int
    PROVE  /\ a * BLK \in Int /\ (a + 1) * BLK = a * BLK + BLK /\ (a - 1) * BLK = a * BLK - BLK
           /\ (a + b) * BLK = a * BLK + b * BLK
           /\ a <= b <=> a * BLK <= b * BLK
           /\ a < b <=> a * BLK < b * BLK
  BY Numbers

LEMMA RoundUpIs ==
    ASSUME NEW n \in Nat
    PROVE  /\ RoundUp(n) \in Nat /\ n <= RoundUp(n) * BLK /\ RoundUp(n) * BLK < n + BLK
           /\ \A q \in Nat : n <= q * BLK /\ q * BLK < n + BLK => RoundUp(n) = q
  <1>1. BLK \in Nat \ {0} /\ n + BLK - 1 \in Nat
    BY Numbers
  <1> DEFINE m == n + BLK - 1
  <1>2. /\ m \div BLK \in Nat /\ m % BLK \in 0 .. BLK - 1
        /\ m = (m \div BLK) * BLK + (m % BLK)
    BY <1>1, Blocks
  <1>3. ASSUME NEW q \in Nat, n <= q * BLK, q * BLK < n + BLK PROVE m \div BLK = q
    <2>1. q * BLK \in Int
      BY <1>1
    <2>2. q * BLK <= m /\ m < q * BLK + BLK
      BY <1>1, <1>3, <2>1
    <2> HIDE DEF m
    <2>3. m \in Nat /\ q \in Int
      BY <1>1 DEF m
    <2> QED
      BY <2>2, <2>3, BlocksIs
  <1>4. RoundUp(n) = m \div BLK
    BY DEF RoundUp
  <1>5. n <= (m \div BLK) * BLK /\ (m \div BLK) * BLK < n + BLK
    <2>1. (m \div BLK) * BLK \in Int
      BY <1>1, <1>2
    <2> QED
      BY <1>1, <1>2, <2>1
  <1> HIDE DEF m
  <1> QED
    BY <1>2, <1>3, <1>4, <1>5

LEMMA RoundUpOfNothing == RoundUp(0) = 0
  <1>1. 0 * BLK = 0 /\ BLK \in Nat \ {0}
    BY Numbers
  <1> QED
    BY <1>1, RoundUpIs

LEMMA RoundUpGrows ==
    ASSUME NEW m \in Nat, NEW n \in Nat, m <= n
    PROVE  RoundUp(m) <= RoundUp(n)
  <1>1. PICK p \in Nat : p = RoundUp(m) /\ p * BLK < m + BLK
    BY RoundUpIs
  <1>2. PICK q \in Nat : q = RoundUp(n) /\ n <= q * BLK
    BY RoundUpIs
  <1>3. (q + 1) * BLK = q * BLK + BLK /\ q * BLK \in Int /\ p * BLK \in Int
    BY Times
  <1>4. p * BLK < (q + 1) * BLK
    BY <1>1, <1>2, <1>3, Numbers
  <1>5. p < q + 1
    <2>1. q + 1 \in Int /\ p \in Int
      OBVIOUS
    <2> QED
      BY <1>4, <2>1, Times
  <1> QED
    BY <1>1, <1>2, <1>5

LEMMA RoundUpFits ==
    ASSUME NEW n \in Nat, n <= MAX_SIZE
    PROVE  RoundUp(n) \in 0 .. NDIRECT + BLK
  <1> DEFINE r == RoundUp(n)
  <1>1. r \in Nat /\ r * BLK < n + BLK
    BY RoundUpIs
  <1>2. PICK k \in Nat : k = NDIRECT + BLK /\ n <= k * BLK
    <2>1. n <= (NDIRECT + BLK) * BLK /\ NDIRECT + BLK \in Nat
      BY Numbers
    <2> QED
      BY <2>1
  <1> HIDE DEF r
  <1>3. (k + 1) * BLK = k * BLK + BLK /\ k * BLK \in Int /\ r * BLK \in Int
    BY <1>1, <1>2, Times
  <1>4. r * BLK < (k + 1) * BLK
    BY <1>1, <1>2, <1>3, Numbers
  <1>5. r < k + 1
    <2>1. k + 1 \in Int /\ r \in Int
      BY <1>1
    <2> QED
      BY <1>4, <2>1, Times
  <1> QED
    BY <1>1, <1>2, <1>5 DEF r

-----------------------------------------------------------------------------
(* Enlarged and Reduced, one block at a time.                              *)
More(u, f) == IF u.ok THEN bmap_load(u.v, f, u.v.din[f].blocks) ELSE u
Adding(g, v, f, n) == g = [i \in 0 .. n |-> IF i = 0 THEN Success(v, 0) ELSE More(g[i - 1], f)]
Taking(g, v, f, n) == g = [i \in 0 .. n |-> IF i = 0 THEN v ELSE bmap_truncate(g[i - 1], f)]

LEMMA AddingExists ==
    ASSUME NEW v, NEW f, NEW n \in Nat
    PROVE  \E g : Adding(g, v, f, n)
  <1> DEFINE Good == {m \in Nat : \E g : Adding(g, v, f, m)}
  <1>1. 0 \in Good
    <2>1. Adding([i \in 0 .. 0 |-> Success(v, 0)], v, f, 0)
      BY DEF Adding
    <2> QED
      BY <2>1
  <1>2. ASSUME NEW m \in Nat, m \in Good PROVE m + 1 \in Good
    <2>1. PICK g : Adding(g, v, f, m)
      BY <1>2
    <2> DEFINE h == [i \in 0 .. m + 1 |-> IF i = m + 1 THEN More(g[m], f) ELSE g[i]]
    <2>2. ASSUME NEW i \in 0 .. m + 1 PROVE h[i] = IF i = 0 THEN Success(v, 0) ELSE More(h[i - 1], f)
      <3>1. CASE i = m + 1
        <4>1. i # 0 /\ i - 1 = m /\ m \in 0 .. m + 1 /\ m # m + 1
          BY <3>1
        <4> QED
          BY <3>1, <4>1
      <3>2. CASE i # m + 1
        <4>1. i \in 0 .. m /\ (i # 0 => i - 1 \in 0 .. m + 1 /\ i - 1 # m + 1)
          BY <3>2
        <4>2. g[i] = IF i = 0 THEN Success(v, 0) ELSE More(g[i - 1], f)
          BY <2>1, <4>1 DEF Adding
        <4> QED
          BY <3>2, <4>1, <4>2
      <3> QED
        BY <3>1, <3>2
    <2>3. Adding(h, v, f, m + 1)
      BY <2>2 DEF Adding
    <2> HIDE DEF h
    <2>4. \E k : Adding(k, v, f, m + 1)
      BY <2>3
    <2> QED
      BY <2>4
  <1> HIDE DEF Good
  <1>3. Nat \subseteq Good
    BY <1>1, <1>2, Induction
  <1> QED
    BY <1>3 DEF Good

LEMMA TakingExists ==
    ASSUME NEW v, NEW f, NEW n \in Nat
    PROVE  \E g : Taking(g, v, f, n)
  <1> DEFINE Good == {m \in Nat : \E g : Taking(g, v, f, m)}
  <1>1. 0 \in Good
    <2>1. Taking([i \in 0 .. 0 |-> v], v, f, 0)
      BY DEF Taking
    <2> QED
      BY <2>1
  <1>2. ASSUME NEW m \in Nat, m \in Good PROVE m + 1 \in Good
    <2>1. PICK g : Taking(g, v, f, m)
      BY <1>2
    <2> DEFINE h == [i \in 0 .. m + 1 |-> IF i = m + 1 THEN bmap_truncate(g[m], f) ELSE g[i]]
    <2>2. ASSUME NEW i \in 0 .. m + 1 PROVE h[i] = IF i = 0 THEN v ELSE bmap_truncate(h[i - 1], f)
      <3>1. CASE i = m + 1
        <4>1. i # 0 /\ i - 1 = m /\ m \in 0 .. m + 1 /\ m # m + 1
          BY <3>1
        <4> QED
          BY <3>1, <4>1
      <3>2. CASE i # m + 1
        <4>1. i \in 0 .. m /\ (i # 0 => i - 1 \in 0 .. m + 1 /\ i - 1 # m + 1)
          BY <3>2
        <4>2. g[i] = IF i = 0 THEN v ELSE bmap_truncate(g[i - 1], f)
          BY <2>1, <4>1 DEF Taking
        <4> QED
          BY <3>2, <4>1, <4>2
      <3> QED
        BY <3>1, <3>2
    <2>3. Taking(h, v, f, m + 1)
      BY <2>2 DEF Taking
    <2> HIDE DEF h
    <2>4. \E k : Taking(k, v, f, m + 1)
      BY <2>3
    <2> QED
      BY <2>4
  <1> HIDE DEF Good
  <1>3. Nat \subseteq Good
    BY <1>1, <1>2, Induction
  <1> QED
    BY <1>3 DEF Good

(* m blocks more, or fewer than m because the disk is full. *)
Longer(v, u, f, m) ==
    /\ Core(u.v) /\ Aside(v, u.v, f) /\ u.v.din[f].size = v.din[f].size
    /\ u.ok => u.v.din[f].blocks = v.din[f].blocks + m
    /\ SameUnits(v, u.v)

LEMMA EnlargedGrows ==
    ASSUME NEW v, Core(v), NEW f \in File, NEW n \in Nat, v.din[f].blocks + n <= NDIRECT + BLK
    PROVE  Longer(v, Enlarged(v, f, v.din[f].blocks + n), f, n)
  <1> DEFINE blocks == v.din[f].blocks
             g == CHOOSE h : Adding(h, v, f, n)
             Good == {m \in Nat : m <= n => Longer(v, g[m], f, m)}
  <1>1. blocks \in Nat /\ (blocks + n) - blocks = n
    BY InodeTyped DEF Core, Whole
  <1>2. Enlarged(v, f, blocks + n) = g[n]
    BY <1>1 DEF Enlarged, Adding, More
  <1>3. Adding(g, v, f, n)
    BY AddingExists
  <1> HIDE DEF g
  <1>4. 0 \in Good
    <2>1. g[0] = Success(v, 0)
      BY <1>3 DEF Adding
    <2> QED
      BY <1>1, <2>1 DEF Longer, Aside, Success, SameUnits, SameIn
  <1>5. ASSUME NEW m \in Nat, m \in Good PROVE m + 1 \in Good
    <2> SUFFICES ASSUME m + 1 <= n PROVE Longer(v, g[m + 1], f, m + 1)
      OBVIOUS
    <2> DEFINE u == g[m]
               r == g[m + 1]
    <2>1. Longer(v, u, f, m)
      BY <1>5
    <2>2. r = More(u, f)
      <3>1. m + 1 \in 0 .. n /\ m + 1 # 0 /\ (m + 1) - 1 = m
        OBVIOUS
      <3> QED
        BY <1>3, <3>1 DEF Adding
    <2> HIDE DEF u, r, Good
    <2>3. CASE ~u.ok
      <3>1. r = u
        BY <2>2, <2>3 DEF More
      <3> QED
        BY <2>1, <2>3, <3>1 DEF Longer, r
    <2>4. CASE u.ok
      <3>1. /\ u.v.din[f].blocks = blocks + m /\ blocks + m \in Index /\ Core(u.v)
            /\ r = bmap_load(u.v, f, blocks + m)
        BY <1>1, <2>1, <2>2, <2>4, Numbers DEF Longer, More, Index
      <3>2. PICK index \in Index : index = blocks + m
        BY <3>1
      <3>3. GrownOrNot(u.v, r, f)
        <4>1. PICK w : w = u.v
          OBVIOUS
        <4>2. GrownOrNot(w, bmap_load(w, f, index), f)
          BY <3>1, <3>2, <4>1, LoadMore
        <4> QED
          BY <3>1, <3>2, <4>1, <4>2
      <3>4. ASSUME NEW w, NEW b, r = Success(w, b), Grown(u.v, w, b, f) PROVE Longer(v, r, f, m + 1)
        <4>1. r.v = w
          BY <3>4 DEF Success
        <4>2. Core(w) /\ Aside(v, w, f) /\ w.din[f].size = v.din[f].size
          BY <2>1, <3>4 DEF Grown, Longer, Aside
        <4>3. w.din[f].blocks = blocks + (m + 1)
          BY <1>1, <3>1, <3>4 DEF Grown
        <4>4. SameUnits(v, w)
          BY <2>1, <3>4, SameInTwice DEF Grown, Longer, SameUnits
        <4> QED
          BY <4>1, <4>2, <4>3, <4>4 DEF Longer
      <3>5. ASSUME NEW w, r = Failure(w), Core(w), Untouched(u.v, w), SameUnits(u.v, w) PROVE Longer(v, r, f, m + 1)
        <4>1. r.v = w /\ ~r.ok
          BY <3>5 DEF Failure
        <4>2. Aside(v, w, f) /\ w.din[f].size = v.din[f].size
          BY <2>1, <3>5 DEF Longer, Aside, Untouched
        <4>3. SameUnits(v, w)
          BY <2>1, <3>5, SameInTwice DEF Longer, SameUnits
        <4> QED
          BY <3>5, <4>1, <4>2, <4>3 DEF Longer
      <3>6. Longer(v, r, f, m + 1)
        BY <3>3, <3>4, <3>5 DEF GrownOrNot
      <3> QED
        BY <3>6 DEF r
    <2> QED
      BY <2>3, <2>4
  <1> HIDE DEF Good
  <1>6. Nat \subseteq Good
    BY <1>4, <1>5, Induction
  <1>7. Longer(v, g[n], f, n)
    BY <1>6 DEF Good
  <1> QED
    BY <1>2, <1>7

Shorter(v, w, f, m) ==
    /\ Core(w) /\ Aside(v, w, f)
    /\ w.din[f].size = v.din[f].size /\ w.din[f].blocks = v.din[f].blocks - m
    /\ OtherUnits(v, w, f) /\ (m = 0 => w = v)

LEMMA ReducedShrinks ==
    ASSUME NEW v, Core(v), NEW f \in File, NEW n \in Nat, n <= v.din[f].blocks
    PROVE  Shorter(v, Reduced(v, f, v.din[f].blocks - n), f, n)
  <1> DEFINE blocks == v.din[f].blocks
             g == CHOOSE h : Taking(h, v, f, n)
             Good == {m \in Nat : m <= n => Shorter(v, g[m], f, m)}
  <1>1. blocks \in Nat /\ blocks - (blocks - n) = n
    BY InodeTyped DEF Core, Whole
  <1>2. Reduced(v, f, blocks - n) = g[n]
    BY <1>1 DEF Reduced, Taking
  <1>3. Taking(g, v, f, n)
    BY TakingExists
  <1> HIDE DEF g
  <1>4. 0 \in Good
    <2>1. g[0] = v
      BY <1>3 DEF Taking
    <2> QED
      BY <1>1, <2>1 DEF Shorter, Aside, OtherUnits, SameIn
  <1>5. ASSUME NEW m \in Nat, m \in Good PROVE m + 1 \in Good
    <2> SUFFICES ASSUME m + 1 <= n PROVE Shorter(v, g[m + 1], f, m + 1)
      OBVIOUS
    <2> DEFINE u == g[m]
               w == g[m + 1]
    <2>1. Shorter(v, u, f, m)
      BY <1>5
    <2>2. w = bmap_truncate(u, f)
      <3>1. m + 1 \in 0 .. n /\ m + 1 # 0 /\ (m + 1) - 1 = m
        OBVIOUS
      <3> QED
        BY <1>3, <3>1 DEF Taking
    <2> HIDE DEF u, w, Good
    <2>3. Shrunk(u, w, f)
      <3>1. Core(u) /\ u.din[f].blocks > 0
        BY <1>1, <2>1 DEF Shorter
      <3> QED
        BY <2>2, <3>1, TruncateShrinks
    <2>4. Core(w) /\ Aside(v, w, f) /\ w.din[f].size = v.din[f].size
      BY <2>1, <2>3 DEF Shorter, Shrunk, Aside
    <2>5. w.din[f].blocks = blocks - (m + 1)
      <3>1. w.din[f].blocks + 1 = blocks - m
        BY <2>1, <2>3 DEF Shorter, Shrunk
      <3>2. w.din[f].blocks \in Nat
        BY <2>4, InodeTyped DEF Core, Whole
      <3> QED
        BY <1>1, <3>1, <3>2
    <2>5a. OtherUnits(v, w, f)
      BY <2>1, <2>3, SameInTwice DEF Shorter, Shrunk, OtherUnits
    <2>6. Shorter(v, w, f, m + 1)
      BY <2>4, <2>5, <2>5a DEF Shorter
    <2> QED
      BY <2>6 DEF w
  <1> HIDE DEF Good
  <1>6. Nat \subseteq Good
    BY <1>4, <1>5, Induction
  <1>7. Shorter(v, g[n], f, n)
    BY <1>6 DEF Good
  <1> QED
    BY <1>2, <1>7

-----------------------------------------------------------------------------
(* A new size, and dirty. *)
Resize(x, f, len) == [x EXCEPT !.din[f].size = len, !.dirty[f] = TRUE]

Resized(x, w, f, len) ==
    /\ Core(w) /\ Aside(x, w, f) /\ w.dirty[f] /\ w.din[f].size = len
    /\ w.din[f].blocks = x.din[f].blocks /\ SameUnits(x, w)

LEMMA ResizeIs ==
    ASSUME NEW x, Core(x), NEW f \in File, NEW len \in Nat
    PROVE  Resized(x, Resize(x, f, len), f, len)
  <1> DEFINE y == [x EXCEPT !.din[f].size = len]
             w == Resize(x, f, len)
  <1>0. x \in States /\ x.unused = Cardinality(x.free)
    BY DEF Core, Whole
  <1>1. w = MarkDirty(y, f)
    BY DEF Resize, MarkDirty
  <1>2. SameBut(x, y) /\ y.dirty = x.dirty /\ Inode(x, y, f, [x.din[f] EXCEPT !.size = len])
    <2> HIDE DEF y
    <2> QED
      BY <1>0, NewSize DEF y
  <1> HIDE DEF y, w
  <1>3. /\ SameBut(y, w) /\ w.din = y.din /\ w.dirty[f]
        /\ \A g \in File : g # f => w.dirty[g] = y.dirty[g]
    <2>1. y \in States
      BY <1>2 DEF SameBut
    <2>2. Marked(y, w, f)
      BY <1>1, <2>1, SetDirty
    <2> QED
      BY <2>2 DEF Marked
  <1>4. x.din[f] \in Inodes
    BY <1>0, FieldsTyped
  <1>5. /\ w.din[f].size = len /\ w.din[f].blocks = x.din[f].blocks
        /\ w.din[f].indirect = x.din[f].indirect /\ w.din[f].direct = x.din[f].direct
    <2>1. w.din[f] = [x.din[f] EXCEPT !.size = len]
      BY <1>2, <1>3 DEF Inode
    <2> QED
      BY <1>4, <2>1 DEF Inodes
  <1>6. Aside(x, w, f)
    BY <1>2, <1>3 DEF Aside, SameBut, Inode
  <1>7. w \in States /\ w.free = x.free /\ w.unused = x.unused /\ w.cont = x.cont
    BY <1>2, <1>3 DEF SameBut
  <1>8. Core(w)
    <2>1. Whole(w)
      BY <1>0, <1>7 DEF Whole
    <2>2. ASSUME NEW g \in File
          PROVE  /\ w.din[g].blocks = x.din[g].blocks /\ w.din[g].indirect = x.din[g].indirect
                 /\ \A i \in Index : Pointer(w, g, i) = Pointer(x, g, i)
      <3>1. /\ w.din[g].blocks = x.din[g].blocks /\ w.din[g].indirect = x.din[g].indirect
            /\ w.din[g].direct = x.din[g].direct
        BY <1>5, <1>6 DEF Aside
      <3>2. SameNotes(x, w, g)
        BY <1>7, <3>1 DEF SameNotes
      <3>3. \A i \in Index : Pointer(w, g, i) = Pointer(x, g, i)
        BY <3>2, NotesKeep
      <3> QED
        BY <3>1, <3>3
    <2> QED
      BY <1>7, <2>1, <2>2, SameBlocks
  <1>9. SameUnits(x, w)
    <2> SUFFICES ASSUME NEW g \in File PROVE SameIn(x, w, g)
      BY DEF SameUnits
    <2>1. /\ w.din[g].blocks = x.din[g].blocks /\ w.din[g].indirect = x.din[g].indirect
          /\ w.din[g].direct = x.din[g].direct
      BY <1>5, <1>6 DEF Aside
    <2>2. SamePointers(x, w, g)
      BY <1>7, <2>1 DEF SamePointers, Pointer
    <2>3. SameData(x, w, g)
      BY <1>7, <2>2 DEF SamePointers, SameData
    <2> QED
      BY <1>0, <2>1, <2>3, UnitsStay
  <1> QED
    BY <1>3, <1>5, <1>6, <1>8, <1>9 DEF Resized, w

-----------------------------------------------------------------------------
(* sfs_truncfile, when it does not fail. *)
Sized(v, f) == v.din[f].blocks = RoundUp(v.din[f].size)

Truncated(v, w, f, len) ==
    /\ Core(w) /\ Aside(v, w, f)
    /\ v.din[f].size = len => w = v
    /\ v.din[f].size # len => w.din[f].size = len /\ Sized(w, f) /\ w.dirty[f]
    /\ OtherUnits(v, w, f)
    /\ v.din[f].size <= len => SameIn(v, w, f)

LEMMA TruncfileIs ==
    ASSUME NEW v, Core(v), NEW f \in File, Sized(v, f), NEW len \in Nat, len <= MAX_SIZE,
           truncfile(v, f, len).ok
    PROVE  Truncated(v, truncfile(v, f, len).v, f, len)
  <1> DEFINE t == truncfile(v, f, len)
             tblks == RoundUp(len)
             blocks == v.din[f].blocks
  <1>1. blocks \in Nat /\ tblks \in 0 .. NDIRECT + BLK
    BY InodeTyped, RoundUpFits DEF Core, Whole
  <1>2. CASE v.din[f].size = len
    <2>1. t = [v |-> v, ok |-> TRUE]
      BY <1>2 DEF truncfile, Check, Sized
    <2> QED
      BY <1>2, <2>1 DEF Truncated, Aside, OtherUnits, SameIn
  <1>3. ASSUME v.din[f].size # len, NEW e, Core(e), Aside(v, e, f), e.din[f].blocks = tblks,
               OtherUnits(v, e, f), v.din[f].size <= len => SameIn(v, e, f),
               t = [v |-> Resize(e, f, len), ok |-> TRUE]
        PROVE  Truncated(v, t.v, f, len)
    <2> DEFINE w == Resize(e, f, len)
    <2>1. Resized(e, w, f, len)
      BY <1>3, ResizeIs
    <2>2. t.v = w
      BY <1>3
    <2> HIDE DEF w, t
    <2>3. Aside(v, w, f)
      BY <1>3, <2>1 DEF Resized, Aside
    <2>4. Sized(w, f)
      BY <1>3, <2>1 DEF Resized, Sized
    <2>5. OtherUnits(v, w, f)
      BY <1>3, <2>1, SameInTwice DEF Resized, SameUnits, OtherUnits
    <2>6. v.din[f].size <= len => SameIn(v, w, f)
      BY <1>3, <2>1, SameInTwice DEF Resized, SameUnits
    <2> QED
      BY <1>3, <2>1, <2>2, <2>3, <2>4, <2>5, <2>6 DEF Truncated, Resized
  <1>4. CASE v.din[f].size # len /\ blocks < tblks
    <2> DEFINE u == Enlarged(v, f, tblks)
    <2>1. Longer(v, u, f, tblks - blocks)
      <3>1. PICK n \in Nat : tblks = blocks + n
        <4>1. tblks - blocks \in Nat /\ tblks = blocks + (tblks - blocks)
          BY <1>1, <1>4
        <4> QED
          BY <4>1
      <3>2. blocks + n <= NDIRECT + BLK
        BY <1>1, <3>1, Numbers
      <3>3. Longer(v, Enlarged(v, f, v.din[f].blocks + n), f, n)
        BY <3>2, EnlargedGrows
      <3>4. tblks - blocks = n
        BY <1>1, <3>1
      <3> QED
        BY <3>1, <3>3, <3>4
    <2> HIDE DEF u
    <2>2. CASE ~u.ok
      <3>1. ~t.ok
        BY <1>4, <2>2 DEF truncfile, u
      <3> QED
        BY <3>1
    <2>3. CASE u.ok
      <3>1. u.v.din[f].blocks = tblks /\ Core(u.v) /\ Aside(v, u.v, f)
        BY <1>1, <2>1, <2>3 DEF Longer
      <3>2. t = [v |-> Resize(u.v, f, len), ok |-> TRUE]
        BY <1>4, <2>3, <3>1 DEF truncfile, u, Check, Resize
      <3>3. OtherUnits(v, u.v, f) /\ SameIn(v, u.v, f)
        BY <2>1 DEF Longer, SameUnits, OtherUnits
      <3> QED
        BY <1>3, <1>4, <3>1, <3>2, <3>3
    <2> QED
      BY <2>2, <2>3
  <1>5. CASE v.din[f].size # len /\ ~(blocks < tblks)
    <2> DEFINE u == Reduced(v, f, tblks)
    <2>1. Shorter(v, u, f, blocks - tblks)
      <3>1. PICK n \in Nat : tblks = blocks - n /\ n <= blocks
        <4>1. blocks - tblks \in Nat /\ tblks = blocks - (blocks - tblks) /\ blocks - tblks <= blocks
          BY <1>1, <1>5
        <4> QED
          BY <4>1
      <3>2. Shorter(v, Reduced(v, f, v.din[f].blocks - n), f, n)
        BY <3>1, ReducedShrinks
      <3>3. blocks - tblks = n
        BY <1>1, <3>1
      <3> QED
        BY <3>1, <3>2, <3>3
    <2> HIDE DEF u
    <2>2. u.din[f].blocks = tblks /\ Core(u) /\ Aside(v, u, f)
      BY <1>1, <2>1 DEF Shorter
    <2>3. t = [v |-> Resize(u, f, len), ok |-> TRUE]
      BY <1>5, <2>2 DEF truncfile, u, Check, Resize
    <2>4. OtherUnits(v, u, f)
      BY <2>1 DEF Shorter
    (* Room for more than there is in as many blocks is no fewer blocks. *)
    <2>5. ASSUME v.din[f].size <= len PROVE SameIn(v, u, f)
      <3>1. v.din[f].size \in Nat /\ blocks = RoundUp(v.din[f].size)
        BY InodeTyped DEF Core, Whole, Sized
      <3>2. blocks <= tblks
        BY <2>5, <3>1, RoundUpGrows
      <3>3. blocks - tblks = 0
        BY <1>1, <1>5, <3>2
      <3>4. u = v
        BY <2>1, <3>3 DEF Shorter
      <3> QED
        BY <3>4 DEF SameIn
    <2> QED
      BY <1>3, <1>5, <2>2, <2>3, <2>4, <2>5
  <1> QED
    BY <1>2, <1>4, <1>5

(* Nothing can fail when a file is emptied. *)
LEMMA EmptyingSucceeds ==
    ASSUME NEW v, Core(v), NEW f \in File
    PROVE  truncfile(v, f, 0).ok
  <1>1. v.din[f].blocks \in Nat
    BY InodeTyped DEF Core, Whole
  <1>2. RoundUp(0) = 0
    BY RoundUpOfNothing
  <1>3. ~(v.din[f].blocks < RoundUp(0))
    BY <1>1, <1>2
  <1> QED
    BY <1>3 DEF truncfile

-----------------------------------------------------------------------------
(* The chunks of a transfer: without a gap from offset to endpos, each      *)
(* inside one block.                                                       *)
Start(c) == c.no * BLK + c.from
Stop(c) == Start(c) + c.size
Chunk == [no : Nat, from : Nat, size : Nat \ {0}]

Tiles(cs, offset, endpos) ==
    /\ Len(cs) \in Nat /\ Len(cs) >= 1 /\ Stop(cs[Len(cs)]) = endpos
    /\ \A k \in 1 .. Len(cs) :
         /\ cs[k] \in Chunk /\ cs[k].from + cs[k].size <= BLK /\ Stop(cs[k]) <= endpos
         /\ Start(cs[k]) = IF k = 1 THEN offset ELSE Stop(cs[k - 1])

Join(cs, F, M) ==
    /\ Len(cs) = Len(F) + Len(M)
    /\ \A k \in 1 .. Len(F) + Len(M) : cs[k] = IF k <= Len(F) THEN F[k] ELSE M[k - Len(F)]

LEMMA JoinedTwo ==
    ASSUME NEW C, NEW F \in Seq(C), NEW M \in Seq(C)
    PROVE  F \o M \in Seq(C) /\ Join(F \o M, F, M)
  <1>1. F \o M \in Seq(C) /\ Len(F \o M) = Len(F) + Len(M)
    OBVIOUS
  <1>2. ASSUME NEW k \in 1 .. Len(F) + Len(M) PROVE (F \o M)[k] = IF k <= Len(F) THEN F[k] ELSE M[k - Len(F)]
    OBVIOUS
  <1> QED
    BY <1>1, <1>2 DEF Join

Joined(cs, F, M, L) ==
    /\ Len(cs) = Len(F) + Len(M) + Len(L)
    /\ \A k \in 1 .. Len(F) + Len(M) + Len(L) :
         cs[k] = IF k <= Len(F) THEN F[k]
                 ELSE IF k <= Len(F) + Len(M) THEN M[k - Len(F)]
                 ELSE L[k - Len(F) - Len(M)]

LEMMA JoinedThree ==
    ASSUME NEW C, NEW F \in Seq(C), NEW M \in Seq(C), NEW L \in Seq(C)
    PROVE  Joined(F \o M \o L, F, M, L)
  <1> DEFINE FM == F \o M
  <1>1. FM \in Seq(C) /\ Join(FM, F, M)
    BY JoinedTwo
  <1> HIDE DEF FM
  <1>2. Join(FM \o L, FM, L)
    BY <1>1, JoinedTwo
  <1>3. ASSUME NEW k \in 1 .. Len(F) + Len(M) + Len(L)
        PROVE  (FM \o L)[k] = IF k <= Len(F) THEN F[k]
                              ELSE IF k <= Len(F) + Len(M) THEN M[k - Len(F)]
                              ELSE L[k - Len(F) - Len(M)]
    <2>1. Len(F) \in Nat /\ Len(M) \in Nat /\ Len(L) \in Nat
      OBVIOUS
    <2>2. Len(FM) = Len(F) + Len(M)
      BY <1>1 DEF Join
    <2>3. (FM \o L)[k] = IF k <= Len(FM) THEN FM[k] ELSE L[k - Len(FM)]
      BY <1>2, <2>1, <2>2 DEF Join
    <2>4. k <= Len(FM) => FM[k] = IF k <= Len(F) THEN F[k] ELSE M[k - Len(F)]
      BY <1>1, <2>1, <2>2 DEF Join
    <2> QED
      BY <2>1, <2>2, <2>3, <2>4
  <1>4. Len(FM \o L) = Len(F) + Len(M) + Len(L)
    BY <1>1, <1>2 DEF Join
  <1> QED
    BY <1>3, <1>4 DEF FM, Joined

(* Chunk number k of a transfer that ends behind nblks blocks. *)
ChunkIs(c, k, blkno, blkoff, nblks, rest) ==
    c = [no |-> blkno + k - 1, from |-> IF k = 1 THEN blkoff ELSE 0,
         size |-> IF k <= nblks THEN IF k = 1 THEN BLK - blkoff ELSE BLK ELSE rest]

LEMMA ChunkOf ==
    ASSUME NEW offset \in Nat, NEW endpos \in Nat, offset < endpos,
           NEW blkno \in Nat, blkno = offset \div BLK, NEW blkoff \in 0 .. BLK - 1, blkoff = offset % BLK,
           NEW nblks \in Nat, blkno + nblks = endpos \div BLK,
           NEW rest \in 0 .. BLK - 1, rest = endpos % BLK, blkoff = 0 \/ nblks > 0
    PROVE  /\ Len(Chunks(offset, endpos)) = nblks + (IF rest = 0 THEN 0 ELSE 1)
           /\ \A k \in 1 .. nblks + (IF rest = 0 THEN 0 ELSE 1) :
                ChunkIs(Chunks(offset, endpos)[k], k, blkno, blkoff, nblks, rest)
  <1> DEFINE whole == IF blkoff = 0 THEN 0 ELSE 1
             C == [no : Int, from : Int, size : Int]
             F == IF blkoff = 0 THEN <<>> ELSE <<[no |-> blkno, from |-> blkoff, size |-> BLK - blkoff]>>
             M == [i \in 1 .. nblks - whole |-> [no |-> blkno + whole + i - 1, from |-> 0, size |-> BLK]]
             L == IF rest = 0 THEN <<>> ELSE <<[no |-> blkno + nblks, from |-> 0, size |-> rest]>>
  <1>1. BLK \in Nat \ {0} /\ nblks - whole \in Nat
    BY Numbers
  <1>2. Chunks(offset, endpos) = F \o M \o L
    <2>1. (endpos \div BLK) - blkno = nblks /\ ~(blkoff # 0 /\ nblks = 0)
      BY <1>1
    <2> QED
      BY <2>1 DEF Chunks
  <1>3. F \in Seq(C) /\ Len(F) = whole /\ (whole = 1 => F[1] = [no |-> blkno, from |-> blkoff, size |-> BLK - blkoff])
    <2> DEFINE c == [no |-> blkno, from |-> blkoff, size |-> BLK - blkoff]
    <2>1. c \in C
      BY <1>1
    <2>2. F = IF blkoff = 0 THEN <<>> ELSE <<c>>
      OBVIOUS
    <2> HIDE DEF c, F, C
    <2>3. <<>> \in Seq(C) /\ Len(<<>>) = 0 /\ <<c>> \in Seq(C) /\ Len(<<c>>) = 1 /\ <<c>>[1] = c
      BY <2>1
    <2> QED
      BY <2>2, <2>3 DEF c
  <1>4. M \in Seq(C) /\ Len(M) = nblks - whole
    <2>1. ASSUME NEW i \in 1 .. nblks - whole
          PROVE  [no |-> blkno + whole + i - 1, from |-> 0, size |-> BLK] \in C
      BY <1>1
    <2> QED
      BY <1>1, <2>1
  <1>5. L \in Seq(C) /\ Len(L) = (IF rest = 0 THEN 0 ELSE 1)
        /\ (rest # 0 => L[1] = [no |-> blkno + nblks, from |-> 0, size |-> rest])
    <2> DEFINE c == [no |-> blkno + nblks, from |-> 0, size |-> rest]
    <2>1. c \in C
      BY <1>1
    <2>2. L = IF rest = 0 THEN <<>> ELSE <<c>>
      BY Zenon
    <2> HIDE DEF c, L, C
    <2>3. <<>> \in Seq(C) /\ Len(<<>>) = 0 /\ <<c>> \in Seq(C) /\ Len(<<c>>) = 1 /\ <<c>>[1] = c
      BY <2>1
    <2> QED
      BY <2>2, <2>3 DEF c
  <1>6. \A i \in 1 .. nblks - whole : M[i] = [no |-> blkno + whole + i - 1, from |-> 0, size |-> BLK]
    OBVIOUS
  <1>7. whole \in {0, 1} /\ (whole = 0 <=> blkoff = 0)
    OBVIOUS
  <1> DEFINE n == nblks + (IF rest = 0 THEN 0 ELSE 1)
             cs == F \o M \o L
  <1> HIDE DEF F, M, L, C, whole
  <1>8. /\ Len(cs) = n
        /\ \A k \in 1 .. n :
             cs[k] = IF k <= whole THEN F[k] ELSE IF k <= nblks THEN M[k - whole] ELSE L[k - nblks]
    <2>1. /\ Len(cs) = Len(F) + Len(M) + Len(L)
          /\ \A k \in 1 .. Len(F) + Len(M) + Len(L) :
               cs[k] = IF k <= Len(F) THEN F[k]
                       ELSE IF k <= Len(F) + Len(M) THEN M[k - Len(F)]
                       ELSE L[k - Len(F) - Len(M)]
      <3> HIDE DEF cs
      <3>1. Joined(cs, F, M, L)
        BY <1>3, <1>4, <1>5, JoinedThree DEF cs
      <3> QED
        BY <3>1 DEF Joined
    <2>2. Len(F) + Len(M) = nblks /\ Len(F) + Len(M) + Len(L) = n
      BY <1>1, <1>3, <1>4, <1>5, <1>7
    <2> HIDE DEF cs, n
    <2>3. ASSUME NEW k \in 1 .. n
          PROVE  cs[k] = IF k <= whole THEN F[k] ELSE IF k <= nblks THEN M[k - whole] ELSE L[k - nblks]
      <3>1. cs[k] = IF k <= Len(F) THEN F[k]
                    ELSE IF k <= Len(F) + Len(M) THEN M[k - Len(F)]
                    ELSE L[k - Len(F) - Len(M)]
        BY <2>1, <2>2
      <3>2. n \in Int /\ k \in Int /\ k - Len(F) - Len(M) = k - nblks
        BY <1>3, <1>4, <1>7, <2>2 DEF n
      <3> QED
        BY <1>3, <2>2, <3>1, <3>2
    <2> QED
      BY <2>1, <2>2, <2>3
  <1> HIDE DEF cs
  <1>9. ASSUME NEW k \in 1 .. n PROVE ChunkIs(cs[k], k, blkno, blkoff, nblks, rest)
    <2>1. cs[k] = IF k <= whole THEN F[k] ELSE IF k <= nblks THEN M[k - whole] ELSE L[k - nblks]
      BY <1>8
    <2>2. CASE k <= whole
      <3>1. k = 1 /\ whole = 1 /\ k <= nblks
        BY <1>1, <1>7, <2>2
      <3> QED
        BY <1>1, <1>3, <2>1, <2>2, <3>1 DEF ChunkIs
    <2>3. CASE ~(k <= whole) /\ k <= nblks
      <3>1. k - whole \in 1 .. nblks - whole /\ blkno + whole + (k - whole) - 1 = blkno + k - 1
        BY <1>1, <1>7, <2>3
      <3>2. cs[k] = [no |-> blkno + k - 1, from |-> 0, size |-> BLK]
        BY <1>6, <2>1, <2>3, <3>1
      <3>3. k = 1 => blkoff = 0
        BY <1>7, <2>3
      <3> QED
        BY <1>1, <2>3, <3>2, <3>3 DEF ChunkIs
    <2>4. CASE ~(k <= nblks)
      <3>1. k = nblks + 1 /\ rest # 0 /\ k - nblks = 1
        BY <2>4 DEF n
      <3>2. cs[k] = [no |-> blkno + nblks, from |-> 0, size |-> rest]
        BY <1>1, <1>5, <1>7, <2>1, <2>4, <3>1
      <3>3. k = 1 => blkoff = 0
        BY <3>1
      <3>4. blkno + nblks = blkno + k - 1
        BY <3>1
      <3> QED
        BY <2>4, <3>2, <3>3, <3>4 DEF ChunkIs
    <2> QED
      BY <1>1, <1>7, <2>2, <2>3, <2>4
  <1> QED
    BY <1>2, <1>8, <1>9 DEF cs

LEMMA ChunksTile ==
    ASSUME NEW offset \in Nat, NEW endpos \in Nat, offset < endpos
    PROVE  Tiles(Chunks(offset, endpos), offset, endpos)
  <1> DEFINE cs == Chunks(offset, endpos)
  <1>1. PICK blkno \in Nat, blkoff \in 0 .. BLK - 1 :
          blkno = offset \div BLK /\ blkoff = offset % BLK /\ offset = blkno * BLK + blkoff
    BY Blocks
  <1>2. PICK q \in Nat, rest \in 0 .. BLK - 1 :
          q = endpos \div BLK /\ rest = endpos % BLK /\ endpos = q * BLK + rest
    BY Blocks
  <1>3. BLK \in Nat \ {0}
    BY Numbers
  <1>4. blkno <= q
    <2>1. (q + 1) * BLK = q * BLK + BLK /\ blkno * BLK \in Int /\ q * BLK \in Int
      BY <1>3, Times
    <2>2. blkno * BLK < (q + 1) * BLK
      BY <1>1, <1>2, <1>3, <2>1
    <2>3. blkno < q + 1
      <3>1. q + 1 \in Int /\ blkno \in Int
        OBVIOUS
      <3> QED
        BY <2>2, <3>1, Times
    <2> QED
      BY <2>3
  <1>5. PICK nblks \in Nat : blkno + nblks = q
    <2>1. q - blkno \in Nat /\ blkno + (q - blkno) = q
      BY <1>4
    <2> QED
      BY <2>1
  <1>6. CASE blkoff # 0 /\ nblks = 0
    <2> DEFINE c == [no |-> blkno, from |-> blkoff, size |-> endpos - offset]
    <2>1. cs = <<c>>
      <3>1. (endpos \div BLK) - blkno = 0
        BY <1>2, <1>5, <1>6
      <3> QED
        BY <1>1, <1>6, <3>1 DEF Chunks
    <2>2. c \in Chunk
      BY DEF Chunk
    <2>3. c.from + c.size <= BLK /\ Start(c) = offset /\ Stop(c) = endpos
      <3>1. blkno * BLK \in Int /\ q = blkno
        BY <1>3, <1>5, <1>6
      <3> QED
        BY <1>1, <1>2, <1>3, <3>1 DEF Start, Stop
    <2> HIDE DEF c, cs
    <2>4. Len(cs) = 1 /\ cs[1] = c
      BY <2>1
    <2> QED
      BY <2>2, <2>3, <2>4 DEF Tiles, cs
  <1>7. CASE ~(blkoff # 0 /\ nblks = 0)
    <2> DEFINE n == nblks + (IF rest = 0 THEN 0 ELSE 1)
    <2>1. Len(cs) = n /\ \A k \in 1 .. n : ChunkIs(cs[k], k, blkno, blkoff, nblks, rest)
      <3>1. blkoff = 0 \/ nblks > 0
        BY <1>7
      <3>2. blkno + nblks = endpos \div BLK
        BY <1>2, <1>5
      <3>3. /\ Len(Chunks(offset, endpos)) = nblks + (IF rest = 0 THEN 0 ELSE 1)
            /\ \A k \in 1 .. nblks + (IF rest = 0 THEN 0 ELSE 1) :
                 ChunkIs(Chunks(offset, endpos)[k], k, blkno, blkoff, nblks, rest)
        BY <1>1, <1>2, <3>1, <3>2, ChunkOf
      <3> QED
        BY <3>3
    <2>2. n \in Nat /\ (rest = 0 => n = nblks) /\ (rest # 0 => n = nblks + 1)
      OBVIOUS
    <2> HIDE DEF cs, n
    (* Where the chunks begin and end. *)
    <2>3. ASSUME NEW k \in 1 .. n
          PROVE  /\ cs[k] \in Chunk /\ cs[k].from + cs[k].size <= BLK
                 /\ Start(cs[k]) = IF k = 1 THEN offset ELSE (blkno + (k - 1)) * BLK
                 /\ k <= nblks => Stop(cs[k]) = (blkno + k) * BLK
                 /\ k > nblks => Stop(cs[k]) = endpos
      <3> DEFINE no == blkno + k - 1
                 from == IF k = 1 THEN blkoff ELSE 0
                 size == IF k <= nblks THEN IF k = 1 THEN BLK - blkoff ELSE BLK ELSE rest
                 c == cs[k]
      <3>1. c = [no |-> no, from |-> from, size |-> size]
        <4>1. ChunkIs(cs[k], k, blkno, blkoff, nblks, rest)
          BY <2>1
        <4> QED
          BY <4>1 DEF ChunkIs
      <3>2. k <= nblks \/ (k = nblks + 1 /\ rest # 0)
        BY <2>2
      <3>3. k > nblks => from = 0
        BY <1>7, <3>2
      <3>4. no \in Nat /\ from \in 0 .. BLK - 1 /\ size \in 1 .. BLK /\ from + size <= BLK
            /\ (k <= nblks => from + size = BLK) /\ (k > nblks => from + size = rest)
        BY <1>3, <3>2, <3>3
      <3>5. k = 1 => no = blkno /\ from = blkoff
        OBVIOUS
      <3>6. k # 1 => no = blkno + (k - 1) /\ from = 0
        OBVIOUS
      <3>7. no * BLK + BLK = (blkno + k) * BLK /\ no * BLK \in Int
        <4>1. PICK m \in Int : m = no
          OBVIOUS
        <4>2. (m + 1) * BLK = m * BLK + BLK /\ m * BLK \in Int
          BY Times
        <4>3. m + 1 = blkno + k
          BY <4>1
        <4> QED
          BY <4>1, <4>2, <4>3
      <3>8. k > nblks => no = q
        BY <1>5, <3>2
      <3> HIDE DEF no, from, size
      <3>9. c \in Chunk /\ c.no = no /\ c.from = from /\ c.size = size
        BY <1>3, <3>1, <3>4 DEF Chunk
      <3> HIDE DEF c
      <3>10. Start(c) = no * BLK + from /\ Stop(c) = no * BLK + from + size
        BY <3>9 DEF Start, Stop
      <3>11. Start(c) = IF k = 1 THEN offset ELSE (blkno + (k - 1)) * BLK
        <4>1. CASE k = 1
          BY <1>1, <3>5, <3>10, <4>1
        <4>2. CASE k # 1
          BY <3>6, <3>7, <3>10, <4>2
        <4> QED
          BY <4>1, <4>2
      <3>12. k <= nblks => Stop(c) = (blkno + k) * BLK
        BY <1>3, <3>4, <3>7, <3>10
      <3>13. k > nblks => Stop(c) = endpos
        BY <1>2, <3>4, <3>7, <3>8, <3>10
      <3> QED
        BY <3>4, <3>9, <3>11, <3>12, <3>13 DEF c
    <2>4. ASSUME NEW k \in 1 .. n PROVE Stop(cs[k]) <= endpos
      <3>1. CASE k <= nblks
        <4>1. (blkno + k) * BLK <= q * BLK
          <5>1. PICK m \in Int : m = blkno + k
            OBVIOUS
          <5>2. m <= q /\ q \in Int
            BY <1>5, <3>1, <5>1
          <5>3. m * BLK <= q * BLK
            BY <5>2, Times
          <5> QED
            BY <5>1, <5>3
        <4>2. (blkno + k) * BLK \in Int /\ q * BLK \in Int
          BY <1>3
        <4> QED
          BY <1>2, <2>3, <3>1, <4>1, <4>2
      <3>2. CASE k > nblks
        BY <2>3, <3>2
      <3> QED
        BY <3>1, <3>2
    <2>5. ASSUME NEW k \in 1 .. n, k # 1 PROVE Start(cs[k]) = Stop(cs[k - 1])
      <3>1. k - 1 \in 1 .. n /\ k - 1 <= nblks
        BY <2>2, <2>5
      <3>2. PICK j \in 1 .. n : j = k - 1
        BY <3>1
      <3>3. Stop(cs[j]) = (blkno + j) * BLK
        BY <2>3, <3>1, <3>2
      <3> QED
        BY <2>3, <2>5, <3>2, <3>3
    <2>6. ASSUME NEW k \in 1 .. n
          PROVE  /\ cs[k] \in Chunk /\ cs[k].from + cs[k].size <= BLK /\ Stop(cs[k]) <= endpos
                 /\ Start(cs[k]) = IF k = 1 THEN offset ELSE Stop(cs[k - 1])
      BY <2>3, <2>4, <2>5
    <2>7. n >= 1
      <3> SUFFICES ASSUME rest = 0, nblks = 0 PROVE FALSE
        BY <2>2
      <3>1. q = blkno /\ blkno * BLK \in Int
        BY <1>3, <1>5
      <3> QED
        BY <1>1, <1>2, <3>1
    <2>8. Stop(cs[n]) = endpos
      <3>1. CASE n > nblks
        BY <2>2, <2>3, <2>7, <3>1
      <3>2. CASE n = nblks /\ rest = 0
        <4>1. n \in 1 .. n
          BY <2>2, <2>7
        <4>2. Stop(cs[n]) = (blkno + n) * BLK
          BY <2>2, <2>3, <3>2, <4>1
        <4>3. blkno + n = q
          BY <1>5, <3>2
        <4>4. q * BLK \in Int
          BY <1>3
        <4> QED
          BY <1>2, <3>2, <4>2, <4>3, <4>4
      <3> QED
        BY <2>2, <3>1, <3>2
    <2> QED
      BY <2>1, <2>2, <2>6, <2>7, <2>8 DEF Tiles, cs
  <1> QED
    BY <1>6, <1>7

-----------------------------------------------------------------------------
(* A write into one of f's own blocks leaves all pointers alone.           *)
PutData(v, b, f, c) == [v EXCEPT !.cont[b] = Written(f, c, @)]

LEMMA PutKeeps ==
    ASSUME NEW v, Core(v), NEW f \in File, NEW index \in Index, index < v.din[f].blocks,
           NEW b, b = Pointer(v, f, index), NEW c \in Chunk
    PROVE  LET w == PutData(v, b, f, c)
           IN  /\ Core(w) /\ Untouched(v, w) /\ b \in Block \ v.free
               /\ w.cont = [v.cont EXCEPT ![b] = Written(f, c, v.cont[b])]
               /\ \A g \in File : SamePointers(v, w, g)
  <1> DEFINE new == Written(f, c, v.cont[b])
             w == PutData(v, b, f, c)
  <1>1. /\ v \in States /\ v.unused = Cardinality(v.free) /\ v.cont \in [Block -> [0 .. BLK - 1 -> Int]]
        /\ b \in Block \ v.free /\ b # 0
    <2>1. index \in Nat
      BY Numbers DEF Index
    <2>2. b \in Block \ v.free
      BY <2>1, LoadOld
    <2> QED
      BY <2>2, FieldsTyped, Numbers DEF Core, Whole
  <1>2. new \in [0 .. BLK - 1 -> Int]
    <2>1. v.cont[b] \in [0 .. BLK - 1 -> Int]
      BY <1>1
    <2>2. ASSUME NEW i \in 0 .. BLK - 1 PROVE Byte(f, c.no * BLK + i) \in Int
      <3>1. f \in Int /\ BLK \in Int /\ c.no \in Int /\ MAX_SIZE \in Int /\ BLOCKS \in Int
        BY Numbers DEF Chunk
      <3>2. c.no * BLK \in Int
        BY <3>1
      <3>3. PICK m \in Int : m = MAX_SIZE + BLOCKS + 1
        BY <3>1
      <3>4. f * m \in Int
        BY <3>1, <3>3
      <3> QED
        BY <3>2, <3>3, <3>4 DEF Byte
    <2> QED
      BY <2>1, <2>2 DEF Written
  <1>3. w = [v EXCEPT !.cont = [v.cont EXCEPT ![b] = new]]
    BY DEF PutData
  <1> HIDE DEF new, w
  <1>4. /\ w \in States /\ w.free = v.free /\ w.unused = v.unused /\ Untouched(v, w)
        /\ w.cont = [v.cont EXCEPT ![b] = new]
    <2>1. [v.cont EXCEPT ![b] = new] \in [Block -> [0 .. BLK - 1 -> Int]]
      BY <1>1, <1>2
    <2> QED
      BY <1>1, <1>3, <2>1 DEF States, Untouched
  <1>5. ASSUME NEW g \in File
        PROVE  /\ w.din[g].blocks = v.din[g].blocks /\ w.din[g].indirect = v.din[g].indirect
               /\ \A i \in Index : Pointer(w, g, i) = Pointer(v, g, i)
    <2>1. w.din[g] = v.din[g]
      BY <1>4 DEF Untouched
    <2>2. v.din[g].indirect # 0 => v.din[g].indirect # b
      <3>1. \A h \in File, i \in Index : v.din[g].indirect # 0 => v.din[g].indirect # Pointer(v, h, i)
        BY Owners
      <3> QED
        BY <3>1
    <2>3. v.din[g].indirect \in Block \ v.free => w.cont[v.din[g].indirect] = v.cont[v.din[g].indirect]
      <3>1. 0 \notin Block
        BY Numbers
      <3> QED
        BY <1>1, <1>4, <2>2, <3>1
    <2>4. SameNotes(v, w, g)
      BY <2>1, <2>3 DEF SameNotes
    <2>5. \A i \in Index : Pointer(w, g, i) = Pointer(v, g, i)
      BY <2>4, NotesKeep
    <2> QED
      BY <2>1, <2>5
  <1>6. Whole(w)
    BY <1>1, <1>4 DEF Whole
  <1>7. Core(w)
    BY <1>4, <1>5, <1>6, SameBlocks
  <1> QED
    BY <1>1, <1>4, <1>5, <1>7 DEF w, new, SamePointers

(* The bytes from one offset to another have been written, no other ones.  *)
Wrote(v, w, f, from, to) ==
    \A n \in Nat : Unit(w, f, n) = IF from <= n /\ n < to THEN Byte(f, n) ELSE Unit(v, f, n)

LEMMA WroteMore ==
    ASSUME NEW u, NEW v, NEW w, NEW f, NEW a \in Nat, NEW b \in Nat, NEW c \in Nat, a <= b, b <= c,
           Wrote(u, v, f, a, b), Wrote(v, w, f, b, c)
    PROVE  Wrote(u, w, f, a, c)
  <1> SUFFICES ASSUME NEW n \in Nat
               PROVE  Unit(w, f, n) = IF a <= n /\ n < c THEN Byte(f, n) ELSE Unit(u, f, n)
    BY DEF Wrote
  <1>1. Unit(w, f, n) = IF b <= n /\ n < c THEN Byte(f, n) ELSE Unit(v, f, n)
    BY DEF Wrote
  <1>2. Unit(v, f, n) = IF a <= n /\ n < b THEN Byte(f, n) ELSE Unit(u, f, n)
    BY DEF Wrote
  <1> QED
    BY <1>1, <1>2

LEMMA WroteNothing ==
    ASSUME NEW v, NEW w, NEW f, NEW a \in Nat, SameIn(v, w, f)
    PROVE  Wrote(v, w, f, a, a)
  BY DEF SameIn, Wrote

(* A write does what it should to its own bytes and nothing to others.     *)
LEMMA PutWrites ==
    ASSUME NEW v, Core(v), NEW f \in File, NEW c \in Chunk, c.no \in Index, c.no < v.din[f].blocks,
           c.from + c.size <= BLK, NEW b, b = Pointer(v, f, c.no)
    PROVE  /\ Wrote(v, PutData(v, b, f, c), f, Start(c), Stop(c))
           /\ OtherUnits(v, PutData(v, b, f, c), f)
  <1> DEFINE w == PutData(v, b, f, c)
  <1>1. /\ Core(w) /\ Untouched(v, w) /\ b \in Block \ v.free
        /\ w.cont = [v.cont EXCEPT ![b] = Written(f, c, v.cont[b])]
        /\ \A g \in File : SamePointers(v, w, g)
    BY PutKeeps
  <1>2. v \in States /\ v.cont \in [Block -> [0 .. BLK - 1 -> Int]] /\ w.din = v.din
    BY <1>1, FieldsTyped DEF Core, Whole, Untouched
  <1> HIDE DEF w
  <1>3. w.cont[b] = Written(f, c, v.cont[b]) /\ \A a \in Block : a # b => w.cont[a] = v.cont[a]
    BY <1>1, <1>2
  <1>4. b # 0
    BY <1>1, Numbers
  (* b is where it is and nowhere else. *)
  <1>5. ASSUME NEW g \in File, NEW i \in Index, i < v.din[g].blocks, ~(g = f /\ i = c.no)
        PROVE  w.cont[Pointer(w, g, i)] = v.cont[Pointer(v, g, i)]
    <2>1. i \in Nat /\ v.din[g].blocks \in Nat
      BY <1>2, InodeTyped, Numbers DEF Index
    <2>2. Pointer(v, g, i) # 0
      BY <1>5, <2>1 DEF Core, Filled
    <2>3. Pointer(v, g, i) \in Block
      BY <2>2, Owners
    <2>4. Pointer(v, g, i) # b
      <3>1. \A j, k \in Index : Pointer(v, f, j) # 0 /\ Pointer(v, f, j) = Pointer(v, g, k) => f = g /\ j = k
        BY Owners
      <3> QED
        BY <1>4, <1>5, <3>1
    <2>5. Pointer(w, g, i) = Pointer(v, g, i)
      BY <1>1 DEF SamePointers
    <2> QED
      BY <1>3, <2>3, <2>4, <2>5
  <1>6. ASSUME NEW g \in File, g # f PROVE SameIn(v, w, g)
    <2>1. SameData(v, w, g)
      BY <1>1, <1>5, <1>6 DEF SameData, SamePointers
    <2> QED
      BY <1>2, <2>1, UnitsStay
  <1>7. ASSUME NEW n \in Nat
        PROVE  Unit(w, f, n) = IF Start(c) <= n /\ n < Stop(c) THEN Byte(f, n) ELSE Unit(v, f, n)
    <2>1. PICK i \in Nat, o \in 0 .. BLK - 1 : i = n \div BLK /\ o = n % BLK /\ n = i * BLK + o
      BY Blocks
    <2>2. /\ Unit(v, f, n) = IF i < v.din[f].blocks THEN v.cont[Pointer(v, f, i)][o] ELSE 0
          /\ Unit(w, f, n) = IF i < v.din[f].blocks THEN w.cont[Pointer(w, f, i)][o] ELSE 0
      BY <1>2, <2>1 DEF Unit
    <2>3. /\ c.no \in Nat /\ c.from \in Nat /\ c.size \in Nat /\ BLK \in Nat \ {0}
          /\ i * BLK \in Int /\ c.no * BLK \in Int
      BY Numbers DEF Chunk
    <2>4. Start(c) = c.no * BLK + c.from /\ Stop(c) = c.no * BLK + c.from + c.size
      BY DEF Start, Stop
    <2>5. CASE i = c.no
      <3>1. Pointer(w, f, i) = b
        BY <1>1, <2>5 DEF SamePointers
      <3>2. Unit(w, f, n) = Written(f, c, v.cont[b])[o] /\ Unit(v, f, n) = v.cont[b][o]
        BY <1>3, <2>2, <2>5, <3>1
      <3>3. Written(f, c, v.cont[b])[o]
              = IF o \in c.from .. c.from + c.size - 1 THEN Byte(f, c.no * BLK + o) ELSE v.cont[b][o]
        BY <2>3 DEF Written
      <3>4. n = c.no * BLK + o
        BY <2>1, <2>5
      <3>5. o \in c.from .. c.from + c.size - 1 <=> Start(c) <= n /\ n < Stop(c)
        BY <2>3, <2>4, <3>4
      <3> QED
        BY <3>2, <3>3, <3>4, <3>5
    <2>6. CASE i # c.no
      <3>1. ~(Start(c) <= n /\ n < Stop(c))
        <4> SUFFICES ASSUME Start(c) <= n, n < Stop(c) PROVE FALSE
          OBVIOUS
        <4>1. c.no * BLK <= n /\ n < c.no * BLK + BLK
          BY <2>3, <2>4
        <4>2. c.no \in Int
          BY <2>3
        <4>3. n \div BLK = c.no
          BY <4>1, <4>2, BlocksIs
        <4> QED
          BY <2>1, <2>6, <4>3
      <3>2. CASE i < v.din[f].blocks
        <4>1. i \in Index
          BY <1>2, <2>1, <3>2, UnitIn
        <4>2. w.cont[Pointer(w, f, i)] = v.cont[Pointer(v, f, i)]
          BY <1>5, <2>6, <3>2, <4>1
        <4> QED
          BY <2>2, <3>1, <3>2, <4>2
      <3>3. CASE ~(i < v.din[f].blocks)
        BY <2>2, <3>1, <3>3
      <3> QED
        BY <3>2, <3>3
    <2> QED
      BY <2>5, <2>6
  <1> QED
    BY <1>6, <1>7 DEF Wrote, OtherUnits, w

(* After some chunks, the next one beginning at x: alen has been moved, and *)
(* if that made blocks necessary they end in the middle of the last one.   *)
Moves(u, v, f, offset, x) ==
    /\ u = [v |-> u.v, ok |-> u.ok, alen |-> u.alen, buf |-> u.buf]
    /\ Core(u.v) /\ Aside(v, u.v, f) /\ u.v.din[f].size = v.din[f].size
    /\ u.alen \in Nat /\ offset + u.alen <= u.v.din[f].blocks * BLK
    /\ \/ u.v.din[f] = v.din[f] /\ u.v.dirty[f] = v.dirty[f]
       \/ /\ (u.v.din[f].blocks - 1) * BLK < offset + u.alen
          /\ u.v.din[f].blocks > v.din[f].blocks
    /\ u.ok => offset + u.alen = x

Calm(v) == v.panic = ""

Going(u) == u.ok

(* The block of the next chunk can be loaded: it is one of f's, or the one  *)
(* behind them.                                                            *)
LEMMA NextLoads ==
    ASSUME NEW v, Calm(v), NEW f \in File, NEW offset \in Nat, NEW u, NEW x \in Nat,
           Moves(u, v, f, offset, x), Going(u),
           NEW c \in Chunk, c.from + c.size <= BLK, Start(c) = x, Stop(c) <= (NDIRECT + BLK) * BLK
    PROVE  /\ Core(u.v) /\ Calm(u.v) /\ c.no \in Index /\ c.no <= u.v.din[f].blocks
           /\ LoadedOrNot(u.v, bmap_load(u.v, f, c.no), f, c.no)
  <1> DEFINE blocks == u.v.din[f].blocks
  <1>1. /\ Core(u.v) /\ blocks \in 0 .. NDIRECT + BLK /\ u.alen \in Nat /\ offset + u.alen = x
        /\ offset + u.alen <= blocks * BLK /\ Calm(u.v)
    BY InodeTyped DEF Moves, Core, Whole, Aside, Calm, Going
  <1>2. /\ c.no \in Nat /\ c.from \in Nat /\ c.size \in Nat \ {0} /\ BLK \in Nat \ {0}
        /\ c.no * BLK \in Nat /\ blocks * BLK \in Int /\ NDIRECT + BLK \in Nat
    <2>1. c.no \in Nat /\ c.from \in Nat /\ c.size \in Nat \ {0}
      BY DEF Chunk
    <2>2. BLK \in Nat \ {0} /\ NDIRECT + BLK \in Nat
      BY Numbers
    <2> QED
      BY <1>1, <2>1, <2>2
  <1>3. x = c.no * BLK + c.from /\ Stop(c) = x + c.size
    BY DEF Start, Stop
  <1>4. c.no <= blocks
    <2>1. c.no * BLK <= blocks * BLK
      BY <1>1, <1>2, <1>3
    <2>2. c.no \in Int /\ blocks \in Int
      BY <1>1, <1>2
    <2> QED
      BY <2>1, <2>2, Times
  <1>5. c.no \in Index
    <2>1. PICK k \in Nat : k = NDIRECT + BLK
      BY <1>2
    <2>2. c.no * BLK < k * BLK
      <3>1. k * BLK \in Int
        BY <1>2
      <3> QED
        BY <1>2, <1>3, <2>1, <3>1
    <2>3. c.no < k
      BY <1>2, <2>2, Times
    <2> QED
      BY <1>2, <2>1, <2>3, Numbers DEF Index
  <1>6. LoadedOrNot(u.v, bmap_load(u.v, f, c.no), f, c.no)
    <2>1. PICK index \in Index : index = c.no
      BY <1>5
    <2>2. PICK w : w = u.v
      OBVIOUS
    <2>3. LoadedOrNot(w, bmap_load(w, f, index), f, index)
      BY <1>1, <1>4, <2>1, <2>2, LoadAny
    <2> QED
      BY <2>1, <2>2, <2>3
  <1> QED
    BY <1>1, <1>4, <1>5, <1>6

LEMMA TransferMoves ==
    ASSUME NEW v, Calm(v), NEW f \in File, v.din[f].blocks \in Nat, NEW offset \in Nat, NEW u, NEW x \in Nat,
           Moves(u, v, f, offset, x),
           NEW c \in Chunk, c.from + c.size <= BLK, Start(c) = x, Stop(c) <= (NDIRECT + BLK) * BLK,
           NEW write \in BOOLEAN
    PROVE  Moves(transfer(u, f, c, write), v, f, offset, Stop(c))
  <1> DEFINE r == transfer(u, f, c, write)
             blocks == u.v.din[f].blocks
  <1>1. CASE ~u.ok
    <2>1. r = u
      BY <1>1 DEF transfer
    <2> QED
      BY <1>1, <2>1 DEF Moves
  <1>2. CASE u.ok
    <2>1. /\ Core(u.v) /\ blocks \in 0 .. NDIRECT + BLK /\ u.alen \in Nat /\ offset + u.alen = x
          /\ offset + u.alen <= blocks * BLK /\ Calm(u.v) /\ Aside(v, u.v, f)
          /\ u.v.din[f].size = v.din[f].size
      BY <1>2, InodeTyped DEF Moves, Core, Whole, Aside, Calm
    <2>2. /\ c.no \in Nat /\ c.from \in Nat /\ c.size \in Nat \ {0} /\ BLK \in Nat \ {0}
          /\ c.no * BLK \in Nat /\ blocks * BLK \in Int /\ NDIRECT + BLK \in Nat
      <3>1. c.no \in Nat /\ c.from \in Nat /\ c.size \in Nat \ {0}
        BY DEF Chunk
      <3>2. BLK \in Nat \ {0} /\ NDIRECT + BLK \in Nat
        BY Numbers
      <3> QED
        BY <2>1, <3>1, <3>2
    <2>3. x = c.no * BLK + c.from /\ Stop(c) = x + c.size
      BY DEF Start, Stop
    <2>5. c.no \in Index /\ LoadedOrNot(u.v, bmap_load(u.v, f, c.no), f, c.no)
      BY <1>2, NextLoads DEF Going
    <2>6. (c.no + 1) * BLK = c.no * BLK + BLK
      BY <2>2, Times
    <2>8. ASSUME NEW w, NEW b, bmap_load(u.v, f, c.no) = Success(w, b), Loaded(u.v, w, b, f, c.no)
          PROVE  Moves(r, v, f, offset, Stop(c))
      <3>1. Core(w) /\ c.no < w.din[f].blocks /\ b = Pointer(w, f, c.no) /\ Calm(w) /\ Aside(v, w, f)
            /\ w.din[f].size = v.din[f].size
        BY <2>1, <2>8 DEF Loaded, Grown, Aside, Calm
      <3>2. Success(w, b).ok /\ Success(w, b).v = w /\ Success(w, b).ino = b
        BY DEF Success
      (* What is written changes neither inodes nor pointers. *)
      <3>3. PICK z : /\ Core(z) /\ Untouched(w, z)
                     /\ r.v = z /\ r.ok /\ r.alen = u.alen + c.size
                     /\ r = [v |-> r.v, ok |-> r.ok, alen |-> r.alen, buf |-> r.buf]
        <4>1. CASE write
          <5> DEFINE z == PutData(w, b, f, c)
          <5>1. Core(z) /\ Untouched(w, z)
            BY <2>5, <3>1, PutKeeps
          <5>2. r = [u EXCEPT !.v = z, !.alen = u.alen + c.size]
            BY <1>2, <2>8, <3>1, <3>2, <4>1 DEF transfer, PutData, Calm
          <5> HIDE DEF z, r
          <5>3. /\ r.v = z /\ r.ok /\ r.alen = u.alen + c.size
                /\ r = [v |-> r.v, ok |-> r.ok, alen |-> r.alen, buf |-> r.buf]
            BY <1>2, <5>2 DEF Moves
          <5> QED
            BY <5>1, <5>3
        <4>2. CASE ~write
          <5> DEFINE buf == u.buf \o [i \in 1 .. c.size |-> w.cont[b][c.from + i - 1]]
          <5>1. r = [u EXCEPT !.v = w, !.alen = u.alen + c.size, !.buf = buf]
            BY <1>2, <2>8, <3>1, <3>2, <4>2 DEF transfer, Calm
          <5> HIDE DEF r, buf
          <5>2. /\ r.v = w /\ r.ok /\ r.alen = u.alen + c.size
                /\ r = [v |-> r.v, ok |-> r.ok, alen |-> r.alen, buf |-> r.buf]
            BY <1>2, <5>1 DEF Moves
          <5>3. Untouched(w, w)
            BY DEF Untouched
          <5> QED
            BY <3>1, <5>2, <5>3
        <4> QED
          BY <4>1, <4>2
      <3> HIDE DEF r
      <3>4. Aside(v, z, f) /\ z.din[f].size = v.din[f].size /\ z.din[f] = w.din[f] /\ z.dirty[f] = w.dirty[f]
        BY <3>1, <3>3 DEF Aside, Untouched
      <3>5. offset + r.alen = Stop(c) /\ r.alen \in Nat
        BY <2>1, <2>2, <2>3, <3>3
      <3>6. w.din[f].blocks \in Nat
        BY <3>1, InodeTyped DEF Core, Whole
      <3>7. offset + r.alen <= (c.no + 1) * BLK
        BY <2>2, <2>3, <2>6, <3>5
      <3>8. offset + r.alen <= w.din[f].blocks * BLK
        <4>1. c.no + 1 <= w.din[f].blocks
          BY <2>2, <3>1, <3>6
        <4>2. PICK k \in Int : k = w.din[f].blocks
          BY <3>6
        <4>3. PICK j \in Int : j = c.no + 1
          BY <2>2
        <4>4. j * BLK <= k * BLK /\ j * BLK \in Int /\ k * BLK \in Int
          BY <4>1, <4>2, <4>3, Times
        <4> QED
          BY <2>1, <3>5, <3>7, <4>2, <4>3, <4>4
      <3>9. \/ w.din[f] = v.din[f] /\ w.dirty[f] = v.dirty[f]
            \/ /\ (w.din[f].blocks - 1) * BLK < offset + r.alen
               /\ w.din[f].blocks > v.din[f].blocks
        <4>1. CASE w = u.v
          <5>1. CASE u.v.din[f] = v.din[f] /\ u.v.dirty[f] = v.dirty[f]
            BY <4>1, <5>1
          <5>2. CASE (blocks - 1) * BLK < offset + u.alen /\ blocks > v.din[f].blocks
            <6>1. (blocks - 1) * BLK \in Int
              BY <2>1, <2>2
            <6>2. (blocks - 1) * BLK < offset + r.alen
              BY <2>1, <2>2, <3>3, <5>2, <6>1
            <6> QED
              BY <4>1, <5>2, <6>2
          <5> QED
            BY <5>1, <5>2 DEF Moves
        <4>2. CASE c.no = blocks /\ Grown(u.v, w, b, f)
          <5>1. w.din[f].blocks = c.no + 1 /\ (c.no + 1) - 1 = c.no
            BY <2>2, <4>2 DEF Grown
          <5>2. (w.din[f].blocks - 1) * BLK < offset + r.alen
            BY <2>2, <2>3, <3>5, <5>1
          <5>3. v.din[f].blocks <= blocks /\ v.din[f].blocks \in Int
            <6>1. v.din[f] = u.v.din[f] \/ v.din[f].blocks < blocks
              BY DEF Moves
            <6>2. v.din[f].blocks \in Int
              OBVIOUS
            <6> QED
              BY <2>1, <6>1, <6>2
          <5>4. w.din[f].blocks > v.din[f].blocks
            BY <2>2, <4>2, <5>1, <5>3
          <5> QED
            BY <5>2, <5>4
        <4> QED
          BY <2>8, <4>1, <4>2 DEF Loaded
      <3> QED
        BY <3>3, <3>4, <3>5, <3>8, <3>9 DEF Moves, r
    <2>9. ASSUME NEW w, bmap_load(u.v, f, c.no) = Failure(w), Core(w), Untouched(u.v, w)
          PROVE  Moves(r, v, f, offset, Stop(c))
      <3>1. ~Failure(w).ok /\ Failure(w).v = w
        BY DEF Failure
      <3>2. r = [u EXCEPT !.v = w, !.ok = FALSE]
        BY <1>2, <2>9, <3>1 DEF transfer
      <3> HIDE DEF r
      <3>3. /\ r.v = w /\ ~r.ok /\ r.alen = u.alen
            /\ r = [v |-> r.v, ok |-> r.ok, alen |-> r.alen, buf |-> r.buf]
        BY <3>2 DEF Moves
      <3>4. Aside(v, w, f) /\ w.din = u.v.din /\ w.dirty = u.v.dirty
        BY <2>1, <2>9 DEF Aside, Untouched
      <3> QED
        BY <2>9, <3>3, <3>4 DEF Moves, r
    <2> QED
      BY <2>5, <2>8, <2>9 DEF LoadedOrNot
  <1> QED
    BY <1>1, <1>2

(* What a write has done so far: alen bytes of f and nothing else, and that *)
(* not beyond what it was asked for.                                       *)
Carried(u, v, f, offset, endpos) ==
    /\ Wrote(v, u.v, f, offset, offset + u.alen) /\ OtherUnits(v, u.v, f)
    /\ offset + u.alen <= endpos

Writing(write) == write

LEMMA OtherTwice ==
    ASSUME NEW u, NEW v, NEW w, NEW f, OtherUnits(u, v, f), OtherUnits(v, w, f)
    PROVE  OtherUnits(u, w, f)
  BY SameInTwice DEF OtherUnits

LEMMA TransferCarries ==
    ASSUME NEW v, Calm(v), NEW f \in File, NEW offset \in Nat, NEW endpos \in Nat, NEW u, NEW x \in Nat,
           Moves(u, v, f, offset, x), Carried(u, v, f, offset, endpos),
           NEW c \in Chunk, c.from + c.size <= BLK, Start(c) = x, Stop(c) <= (NDIRECT + BLK) * BLK,
           Stop(c) <= endpos, NEW write \in BOOLEAN, Writing(write)
    PROVE  Carried(transfer(u, f, c, write), v, f, offset, endpos)
  <1> DEFINE r == transfer(u, f, c, write)
  <1>1. CASE ~u.ok
    <2>1. r = u
      BY <1>1 DEF transfer
    <2> QED
      BY <2>1
  <1>2. CASE u.ok
    <2>1. /\ Core(u.v) /\ Calm(u.v) /\ c.no \in Index
          /\ LoadedOrNot(u.v, bmap_load(u.v, f, c.no), f, c.no)
      BY <1>2, NextLoads DEF Going
    <2>2. u.alen \in Nat /\ offset + u.alen = x /\ u = [v |-> u.v, ok |-> u.ok, alen |-> u.alen, buf |-> u.buf]
      BY <1>2 DEF Moves
    <2>3. Wrote(v, u.v, f, offset, x) /\ OtherUnits(v, u.v, f)
      BY <2>2 DEF Carried
    <2>4. /\ c.no \in Nat /\ c.from \in Nat /\ c.size \in Nat /\ c.no * BLK \in Nat
          /\ Stop(c) = x + c.size
      <3>1. c.no \in Nat /\ c.from \in Nat /\ c.size \in Nat
        BY DEF Chunk
      <3> QED
        BY <3>1, Numbers DEF Stop
    <2>5. ASSUME NEW w, NEW b, bmap_load(u.v, f, c.no) = Success(w, b), Loaded(u.v, w, b, f, c.no)
          PROVE  Carried(r, v, f, offset, endpos)
      <3>1. Core(w) /\ c.no < w.din[f].blocks /\ b = Pointer(w, f, c.no) /\ Calm(w)
        BY <2>1, <2>5 DEF Loaded, Grown, Aside, Calm
      <3>2. Success(w, b).ok /\ Success(w, b).v = w /\ Success(w, b).ino = b
        BY DEF Success
      <3>3. SameUnits(u.v, w)
        BY <2>5 DEF Loaded, Grown, SameUnits, SameIn
      <3> DEFINE z == PutData(w, b, f, c)
      <3>4. Wrote(w, z, f, Start(c), Stop(c)) /\ OtherUnits(w, z, f)
        BY <2>1, <3>1, PutWrites
      <3>5. r = [u EXCEPT !.v = z, !.alen = u.alen + c.size]
        BY <1>2, <2>5, <3>1, <3>2 DEF transfer, PutData, Calm, Writing
      <3> HIDE DEF z, r
      <3>6. r.v = z /\ r.alen = u.alen + c.size
        BY <2>2, <3>5
      <3>7. offset + r.alen = Stop(c)
        BY <2>2, <2>4, <3>6
      <3>8. Wrote(v, w, f, offset, x)
        <4>1. Wrote(u.v, w, f, x, x)
          BY <3>3, WroteNothing DEF SameUnits
        <4>2. offset <= x
          BY <2>2
        <4>3. PICK y : y = u.v
          OBVIOUS
        <4>4. Wrote(v, y, f, offset, x) /\ Wrote(y, w, f, x, x)
          BY <2>3, <4>1, <4>3
        <4> QED
          BY <4>2, <4>4, WroteMore
      <3>9. Wrote(v, z, f, offset, Stop(c))
        <4>1. PICK y \in Nat : y = Stop(c)
          BY <2>4
        <4>2. offset <= x /\ x <= y /\ Wrote(w, z, f, x, y)
          BY <2>2, <2>4, <3>4, <4>1
        <4>3. Wrote(v, z, f, offset, y)
          BY <3>8, <4>2, WroteMore
        <4> QED
          BY <4>1, <4>3
      <3>10. OtherUnits(v, z, f)
        <4>1. PICK y : y = u.v
          OBVIOUS
        <4>2. OtherUnits(v, y, f) /\ OtherUnits(y, w, f)
          BY <2>3, <3>3, <4>1 DEF SameUnits, OtherUnits
        <4>3. OtherUnits(v, w, f)
          BY <4>2, OtherTwice
        <4> QED
          BY <3>4, <4>3, OtherTwice
      <3> QED
        BY <3>6, <3>7, <3>9, <3>10 DEF Carried, r
    <2>6. ASSUME NEW w, bmap_load(u.v, f, c.no) = Failure(w), SameUnits(u.v, w)
          PROVE  Carried(r, v, f, offset, endpos)
      <3>1. ~Failure(w).ok /\ Failure(w).v = w
        BY DEF Failure
      <3>2. r = [u EXCEPT !.v = w, !.ok = FALSE]
        BY <1>2, <2>6, <3>1 DEF transfer
      <3> HIDE DEF r
      <3>3. r.v = w /\ r.alen = u.alen
        BY <2>2, <3>2
      <3>4. Wrote(v, w, f, offset, offset + u.alen)
        BY <2>6, <2>2, <2>3 DEF Wrote, SameUnits, SameIn
      <3>5. OtherUnits(v, w, f)
        BY <2>3, <2>6 DEF OtherUnits, SameUnits, SameIn
      <3> QED
        BY <3>3, <3>4, <3>5 DEF Carried, r
    <2> QED
      BY <2>1, <2>5, <2>6 DEF LoadedOrNot
  <1> QED
    BY <1>1, <1>2

(* What a read has fetched so far, and that it has changed nothing.        *)
Fetched(u, v, f, offset, x) ==
    u = [v |-> v, ok |-> TRUE, alen |-> x - offset,
         buf |-> [i \in 1 .. x - offset |-> Unit(v, f, offset + i - 1)]]

Reading(write) == ~write

LEMMA UnitAt ==
    ASSUME NEW i \in Nat, NEW o \in 0 .. BLK - 1
    PROVE  (i * BLK + o) \div BLK = i /\ (i * BLK + o) % BLK = o /\ i * BLK + o \in Nat
  <1>1. PICK n \in Nat : n = i * BLK + o
    BY Numbers
  <1>2. i * BLK \in Int /\ BLK \in Int
    BY Numbers
  <1>3. n \div BLK = i
    BY <1>1, <1>2, BlocksIs
  <1>4. n = (n \div BLK) * BLK + (n % BLK) /\ n % BLK \in 0 .. BLK - 1
    BY Blocks
  <1>5. n % BLK = o
    BY <1>1, <1>2, <1>3, <1>4
  <1> QED
    BY <1>1, <1>3, <1>5

LEMMA UnitTyped ==
    ASSUME NEW v, Core(v), NEW f \in File, NEW n \in Nat
    PROVE  Unit(v, f, n) \in Int
  <1>1. v \in States /\ v.cont \in [Block -> [0 .. BLK - 1 -> Int]]
    BY FieldsTyped DEF Core, Whole
  <1>2. PICK i \in Nat, o \in 0 .. BLK - 1 : i = n \div BLK /\ o = n % BLK
    BY <1>1, UnitIn
  <1>3. Unit(v, f, n) = IF i < v.din[f].blocks THEN v.cont[Pointer(v, f, i)][o] ELSE 0
    BY <1>2 DEF Unit
  <1>4. CASE i < v.din[f].blocks
    <2>1. Pointer(v, f, i) \in Block
      BY <1>4, LoadOld
    <2> QED
      BY <1>1, <1>3, <1>4, <2>1
  <1> QED
    BY <1>3, <1>4

Catenated(a, b, c, n, m) ==
    /\ Len(c) = n + m
    /\ c = [i \in 1 .. n + m |-> IF i <= n THEN a[i] ELSE b[i - n]]

LEMMA Catenate ==
    ASSUME NEW n \in Nat, NEW m \in Nat, NEW a \in [1 .. n -> Int], NEW b \in [1 .. m -> Int]
    PROVE  Catenated(a, b, a \o b, n, m)
  <1>1. a \in Seq(Int) /\ b \in Seq(Int) /\ Len(a) = n /\ Len(b) = m
    OBVIOUS
  <1>2. PICK c : c = a \o b
    OBVIOUS
  <1>3. c \in Seq(Int) /\ Join(c, a, b)
    BY <1>1, <1>2, JoinedTwo
  <1>4. Len(c) = n + m
    BY <1>1, <1>3 DEF Join
  <1>5. ASSUME NEW i \in 1 .. n + m PROVE c[i] = IF i <= n THEN a[i] ELSE b[i - n]
    BY <1>1, <1>3 DEF Join
  <1>6. c = [i \in 1 .. Len(c) |-> c[i]]
    BY <1>3
  <1>7. c = [i \in 1 .. n + m |-> IF i <= n THEN a[i] ELSE b[i - n]]
    BY <1>4, <1>5, <1>6
  <1> QED
    BY <1>2, <1>4, <1>7 DEF Catenated

LEMMA TransferFetches ==
    ASSUME NEW v, Core(v), Calm(v), NEW f \in File, NEW offset \in Nat, NEW x \in Nat, offset <= x,
           NEW u, Fetched(u, v, f, offset, x),
           NEW c \in Chunk, c.from + c.size <= BLK, Start(c) = x, Stop(c) <= v.din[f].blocks * BLK,
           NEW write \in BOOLEAN, Reading(write)
    PROVE  Fetched(transfer(u, f, c, write), v, f, offset, Stop(c))
  <1> DEFINE r == transfer(u, f, c, write)
             blocks == v.din[f].blocks
             b == Pointer(v, f, c.no)
  <1>1. /\ c.no \in Nat /\ c.from \in Nat /\ c.size \in Nat \ {0} /\ BLK \in Nat \ {0}
        /\ c.no * BLK \in Nat /\ blocks \in Nat /\ blocks * BLK \in Int
    <2>1. c.no \in Nat /\ c.from \in Nat /\ c.size \in Nat \ {0}
      BY DEF Chunk
    <2>2. BLK \in Nat \ {0} /\ blocks \in Nat
      BY InodeTyped, Numbers DEF Core, Whole
    <2> QED
      BY <2>1, <2>2
  <1>2. x = c.no * BLK + c.from /\ Stop(c) = x + c.size
    BY DEF Start, Stop
  <1>3. c.no < blocks
    <2>1. PICK k \in Nat : k = c.no /\ c.no * BLK = k * BLK
      BY <1>1
    <2>2. PICK m \in Nat : m = blocks /\ blocks * BLK = m * BLK
      BY <1>1
    <2>3. PICK p \in Nat : p = k * BLK
      BY <1>1
    <2>4. PICK q \in Int : q = m * BLK
      BY <1>1
    <2>5. p < q
      BY <1>1, <1>2, <2>1, <2>2, <2>3, <2>4
    <2>6. k < m
      BY <2>3, <2>4, <2>5, Times
    <2> QED
      BY <2>1, <2>2, <2>6
  <1>4. bmap_load(v, f, c.no) = Success(v, b) /\ b \in Block
    BY <1>1, <1>3, LoadOld
  <1> DEFINE old == [i \in 1 .. x - offset |-> Unit(v, f, offset + i - 1)]
             more == [i \in 1 .. c.size |-> v.cont[b][c.from + i - 1]]
  <1>5. r = [v |-> v, ok |-> TRUE, alen |-> x - offset + c.size, buf |-> old \o more]
    <2>1. u.ok /\ u.v = v
      BY DEF Fetched
    <2>2. Success(v, b).ok /\ Success(v, b).v = v /\ Success(v, b).ino = b
      BY DEF Success
    <2>3. r = [u EXCEPT !.v = v, !.alen = @ + c.size, !.buf = @ \o more]
      BY <1>4, <2>1, <2>2 DEF transfer, Reading, Calm
    <2>4. u = [v |-> v, ok |-> TRUE, alen |-> x - offset, buf |-> old]
      BY DEF Fetched
    <2> HIDE DEF r, more, old
    <2> QED
      BY <2>3, <2>4
  <1>6. ASSUME NEW i \in 1 .. c.size PROVE more[i] = Unit(v, f, x + i - 1) /\ more[i] \in Int
    <2>1. PICK o \in 0 .. BLK - 1 : o = c.from + i - 1
      BY <1>1
    <2>2. PICK n \in Nat : n = c.no * BLK + o /\ n \div BLK = c.no /\ n % BLK = o
      BY <1>1, UnitAt
    <2>3. n = x + i - 1
      <3>1. PICK q \in Nat : q = c.no * BLK
        BY <1>1
      <3>2. PICK k \in Nat : k = c.from
        BY <1>1
      <3>3. x = q + k /\ o = k + i - 1
        BY <1>2, <2>1, <3>1, <3>2
      <3>4. n = q + o
        BY <2>2, <3>1
      <3>5. i \in Int /\ o \in Int
        BY <1>1, <2>1
      <3> QED
        BY <3>3, <3>4, <3>5
    <2>4. Unit(v, f, n) = v.cont[b][o]
      BY <1>3, <2>2 DEF Unit
    <2>5. Unit(v, f, n) \in Int
      BY UnitTyped
    <2> QED
      BY <2>1, <2>3, <2>4, <2>5
  <1> DEFINE n == x - offset
  <1>7. n \in Nat /\ c.size \in Nat
    BY <1>1
  <1>8. old \in [1 .. n -> Int] /\ more \in [1 .. c.size -> Int]
    <2>1. ASSUME NEW i \in 1 .. n PROVE Unit(v, f, offset + i - 1) \in Int
      BY <1>7, UnitTyped
    <2> QED
      BY <1>6, <2>1
  <1>9. \A i \in 1 .. n : old[i] = Unit(v, f, offset + i - 1)
    OBVIOUS
  <1> HIDE DEF old, more, n
  <1>10. Catenated(old, more, old \o more, n, c.size)
    BY <1>7, <1>8, Catenate
  <1>11. old \o more = [i \in 1 .. Stop(c) - offset |-> Unit(v, f, offset + i - 1)]
    <2>1. Stop(c) - offset = n + c.size
      BY <1>1, <1>2 DEF n
    <2>2. ASSUME NEW i \in 1 .. n + c.size
          PROVE  (IF i <= n THEN old[i] ELSE more[i - n]) = Unit(v, f, offset + i - 1)
      <3>1. CASE i <= n
        BY <1>7, <1>9, <3>1
      <3>2. CASE ~(i <= n)
        <4>1. PICK j \in 1 .. c.size : j = i - n
          BY <1>7, <3>2
        <4>2. x + j - 1 = offset + i - 1
          BY <1>1, <4>1 DEF n
        <4> QED
          BY <1>6, <3>2, <4>1, <4>2
      <3> QED
        BY <3>1, <3>2
    <2> QED
      BY <1>10, <2>1, <2>2 DEF Catenated
  <1>12. x - offset + c.size = Stop(c) - offset
    BY <1>1, <1>2
  <1> HIDE DEF r
  <1> QED
    BY <1>5, <1>11, <1>12 DEF Fetched, r

-----------------------------------------------------------------------------
(* sfs_io_nolock *)
None(v) == [v |-> v, ok |-> TRUE, alen |-> 0, buf |-> <<>>]
Moving(g, v, f, cs, write, n) ==
    g = [i \in 0 .. n |-> IF i = 0 THEN None(v) ELSE transfer(g[i - 1], f, cs[i], write)]

LEMMA MovingExists ==
    ASSUME NEW v, NEW f, NEW cs, NEW write, NEW n \in Nat
    PROVE  \E g : Moving(g, v, f, cs, write, n)
  <1> DEFINE Good == {m \in Nat : \E g : Moving(g, v, f, cs, write, m)}
  <1>1. 0 \in Good
    <2>1. Moving([i \in 0 .. 0 |-> None(v)], v, f, cs, write, 0)
      BY DEF Moving
    <2> QED
      BY <2>1
  <1>2. ASSUME NEW m \in Nat, m \in Good PROVE m + 1 \in Good
    <2>1. PICK g : Moving(g, v, f, cs, write, m)
      BY <1>2
    <2> DEFINE h == [i \in 0 .. m + 1 |-> IF i = m + 1 THEN transfer(g[m], f, cs[m + 1], write) ELSE g[i]]
    <2>2. ASSUME NEW i \in 0 .. m + 1
          PROVE  h[i] = IF i = 0 THEN None(v) ELSE transfer(h[i - 1], f, cs[i], write)
      <3>1. CASE i = m + 1
        <4>1. i # 0 /\ i - 1 = m /\ m \in 0 .. m + 1 /\ m # m + 1
          BY <3>1
        <4> QED
          BY <3>1, <4>1
      <3>2. CASE i # m + 1
        <4>1. i \in 0 .. m /\ (i # 0 => i - 1 \in 0 .. m + 1 /\ i - 1 # m + 1)
          BY <3>2
        <4>2. g[i] = IF i = 0 THEN None(v) ELSE transfer(g[i - 1], f, cs[i], write)
          BY <2>1, <4>1 DEF Moving
        <4> QED
          BY <3>2, <4>1, <4>2
      <3> QED
        BY <3>1, <3>2
    <2>3. Moving(h, v, f, cs, write, m + 1)
      BY <2>2 DEF Moving
    <2> HIDE DEF h
    <2>4. \E k : Moving(k, v, f, cs, write, m + 1)
      BY <2>3
    <2> QED
      BY <2>4
  <1> HIDE DEF Good
  <1>3. Nat \subseteq Good
    BY <1>1, <1>2, Induction
  <1> QED
    BY <1>3 DEF Good

(* Where the chunk behind the first k begins. *)
Reached(cs, offset, k) == IF k = 0 THEN offset ELSE Stop(cs[k])

Along(write, u, v, f, offset, endpos) == Writing(write) => Carried(u, v, f, offset, endpos)

LEMMA MovesThrough ==
    ASSUME NEW v, Core(v), Calm(v), NEW f \in File, NEW offset \in Nat, NEW endpos \in Nat,
           offset <= endpos, offset <= v.din[f].blocks * BLK, endpos <= (NDIRECT + BLK) * BLK,
           NEW cs, Tiles(cs, offset, endpos), NEW write \in BOOLEAN, NEW g, Moving(g, v, f, cs, write, Len(cs))
    PROVE  /\ \E x : Moves(g[Len(cs)], v, f, offset, x)
           /\ Along(write, g[Len(cs)], v, f, offset, endpos)
  <1> DEFINE n == Len(cs)
             Good == {m \in Nat : m <= n => /\ Moves(g[m], v, f, offset, Reached(cs, offset, m)) /\ Reached(cs, offset, m) \in Nat
                                      /\ Along(write, g[m], v, f, offset, endpos)}
  <1>1. n \in Nat /\ v.din[f].blocks \in Nat /\ BLK \in Nat \ {0}
    BY InodeTyped, Numbers DEF Core, Whole, Tiles
  <1>2. ASSUME NEW k \in 1 .. n
        PROVE  /\ cs[k] \in Chunk /\ cs[k].from + cs[k].size <= BLK /\ Stop(cs[k]) <= endpos
               /\ Start(cs[k]) = IF k = 1 THEN offset ELSE Stop(cs[k - 1])
    BY DEF Tiles
  <1>3. 0 \in Good
    <2>1. g[0] = None(v)
      BY <1>1 DEF Moving
    <2>2. Moves(None(v), v, f, offset, offset)
      BY <1>1 DEF Moves, None, Aside
    <2>3. Carried(None(v), v, f, offset, endpos)
      <3>1. None(v).v = v /\ None(v).alen = 0
        BY DEF None
      <3>2. SameIn(v, v, f) /\ OtherUnits(v, v, f)
        BY DEF SameIn, OtherUnits
      <3>3. Wrote(v, v, f, offset, offset)
        BY <3>2, WroteNothing
      <3>4. offset + 0 = offset
        OBVIOUS
      <3> QED
        BY <3>1, <3>2, <3>3, <3>4 DEF Carried
    <2>4. Along(write, None(v), v, f, offset, endpos)
      BY <2>3 DEF Along
    <2> QED
      BY <2>1, <2>2, <2>4 DEF Reached
  <1>4. ASSUME NEW m \in Nat, m \in Good PROVE m + 1 \in Good
    <2> SUFFICES ASSUME m + 1 <= n
                 PROVE  /\ Moves(g[m + 1], v, f, offset, Reached(cs, offset, m + 1))
                        /\ Reached(cs, offset, m + 1) \in Nat
                        /\ Along(write, g[m + 1], v, f, offset, endpos)
      OBVIOUS
    <2>1. PICK k \in 1 .. n : k = m + 1
      BY <1>1
    <2> DEFINE c == cs[k]
               u == g[m]
               x == Reached(cs, offset, m)
    <2>2. Moves(u, v, f, offset, x) /\ x \in Nat /\ Along(write, u, v, f, offset, endpos)
      BY <1>4
    <2>3. g[k] = transfer(u, f, c, write)
      <3>1. k \in 0 .. n /\ k # 0 /\ k - 1 = m
        BY <2>1
      <3> QED
        BY <3>1 DEF Moving
    <2>4. c \in Chunk /\ c.from + c.size <= BLK /\ Stop(c) <= endpos /\ Start(c) = x
      <3>1. k = 1 <=> m = 0
        BY <2>1
      <3>2. k - 1 = m
        BY <2>1
      <3> QED
        BY <1>2, <3>1, <3>2 DEF Reached
    <2>5. Reached(cs, offset, k) = Stop(c)
      BY DEF Reached
    <2> HIDE DEF c, u, x
    <2>6. Stop(c) \in Nat
      <3>1. c.no \in Nat /\ c.from \in Nat /\ c.size \in Nat
        BY <2>4 DEF Chunk
      <3>2. PICK q \in Nat : q = c.no * BLK
        BY <1>1, <3>1
      <3>3. Stop(c) = q + c.from + c.size
        BY <3>2 DEF Stop, Start
      <3> QED
        BY <3>1, <3>3
    <2>7. Stop(c) <= (NDIRECT + BLK) * BLK
      <3>1. (NDIRECT + BLK) * BLK \in Int
        BY Numbers
      <3> QED
        BY <2>4, <2>6, <3>1
    <2>8. Moves(transfer(u, f, c, write), v, f, offset, Stop(c))
      BY <1>1, <2>2, <2>4, <2>7, TransferMoves
    <2>9. Along(write, transfer(u, f, c, write), v, f, offset, endpos)
      <3> SUFFICES ASSUME Writing(write) PROVE Carried(transfer(u, f, c, write), v, f, offset, endpos)
        BY DEF Along
      <3>1. Carried(u, v, f, offset, endpos)
        BY <2>2 DEF Along
      <3> QED
        BY <2>2, <2>4, <2>7, <3>1, TransferCarries
    <2> QED
      BY <2>1, <2>3, <2>5, <2>6, <2>8, <2>9
  <1> HIDE DEF Good
  <1>5. Nat \subseteq Good
    BY <1>3, <1>4, Induction
  <1>6. /\ Moves(g[n], v, f, offset, Reached(cs, offset, n))
        /\ Along(write, g[n], v, f, offset, endpos)
    BY <1>1, <1>5 DEF Good
  <1> QED
    BY <1>6

LEMMA FetchedNothing ==
    ASSUME NEW v, NEW f, NEW x \in Nat
    PROVE  Fetched(None(v), v, f, x, x)
  <1>1. x - x = 0
    OBVIOUS
  <1>2. [i \in 1 .. 0 |-> Unit(v, f, x + i - 1)] = <<>>
    OBVIOUS
  <1> QED
    BY <1>1, <1>2 DEF None, Fetched

LEMMA FetchedThrough ==
    ASSUME NEW v, Core(v), Calm(v), NEW f \in File, NEW offset \in Nat, NEW endpos \in Nat,
           endpos <= v.din[f].blocks * BLK,
           NEW cs, Tiles(cs, offset, endpos), NEW write \in BOOLEAN, Reading(write),
           NEW g, Moving(g, v, f, cs, write, Len(cs))
    PROVE  Fetched(g[Len(cs)], v, f, offset, endpos)
  <1> DEFINE n == Len(cs)
             Good == {m \in Nat : m <= n => /\ Fetched(g[m], v, f, offset, Reached(cs, offset, m))
                                            /\ Reached(cs, offset, m) \in Nat /\ offset <= Reached(cs, offset, m)}
  <1>1. n \in Nat /\ n >= 1 /\ Stop(cs[n]) = endpos /\ v.din[f].blocks \in Nat /\ BLK \in Nat \ {0}
    BY InodeTyped, Numbers DEF Core, Whole, Tiles
  <1>2. ASSUME NEW k \in 1 .. n
        PROVE  /\ cs[k] \in Chunk /\ cs[k].from + cs[k].size <= BLK /\ Stop(cs[k]) <= endpos
               /\ Start(cs[k]) = IF k = 1 THEN offset ELSE Stop(cs[k - 1])
    BY DEF Tiles
  <1>3. 0 \in Good
    <2>1. g[0] = None(v)
      BY <1>1 DEF Moving
    <2>2. Fetched(None(v), v, f, offset, offset)
      BY FetchedNothing
    <2> QED
      BY <2>1, <2>2 DEF Reached
  <1>4. ASSUME NEW m \in Nat, m \in Good PROVE m + 1 \in Good
    <2> SUFFICES ASSUME m + 1 <= n
                 PROVE  /\ Fetched(g[m + 1], v, f, offset, Reached(cs, offset, m + 1))
                        /\ Reached(cs, offset, m + 1) \in Nat /\ offset <= Reached(cs, offset, m + 1)
      OBVIOUS
    <2>1. PICK k \in 1 .. n : k = m + 1
      BY <1>1
    <2> DEFINE c == cs[k]
               u == g[m]
               x == Reached(cs, offset, m)
    <2>2. Fetched(u, v, f, offset, x) /\ x \in Nat /\ offset <= x
      BY <1>4
    <2>3. g[k] = transfer(u, f, c, write)
      <3>1. k \in 0 .. n /\ k # 0 /\ k - 1 = m
        BY <2>1
      <3> QED
        BY <3>1 DEF Moving
    <2>4. c \in Chunk /\ c.from + c.size <= BLK /\ Stop(c) <= endpos /\ Start(c) = x
      <3>1. k = 1 <=> m = 0
        BY <2>1
      <3>2. k - 1 = m
        BY <2>1
      <3> QED
        BY <1>2, <3>1, <3>2 DEF Reached
    <2>5. Reached(cs, offset, k) = Stop(c)
      BY DEF Reached
    <2> HIDE DEF c, u, x
    <2>6. Stop(c) \in Nat /\ offset <= Stop(c)
      <3>1. c.no \in Nat /\ c.from \in Nat /\ c.size \in Nat
        BY <2>4 DEF Chunk
      <3>2. PICK q \in Nat : q = c.no * BLK
        BY <1>1, <3>1
      <3>3. Stop(c) = q + c.from + c.size /\ Start(c) = q + c.from
        BY <3>2 DEF Stop, Start
      <3> QED
        BY <2>2, <2>4, <3>1, <3>3
    <2>7. Stop(c) <= v.din[f].blocks * BLK
      <3>1. PICK q \in Int : q = v.din[f].blocks * BLK
        BY <1>1
      <3> QED
        BY <2>4, <2>6, <3>1
    <2>8. Fetched(transfer(u, f, c, write), v, f, offset, Stop(c))
      BY <2>2, <2>4, <2>7, TransferFetches
    <2> QED
      BY <2>1, <2>3, <2>5, <2>6, <2>8
  <1> HIDE DEF Good
  <1>5. Nat \subseteq Good
    BY <1>3, <1>4, Induction
  <1>6. Fetched(g[n], v, f, offset, Reached(cs, offset, n))
    BY <1>1, <1>5 DEF Good
  <1>7. Reached(cs, offset, n) = endpos
    BY <1>1 DEF Reached
  <1> QED
    BY <1>6, <1>7

(* What io leaves. *)
Did(v, u, f, offset) ==
    /\ Core(u.v) /\ Aside(v, u.v, f) /\ Sized(u.v, f) /\ u.alen \in Nat
    /\ v.din[f].size <= u.v.din[f].size /\ offset + u.alen <= u.v.din[f].size
    /\ (u.v.din[f] = v.din[f] /\ u.v.dirty[f] = v.dirty[f]) \/ u.v.dirty[f]

Ended(u, f, offset) ==
    IF offset + u.alen > u.v.din[f].size THEN [u EXCEPT !.v = Resize(u.v, f, offset + u.alen)] ELSE u

LEMMA EndedDid ==
    ASSUME NEW v, Core(v), NEW f \in File, Sized(v, f), NEW offset \in Nat, NEW u, NEW x, Moves(u, v, f, offset, x)
    PROVE  Did(v, Ended(u, f, offset), f, offset)
  <1> DEFINE r == Ended(u, f, offset)
             blocks == u.v.din[f].blocks
             size == v.din[f].size
             end == offset + u.alen
  <1>1. /\ Core(u.v) /\ Aside(v, u.v, f) /\ u.v.din[f].size = size /\ u.alen \in Nat
        /\ u = [v |-> u.v, ok |-> u.ok, alen |-> u.alen, buf |-> u.buf] /\ end <= blocks * BLK
        /\ \/ u.v.din[f] = v.din[f] /\ u.v.dirty[f] = v.dirty[f]
           \/ (blocks - 1) * BLK < end /\ blocks > v.din[f].blocks
    BY DEF Moves
  <1>2. /\ size \in Nat /\ v.din[f].blocks \in Nat /\ blocks \in Nat /\ BLK \in Nat \ {0} /\ end \in Nat
        /\ v.din[f].blocks = RoundUp(size)
    <2>1. size \in Nat /\ v.din[f].blocks \in Nat
      BY InodeTyped DEF Core, Whole
    <2>2. blocks \in Nat
      <3>1. PICK w : w = u.v
        OBVIOUS
      <3>2. w.din[f].blocks \in 0 .. NDIRECT + BLK
        BY <1>1, <3>1, InodeTyped DEF Core, Whole
      <3> QED
        BY <3>1, <3>2
    <2>3. BLK \in Nat \ {0}
      BY Numbers
    <2>4. end \in Nat
      BY <1>1
    <2>5. v.din[f].blocks = RoundUp(size)
      BY DEF Sized
    <2> QED
      BY <2>1, <2>2, <2>3, <2>4, <2>5
  <1>3. size <= v.din[f].blocks * BLK /\ v.din[f].blocks * BLK < size + BLK
    BY <1>2, RoundUpIs
  <1>4. blocks * BLK \in Int /\ (blocks - 1) * BLK = blocks * BLK - BLK /\ v.din[f].blocks * BLK \in Int
    BY <1>2, Times
  <1>5. CASE ~(end > u.v.din[f].size)
    <2>1. r = u
      BY <1>5 DEF Ended
    <2>2. end <= size
      BY <1>1, <1>2, <1>5
    <2>3. u.v.din[f] = v.din[f] /\ u.v.dirty[f] = v.dirty[f]
      <3> SUFFICES ASSUME (blocks - 1) * BLK < end, blocks > v.din[f].blocks PROVE FALSE
        BY <1>1
      <3>1. v.din[f].blocks <= blocks - 1 /\ blocks - 1 \in Int
        BY <1>2
      <3>2. PICK k \in Int : k = blocks - 1
        BY <3>1
      <3>3. v.din[f].blocks * BLK <= k * BLK /\ k * BLK \in Int
        BY <1>2, <3>1, <3>2, Times
      <3> QED
        BY <1>2, <1>3, <1>4, <2>2, <3>2, <3>3
    <2>4. Sized(u.v, f)
      BY <2>3 DEF Sized
    <2> QED
      BY <1>1, <1>2, <2>1, <2>2, <2>3, <2>4 DEF Did
  <1>6. CASE end > u.v.din[f].size
    <2> DEFINE w == Resize(u.v, f, end)
    <2>1. Resized(u.v, w, f, end)
      BY <1>1, <1>2, ResizeIs
    <2>2. r = [u EXCEPT !.v = w]
      BY <1>6 DEF Ended
    <2> HIDE DEF w, r
    <2>3. r.v = w /\ r.alen = u.alen
      BY <1>1, <2>2
    <2>4. Core(w) /\ Aside(v, w, f) /\ w.dirty[f] /\ w.din[f].size = end /\ w.din[f].blocks = blocks
      BY <1>1, <2>1 DEF Resized, Aside
    <2>5. RoundUp(end) = blocks
      <3>1. blocks * BLK < end + BLK
        <4>1. CASE u.v.din[f] = v.din[f]
          BY <1>1, <1>2, <1>3, <1>4, <1>6, <4>1
        <4>2. CASE (blocks - 1) * BLK < end
          BY <1>2, <1>4, <4>2
        <4> QED
          BY <1>1, <4>1, <4>2
      <3> HIDE DEF end, blocks
      <3> QED
        BY <1>1, <1>2, <3>1, RoundUpIs
    <2>6. size <= end
      BY <1>1, <1>2, <1>6
    <2>7. Sized(w, f)
      BY <2>4, <2>5 DEF Sized
    <2> QED
      BY <1>1, <1>2, <2>3, <2>4, <2>6, <2>7 DEF Did, r
  <1> QED
    BY <1>5, <1>6

LEMMA NoneDid ==
    ASSUME NEW v, Core(v), NEW f \in File, Sized(v, f), NEW offset \in Nat, offset <= v.din[f].size
    PROVE  Did(v, None(v), f, offset)
  <1>1. None(v).v = v /\ None(v).alen = 0
    BY DEF None
  <1>2. v.din[f].size \in Nat
    BY InodeTyped DEF Core, Whole
  <1> QED
    BY <1>1, <1>2 DEF Did, Aside

(* How far a read or a write may go, and the blocks it goes through.       *)
Most(v, f, write) == IF write THEN MAX_SIZE ELSE v.din[f].size

EndsAt(endpos, offset, len, most) ==
    /\ endpos \in Nat /\ offset < endpos /\ endpos <= most
    /\ endpos = IF offset + len < most THEN offset + len ELSE most

Ran(r, g, cs, v, f, offset, endpos, write) ==
    /\ Tiles(cs, offset, endpos) /\ Moving(g, v, f, cs, write, Len(cs))
    /\ r = Ended(g[Len(cs)], f, offset)

LEMMA IoIs ==
    ASSUME NEW v, NEW f, NEW offset \in Nat, NEW len \in Nat \ {0}, NEW write \in BOOLEAN,
           Most(v, f, write) \in Nat
    PROVE  /\ offset >= Most(v, f, write) => io(v, f, offset, len, write) = None(v)
           /\ offset < Most(v, f, write) =>
                \E endpos, cs, g :
                  /\ EndsAt(endpos, offset, len, Most(v, f, write))
                  /\ Ran(io(v, f, offset, len, write), g, cs, v, f, offset, endpos, write)
  <1> DEFINE most == Most(v, f, write)
             endpos == Min({offset + len, most})
             cs == Chunks(offset, endpos)
             g == CHOOSE h : Moving(h, v, f, cs, write, Len(cs))
             r == io(v, f, offset, len, write)
  <1>1. ASSUME offset >= most PROVE r = None(v)
    BY <1>1, Zenon DEF io, None, Most
  <1>2. ASSUME offset < most
        PROVE  EndsAt(endpos, offset, len, most) /\ Ran(r, g, cs, v, f, offset, endpos, write)
    <2>0. most \in Nat
      OBVIOUS
    <2> HIDE DEF most
    <2>1. ~(offset >= most)
      BY <1>2, <2>0
    <2>2. EndsAt(endpos, offset, len, most)
      <3> DEFINE B == {offset + len, most}
      <3>1. PICK n \in Nat : n = offset + len + most
        BY <2>0
      <3>2. B \in SUBSET (1 .. n) /\ B # {}
        BY <1>2, <2>0, <3>1
      <3>3. Min(B) \in B /\ \A b \in B : Min(B) <= b
        BY <3>2, MinExists
      <3> QED
        BY <1>2, <2>0, <3>3 DEF EndsAt
    <2>3. endpos \in Nat /\ offset < endpos
      BY <2>2 DEF EndsAt
    <2>4. r = Ended(g[Len(cs)], f, offset)
      BY <2>1 DEF io, None, Moving, Ended, Resize, Most, most
    <2> HIDE DEF endpos
    <2>5. Tiles(cs, offset, endpos)
      BY <2>3, ChunksTile
    <2> HIDE DEF cs, r
    <2>6. Len(cs) \in Nat
      BY <2>5 DEF Tiles
    <2>7. Moving(g, v, f, cs, write, Len(cs))
      BY <2>6, MovingExists
    <2> QED
      BY <2>2, <2>4, <2>5, <2>7 DEF Ran
  <1> HIDE DEF most, endpos, cs, g, r
  <1>3. offset < most => \E e, c, h : EndsAt(e, offset, len, most) /\ Ran(r, h, c, v, f, offset, e, write)
    BY <1>2
  <1> QED
    BY <1>1, <1>3 DEF most, r

(* A write has written what it says it has, and the file is as long as it  *)
(* has to be.                                                              *)
DidWrite(u, v, f, offset, len) ==
    /\ Carried(u, v, f, offset, offset + len)
    /\ u.v.din[f].size = IF offset + u.alen > v.din[f].size THEN offset + u.alen ELSE v.din[f].size

Effect(write, u, v, f, offset, len) == Writing(write) => DidWrite(u, v, f, offset, len)

LEMMA EndedWrote ==
    ASSUME NEW v, Core(v), NEW f \in File, NEW offset \in Nat, NEW u, NEW x, Moves(u, v, f, offset, x),
           NEW len \in Nat, NEW endpos \in Nat, endpos <= offset + len, Carried(u, v, f, offset, endpos)
    PROVE  DidWrite(Ended(u, f, offset), v, f, offset, len)
  <1> DEFINE r == Ended(u, f, offset)
             end == offset + u.alen
  <1>1. /\ Core(u.v) /\ u.v.din[f].size = v.din[f].size /\ u.alen \in Nat
        /\ u = [v |-> u.v, ok |-> u.ok, alen |-> u.alen, buf |-> u.buf]
    BY DEF Moves
  <1>2. /\ Wrote(v, u.v, f, offset, end) /\ OtherUnits(v, u.v, f) /\ end <= offset + len
    BY <1>1 DEF Carried
  <1>3. CASE ~(end > u.v.din[f].size)
    <2>1. r = u
      BY <1>3 DEF Ended
    <2> QED
      BY <1>1, <1>2, <1>3, <2>1 DEF DidWrite, Carried
  <1>4. CASE end > u.v.din[f].size
    <2> DEFINE w == Resize(u.v, f, end)
    <2>1. Resized(u.v, w, f, end)
      BY <1>1, ResizeIs
    <2>2. r = [u EXCEPT !.v = w]
      BY <1>4 DEF Ended
    <2> HIDE DEF w, r
    <2>3. r.v = w /\ r.alen = u.alen
      BY <1>1, <2>2
    <2>4. w.din[f].size = end /\ SameUnits(u.v, w)
      BY <2>1 DEF Resized
    <2>5. Wrote(v, w, f, offset, end)
      BY <1>2, <2>4 DEF Wrote, SameUnits, SameIn
    <2>6. OtherUnits(v, w, f)
      BY <1>2, <2>4 DEF OtherUnits, SameUnits, SameIn
    <2> QED
      BY <1>1, <1>2, <1>4, <2>3, <2>4, <2>5, <2>6 DEF DidWrite, Carried, r
  <1> QED
    BY <1>3, <1>4

LEMMA NoneWrote ==
    ASSUME NEW v, Core(v), NEW f \in File, NEW offset \in Nat, offset <= v.din[f].size, NEW len \in Nat
    PROVE  DidWrite(None(v), v, f, offset, len)
  <1>1. None(v).v = v /\ None(v).alen = 0
    BY DEF None
  <1>2. SameIn(v, v, f) /\ OtherUnits(v, v, f)
    BY DEF SameIn, OtherUnits
  <1>3. Wrote(v, v, f, offset, offset)
    BY <1>2, WroteNothing
  <1>4. v.din[f].size \in Nat
    BY InodeTyped DEF Core, Whole
  <1>5. offset + 0 = offset /\ offset + 0 <= offset + len /\ ~(offset + 0 > v.din[f].size)
    BY <1>4
  <1> QED
    BY <1>1, <1>2, <1>3, <1>5 DEF DidWrite, Carried

LEMMA MostIs ==
    ASSUME NEW v, Core(v), NEW f \in File, Sized(v, f), NEW write \in BOOLEAN
    PROVE  /\ Most(v, f, write) \in Nat /\ Most(v, f, write) <= (NDIRECT + BLK) * BLK
           /\ (NDIRECT + BLK) * BLK \in Int /\ v.din[f].size \in Nat
           /\ v.din[f].size <= v.din[f].blocks * BLK /\ v.din[f].blocks * BLK \in Int
  <1>1. /\ v.din[f].size \in Nat /\ v.din[f].blocks \in 0 .. NDIRECT + BLK /\ BLK \in Nat \ {0}
        /\ NDIRECT + BLK \in Nat /\ (NDIRECT + BLK) * BLK \in Int
    BY InodeTyped, Numbers DEF Core, Whole
  <1>2. v.din[f].size <= v.din[f].blocks * BLK /\ v.din[f].blocks * BLK \in Int
    <2>1. v.din[f].size <= RoundUp(v.din[f].size) * BLK
      BY <1>1, RoundUpIs
    <2> QED
      BY <1>1, <2>1 DEF Sized
  <1>3. MAX_SIZE \in Nat /\ MAX_SIZE <= (NDIRECT + BLK) * BLK
    BY Numbers
  <1>4. v.din[f].blocks * BLK <= (NDIRECT + BLK) * BLK
    <2>1. PICK k \in Int : k = NDIRECT + BLK
      BY <1>1
    <2>2. PICK j \in Int : j = v.din[f].blocks /\ j <= k
      BY <1>1, <2>1
    <2>3. j * BLK <= k * BLK
      BY <2>2, Times
    <2> QED
      BY <2>1, <2>2, <2>3
  <1>5. v.din[f].size <= (NDIRECT + BLK) * BLK
    BY <1>1, <1>2, <1>4
  <1>6. Most(v, f, write) = MAX_SIZE \/ Most(v, f, write) = v.din[f].size
    BY DEF Most
  <1> QED
    BY <1>1, <1>2, <1>3, <1>5, <1>6

LEMMA IoDid ==
    ASSUME NEW v, Core(v), Calm(v), NEW f \in File, Sized(v, f), NEW offset \in Nat, offset <= v.din[f].size,
           NEW len \in Nat \ {0}, NEW write \in BOOLEAN
    PROVE  /\ Did(v, io(v, f, offset, len, write), f, offset)
           /\ Effect(write, io(v, f, offset, len, write), v, f, offset, len)
  <1> DEFINE most == Most(v, f, write)
             r == io(v, f, offset, len, write)
  <1>1. /\ most \in Nat /\ most <= (NDIRECT + BLK) * BLK /\ (NDIRECT + BLK) * BLK \in Int
        /\ v.din[f].size \in Nat
        /\ v.din[f].size <= v.din[f].blocks * BLK /\ v.din[f].blocks * BLK \in Int
    BY MostIs
  <1> HIDE DEF most, r
  <1>2. CASE offset >= most
    <2>1. r = None(v)
      BY <1>1, <1>2, IoIs DEF most, r
    <2>2. Did(v, None(v), f, offset)
      BY NoneDid
    <2>3. DidWrite(None(v), v, f, offset, len)
      BY NoneWrote
    <2> QED
      BY <2>1, <2>2, <2>3 DEF Effect, r
  <1>3. CASE offset < most
    <2>1. PICK endpos, cs, g :
            /\ EndsAt(endpos, offset, len, most)
            /\ Ran(r, g, cs, v, f, offset, endpos, write)
      BY <1>1, <1>3, IoIs DEF most, r
    <2>2. /\ Tiles(cs, offset, endpos) /\ Moving(g, v, f, cs, write, Len(cs))
          /\ r = Ended(g[Len(cs)], f, offset)
      BY <2>1 DEF Ran
    <2>3. endpos \in Nat /\ offset <= endpos /\ endpos <= most /\ endpos <= offset + len
      BY <1>1, <2>1 DEF EndsAt
    <2>4. offset <= v.din[f].blocks * BLK /\ endpos <= (NDIRECT + BLK) * BLK
      BY <1>1, <2>3
    <2>5. (\E x : Moves(g[Len(cs)], v, f, offset, x)) /\ Along(write, g[Len(cs)], v, f, offset, endpos)
      BY <2>2, <2>3, <2>4, MovesThrough
    <2>6. PICK x : Moves(g[Len(cs)], v, f, offset, x)
      BY <2>5
    <2>7. Did(v, Ended(g[Len(cs)], f, offset), f, offset)
      BY <2>6, EndedDid
    <2>8. ASSUME Writing(write) PROVE DidWrite(Ended(g[Len(cs)], f, offset), v, f, offset, len)
      <3>1. Carried(g[Len(cs)], v, f, offset, endpos)
        BY <2>5, <2>8 DEF Along
      <3> QED
        BY <2>3, <2>6, <3>1, EndedWrote
    <2> QED
      BY <2>2, <2>7, <2>8 DEF Effect, r
  <1> QED
    BY <1>1, <1>2, <1>3

(* A read fetches what is there up to the end of the file.                 *)
LEMMA IoFetches ==
    ASSUME NEW v, Core(v), Calm(v), NEW f \in File, Sized(v, f), NEW offset \in Nat, offset <= v.din[f].size,
           NEW len \in Nat \ {0}, NEW write \in BOOLEAN, Reading(write)
    PROVE  Fetched(io(v, f, offset, len, write), v, f, offset,
                   IF offset + len < v.din[f].size THEN offset + len ELSE v.din[f].size)
  <1> DEFINE size == v.din[f].size
             r == io(v, f, offset, len, write)
             end == IF offset + len < size THEN offset + len ELSE size
  <1>1. size \in Nat /\ size <= v.din[f].blocks * BLK /\ v.din[f].blocks * BLK \in Int
    BY MostIs
  <1>2. Most(v, f, write) = size
    BY DEF Most, Reading
  <1> HIDE DEF r
  <1>3. CASE offset >= size
    <2>1. r = None(v)
      BY <1>1, <1>2, <1>3, IoIs DEF r
    <2>2. end = offset
      BY <1>1, <1>3
    <2> HIDE DEF end
    <2> QED
      BY <2>1, <2>2, FetchedNothing DEF r, end
  <1>4. CASE offset < size
    <2>1. PICK endpos, cs, g :
            /\ EndsAt(endpos, offset, len, Most(v, f, write))
            /\ Ran(r, g, cs, v, f, offset, endpos, write)
      BY <1>1, <1>2, <1>4, IoIs DEF r
    <2>2. /\ Tiles(cs, offset, endpos) /\ Moving(g, v, f, cs, write, Len(cs))
          /\ r = Ended(g[Len(cs)], f, offset)
      BY <2>1 DEF Ran
    <2>3. endpos \in Nat /\ offset < endpos /\ endpos <= size /\ endpos = end
      BY <1>2, <2>1 DEF EndsAt
    <2>4. endpos <= v.din[f].blocks * BLK
      BY <1>1, <2>3
    <2>5. Fetched(g[Len(cs)], v, f, offset, endpos)
      BY <2>2, <2>4, <2>3, FetchedThrough
    <2>6. PICK u : u = g[Len(cs)]
      OBVIOUS
    <2>7. u.v = v /\ u.alen = endpos - offset
      BY <2>5, <2>6 DEF Fetched
    <2>8. ~(offset + u.alen > u.v.din[f].size)
      BY <1>1, <2>3, <2>7
    <2>9. r = u
      BY <2>2, <2>6, <2>8 DEF Ended
    <2> HIDE DEF end
    <2> QED
      BY <2>3, <2>5, <2>6, <2>9 DEF r, end
  <1> QED
    BY <1>1, <1>3, <1>4

-----------------------------------------------------------------------------
(* What is true between two system calls, files and blocks first.          *)
Clean(v) == \A f \in File : ~v.dirty[f] => v.din[f] = v.disk[f]
Good(v) == Core(v) /\ Calm(v) /\ Clean(v) /\ \A f \in File : Sized(v, f)

Kept(v, w, f) == (w.din[f] = v.din[f] /\ w.dirty[f] = v.dirty[f]) \/ w.dirty[f]

LEMMA GoodChanged ==
    ASSUME NEW v, Good(v), NEW f \in File, NEW w, Core(w), Aside(v, w, f), Sized(w, f), Kept(v, w, f)
    PROVE  Good(w)
  <1>1. Calm(w)
    BY DEF Good, Calm, Aside
  <1>2. ASSUME NEW g \in File, ~w.dirty[g] PROVE w.din[g] = w.disk[g]
    <2>1. w.din[g] = v.din[g] /\ ~v.dirty[g]
      BY <1>2 DEF Aside, Kept
    <2> QED
      BY <2>1 DEF Good, Clean, Aside
  <1>3. ASSUME NEW g \in File PROVE Sized(w, g)
    BY DEF Good, Aside, Sized
  <1> QED
    BY <1>1, <1>2, <1>3 DEF Good, Clean

(* Other inodes on disk, and marks that say which of them are good.        *)
LEMMA GoodSaved ==
    ASSUME NEW v, Good(v), NEW w, w \in States, w.free = v.free, w.unused = v.unused, w.cont = v.cont,
           w.din = v.din, w.panic = v.panic, Clean(w)
    PROVE  Good(w)
  <1>1. Core(v) /\ Calm(v) /\ \A f \in File : Sized(v, f)
    BY DEF Good
  <1>2. Whole(w)
    BY <1>1 DEF Core, Whole
  <1>3. ASSUME NEW g \in File, NEW i \in Index PROVE Pointer(w, g, i) = Pointer(v, g, i)
    BY DEF Pointer
  <1>4. Core(w)
    BY <1>1, <1>2, <1>3, SameBlocks
  <1> QED
    BY <1>1, <1>4 DEF Good, Calm, Sized

LEMMA OlderGood ==
    ASSUME NEW v, Good(v)
    PROVE  Good(Older(v)) /\ Older(v).din = v.din
  <1> DEFINE D == [f \in File |-> IF v.disk[f] = v.din[f] THEN v.disk[f] ELSE Stale]
             w == Older(v)
  <1>1. v \in States
    BY DEF Good, Core, Whole
  <1>2. D \in [File -> Inodes \cup {Stale}]
    BY <1>1, FieldsTyped
  <1>3. ASSUME NEW f \in File, ~v.dirty[f] PROVE v.din[f] = D[f]
    BY <1>3 DEF Good, Clean
  <1>4. w = [v EXCEPT !.disk = D]
    BY DEF Older
  <1> HIDE DEF D, w
  <1>5. /\ w \in States /\ w.free = v.free /\ w.unused = v.unused /\ w.cont = v.cont
        /\ w.din = v.din /\ w.panic = v.panic /\ w.dirty = v.dirty /\ w.disk = D
    BY <1>1, <1>2, <1>4 DEF States
  <1>6. Clean(w)
    BY <1>3, <1>5 DEF Clean
  <1>7. Good(w)
    BY <1>5, <1>6, GoodSaved
  <1> QED
    BY <1>5, <1>7 DEF w

LEMMA FsyncGood ==
    ASSUME NEW v, Good(v), NEW f \in File
    PROVE  /\ Good(fsync(v, f)) /\ fsync(v, f).din = v.din
           /\ ~fsync(v, f).dirty[f] /\ fsync(v, f).din[f] = fsync(v, f).disk[f]
  <1> DEFINE w == fsync(v, f)
             D == [v.disk EXCEPT ![f] = v.din[f]]
             E == [v.dirty EXCEPT ![f] = FALSE]
  <1>1. v \in States /\ Clean(v)
    BY DEF Good, Core, Whole
  <1>2. CASE ~v.dirty[f]
    <2>1. w = v
      BY <1>2 DEF fsync
    <2> QED
      BY <1>1, <1>2, <2>1 DEF Clean
  <1>3. CASE v.dirty[f]
    <2>1. w = [v EXCEPT !.disk = D, !.dirty = E]
      BY <1>3 DEF fsync
    <2>2. D \in [File -> Inodes \cup {Stale}] /\ D[f] = v.din[f] /\ \A g \in File : g # f => D[g] = v.disk[g]
      BY <1>1, FieldsTyped
    <2>3. E \in [File -> BOOLEAN] /\ ~E[f] /\ \A g \in File : g # f => E[g] = v.dirty[g]
      BY <1>1, FieldsTyped
    <2> HIDE DEF D, E, w
    <2>4. /\ w \in States /\ w.free = v.free /\ w.unused = v.unused /\ w.cont = v.cont
          /\ w.din = v.din /\ w.panic = v.panic /\ w.dirty = E /\ w.disk = D
      BY <1>1, <2>1, <2>2, <2>3 DEF States
    <2>5. ASSUME NEW g \in File, ~w.dirty[g] PROVE w.din[g] = w.disk[g]
      BY <1>1, <2>2, <2>3, <2>4, <2>5 DEF Clean
    <2>6. Good(w)
      BY <2>4, <2>5, GoodSaved DEF Clean
    <2> QED
      BY <2>2, <2>3, <2>4, <2>6 DEF w
  <1> QED
    BY <1>2, <1>3

(* The last one to close a file drops an inode that is on disk as it is.   *)
Dropped(w, f) == [w EXCEPT !.din[f] = w.disk[f], !.dirty[f] = FALSE]

LEMMA DropChangesNothing ==
    ASSUME NEW w \in States, NEW f \in File, ~w.dirty[f], w.din[f] = w.disk[f]
    PROVE  Dropped(w, f) = w
  <1> DEFINE D == [w.din EXCEPT ![f] = w.disk[f]]
             E == [w.dirty EXCEPT ![f] = FALSE]
  <1>1. D = w.din /\ E = w.dirty
    BY FieldsTyped
  <1>2. Dropped(w, f) = [w EXCEPT !.din = D, !.dirty = E]
    BY DEF Dropped
  <1> HIDE DEF D, E
  <1>3. [w EXCEPT !.din = w.din, !.dirty = w.dirty] = w
    BY DEF States
  <1> QED
    BY <1>1, <1>2, <1>3

-----------------------------------------------------------------------------
(* The inductive invariant: no position is beyond the end of its file.     *)
Inside(F, v) == \A h \in Fd : F[h].ino # 0 => F[h].pos <= v.din[F[h].ino].size
IInv == Good(s) /\ fd \in [Fd -> [ino : File \cup {0}, pos : Nat]] /\ Inside(fd, s)

LEMMA DescriptorTyped ==
    ASSUME IInv, NEW h \in Fd
    PROVE  /\ fd[h].ino \in File \cup {0} /\ fd[h].pos \in Nat
           /\ fd[h].ino # 0 => fd[h].ino \in File /\ fd[h].pos <= s.din[fd[h].ino].size
  BY DEF IInv, Inside

(* A file that has grown, or not, and a descriptor that stays in it.       *)
LEMMA Moved ==
    ASSUME IInv, NEW f \in File, NEW w, w \in States, \A g \in File : s.din[g].size <= w.din[g].size,
           NEW h \in Fd, NEW pos \in Nat, fd[h].ino = f, pos <= w.din[f].size
    PROVE  /\ [fd EXCEPT ![h].pos = pos] \in [Fd -> [ino : File \cup {0}, pos : Nat]]
           /\ Inside([fd EXCEPT ![h].pos = pos], w)
  <1> DEFINE F == [fd EXCEPT ![h].pos = pos]
  <1>1. \A g \in File : s.din[g].size \in Nat /\ w.din[g].size \in Nat
    BY InodeTyped DEF IInv, Good, Core, Whole
  <1>2. F \in [Fd -> [ino : File \cup {0}, pos : Nat]]
    BY DEF IInv
  <1>3. ASSUME NEW g \in Fd, F[g].ino # 0 PROVE F[g].pos <= w.din[F[g].ino].size
    <2>1. CASE g = h
      BY <2>1 DEF IInv
    <2>2. CASE g # h
      <3>1. F[g] = fd[g]
        BY <2>2 DEF IInv
      <3>2. fd[g].ino \in File /\ fd[g].pos \in Nat /\ fd[g].pos <= s.din[fd[g].ino].size
        BY <1>3, <3>1, DescriptorTyped
      <3> HIDE DEF F
      <3> QED
        BY <1>1, <3>1, <3>2
    <2> QED
      BY <2>1, <2>2
  <1> QED
    BY <1>2, <1>3 DEF Inside

LEMMA InitGood == Init => IInv
  <1> SUFFICES ASSUME Init PROVE IInv
    OBVIOUS
  <1> DEFINE D == [f \in File |-> Empty]
             C == [b \in Block |-> [i \in 0 .. BLK - 1 |-> Junk]]
             E == [f \in File |-> FALSE]
  <1>1. s = [free |-> Block, unused |-> BLOCKS, cont |-> C, disk |-> D, din |-> D, dirty |-> E, panic |-> ""]
    BY DEF Init
  <1>2. Empty \in Inodes
    <2>1. 0 \in 0 .. NDIRECT + BLK
      BY Numbers
    <2>2. [i \in 0 .. NDIRECT - 1 |-> 0] \in [0 .. NDIRECT - 1 -> Block \cup {0}]
      OBVIOUS
    <2> QED
      BY <2>1, <2>2 DEF Empty, Inodes
  <1>3. /\ C \in [Block -> [0 .. BLK - 1 -> Int]] /\ D \in [File -> Inodes \cup {Stale}] /\ D \in [File -> Inodes]
        /\ E \in [File -> BOOLEAN]
    BY <1>2 DEF Junk
  <1>4. BLOCKS \in Nat /\ Cardinality(Block) = BLOCKS
    BY Numbers, FS_Interval DEF Block
  <1>5. \A f \in File : D[f] = Empty /\ E[f] = FALSE
    OBVIOUS
  <1> HIDE DEF C, D, E
  <1>6. s \in States /\ s.unused = Cardinality(s.free) /\ s.free = Block
    <2>1. "" \in Whys
      BY DEF Whys
    <2> QED
      BY <1>1, <1>3, <1>4, <2>1 DEF States
  <1>7. ASSUME NEW f \in File
        PROVE  /\ s.din[f].size = 0 /\ s.din[f].blocks = 0 /\ s.din[f].indirect = 0
               /\ \A i \in Index : Pointer(s, f, i) = 0
    <2>1. s.din[f] = Empty
      BY <1>1, <1>5
    <2>2. /\ s.din[f].size = 0 /\ s.din[f].blocks = 0 /\ s.din[f].indirect = 0
          /\ s.din[f].direct = [i \in 0 .. NDIRECT - 1 |-> 0]
      BY <2>1 DEF Empty
    <2>3. ASSUME NEW i \in Index PROVE Pointer(s, f, i) = 0
      BY <2>2, Numbers DEF Pointer, Index
    <2> QED
      BY <2>2, <2>3
  <1>8. Filled(s)
    <2> SUFFICES ASSUME NEW f \in File, NEW i \in Index PROVE Pointer(s, f, i) = 0 <=> i >= s.din[f].blocks
      BY DEF Filled
    <2> QED
      BY <1>7 DEF Index
  <1>9. ASSUME NEW x \in Places PROVE Holds(s)[x] = 0
    BY <1>7, PlaceIs DEF Holds
  <1>10. OneOwner(Holds(s), s.free)
    <2>1. Holds(s) \in [Places -> Block \cup {0}]
      BY <1>6, <1>7, HoldsTyped
    <2> HIDE DEF Holds
    <2> QED
      BY <1>6, <1>9, <2>1, Numbers DEF OneOwner
  <1>11. Core(s)
    BY <1>6, <1>8, <1>10 DEF Core, Whole
  <1>12. Calm(s) /\ Clean(s)
    BY <1>1, <1>5 DEF Calm, Clean
  <1>13. ASSUME NEW f \in File PROVE Sized(s, f)
    <2>1. RoundUp(0) = 0
      BY RoundUpOfNothing
    <2> QED
      BY <1>7, <2>1 DEF Sized
  <1>14. fd \in [Fd -> [ino : File \cup {0}, pos : Nat]] /\ Inside(fd, s)
    BY DEF Init, Closed, Inside
  <1> QED
    BY <1>11, <1>12, <1>13, <1>14 DEF IInv, Good

(* The calls. *)
LEMMA OpenKeeps ==
    ASSUME IInv, ~STALE, NEW h \in Fd, NEW f \in File, NEW trunc \in BOOLEAN, NEW append \in BOOLEAN,
           file_open(h, f, trunc, append)
    PROVE  IInv'
  <1> DEFINE v == truncfile(s, f, 0).v
             F == [fd EXCEPT ![h] = [ino |-> f, pos |-> IF append THEN s'.din[f].size ELSE 0]]
  <1>1. Good(s) /\ Core(s) /\ s \in States /\ Sized(s, f)
    BY DEF IInv, Good, Core, Whole
  <1>2. /\ Good(s')
        /\ \A g \in Fd : fd[g].ino # 0 => s'.din[fd[g].ino].size = s.din[fd[g].ino].size
    <2>1. CASE ~trunc
      <3>1. s' = s
        BY <2>1 DEF file_open
      <3> QED
        BY <1>1, <3>1
    <2>2. CASE trunc
      <3>1. s' = Older(v) /\ Openers(f) = {}
        BY <2>2 DEF file_open
      <3>2. Truncated(s, v, f, 0)
        <4>1. 0 \in Nat /\ 0 <= MAX_SIZE
          BY Numbers
        <4> QED
          BY <1>1, <4>1, EmptyingSucceeds, TruncfileIs
      <3> HIDE DEF v
      <3>3. Good(v)
        <4>1. CASE s.din[f].size = 0
          <5>1. v = s
            BY <3>2, <4>1 DEF Truncated
          <5> QED
            BY <1>1, <5>1
        <4>2. CASE s.din[f].size # 0
          <5>1. Core(v) /\ Aside(s, v, f) /\ Sized(v, f) /\ Kept(s, v, f)
            BY <3>2, <4>2 DEF Truncated, Kept
          <5> QED
            BY <1>1, <5>1, GoodChanged
        <4> QED
          BY <4>1, <4>2
      <3>4. Good(Older(v)) /\ Older(v).din = v.din
        BY <3>3, OlderGood
      <3>5. ASSUME NEW g \in Fd, fd[g].ino # 0 PROVE s'.din[fd[g].ino].size = s.din[fd[g].ino].size
        <4>1. fd[g].ino \in File /\ fd[g].ino # f
          BY <3>1, <3>5, DescriptorTyped DEF Openers
        <4>2. v.din[fd[g].ino] = s.din[fd[g].ino]
          BY <3>2, <4>1 DEF Truncated, Aside
        <4> QED
          BY <3>1, <3>4, <4>2
      <3> QED
        BY <3>1, <3>4, <3>5
    <2> QED
      BY <2>1, <2>2
  <1>3. s'.din[f].size \in Nat
    BY <1>2, InodeTyped DEF Good, Core, Whole
  <1>4. fd' = F
    BY DEF file_open
  <1>5. F \in [Fd -> [ino : File \cup {0}, pos : Nat]]
    BY <1>3 DEF IInv
  <1>6. ASSUME NEW g \in Fd, F[g].ino # 0 PROVE F[g].pos <= s'.din[F[g].ino].size
    <2>1. CASE g = h
      BY <1>3, <2>1 DEF IInv
    <2>2. CASE g # h
      <3>1. F[g] = fd[g]
        BY <2>2 DEF IInv
      <3> HIDE DEF F
      <3> QED
        BY <1>2, <1>6, <3>1, DescriptorTyped
    <2> QED
      BY <2>1, <2>2
  <1> HIDE DEF F
  <1> QED
    BY <1>2, <1>4, <1>5, <1>6 DEF IInv, Inside

LEMMA CloseKeeps ==
    ASSUME IInv, NEW h \in Fd, file_close(h)
    PROVE  IInv'
  <1> DEFINE f == fd[h].ino
             w == fsync(s, f)
             F == [fd EXCEPT ![h] = Closed]
  <1>1. f \in File /\ Good(s)
    BY DescriptorTyped DEF file_close, IsOpen, IInv
  <1>2. Good(s') /\ s'.din = s.din
    <2>1. CASE Openers(f) # {h}
      BY <1>1, <2>1 DEF file_close
    <2>2. CASE Openers(f) = {h}
      <3>1. s' = Dropped(w, f)
        BY <2>2 DEF file_close, Dropped
      <3>2. Good(w) /\ w.din = s.din /\ ~w.dirty[f] /\ w.din[f] = w.disk[f]
        BY <1>1, FsyncGood
      <3> HIDE DEF w
      <3>3. Dropped(w, f) = w
        BY <1>1, <3>2, DropChangesNothing DEF Good, Core, Whole
      <3> QED
        BY <3>1, <3>2, <3>3
    <2> QED
      BY <2>1, <2>2
  <1>3. fd' = F
    BY DEF file_close
  <1>4. F \in [Fd -> [ino : File \cup {0}, pos : Nat]]
    BY DEF IInv, Closed
  <1>5. \A g \in Fd : F[g].ino # 0 => F[g] = fd[g]
    BY DEF IInv, Closed
  <1> HIDE DEF F
  <1>6. Inside(F, s')
    BY <1>2, <1>5, DescriptorTyped DEF Inside
  <1> QED
    BY <1>2, <1>3, <1>4, <1>6 DEF IInv

LEMMA FsyncKeeps ==
    ASSUME IInv, NEW h \in Fd, file_fsync(h)
    PROVE  IInv'
  <1>1. fd[h].ino \in File /\ Good(s) /\ s' = fsync(s, fd[h].ino) /\ fd' = fd
    BY DescriptorTyped DEF file_fsync, IsOpen, IInv
  <1>2. PICK f \in File : f = fd[h].ino
    BY <1>1
  <1>3. Good(fsync(s, f)) /\ fsync(s, f).din = s.din
    BY <1>1, FsyncGood
  <1> QED
    BY <1>1, <1>2, <1>3 DEF IInv, Inside

LEMMA DupKeeps ==
    ASSUME IInv, NEW h \in Fd, NEW g \in Fd, file_dup(h, g)
    PROVE  IInv'
  <1> DEFINE F == [fd EXCEPT ![g] = fd[h]]
  <1>1. fd' = F /\ s' = s
    BY DEF file_dup
  <1>2. F \in [Fd -> [ino : File \cup {0}, pos : Nat]]
    BY DEF IInv
  <1>3. \A e \in Fd : F[e] = fd[e] \/ F[e] = fd[h]
    BY DEF IInv
  <1> HIDE DEF F
  <1>4. Inside(F, s)
    BY <1>3, DescriptorTyped DEF Inside
  <1> QED
    BY <1>1, <1>2, <1>4 DEF IInv

LEMMA SeekKeeps ==
    ASSUME IInv, ~OVERSEEK, NEW h \in Fd, NEW pos \in 0 .. MAX_SIZE - 1, file_seek(h, pos)
    PROVE  IInv'
  <1> DEFINE F == [fd EXCEPT ![h].pos = pos]
  <1>1. PICK f \in File : f = fd[h].ino
    BY DescriptorTyped DEF file_seek, IsOpen
  <1>2. Good(s) /\ Core(s) /\ Sized(s, f) /\ s \in States
    BY DEF IInv, Good, Core, Whole
  <1>3. pos \in Nat /\ pos <= MAX_SIZE
    BY Numbers
  <1>4. \A g \in File : s.din[g].size \in Nat
    BY <1>2, InodeTyped
  <1>5. CASE pos <= s.din[f].size
    <2>1. s' = s /\ fd' = F
      BY <1>1, <1>3, <1>4, <1>5 DEF file_seek
    <2>2. \A g \in File : s.din[g].size <= s.din[g].size
      BY <1>4
    <2>3. F \in [Fd -> [ino : File \cup {0}, pos : Nat]] /\ Inside(F, s)
      BY <1>1, <1>2, <1>3, <1>5, <2>2, Moved
    <2> HIDE DEF F
    <2> QED
      BY <1>2, <2>1, <2>3 DEF IInv
  <1>6. CASE ~(pos <= s.din[f].size)
    <2> DEFINE t == truncfile(s, f, pos)
               v == t.v
    <2>1. t.ok /\ s' = Older(v) /\ fd' = F
      BY <1>1, <1>6 DEF file_seek
    <2>2. Truncated(s, v, f, pos)
      BY <1>2, <1>3, <2>1, TruncfileIs
    <2> HIDE DEF t, v
    <2>3. /\ Core(v) /\ Aside(s, v, f) /\ v.din[f].size = pos /\ Sized(v, f) /\ Kept(s, v, f)
      BY <1>3, <1>4, <1>6, <2>2 DEF Truncated, Kept
    <2>4. Good(v)
      BY <1>2, <2>3, GoodChanged
    <2>5. Good(s') /\ s'.din = v.din
      BY <2>1, <2>4, OlderGood
    <2>6. \A g \in File : s.din[g].size <= s'.din[g].size
      BY <1>3, <1>4, <1>6, <2>3, <2>5 DEF Aside
    <2>7. PICK w : w = s'
      OBVIOUS
    <2>8. w \in States /\ pos <= w.din[f].size /\ \A g \in File : s.din[g].size <= w.din[g].size
      BY <1>3, <2>3, <2>5, <2>6, <2>7 DEF Good, Core, Whole
    <2>9. F \in [Fd -> [ino : File \cup {0}, pos : Nat]] /\ Inside(F, w)
      BY <1>1, <1>3, <2>8, Moved
    <2> HIDE DEF F
    <2> QED
      BY <2>1, <2>5, <2>7, <2>9 DEF IInv
  <1> QED
    BY <1>5, <1>6

(* Reading and writing. *)
Transfers(h, len, write) ==
    \E u \in {io(s, fd[h].ino, fd[h].pos, len, write)} :
      /\ s' = Older(u.v)
      /\ fd' = [fd EXCEPT ![h].pos = @ + u.alen]

LEMMA TransfersKeep ==
    ASSUME IInv, NEW h \in Fd, fd[h].ino # 0, NEW len \in Nat \ {0}, NEW write \in BOOLEAN,
           Transfers(h, len, write)
    PROVE  IInv'
  <1> DEFINE offset == fd[h].pos
  <1>1. PICK f \in File : f = fd[h].ino
    BY DescriptorTyped
  <1>2. Good(s) /\ Core(s) /\ Calm(s) /\ Sized(s, f) /\ s \in States
    BY DEF IInv, Good, Core, Whole
  <1>3. offset \in Nat /\ offset <= s.din[f].size
    BY <1>1, DescriptorTyped
  <1> DEFINE u == io(s, f, offset, len, write)
             v == u.v
             pos == offset + u.alen
             F == [fd EXCEPT ![h].pos = pos]
  <1>4. s' = Older(v) /\ fd' = F
    BY <1>1 DEF Transfers
  <1>5. Did(s, u, f, offset)
    BY <1>2, <1>3, IoDid
  <1> HIDE DEF u, v, offset, F
  <1>6. /\ Core(v) /\ Aside(s, v, f) /\ Sized(v, f) /\ Kept(s, v, f)
        /\ s.din[f].size <= v.din[f].size /\ pos \in Nat /\ pos <= v.din[f].size
    BY <1>3, <1>5 DEF Did, Kept, v
  <1>7. Good(v)
    BY <1>2, <1>6, GoodChanged
  <1>8. Good(s') /\ s'.din = v.din
    BY <1>4, <1>7, OlderGood
  <1>9. PICK w : w = s'
    OBVIOUS
  <1>10. w \in States /\ w.din = v.din
    BY <1>8, <1>9 DEF Good, Core, Whole
  <1>11. ASSUME NEW g \in File PROVE s.din[g].size <= w.din[g].size
    <2>1. s.din[g].size \in Nat
      BY <1>2, InodeTyped
    <2> QED
      BY <1>6, <1>10, <2>1 DEF Aside
  <1> HIDE DEF pos
  <1>12. F \in [Fd -> [ino : File \cup {0}, pos : Nat]] /\ Inside(F, w)
    BY <1>1, <1>6, <1>10, <1>11, Moved DEF F
  <1> QED
    BY <1>4, <1>8, <1>9, <1>12 DEF IInv

LEMMA ReadKeeps ==
    ASSUME IInv, NEW h \in Fd, NEW len \in 1 .. BLK, file_read(h, len)
    PROVE  IInv'
  <1>1. PICK write \in BOOLEAN : write = FALSE
    OBVIOUS
  <1>2. Transfers(h, len, write)
    BY <1>1, Zenon DEF file_read, Transfers
  <1>3. len \in Nat \ {0} /\ fd[h].ino # 0
    BY Numbers DEF file_read, IsOpen
  <1> QED
    BY <1>2, <1>3, TransfersKeep

LEMMA WriteKeeps ==
    ASSUME IInv, NEW h \in Fd, NEW len \in 1 .. BLK, file_write(h, len)
    PROVE  IInv'
  <1>1. PICK write \in BOOLEAN : write = TRUE
    OBVIOUS
  <1>2. Transfers(h, len, write)
    BY <1>1, Zenon DEF file_write, Transfers
  <1>3. len \in Nat \ {0} /\ fd[h].ino # 0
    BY Numbers DEF file_write, IsOpen
  <1> QED
    BY <1>2, <1>3, TransfersKeep

LEMMA StepKeeps ==
    ASSUME ~STALE, ~OVERSEEK, IInv, [Next]_vars
    PROVE  IInv'
  <1>1. ASSUME NEW h \in Fd, NEW f \in File, NEW trunc \in BOOLEAN, NEW append \in BOOLEAN,
               file_open(h, f, trunc, append)
        PROVE  IInv'
    BY <1>1, OpenKeeps
  <1>2. ASSUME NEW h \in Fd, file_close(h) \/ file_fsync(h) PROVE IInv'
    BY <1>2, CloseKeeps, FsyncKeeps
  <1>3. ASSUME NEW h \in Fd, NEW g \in Fd, file_dup(h, g) PROVE IInv'
    BY <1>3, DupKeeps
  <1>4. ASSUME NEW h \in Fd, NEW pos \in 0 .. MAX_SIZE - 1, file_seek(h, pos) PROVE IInv'
    BY <1>4, SeekKeeps
  <1>5. ASSUME NEW h \in Fd, NEW len \in 1 .. BLK, file_read(h, len) \/ file_write(h, len) PROVE IInv'
    BY <1>5, ReadKeeps, WriteKeeps
  <1>6. CASE UNCHANGED vars
    BY <1>6 DEF vars, IInv, Inside
  <1> QED
    BY <1>1, <1>2, <1>3, <1>4, <1>5, <1>6 DEF Next

(* Between two calls on files: block map, free map and sizes agree, no       *)
(* assertion has failed, clean inodes are on disk, and no position lies      *)
(* beyond the end of its file, provided that files are not truncated while *)
(* they are open elsewhere and that no seek exhausts the disk.             *)
THEOREM DiskInvariant == ~STALE /\ ~OVERSEEK => (Spec => []IInv)
  <1>1. ASSUME ~STALE, ~OVERSEEK, IInv, [Next]_vars PROVE IInv'
    BY <1>1, StepKeeps
  <1> SUFFICES ASSUME ~STALE, ~OVERSEEK PROVE Spec => []IInv
    OBVIOUS
  <1>2. IInv /\ [Next]_vars => IInv'
    BY <1>1
  <1> QED
    BY <1>2, InitGood, PTL DEF Spec

-----------------------------------------------------------------------------
(* Owners of blocks, seen from the files.                                  *)
LEMMA BlocksIndexed ==
    ASSUME Core(s), NEW f \in File
    PROVE  0 .. s.din[f].blocks - 1 \subseteq Index
  <1>1. s.din[f].blocks \in 0 .. NDIRECT + BLK
    BY InodeTyped DEF Core, Whole
  <1>2. PICK k \in Nat : k = s.din[f].blocks /\ k <= NDIRECT + BLK
    BY <1>1, Numbers
  <1>3. 0 .. k - 1 \subseteq Index
    BY <1>2, Numbers DEF Index
  <1> QED
    BY <1>2, <1>3

LEMMA BlocksOfFile ==
    ASSUME Core(s), NEW f \in File
    PROVE  /\ Data(f) \subseteq Block \ s.free /\ Cardinality(Data(f)) = s.din[f].blocks
           /\ s.din[f].indirect \notin Data(f) /\ Held(f) \subseteq Block \ s.free
  <1> DEFINE n == s.din[f].blocks
             t == [i \in 0 .. n - 1 |-> Pointer(s, f, i)]
  <1>1. n \in Nat
    BY InodeTyped, Numbers DEF Core, Whole
  <1>2. 0 .. n - 1 \subseteq Index
    BY BlocksIndexed
  <1>3. ASSUME NEW i \in 0 .. n - 1 PROVE Pointer(s, f, i) \in Block \ s.free
    <2>1. i \in Index /\ ~(i >= n)
      BY <1>1, <1>2
    <2>2. Pointer(s, f, i) # 0
      BY <2>1 DEF Core, Filled
    <2> QED
      BY <2>1, <2>2, Owners
  <1>4. ASSUME NEW i \in 0 .. n - 1, NEW j \in 0 .. n - 1, Pointer(s, f, i) = Pointer(s, f, j) PROVE i = j
    <2>1. Pointer(s, f, i) # 0
      BY <1>3, Numbers
    <2> QED
      BY <1>2, <1>4, <2>1, Owners
  <1>5. t \in Bijection(0 .. n - 1, Data(f))
    BY <1>4 DEF Bijection, Injection, Surjection, IsInjective, Data
  <1>6. Cardinality(0 .. n - 1) = n /\ IsFiniteSet(0 .. n - 1)
    <2>1. PICK k \in Nat : k = n
      BY <1>1
    <2>2. 0 \in Int /\ k - 1 \in Int
      BY <2>1
    <2>3. IsFiniteSet(0 .. k - 1) /\ Cardinality(0 .. k - 1) = IF 0 > k - 1 THEN 0 ELSE (k - 1) - 0 + 1
      BY <2>2, FS_Interval
    <2> QED
      BY <2>1, <2>3
  <1>7. Cardinality(Data(f)) = n
    <2>1. ExistsBijection(0 .. n - 1, Data(f))
      BY <1>5 DEF ExistsBijection
    <2> QED
      BY <1>6, <2>1, FS_Bijection
  <1>8. s.din[f].indirect \in {0} \cup (Block \ s.free)
    BY Owners
  <1>9. s.din[f].indirect \notin Data(f)
    <2> SUFFICES ASSUME NEW i \in 0 .. n - 1, s.din[f].indirect = Pointer(s, f, i) PROVE FALSE
      BY DEF Data
    <2>1. s.din[f].indirect # 0
      BY <1>3, Numbers
    <2> QED
      BY <1>2, <2>1, Owners
  <1> QED
    BY <1>3, <1>7, <1>8, <1>9 DEF Data, Held

LEMMA HeldByOne ==
    ASSUME Core(s), NEW f \in File, NEW g \in File, NEW b \in Held(f), b \in Held(g)
    PROVE  f = g
  <1>1. b \in Block
    BY BlocksOfFile
  <1>2. b # 0
    BY <1>1, Numbers
  <1>3. ASSUME NEW e \in File, b \in Held(e)
        PROVE  b = s.din[e].indirect \/ \E i \in Index : b = Pointer(s, e, i)
    <2>1. 0 .. s.din[e].blocks - 1 \subseteq Index
      BY <1>3, BlocksIndexed
    <2> QED
      BY <1>3, <2>1 DEF Held, Data
  <1>4. /\ \A e \in File, i \in Index : s.din[e].indirect # 0 => s.din[e].indirect # Pointer(s, f, i)
        /\ s.din[f].indirect # 0 /\ f # g => s.din[f].indirect # s.din[g].indirect
        /\ \A i \in Index : s.din[f].indirect # 0 => s.din[f].indirect # Pointer(s, g, i)
        /\ \A i, j \in Index : Pointer(s, f, i) # 0 /\ Pointer(s, f, i) = Pointer(s, g, j) => f = g
    BY Owners
  <1>5. CASE b = s.din[f].indirect
    BY <1>2, <1>3, <1>5, <1>4
  <1>6. CASE \E i \in Index : b = Pointer(s, f, i)
    <2>1. PICK i \in Index : b = Pointer(s, f, i)
      BY <1>6
    <2>2. CASE b = s.din[g].indirect
      BY <1>2, <2>1, <2>2, <1>4
    <2>3. CASE \E j \in Index : b = Pointer(s, g, j)
      BY <1>2, <2>1, <2>3, <1>4
    <2> QED
      BY <1>3, <2>2, <2>3
  <1> QED
    BY <1>3, <1>5, <1>6

LEMMA Owned == Core(s) => BlocksOwned
  <1> SUFFICES ASSUME Core(s) PROVE BlocksOwned
    OBVIOUS
  <1>1. ASSUME NEW b \in Block \ s.free PROVE \E f \in File : b \in Held(f)
    <2>1. PICK x \in Places : Holds(s)[x] = b
      BY DEF Core, OneOwner
    <2>2. b # 0
      BY Numbers
    <2>3. CASE x[2] = Indirect
      <3>1. b = s.din[x[1]].indirect
        BY <2>1, <2>3 DEF Holds
      <3> QED
        BY <2>2, <3>1, PlaceIs DEF Held
    <2>4. CASE x[2] # Indirect
      <3>1. b = Pointer(s, x[1], x[2]) /\ x[1] \in File /\ x[2] \in Index
        BY <2>1, <2>4, PlaceIs DEF Holds
      <3>2. ~(x[2] >= s.din[x[1]].blocks) /\ s.din[x[1]].blocks \in Nat
        BY <2>2, <3>1, InodeTyped DEF Core, Filled, Whole
      <3>3. x[2] \in 0 .. s.din[x[1]].blocks - 1
        BY <3>1, <3>2 DEF Index
      <3> QED
        BY <3>1, <3>3 DEF Held, Data
    <2> QED
      BY <2>3, <2>4
  <1>2. Block \ s.free = UNION {Held(f) : f \in File}
    BY <1>1, BlocksOfFile
  <1>3. \A f \in File : Cardinality(Data(f)) = s.din[f].blocks /\ s.din[f].indirect \notin Data(f)
    BY BlocksOfFile
  <1>4. \A f, g \in File : f # g => Held(f) \cap Held(g) = {}
    BY HeldByOne
  <1> QED
    BY <1>2, <1>3, <1>4 DEF BlocksOwned, Core, Whole

(* Whatever fails half way on a full disk, every block is free or belongs   *)
(* to one file for one purpose, and unused_blocks counts the free ones     *)
(* (sfs_block_alloc, sfs_block_free and all their callers).                *)
THEOREM EveryBlockOwned == ~STALE /\ ~OVERSEEK => (Spec => []BlocksOwned)
  <1>1. IInv => BlocksOwned
    BY Owned DEF IInv, Good
  <1> QED
    BY <1>1, DiskInvariant, PTL

(* A file that is closed with its inode clean has lost nothing: whoever    *)
(* changes an inode marks it dirty (sfs_io_nolock, sfs_truncfile,          *)
(* sfs_bmap_get_nolock) and only sfs_fsync takes the mark away.            *)
THEOREM NothingDropped == ~STALE /\ ~OVERSEEK => (Spec => []CleanIsSaved)
  <1>1. IInv => CleanIsSaved
    BY DEF IInv, Good, Clean, CleanIsSaved
  <1> QED
    BY <1>1, DiskInvariant, PTL

(* As long as no file is truncated that is open elsewhere, and no seek asks *)
(* for more than the disk has, no assertion of sfs_inode.c can fail: the    *)
(* condition under which what the run sfs_write refutes is true.           *)
THEOREM AssertionsHold == ~STALE /\ ~OVERSEEK => (Spec => []NoAssertFails)
  <1>1. IInv => NoAssertFails
    BY DEF IInv, Good, Calm, NoAssertFails, Up
  <1> QED
    BY <1>1, DiskInvariant, PTL

-----------------------------------------------------------------------------
(* What is in the files, seen as sequences; behind the end there is nothing *)
(* but zeros.                                                              *)
Seen(v, f) == [i \in 1 .. v.din[f].size |-> Unit(v, f, i - 1)]
Contents(v) == [f \in File |-> Seen(v, f)]
Positions(F) == [h \in Fd |-> <<F[h].ino, F[h].pos>>]
Padded(v) == \A f \in File : \A n \in Nat : n >= v.din[f].size => Unit(v, f, n) = 0

CInv == IInv /\ Padded(s)

(* The block map gives back what the file holds, unit by unit.             *)
Mapped(v, f) == [i \in 1 .. v.din[f].size |-> v.cont[Pointer(v, f, (i - 1) \div BLK)][(i - 1) % BLK]]

LEMMA SeenIsMapped ==
    ASSUME NEW v, Good(v), NEW f \in File
    PROVE  Mapped(v, f) = Seen(v, f)
  <1>1. Core(v) /\ Sized(v, f)
    BY DEF Good
  <1>2. PICK size \in Nat : size = v.din[f].size
    BY <1>1, InodeTyped DEF Core, Whole
  <1>3. PICK blocks \in Nat : blocks = v.din[f].blocks
    BY <1>1, InodeTyped DEF Core, Whole
  <1>4. size <= blocks * BLK
    BY <1>1, <1>2, <1>3, RoundUpIs DEF Sized
  <1>5. ASSUME NEW i \in 1 .. size
        PROVE  Unit(v, f, i - 1) = v.cont[Pointer(v, f, (i - 1) \div BLK)][(i - 1) % BLK]
    <2>1. PICK n \in Nat : n = i - 1
      OBVIOUS
    <2>2. PICK q \in Nat : q = n \div BLK
      BY Numbers
    <2>3. n = (n \div BLK) * BLK + (n % BLK) /\ n % BLK \in 0 .. BLK - 1
      BY Blocks
    <2>4. q * BLK <= n
      <3>1. PICK p \in Int : p = q * BLK
        BY Numbers
      <3> QED
        BY <2>2, <2>3, <3>1, Numbers
    <2>5. q < blocks
      <3>1. PICK p \in Int : p = q * BLK
        BY Numbers
      <3>2. PICK m \in Int : m = blocks * BLK
        BY Numbers
      <3>3. p < m
        BY <1>4, <2>1, <2>4, <3>1, <3>2
      <3> QED
        BY <3>1, <3>2, <3>3, Times
    <2> QED
      BY <1>3, <2>1, <2>2, <2>5 DEF Unit
  <1> QED
    BY <1>2, <1>5 DEF Mapped, Seen

LEMMA SeenLen ==
    ASSUME NEW v, Core(v), NEW f \in File
    PROVE  /\ v.din[f].size \in Nat /\ Seen(v, f) \in Seq(Int) /\ Len(Seen(v, f)) = v.din[f].size
           /\ \A i \in 1 .. v.din[f].size : Seen(v, f)[i] = Unit(v, f, i - 1)
           /\ Seen(v, f) = [i \in 1 .. v.din[f].size |-> Unit(v, f, i - 1)]
  <1>1. PICK size \in Nat : size = v.din[f].size
    BY InodeTyped DEF Core, Whole
  <1>2. ASSUME NEW i \in 1 .. size PROVE Unit(v, f, i - 1) \in Int
    <2>1. PICK n \in Nat : n = i - 1
      OBVIOUS
    <2> QED
      BY <2>1, UnitTyped
  <1>3. Seen(v, f) = [i \in 1 .. size |-> Unit(v, f, i - 1)]
    BY <1>1 DEF Seen
  <1>4. Seen(v, f) \in [1 .. size -> Int]
    BY <1>2, <1>3
  <1>5. Seen(v, f) \in Seq(Int) /\ Len(Seen(v, f)) = size
    BY <1>4
  <1>6. \A i \in 1 .. size : Seen(v, f)[i] = Unit(v, f, i - 1)
    BY <1>3
  <1> QED
    BY <1>1, <1>3, <1>5, <1>6

LEMMA SeenSame ==
    ASSUME NEW v, NEW w, NEW f \in File, v.din[f].size \in Nat, w.din[f].size = v.din[f].size, SameIn(v, w, f)
    PROVE  Seen(w, f) = Seen(v, f)
  <1>1. ASSUME NEW i \in 1 .. v.din[f].size PROVE Unit(w, f, i - 1) = Unit(v, f, i - 1)
    <2>1. PICK n \in Nat : n = i - 1
      OBVIOUS
    <2> QED
      BY <2>1 DEF SameIn
  <1> QED
    BY <1>1 DEF Seen

(* States with the same inodes in memory and the same blocks look alike.   *)
Alike(v, w) == w.din = v.din /\ w.cont = v.cont

LEMMA AlikeSame ==
    ASSUME NEW v, NEW w, Alike(v, w)
    PROVE  /\ \A f \in File : SameIn(v, w, f) /\ Seen(w, f) = Seen(v, f)
           /\ Contents(w) = Contents(v)
           /\ Padded(v) => Padded(w)
  <1>1. ASSUME NEW f, NEW i PROVE Pointer(w, f, i) = Pointer(v, f, i)
    BY DEF Pointer, Alike
  <1>2. ASSUME NEW f, NEW n PROVE Unit(w, f, n) = Unit(v, f, n)
    BY <1>1 DEF Unit, Alike
  <1>3. \A f \in File : SameIn(v, w, f) /\ Seen(w, f) = Seen(v, f)
    BY <1>2 DEF SameIn, Seen, Alike
  <1>4. Contents(w) = Contents(v)
    BY <1>3 DEF Contents
  <1>5. Padded(v) => Padded(w)
    BY <1>2 DEF Padded, Alike
  <1> QED
    BY <1>3, <1>4, <1>5

LEMMA OlderAlike ==
    ASSUME NEW v, v \in States
    PROVE  Alike(v, Older(v))
  BY DEF Older, States, Alike

LEMMA FsyncAlike ==
    ASSUME NEW v, v \in States, NEW f
    PROVE  Alike(v, fsync(v, f))
  BY DEF fsync, States, Alike

(* One file changes, the others do not. *)
LEMMA OneChanges ==
    ASSUME NEW v, Core(v), Padded(v), NEW w, Core(w), NEW f \in File, Aside(v, w, f), OtherUnits(v, w, f),
           \A n \in Nat : n >= w.din[f].size => Unit(w, f, n) = 0
    PROVE  Padded(w) /\ Contents(w) = [Contents(v) EXCEPT ![f] = Seen(w, f)]
  <1>1. ASSUME NEW g \in File, g # f
        PROVE  SameIn(v, w, g) /\ w.din[g].size = v.din[g].size /\ v.din[g].size \in Nat
    BY <1>1, SeenLen DEF OtherUnits, Aside
  <1>2. Padded(w)
    <2> SUFFICES ASSUME NEW g \in File, NEW n \in Nat, n >= w.din[g].size PROVE Unit(w, g, n) = 0
      BY DEF Padded
    <2>1. CASE g = f
      BY <2>1
    <2>2. CASE g # f
      BY <1>1, <2>2 DEF Padded, SameIn
    <2> QED
      BY <2>1, <2>2
  <1>3. ASSUME NEW g \in File, g # f PROVE Seen(w, g) = Seen(v, g)
    BY <1>1, <1>3, SeenSame
  <1>4. Contents(w) = [Contents(v) EXCEPT ![f] = Seen(w, f)]
    BY <1>3 DEF Contents
  <1> QED
    BY <1>2, <1>4

-----------------------------------------------------------------------------
(* Every call does to the sequences what FileStore says, and keeps Padded.  *)
LEMMA Views ==
    ASSUME IInv, IInv'
    PROVE  /\ content = Contents(s) /\ content' = Contents(s')
           /\ place = Positions(fd) /\ place' = Positions(fd')
  <1>1. ASSUME NEW f \in File PROVE Content(f) = Seen(s, f)
    <2>1. Mapped(s, f) = Seen(s, f)
      BY SeenIsMapped DEF IInv
    <2> QED
      BY <2>1 DEF Content, Mapped
  <1>2. ASSUME NEW f \in File PROVE Content(f)' = Seen(s', f)
    <2>1. PICK w : w = s'
      OBVIOUS
    <2>2. Mapped(w, f) = Seen(w, f)
      BY <2>1, SeenIsMapped DEF IInv
    <2> QED
      BY <2>1, <2>2 DEF Content, Mapped
  <1> QED
    BY <1>1, <1>2 DEF Contents, Positions, content, place

LEMMA OpenShows ==
    ASSUME IInv, IInv', Padded(s), ~STALE, NEW h \in Fd, NEW f \in File,
           NEW trunc \in BOOLEAN, NEW append \in BOOLEAN, file_open(h, f, trunc, append)
    PROVE  Padded(s') /\ Store!Open(h, f)
  <1> DEFINE v == truncfile(s, f, 0).v
             C == Contents(s)
  <1>1. Good(s) /\ Core(s) /\ s \in States /\ Sized(s, f)
    BY DEF IInv, Good, Core, Whole
  <1>2. /\ Padded(s')
        /\ Contents(s') = [C EXCEPT ![f] = Seen(s', f)]
        /\ Seen(s', f) = Seen(s, f) \/ Seen(s', f) = <<>>
    <2>1. CASE ~trunc
      <3>1. s' = s
        BY <2>1 DEF file_open
      <3>2. C = [C EXCEPT ![f] = Seen(s, f)]
        BY DEF Contents
      <3> QED
        BY <3>1, <3>2
    <2>2. CASE trunc
      <3>1. s' = Older(v)
        BY <2>2 DEF file_open
      <3>2. Truncated(s, v, f, 0)
        <4>1. 0 \in Nat /\ 0 <= MAX_SIZE
          BY Numbers
        <4> QED
          BY <1>1, <4>1, EmptyingSucceeds, TruncfileIs
      <3> HIDE DEF v
      <3>3. Core(v) /\ Aside(s, v, f) /\ OtherUnits(s, v, f) /\ v \in States
        BY <3>2 DEF Truncated, Core, Whole
      <3>4. v.din[f].size = 0 /\ v.din[f].blocks = 0
        <4>1. v.din[f].size = 0 /\ Sized(v, f)
          BY <1>1, <3>2 DEF Truncated
        <4> QED
          BY <4>1, RoundUpOfNothing DEF Sized
      <3>5. ASSUME NEW n \in Nat PROVE Unit(v, f, n) = 0
        <4>1. n \div BLK \in Nat
          BY Numbers
        <4>2. ~(n \div BLK < 0)
          BY <4>1
        <4> QED
          BY <3>4, <4>2 DEF Unit
      <3>6. Padded(v) /\ Contents(v) = [C EXCEPT ![f] = Seen(v, f)]
        BY <1>1, <3>3, <3>5, OneChanges
      <3>7. Seen(v, f) = <<>>
        BY <3>4 DEF Seen
      <3>8. Alike(v, s')
        BY <3>1, <3>3, OlderAlike
      <3>9. PICK w : w = s'
        OBVIOUS
      <3>10. Padded(w) /\ Contents(w) = Contents(v) /\ Seen(w, f) = Seen(v, f)
        BY <3>6, <3>8, <3>9, AlikeSame
      <3> QED
        BY <3>6, <3>7, <3>9, <3>10
    <2> QED
      BY <2>1, <2>2
  <1>3. Core(s')
    BY DEF IInv, Good
  <1>4. PICK c : c = Seen(s', f)
    OBVIOUS
  <1>5. PICK p : p = IF append THEN s'.din[f].size ELSE 0
    OBVIOUS
  <1>6. Len(c) = s'.din[f].size
    <2>1. PICK w : w = s'
      OBVIOUS
    <2>2. Core(w)
      BY <1>3, <2>1
    <2>3. Len(Seen(w, f)) = w.din[f].size
      BY <2>2, SeenLen
    <2> QED
      BY <1>4, <2>1, <2>3
  <1>7. p \in {0, Len(c)}
    BY <1>5, <1>6
  <1>8. C[f] = Seen(s, f)
    BY DEF Contents
  <1>9. c \in {C[f], <<>>}
    BY <1>2, <1>4, <1>8
  <1>10. Positions(fd') = [Positions(fd) EXCEPT ![h] = <<f, p>>]
    <2>1. fd' = [fd EXCEPT ![h] = [ino |-> f, pos |-> p]]
      BY <1>5 DEF file_open
    <2>2. fd \in [Fd -> [ino : File \cup {0}, pos : Nat]]
      BY DEF IInv
    <2> QED
      BY <2>1, <2>2 DEF Positions
  <1>11. Positions(fd)[h] = <<0, 0>>
    BY DEF file_open, Closed, Positions
  <1>12. Contents(s') = [C EXCEPT ![f] = c]
    BY <1>2, <1>4
  <1> HIDE DEF C
  <1>13. Store!Open(h, f)
    BY <1>7, <1>9, <1>10, <1>11, <1>12, Views DEF Store!Open, C
  <1> QED
    BY <1>2, <1>13

LEMMA CloseShows ==
    ASSUME IInv, IInv', Padded(s), NEW h \in Fd, file_close(h)
    PROVE  Padded(s') /\ Store!Close(h)
  <1> DEFINE f == fd[h].ino
             w == fsync(s, f)
  <1>1. f \in File /\ Good(s) /\ s \in States
    BY DescriptorTyped DEF file_close, IsOpen, IInv, Good, Core, Whole
  <1>2. Alike(s, s')
    <2>1. CASE Openers(f) # {h}
      BY <2>1 DEF file_close, Alike
    <2>2. CASE Openers(f) = {h}
      <3>1. s' = Dropped(w, f)
        BY <2>2 DEF file_close, Dropped
      <3>2. Good(w) /\ ~w.dirty[f] /\ w.din[f] = w.disk[f] /\ Alike(s, w)
        BY <1>1, FsyncGood, FsyncAlike
      <3> HIDE DEF w
      <3>3. Dropped(w, f) = w
        BY <1>1, <3>2, DropChangesNothing DEF Good, Core, Whole
      <3> QED
        BY <3>1, <3>2, <3>3
    <2> QED
      BY <2>1, <2>2
  <1>3. PICK z : z = s'
    OBVIOUS
  <1>4. Padded(z) /\ Contents(z) = Contents(s)
    BY <1>2, <1>3, AlikeSame
  <1>5. Positions(fd') = [Positions(fd) EXCEPT ![h] = <<0, 0>>]
    <2>1. fd' = [fd EXCEPT ![h] = [ino |-> 0, pos |-> 0]]
      BY DEF file_close, Closed
    <2>2. fd \in [Fd -> [ino : File \cup {0}, pos : Nat]]
      BY DEF IInv
    <2> QED
      BY <2>1, <2>2 DEF Positions
  <1>6. Store!Close(h)
    BY <1>3, <1>4, <1>5, Views DEF Store!Close
  <1> QED
    BY <1>3, <1>4, <1>6

LEMMA FsyncShows ==
    ASSUME IInv, IInv', Padded(s), NEW h \in Fd, file_fsync(h)
    PROVE  Padded(s') /\ UNCHANGED Store!vars
  <1>1. s' = fsync(s, fd[h].ino) /\ fd' = fd /\ s \in States
    BY DEF file_fsync, IInv, Good, Core, Whole
  <1>2. PICK z : z = s'
    OBVIOUS
  <1>3. Alike(s, z)
    BY <1>1, <1>2, FsyncAlike
  <1>4. Padded(z) /\ Contents(z) = Contents(s)
    BY <1>3, AlikeSame
  <1>5. UNCHANGED Store!vars
    BY <1>1, <1>2, <1>4, Views DEF Store!vars
  <1> QED
    BY <1>2, <1>4, <1>5

LEMMA DupShows ==
    ASSUME IInv, IInv', Padded(s), NEW h \in Fd, NEW g \in Fd, file_dup(h, g)
    PROVE  Padded(s') /\ Store!Dup(h, g)
  <1>1. s' = s /\ fd' = [fd EXCEPT ![g] = fd[h]] /\ fd[g] = Closed
    BY DEF file_dup
  <1>2. Positions(fd') = [Positions(fd) EXCEPT ![g] = Positions(fd)[h]]
    <2>1. fd \in [Fd -> [ino : File \cup {0}, pos : Nat]]
      BY DEF IInv
    <2> QED
      BY <1>1, <2>1 DEF Positions
  <1>3. Positions(fd)[g] = <<0, 0>>
    BY <1>1 DEF Closed, Positions
  <1>4. Store!Dup(h, g)
    BY <1>1, <1>2, <1>3, Views DEF Store!Dup
  <1> QED
    BY <1>1, <1>4

LEMMA PairMoved ==
    ASSUME NEW a, NEW b, NEW x
    PROVE  [<<a, b>> EXCEPT ![2] = x] = <<a, x>>
  OBVIOUS

LEMMA PositionMoved ==
    ASSUME IInv, NEW h \in Fd, NEW pos
    PROVE  /\ Positions([fd EXCEPT ![h].pos = pos]) = [Positions(fd) EXCEPT ![h][2] = pos]
           /\ Positions(fd)[h] = <<fd[h].ino, fd[h].pos>>
           /\ Positions(fd)[h][1] = fd[h].ino /\ Positions(fd)[h][2] = fd[h].pos
  <1> DEFINE F == [fd EXCEPT ![h].pos = pos]
             P == Positions(fd)
  <1>1. fd \in [Fd -> [ino : File \cup {0}, pos : Nat]]
    BY DEF IInv
  <1>2. F[h].ino = fd[h].ino /\ F[h].pos = pos /\ \A g \in Fd : g # h => F[g] = fd[g]
    BY <1>1
  <1>3. P[h] = <<fd[h].ino, fd[h].pos>>
    BY DEF Positions
  <1>4. [P[h] EXCEPT ![2] = pos] = <<fd[h].ino, pos>>
    BY <1>3, PairMoved
  <1>5. [P EXCEPT ![h] = <<fd[h].ino, pos>>] = [P EXCEPT ![h][2] = pos]
    BY <1>4, Zenon
  <1> HIDE DEF F
  <1>6. Positions(F) = [P EXCEPT ![h] = <<fd[h].ino, pos>>]
    BY <1>2 DEF Positions
  <1> QED
    BY <1>3, <1>5, <1>6 DEF F

LEMMA SeekShows ==
    ASSUME IInv, IInv', Padded(s), ~OVERSEEK, NEW h \in Fd, NEW pos \in 0 .. MAX_SIZE - 1, file_seek(h, pos)
    PROVE  Padded(s') /\ Store!Seek(h, pos)
  <1> DEFINE F == [fd EXCEPT ![h].pos = pos]
             C == Contents(s)
  <1>1. PICK f \in File : f = fd[h].ino
    BY DescriptorTyped DEF file_seek, IsOpen
  <1>2. Good(s) /\ Core(s) /\ Sized(s, f) /\ s \in States
    BY DEF IInv, Good, Core, Whole
  <1>3. pos \in Nat /\ pos <= MAX_SIZE
    BY Numbers
  <1>4. /\ s.din[f].size \in Nat /\ Len(Seen(s, f)) = s.din[f].size
        /\ \A i \in 1 .. s.din[f].size : Seen(s, f)[i] = Unit(s, f, i - 1)
    BY <1>2, SeenLen
  <1>5. C[f] = Seen(s, f)
    BY DEF Contents
  <1>6. /\ fd' = F /\ Padded(s')
        /\ Contents(s') = IF pos <= Len(C[f]) THEN C ELSE [C EXCEPT ![f] = Store!Grown(C[f], pos)]
    <2>1. CASE pos <= s.din[f].size
      <3>1. s' = s /\ fd' = F
        BY <1>1, <1>3, <1>4, <2>1 DEF file_seek
      <3> QED
        BY <1>4, <1>5, <2>1, <3>1
    <2>2. CASE ~(pos <= s.din[f].size)
      <3> DEFINE t == truncfile(s, f, pos)
                 v == t.v
      <3>1. t.ok /\ s' = Older(v) /\ fd' = F
        BY <1>1, <2>2 DEF file_seek
      <3>2. Truncated(s, v, f, pos)
        BY <1>2, <1>3, <3>1, TruncfileIs
      <3> HIDE DEF t, v
      <3>3. /\ Core(v) /\ Aside(s, v, f) /\ v.din[f].size = pos /\ OtherUnits(s, v, f)
            /\ SameIn(s, v, f) /\ v \in States
        BY <1>3, <1>4, <2>2, <3>2 DEF Truncated, Core, Whole
      <3>4. ASSUME NEW n \in Nat, n >= v.din[f].size PROVE Unit(v, f, n) = 0
        <4>1. n >= s.din[f].size
          BY <1>3, <1>4, <2>2, <3>3, <3>4
        <4> QED
          BY <3>3, <4>1 DEF SameIn, Padded
      <3>5. Padded(v) /\ Contents(v) = [C EXCEPT ![f] = Seen(v, f)]
        BY <1>2, <3>3, <3>4, OneChanges
      <3>6. ASSUME NEW i \in 1 .. pos
            PROVE  Unit(v, f, i - 1) = IF i <= Len(C[f]) THEN C[f][i] ELSE 0
        <4>1. PICK n \in Nat : n = i - 1
          OBVIOUS
        <4>2. Unit(v, f, n) = Unit(s, f, n)
          BY <3>3 DEF SameIn
        <4>3. CASE i <= s.din[f].size
          BY <1>4, <1>5, <4>1, <4>2, <4>3
        <4>4. CASE ~(i <= s.din[f].size)
          <5>1. n >= s.din[f].size
            BY <1>4, <4>1, <4>4
          <5>2. Unit(s, f, n) = 0
            BY <5>1 DEF Padded
          <5> QED
            BY <1>4, <1>5, <4>1, <4>2, <4>4, <5>2
        <4> QED
          BY <4>3, <4>4
      <3>7. Seen(v, f) = Store!Grown(C[f], pos)
        BY <3>3, <3>6 DEF Seen, Store!Grown
      <3>8. Alike(v, s')
        BY <3>1, <3>3, OlderAlike
      <3>9. PICK w : w = s'
        OBVIOUS
      <3>10. Padded(w) /\ Contents(w) = Contents(v)
        BY <3>5, <3>8, <3>9, AlikeSame
      <3>11. ~(pos <= Len(C[f]))
        BY <1>4, <1>5, <2>2
      <3> QED
        BY <3>1, <3>5, <3>7, <3>9, <3>10, <3>11
    <2> QED
      BY <2>1, <2>2
  <1>7. /\ Positions(fd') = [Positions(fd) EXCEPT ![h][2] = pos]
        /\ Positions(fd)[h][1] = f
    BY <1>1, <1>6, PositionMoved
  <1> HIDE DEF C, F
  <1>8. Store!Seek(h, pos)
    BY <1>6, <1>7, Views DEF Store!Seek, C
  <1> QED
    BY <1>6, <1>8

LEMMA ReadShows ==
    ASSUME IInv, IInv', Padded(s), NEW h \in Fd, NEW len \in 1 .. BLK, file_read(h, len)
    PROVE  Padded(s') /\ Store!Read(h, len)
  <1> DEFINE C == Contents(s)
             p == fd[h].pos
  <1>0. len \in Nat \ {0}
    BY Numbers
  <1>1. PICK f \in File : f = fd[h].ino
    BY DescriptorTyped DEF file_read, IsOpen
  <1>2. Good(s) /\ Core(s) /\ Calm(s) /\ Sized(s, f) /\ s \in States
    BY DEF IInv, Good, Core, Whole
  <1>3. PICK size \in Nat : size = s.din[f].size
    BY <1>2, SeenLen
  <1>4. p \in Nat /\ p <= size
    BY <1>1, <1>3, DescriptorTyped, Numbers
  <1>5. PICK write \in BOOLEAN : write = FALSE
    OBVIOUS
  <1>6. PICK end \in Nat : end = IF p + len < size THEN p + len ELSE size
    BY <1>0, <1>3, <1>4
  <1>7. Fetched(io(s, f, p, len, write), s, f, p, end)
    <2>1. Reading(write)
      BY <1>5 DEF Reading
    <2>2. p <= s.din[f].size
      BY <1>3, <1>4
    <2>3. Fetched(io(s, f, p, len, write), s, f, p, IF p + len < s.din[f].size THEN p + len ELSE s.din[f].size)
      BY <1>0, <1>2, <1>4, <2>1, <2>2, IoFetches
    <2> QED
      BY <1>3, <1>6, <2>3
  <1>8. PICK u : u = io(s, f, p, len, write)
    OBVIOUS
  <1>9. s' = Older(u.v) /\ fd' = [fd EXCEPT ![h].pos = @ + u.alen]
    BY <1>1, <1>5, <1>8, Zenon DEF file_read
  <1>10. u.v = s /\ u.alen = end - p
    BY <1>7, <1>8 DEF Fetched
  <1> HIDE DEF p
  <1>11. Alike(s, s')
    BY <1>2, <1>9, <1>10, OlderAlike
  <1>12. PICK z : z = s'
    OBVIOUS
  <1>13. Padded(z) /\ Contents(z) = C
    BY <1>11, <1>12, AlikeSame
  <1>14. PICK k \in 0 .. len : k = end - p
    BY <1>0, <1>4, <1>6
  <1>15. fd' = [fd EXCEPT ![h].pos = p + k]
    BY <1>9, <1>10, <1>14 DEF p
  <1>16. /\ Positions(fd') = [Positions(fd) EXCEPT ![h][2] = p + k]
         /\ Positions(fd)[h][1] = f /\ Positions(fd)[h][2] = p
    <2>1. PICK x : x = p + k
      OBVIOUS
    <2>2. fd' = [fd EXCEPT ![h].pos = x]
      BY <1>15, <2>1
    <2>3. /\ Positions(fd') = [Positions(fd) EXCEPT ![h][2] = x]
          /\ Positions(fd)[h][1] = fd[h].ino /\ Positions(fd)[h][2] = fd[h].pos
      BY <2>2, PositionMoved
    <2> QED
      BY <1>1, <2>1, <2>3 DEF p
  <1>17. PICK c : c = C[f]
    OBVIOUS
  <1>18. c = Seen(s, f) /\ Len(c) = size /\ c \in Seq(Int)
    BY <1>2, <1>3, <1>17, SeenLen DEF Contents
  <1>19. Store!Least(p + len, Len(c)) = end
    BY <1>6, <1>18 DEF Store!Least
  <1>20. k = Len(SubSeq(c, p + 1, end))
    <2>1. \A i \in p + 1 .. end : c[i] \in Int
      BY <1>3, <1>4, <1>6, <1>18
    <2>2. Len(SubSeq(c, p + 1, end)) = IF p + 1 <= end THEN end - (p + 1) + 1 ELSE 0
      BY <1>4, <2>1, SubSeqProperties
    <2> QED
      BY <1>4, <1>6, <1>14, <2>2
  <1> HIDE DEF C
  <1>21. Store!Read(h, len)
    <2>1. \E j \in 0 .. len :
            /\ Positions(fd') = [Positions(fd) EXCEPT ![h][2] = p + j]
            /\ j = Len(SubSeq(c, p + 1, end))
            /\ Contents(s') = Contents(s)
      BY <1>12, <1>13, <1>16, <1>20 DEF C
    <2>2. C[Positions(fd)[h][1]] = c
      BY <1>16, <1>17
    <2> QED
      BY <1>16, <1>19, <2>1, <2>2, Views DEF Store!Read, C
  <1> QED
    BY <1>12, <1>13, <1>21

LEMMA WriteShows ==
    ASSUME IInv, IInv', Padded(s), NEW h \in Fd, NEW len \in 1 .. BLK, file_write(h, len)
    PROVE  Padded(s') /\ \E n \in 0 .. BLK : Store!Write(h, n)
  <1> DEFINE C == Contents(s)
             p == fd[h].pos
  <1>0. len \in Nat \ {0} /\ len <= BLK /\ BLK \in Nat
    BY Numbers
  <1>1. PICK f \in File : f = fd[h].ino
    BY DescriptorTyped DEF file_write, IsOpen
  <1>2. Good(s) /\ Core(s) /\ Calm(s) /\ Sized(s, f) /\ s \in States
    BY DEF IInv, Good, Core, Whole
  <1>3. PICK size \in Nat : size = s.din[f].size
    BY <1>2, SeenLen
  <1>4. p \in Nat /\ p <= size
    BY <1>1, <1>3, DescriptorTyped, Numbers
  <1>5. PICK write \in BOOLEAN : write = TRUE
    OBVIOUS
  <1>6. PICK u : u = io(s, f, p, len, write)
    OBVIOUS
  <1>7. s' = Older(u.v) /\ fd' = [fd EXCEPT ![h].pos = @ + u.alen]
    BY <1>1, <1>5, <1>6, Zenon DEF file_write
  <1>8. Did(s, u, f, p) /\ DidWrite(u, s, f, p, len)
    <2>1. p <= s.din[f].size
      BY <1>3, <1>4
    <2>2. Did(s, u, f, p) /\ Effect(write, u, s, f, p, len)
      BY <1>0, <1>2, <1>4, <1>6, <2>1, IoDid
    <2>3. Writing(write)
      BY <1>5 DEF Writing
    <2> QED
      BY <2>2, <2>3 DEF Effect
  <1> HIDE DEF p
  <1>9. PICK v : v = u.v
    OBVIOUS
  <1>10. PICK k \in 0 .. len : k = u.alen
    <2>1. u.alen \in Nat /\ p + u.alen <= p + len
      BY <1>8 DEF Did, DidWrite, Carried
    <2> QED
      BY <1>0, <1>4, <2>1
  <1>11. PICK end \in Nat : end = IF p + k > size THEN p + k ELSE size
    BY <1>4
  <1>12. /\ Core(v) /\ Aside(s, v, f) /\ Wrote(s, v, f, p, p + k) /\ OtherUnits(s, v, f)
         /\ v.din[f].size = end /\ v \in States
    BY <1>3, <1>8, <1>9, <1>10, <1>11 DEF Did, DidWrite, Carried, Core, Whole
  <1>13. k \in Nat /\ end >= size /\ end >= p + k
    BY <1>4, <1>11
  <1>14. ASSUME NEW n \in Nat, n >= v.din[f].size PROVE Unit(v, f, n) = 0
    <2>1. n >= size /\ ~(n < p + k)
      BY <1>4, <1>12, <1>13, <1>14
    <2>2. Unit(s, f, n) = 0
      BY <1>3, <2>1 DEF Padded
    <2> QED
      BY <1>12, <2>1, <2>2 DEF Wrote
  <1>15. Padded(v) /\ Contents(v) = [C EXCEPT ![f] = Seen(v, f)]
    BY <1>2, <1>12, <1>14, OneChanges
  <1>16. Alike(v, s')
    BY <1>7, <1>9, <1>12, OlderAlike
  <1>17. PICK z : z = s'
    OBVIOUS
  <1>18. Padded(z) /\ Contents(z) = Contents(v)
    BY <1>15, <1>16, <1>17, AlikeSame
  <1>19. fd' = [fd EXCEPT ![h].pos = p + k]
    BY <1>7, <1>10 DEF p
  <1>20. /\ Positions(fd') = [Positions(fd) EXCEPT ![h][2] = p + k]
         /\ Positions(fd)[h][1] = f /\ Positions(fd)[h][2] = p
    <2>1. PICK x : x = p + k
      OBVIOUS
    <2>2. fd' = [fd EXCEPT ![h].pos = x]
      BY <1>19, <2>1
    <2>3. /\ Positions(fd') = [Positions(fd) EXCEPT ![h][2] = x]
          /\ Positions(fd)[h][1] = fd[h].ino /\ Positions(fd)[h][2] = fd[h].pos
      BY <2>2, PositionMoved
    <2> QED
      BY <1>1, <2>1, <2>3 DEF p
  <1>21. PICK c : c = C[f]
    OBVIOUS
  <1>22. /\ c = Seen(s, f) /\ Len(c) = size
         /\ \A i \in 1 .. size : c[i] = Unit(s, f, i - 1)
    BY <1>2, <1>3, <1>21, SeenLen DEF Contents
  <1> DEFINE whole == Store!Grown(c, end)
             new == [i \in DOMAIN whole |-> IF i \in p + 1 .. p + k THEN Byte(f, i - 1) ELSE whole[i]]
  <1>23. Seen(v, f) = new
    <2>1. DOMAIN whole = 1 .. end /\ \A i \in 1 .. end : whole[i] = IF i <= Len(c) THEN c[i] ELSE 0
      BY DEF Store!Grown
    <2> HIDE DEF whole
    <2>2. ASSUME NEW i \in 1 .. end
          PROVE  Unit(v, f, i - 1) = IF i \in p + 1 .. p + k THEN Byte(f, i - 1) ELSE whole[i]
      <3>1. PICK n \in Nat : n = i - 1
        OBVIOUS
      <3>2. Unit(v, f, n) = IF p <= n /\ n < p + k THEN Byte(f, n) ELSE Unit(s, f, n)
        BY <1>12 DEF Wrote
      <3>3. p <= n /\ n < p + k <=> i \in p + 1 .. p + k
        BY <1>4, <1>13, <3>1
      <3>4. whole[i] = Unit(s, f, n)
        <4>1. CASE i <= size
          BY <1>22, <2>1, <3>1, <4>1
        <4>2. CASE ~(i <= size)
          <5>1. n >= size
            BY <3>1, <4>2
          <5>2. Unit(s, f, n) = 0
            BY <1>3, <5>1 DEF Padded
          <5> QED
            BY <1>22, <2>1, <4>2, <5>2
        <4> QED
          BY <4>1, <4>2
      <3> QED
        BY <3>1, <3>2, <3>3, <3>4
    <2> QED
      BY <1>12, <2>1, <2>2 DEF Seen
  <1>24. Contents(s') = [C EXCEPT ![f] = new]
    BY <1>15, <1>17, <1>18, <1>23
  <1>25. end = IF p + k > Len(c) THEN p + k ELSE Len(c)
    BY <1>11, <1>22
  <1> HIDE DEF C
  <1>26. Store!Write(h, k)
    <2>1. C[Positions(fd)[h][1]] = c
      BY <1>20, <1>21
    <2> HIDE DEF new, whole
    <2>2. Contents(s') = [C EXCEPT ![Positions(fd)[h][1]] = new]
      BY <1>20, <1>24
    <2> QED
      BY <1>20, <1>21, <1>25, <2>1, <2>2, Views DEF Store!Write, C, new, whole
  <1>27. k \in 0 .. BLK
    BY <1>0, <1>13
  <1> QED
    BY <1>17, <1>18, <1>15, <1>26, <1>27

LEMMA InitShows == Init => CInv /\ Store!Init
  <1> SUFFICES ASSUME Init PROVE CInv /\ Store!Init
    OBVIOUS
  <1>1. IInv
    BY InitGood
  <1>2. ASSUME NEW f \in File PROVE s.din[f].size = 0 /\ s.din[f].blocks = 0
    <2>1. s.din[f] = Empty
      BY DEF Init
    <2> QED
      BY <2>1 DEF Empty
  <1>3. Padded(s)
    <2> SUFFICES ASSUME NEW f \in File, NEW n \in Nat PROVE Unit(s, f, n) = 0
      BY DEF Padded
    <2>1. ~(n \div BLK < 0)
      BY Numbers
    <2> QED
      BY <1>2, <2>1 DEF Unit
  <1>4. ASSUME NEW f \in File PROVE Content(f) = <<>>
    BY <1>2 DEF Content
  <1>5. content = [f \in File |-> <<>>]
    BY <1>4 DEF content
  <1>6. place = [h \in Fd |-> <<0, 0>>]
    BY DEF Init, Closed, place
  <1> QED
    BY <1>1, <1>3, <1>5, <1>6 DEF CInv, Store!Init

LEMMA PlaceOpen ==
    ASSUME IInv, NEW h \in Fd, IsOpen(h)
    PROVE  place[h][1] # 0
  <1>1. place[h][1] = fd[h].ino
    BY DEF place
  <1> QED
    BY <1>1 DEF IsOpen

LEMMA StepShows ==
    ASSUME ~STALE, ~OVERSEEK, CInv, IInv', [Next]_vars
    PROVE  CInv' /\ [Store!Next]_Store!vars
  <1>1. IInv /\ Padded(s) /\ BLK \in Nat \ {0}
    BY Numbers DEF CInv
  <1> SUFFICES Padded(s') /\ [Store!Next]_Store!vars
    BY DEF CInv, Padded
  <1>2. ASSUME NEW h \in Fd, NEW f \in File, NEW trunc \in BOOLEAN, NEW append \in BOOLEAN,
               file_open(h, f, trunc, append)
        PROVE  Padded(s') /\ Store!Next
    <2>1. Padded(s') /\ Store!Open(h, f)
      BY <1>1, <1>2, OpenShows
    <2> QED
      BY <2>1 DEF Store!Next
  <1>3. ASSUME NEW h \in Fd, file_close(h) PROVE Padded(s') /\ Store!Next
    <2>1. Padded(s') /\ Store!Close(h) /\ place[h][1] # 0
      BY <1>1, <1>3, CloseShows, PlaceOpen DEF file_close
    <2> QED
      BY <2>1 DEF Store!Next
  <1>4. ASSUME NEW h \in Fd, file_fsync(h) PROVE Padded(s') /\ UNCHANGED Store!vars
    BY <1>1, <1>4, FsyncShows
  <1>5. ASSUME NEW h \in Fd, NEW g \in Fd, file_dup(h, g) PROVE Padded(s') /\ Store!Next
    <2>1. Padded(s') /\ Store!Dup(h, g) /\ place[h][1] # 0
      BY <1>1, <1>5, DupShows, PlaceOpen DEF file_dup
    <2> QED
      BY <2>1 DEF Store!Next
  <1>6. ASSUME NEW h \in Fd, NEW pos \in 0 .. MAX_SIZE - 1, file_seek(h, pos) PROVE Padded(s') /\ Store!Next
    <2>1. Padded(s') /\ Store!Seek(h, pos) /\ place[h][1] # 0
      BY <1>1, <1>6, SeekShows, PlaceOpen DEF file_seek
    <2>2. pos \in 0 .. MAX_SIZE
      BY Numbers
    <2> QED
      BY <2>1, <2>2 DEF Store!Next
  <1>7. ASSUME NEW h \in Fd, NEW len \in 1 .. BLK, file_read(h, len) PROVE Padded(s') /\ Store!Next
    <2>1. Padded(s') /\ Store!Read(h, len) /\ place[h][1] # 0
      BY <1>1, <1>7, ReadShows, PlaceOpen DEF file_read
    <2>2. len \in 0 .. BLK
      BY <1>1
    <2> QED
      BY <2>1, <2>2 DEF Store!Next
  <1>8. ASSUME NEW h \in Fd, NEW len \in 1 .. BLK, file_write(h, len) PROVE Padded(s') /\ Store!Next
    <2>1. Padded(s') /\ (\E n \in 0 .. BLK : Store!Write(h, n)) /\ place[h][1] # 0
      BY <1>1, <1>8, WriteShows, PlaceOpen DEF file_write
    <2> QED
      BY <2>1 DEF Store!Next
  <1>9. CASE UNCHANGED vars
    <2>1. s' = s /\ fd' = fd
      BY <1>9 DEF vars
    <2>2. UNCHANGED Store!vars
      BY <1>1, <2>1, Views DEF Store!vars
    <2> QED
      BY <1>1, <2>1, <2>2
  <1> QED
    BY <1>2, <1>3, <1>4, <1>5, <1>6, <1>7, <1>8, <1>9 DEF Next

(* What files hold is told by the block map up to their end, and there are *)
(* zeros in their last block behind it: the second part of the inductive   *)
(* invariant, which sfs_truncfile and sfs_tryseek rely on when a file grows.*)
THEOREM ContentsInvariant == ~STALE /\ ~OVERSEEK => (Spec => []CInv)
  <1> SUFFICES ASSUME ~STALE, ~OVERSEEK PROVE Spec => []CInv
    OBVIOUS
  <1>1. CInv /\ [Next]_vars => CInv'
    <2> SUFFICES ASSUME CInv, [Next]_vars PROVE CInv'
      OBVIOUS
    <2>1. IInv'
      BY StepKeeps DEF CInv
    <2> QED
      BY <2>1, StepShows
  <1> QED
    BY <1>1, InitShows, PTL DEF Spec

(* Seen from the descriptors files are sequences of bytes: sfs_io_nolock   *)
(* writes where it should and nowhere else, a file grows with zeros, and   *)
(* nothing that is done to one file shows in another, through truncation,  *)
(* full disks and blocks that change owners.                               *)
THEOREM FilesAreSequences == ~STALE /\ ~OVERSEEK => (Spec => StoreSpec)
  <1> SUFFICES ASSUME ~STALE, ~OVERSEEK PROVE Spec => StoreSpec
    OBVIOUS
  <1>1. CInv /\ CInv' /\ [Next]_vars => [Store!Next]_Store!vars
    <2> SUFFICES ASSUME CInv, CInv', [Next]_vars PROVE [Store!Next]_Store!vars
      OBVIOUS
    <2>1. IInv'
      BY DEF CInv
    <2> QED
      BY <2>1, StepShows
  <1>2. Spec => []CInv
    BY ContentsInvariant
  <1>3. Init => Store!Init
    BY InitShows
  <1> QED
    BY <1>1, <1>2, <1>3, PTL DEF Spec, StoreSpec, Store!Spec

LEMMA FoundThere ==
    ASSUME IInv, NEW h \in Fd, NEW len \in 1 .. BLK, IsOpen(h), NEW write \in BOOLEAN, Reading(write)
    PROVE  LET c == Content(fd[h].ino)
               pos == fd[h].pos
           IN  io(s, fd[h].ino, pos, len, write).buf = SubSeq(c, pos + 1, Min({pos + len, Len(c)}))
  <1> DEFINE p == fd[h].pos
  <1>0. len \in Nat \ {0}
    BY Numbers
  <1>1. PICK f \in File : f = fd[h].ino
    BY DescriptorTyped DEF IsOpen
  <1>2. Good(s) /\ Core(s) /\ Calm(s) /\ Sized(s, f) /\ s \in States
    BY DEF IInv, Good, Core, Whole
  <1>3. PICK size \in Nat : size = s.din[f].size
    BY <1>2, SeenLen
  <1>4. p \in Nat /\ p <= size
    BY <1>1, <1>3, DescriptorTyped, Numbers
  <1>5. PICK c : c = Content(f)
    OBVIOUS
  <1>6. c = Seen(s, f)
    BY <1>2, <1>5, SeenIsMapped DEF Content, Mapped
  <1>7. /\ Len(c) = size /\ c \in Seq(Int)
        /\ \A i \in 1 .. size : c[i] = Unit(s, f, i - 1)
    BY <1>2, <1>3, <1>6, SeenLen
  <1>8. PICK end \in Nat : end = IF p + len < size THEN p + len ELSE size
    BY <1>0, <1>3, <1>4
  <1>9. Min({p + len, Len(c)}) = end
    <2> DEFINE B == {p + len, size}
    <2>1. CASE size = 0
      <3>1. Min(B) \in B /\ \A b \in B : Min(B) <= b
        <4>1. p = 0 /\ B = {len, 0}
          BY <1>0, <1>4, <2>1
        <4>2. 0 \in B /\ \A b \in B : 0 <= b
          BY <1>0, <4>1
        <4>3. \A a \in B : (\A b \in B : a <= b) => a = 0
          BY <1>0, <4>1
        <4> QED
          BY <4>2, <4>3 DEF Min
      <3> QED
        BY <1>0, <1>4, <1>7, <1>8, <3>1
    <2>2. CASE size # 0
      <3>1. PICK n \in Nat : n = p + len + size
        BY <1>0, <1>4
      <3>2. B \in SUBSET (1 .. n) /\ B # {}
        BY <1>0, <1>4, <2>2, <3>1
      <3>3. Min(B) \in B /\ \A b \in B : Min(B) <= b
        BY <3>2, MinExists
      <3> QED
        BY <1>0, <1>4, <1>7, <1>8, <3>3
    <2> QED
      BY <2>1, <2>2
  <1>10. PICK buf : buf = io(s, f, p, len, write).buf
    OBVIOUS
  <1>11. buf = [i \in 1 .. end - p |-> Unit(s, f, p + i - 1)]
    <2>1. p <= s.din[f].size
      BY <1>3, <1>4
    <2>2. Fetched(io(s, f, p, len, write), s, f, p, IF p + len < s.din[f].size THEN p + len ELSE s.din[f].size)
      BY <1>0, <1>2, <1>4, <2>1, IoFetches
    <2>3. Fetched(io(s, f, p, len, write), s, f, p, end)
      BY <1>3, <1>8, <2>2
    <2> QED
      BY <1>10, <2>3 DEF Fetched
  <1> HIDE DEF p
  <1>12. SubSeq(c, p + 1, end) = [i \in 1 .. (end - (p + 1) + 1) |-> c[i + (p + 1) - 1]]
    BY <1>4, <1>7, SMT
  <1>13. end - (p + 1) + 1 = end - p /\ end <= size
    BY <1>0, <1>4, <1>8
  <1>14. ASSUME NEW i \in 1 .. end - p PROVE c[i + (p + 1) - 1] = Unit(s, f, p + i - 1)
    <2>1. PICK j \in 1 .. size : j = i + (p + 1) - 1
      BY <1>4, <1>13
    <2>2. j - 1 = p + i - 1
      BY <1>4, <2>1
    <2> QED
      BY <1>7, <2>1, <2>2
  <1>15. buf = SubSeq(c, p + 1, end)
    BY <1>11, <1>12, <1>13, <1>14
  <1> QED
    BY <1>1, <1>5, <1>9, <1>10, <1>15 DEF p

(* A read hands over what is in the file at the position and stops at its  *)
(* end (sfs_io_nolock, sfs_bmap_load_nolock).                              *)
THEOREM ReadsWhatIsThere == ~STALE /\ ~OVERSEEK => (Spec => []ReadsBack)
  <1>1. ASSUME IInv PROVE ReadsBack
    <2> SUFFICES ASSUME NEW h \in Fd, NEW len \in 1 .. BLK, IsOpen(h)
                 PROVE  LET c == Content(fd[h].ino)
                            pos == fd[h].pos
                        IN  io(s, fd[h].ino, pos, len, FALSE).buf = SubSeq(c, pos + 1, Min({pos + len, Len(c)}))
      BY DEF ReadsBack
    <2>1. PICK write \in BOOLEAN : write = FALSE
      OBVIOUS
    <2>2. Reading(write)
      BY <2>1 DEF Reading
    <2> QED
      BY <1>1, <2>1, <2>2, FoundThere, Zenon
  <1>2. IInv => ReadsBack
    BY <1>1
  <1> QED
    BY <1>2, DiskInvariant, PTL
=============================================================================
