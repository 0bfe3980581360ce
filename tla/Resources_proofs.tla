---------------------------- MODULE Resources_proofs ----------------------------
(***************************************************************************)
(* For every number of processes, files and descriptors and every size of  *)
(* memory: the counts of the inodes agree with the tables of open files,   *)
(* whichever call fails, and at whichever page; every page is free,        *)
(* somebody's, or one that do_fork or drop_mm is known to lose; with       *)
(* programs laid out as the linker script does, nothing is lost of a       *)
(* process that runs or of a program that is turned down; and a process    *)
(* has its program in its memory.  The loops of Vm are taken apart turn by *)
(* turn (Turns), each with what has been done after i turns.               *)
(***************************************************************************)
EXTENDS Resources, TimerList_proofs, FunctionTheorems

Table == [Descriptor -> File \cup {NoFile}]
HeldBy(T, f) == {x \in Slot \X Descriptor : T[x[1]][x[2]] = f}

-----------------------------------------------------------------------------
(* Counting descriptors.                                                   *)
LEMMA DescriptorsAreFinite == IsFiniteSet(Descriptor) /\ IsFiniteSet(Slot \X Descriptor)
  <1>1. IsFiniteSet(Descriptor)
    <2>1. 0 \in Int /\ NENTRY - 1 \in Int
      BY FilesAssumption
    <2> QED
      BY <2>1, FS_Interval DEF Descriptor
  <1>2. IsFiniteSet(Slot)
    BY ResourcesAssumption
  <1> QED
    BY <1>1, <1>2, FS_Product

LEMMA RefsIsNat ==
    ASSUME NEW table, NEW D \in SUBSET Descriptor, NEW f
    PROVE  IsFiniteSet({d \in D : table[d] = f}) /\ refs(table, D, f) \in Nat
  <1>1. {d \in D : table[d] = f} \in SUBSET Descriptor
    OBVIOUS
  <1> QED
    BY <1>1, DescriptorsAreFinite, FS_Subset, FS_CardinalityType DEF refs

(* More descriptors refer to f in one table than in another: those in D.   *)
LEMMA RefsSplit ==
    ASSUME NEW less, NEW more, NEW D \in SUBSET Descriptor, NEW f,
           \A d \in Descriptor \ D : less[d] = more[d],
           \A d \in D : less[d] # f
    PROVE  refs(more, Descriptor, f) = refs(less, Descriptor, f) + refs(more, D, f)
  <1> DEFINE A == {d \in Descriptor : less[d] = f}
             B == {d \in D : more[d] = f}
  <1>1. {d \in Descriptor : more[d] = f} = A \cup B /\ A \cap B = {}
    OBVIOUS
  <1>2. IsFiniteSet(A) /\ IsFiniteSet(B)
    <2>1. A \in SUBSET Descriptor /\ B \in SUBSET Descriptor
      OBVIOUS
    <2> QED
      BY <2>1, DescriptorsAreFinite, FS_Subset
  <1>3. Cardinality(A) \in Nat /\ Cardinality(B) \in Nat
    BY <1>2, FS_CardinalityType
  <1>4. Cardinality(A \cup B) = Cardinality(A) + Cardinality(B) - Cardinality(A \cap B)
    BY <1>2, FS_Union
  <1>5. Cardinality(A \cap B) = 0
    BY <1>1, FS_EmptySet, Zenon
  <1>6. refs(more, Descriptor, f) = Cardinality(A \cup B)
    BY <1>1 DEF refs
  <1>7. refs(less, Descriptor, f) = Cardinality(A) /\ refs(more, D, f) = Cardinality(B)
    BY DEF refs
  <1> HIDE DEF A, B
  <1> QED
    BY <1>3, <1>4, <1>5, <1>6, <1>7

LEMMA NoTableRefersToNothing ==
    ASSUME NEW D \in SUBSET Descriptor, NEW f \in File PROVE refs(NoTable, D, f) = 0
  <1>1. {d \in D : NoTable[d] = f} = {}
    BY FilesAssumption DEF NoTable
  <1> QED
    BY <1>1, FS_EmptySet DEF refs

(* What p's table refers to, as pairs of process and descriptor.           *)
LEMMA MineIsRefs ==
    ASSUME NEW T, NEW p \in Slot, NEW f
    PROVE  LET mine == {x \in HeldBy(T, f) : x[1] = p}
           IN  IsFiniteSet(mine) /\ Cardinality(mine) = refs(T[p], Descriptor, f)
  <1> DEFINE ds == {d \in Descriptor : T[p][d] = f}
             mine == {x \in HeldBy(T, f) : x[1] = p}
             pair == [d \in ds |-> <<p, d>>]
  <1>1. IsFiniteSet(ds)
    <2>1. ds \in SUBSET Descriptor
      OBVIOUS
    <2> QED
      BY <2>1, DescriptorsAreFinite, FS_Subset
  <1>2. pair \in [ds -> mine]
    BY DEF HeldBy
  <1>3. \A d, e \in ds : pair[d] = pair[e] => d = e
    OBVIOUS
  <1>4. \A x \in mine : x[2] \in ds /\ pair[x[2]] = x
    BY DEF HeldBy
  <1>5. pair \in Bijection(ds, mine)
    BY <1>2, <1>3, <1>4 DEF Bijection, Injection, Surjection, IsInjective
  <1>6. ExistsBijection(ds, mine)
    BY <1>5 DEF ExistsBijection
  <1> QED
    BY <1>1, <1>6, FS_Bijection DEF refs

(* Only p's table changes.                                                 *)
Change(T, U, r1, r2, f) ==
    /\ Cardinality(HeldBy(T, f)) \in Nat /\ Cardinality(HeldBy(U, f)) \in Nat
    /\ Cardinality(HeldBy(U, f)) + r1 = Cardinality(HeldBy(T, f)) + r2

LEMMA OneTableChanges ==
    ASSUME NEW T, NEW U, NEW p \in Slot, NEW f, \A q \in Slot \ {p} : T[q] = U[q]
    PROVE  Change(T, U, refs(T[p], Descriptor, f), refs(U[p], Descriptor, f), f)
  <1> DEFINE Mine(V) == {x \in HeldBy(V, f) : x[1] = p}
             others == {x \in HeldBy(T, f) : x[1] # p}
  <1>1. HeldBy(T, f) = others \cup Mine(T) /\ others \cap Mine(T) = {}
    OBVIOUS
  <1>2. HeldBy(U, f) = others \cup Mine(U) /\ others \cap Mine(U) = {}
    BY DEF HeldBy
  <1>3. IsFiniteSet(others) /\ Cardinality(others) \in Nat
    <2>1. others \in SUBSET (Slot \X Descriptor)
      BY DEF HeldBy
    <2> QED
      BY <2>1, DescriptorsAreFinite, FS_Subset, FS_CardinalityType
  <1>4. /\ IsFiniteSet(Mine(T)) /\ Cardinality(Mine(T)) = refs(T[p], Descriptor, f)
        /\ IsFiniteSet(Mine(U)) /\ Cardinality(Mine(U)) = refs(U[p], Descriptor, f)
    BY MineIsRefs
  <1>5. refs(T[p], Descriptor, f) \in Nat /\ refs(U[p], Descriptor, f) \in Nat
    BY RefsIsNat
  <1>6. /\ Cardinality(others \cup Mine(T))
             = Cardinality(others) + Cardinality(Mine(T)) - Cardinality(others \cap Mine(T))
        /\ Cardinality(others \cup Mine(U))
             = Cardinality(others) + Cardinality(Mine(U)) - Cardinality(others \cap Mine(U))
    BY <1>3, <1>4, FS_Union
  <1>7. Cardinality(others \cap Mine(T)) = 0 /\ Cardinality(others \cap Mine(U)) = 0
    BY <1>1, <1>2, FS_EmptySet, Zenon
  <1>8. /\ Cardinality(HeldBy(T, f)) = Cardinality(others \cup Mine(T))
        /\ Cardinality(HeldBy(U, f)) = Cardinality(others \cup Mine(U))
    BY <1>1, <1>2
  <1> HIDE DEF Mine, others
  <1> QED
    BY <1>3, <1>4, <1>5, <1>6, <1>7, <1>8 DEF Change

-----------------------------------------------------------------------------
LEMMA NoTableIsTable == NoTable \in Table
  BY DEF NoTable, Table

Entry(state, mm, table, exe) ==
    [state |-> state, mm |-> mm, filesp |-> table, exe |-> exe]
IsEntry(e) == \E state, mm, exe : \E table \in Table : e = Entry(state, mm, table, exe)

LEMMA EntryHasTable ==
    ASSUME NEW state, NEW mm, NEW exe, NEW table \in Table
    PROVE  IsEntry(Entry(state, mm, table, exe)) /\ Entry(state, mm, table, exe).filesp = table
  <1>1. IsEntry(Entry(state, mm, table, exe))
    BY DEF IsEntry
  <1>2. Entry(state, mm, table, exe).filesp = table
    BY DEF Entry
  <1> QED
    BY <1>1, <1>2

(* Every process has a table, every inode two counts.                      *)
Shape ==
    /\ proc = [p \in Slot |-> proc[p]]
    /\ \A p \in Slot : IsEntry(proc[p])
    /\ node \in [File -> [ref : Int, open : Int]]
    /\ lost \in [File -> Nat]

IInv == Shape /\ FilesCounted

Tables == [p \in Slot |-> proc[p].filesp]

LEMMA ClosedIsTable ==
    ASSUME NEW table \in Table, NEW D PROVE closed(table, D) \in Table
  BY DEF closed, Table

LEMMA FilledIsTable ==
    ASSUME NEW table \in Table, NEW d \in Descriptor, NEW f \in File \cup {NoFile}
    PROVE  /\ [table EXCEPT ![d] = f] \in Table
           /\ [table EXCEPT ![d] = f][d] = f
           /\ \A e \in Descriptor \ {d} : [table EXCEPT ![d] = f][e] = table[e]
  BY DEF Table

LEMMA CountsMove ==
    ASSUME NEW table, NEW D \in SUBSET Descriptor, NEW n \in [File -> [ref : Int, open : Int]]
    PROVE  /\ inc(n, table, D) \in [File -> [ref : Int, open : Int]]
           /\ dec(n, table, D) \in [File -> [ref : Int, open : Int]]
           /\ \A f \in File :
                /\ refs(table, D, f) \in Nat
                /\ inc(n, table, D)[f].ref = n[f].ref + refs(table, D, f)
                /\ inc(n, table, D)[f].open = n[f].open + refs(table, D, f)
                /\ dec(n, table, D)[f].ref = n[f].ref - refs(table, D, f)
                /\ dec(n, table, D)[f].open = n[f].open - refs(table, D, f)
  <1>1. \A f \in File : refs(table, D, f) \in Nat
    BY RefsIsNat
  <1>2. \A f \in File : n[f].ref \in Int /\ n[f].open \in Int
    OBVIOUS
  <1> QED
    BY <1>1, <1>2 DEF inc, dec

Raised(m, n, r, f) ==
    r \in Nat /\ m[f].ref = n[f].ref + r /\ m[f].open = n[f].open + r
Lowered(m, n, r, f) ==
    r \in Nat /\ m[f].ref = n[f].ref - r /\ m[f].open = n[f].open - r

LEMMA CountsMoveBy ==
    ASSUME NEW table, NEW D \in SUBSET Descriptor, NEW f \in File,
           NEW n \in [File -> [ref : Int, open : Int]]
    PROVE  /\ Raised(inc(n, table, D), n, refs(table, D, f), f)
           /\ Lowered(dec(n, table, D), n, refs(table, D, f), f)
  BY CountsMove DEF Raised, Lowered

LEMMA UsersAreHeld == \A f : users(f) = HeldBy(Tables, f)
  BY DEF users, HeldBy, Tables

LEMMA UsersAreHeldNext == \A f : users(f)' = HeldBy(Tables', f)
  BY DEF users, HeldBy, Tables

LEMMA Balance ==
    ASSUME NEW u1 \in Nat, NEW u2 \in Nat, NEW r1 \in Nat, NEW r2 \in Nat,
           NEW ref1 \in Int, NEW open1 \in Int, NEW missing \in Nat,
           NEW gone \in Nat, NEW come \in Nat, NEW ref2, NEW open2,
           u2 + r1 = u1 + r2, r2 + gone = r1 + come,
           u1 <= open1, open1 <= ref1, ref1 = u1 + missing,
           ref2 = ref1 - gone + come, open2 = open1 - gone + come
    PROVE  u2 <= open2 /\ open2 <= ref2 /\ ref2 = u2 + missing
  OBVIOUS

(* One table changes, and the counts by as much.                           *)
LEMMA CountsFollow ==
    ASSUME Shape, FilesCounted, NEW p \in Slot, lost' = lost,
           \A q \in Slot \ {p} : proc'[q] = proc[q],
           \A f \in File : \E gone, come \in Nat :
             /\ refs(proc'[p].filesp, Descriptor, f) + gone
                  = refs(proc[p].filesp, Descriptor, f) + come
             /\ node'[f].ref = node[f].ref - gone + come
             /\ node'[f].open = node[f].open - gone + come
    PROVE  FilesCounted'
  <1> SUFFICES ASSUME NEW f \in File
               PROVE  /\ Cardinality(HeldBy(Tables', f)) <= node'[f].open
                      /\ node'[f].open <= node'[f].ref
                      /\ node'[f].ref = Cardinality(HeldBy(Tables', f)) + lost'[f]
    BY UsersAreHeldNext DEF FilesCounted
  <1>1. \A q \in Slot \ {p} : Tables[q] = Tables'[q]
    BY DEF Tables
  <1>2. Tables[p] = proc[p].filesp /\ Tables'[p] = proc'[p].filesp
    BY DEF Tables
  <1>3. Change(Tables, Tables', refs(proc[p].filesp, Descriptor, f),
               refs(proc'[p].filesp, Descriptor, f), f)
    BY <1>1, <1>2, OneTableChanges
  <1>4. /\ refs(proc[p].filesp, Descriptor, f) \in Nat
        /\ refs(proc'[p].filesp, Descriptor, f) \in Nat
    BY RefsIsNat
  <1>5. /\ Cardinality(HeldBy(Tables, f)) <= node[f].open
        /\ node[f].open <= node[f].ref
        /\ node[f].ref = Cardinality(HeldBy(Tables, f)) + lost[f]
    BY UsersAreHeld DEF FilesCounted
  <1>6. node[f].ref \in Int /\ node[f].open \in Int /\ lost[f] \in Nat
    BY DEF Shape
  <1>7. PICK gone, come \in Nat :
          /\ refs(proc'[p].filesp, Descriptor, f) + gone
               = refs(proc[p].filesp, Descriptor, f) + come
          /\ node'[f].ref = node[f].ref - gone + come
          /\ node'[f].open = node[f].open - gone + come
    OBVIOUS
  <1> QED
    BY <1>3, <1>4, <1>5, <1>6, <1>7, Balance DEF Change

(* A process gets a record with a table, the others keep theirs.           *)
LEMMA ShapeFollows ==
    ASSUME Shape, NEW p \in Slot, NEW entry, IsEntry(entry),
           proc' = [proc EXCEPT ![p] = entry],
           node' \in [File -> [ref : Int, open : Int]], lost' \in [File -> Nat]
    PROVE  /\ Shape'
           /\ proc'[p] = entry
           /\ \A q \in Slot \ {p} : proc'[q] = proc[q]
  <1>1. proc' = [q \in Slot |-> IF q = p THEN entry ELSE proc[q]]
    BY DEF Shape
  <1>2. \A q \in Slot : IsEntry(proc'[q])
    BY <1>1 DEF Shape
  <1>3. proc' = [q \in Slot |-> proc'[q]]
    BY <1>1
  <1> QED
    BY <1>1, <1>2, <1>3 DEF Shape

LEMMA HasTable ==
    ASSUME Shape, NEW p \in Slot
    PROVE  /\ proc[p].filesp \in Table
           /\ \E state, mm, exe : proc[p] = Entry(state, mm, proc[p].filesp, exe)
  <1>1. PICK state, mm, exe : \E table \in Table : proc[p] = Entry(state, mm, table, exe)
    BY DEF Shape, IsEntry
  <1>2. PICK table \in Table : proc[p] = Entry(state, mm, table, exe)
    BY <1>1
  <1>3. proc[p].filesp = table
    BY <1>2, EntryHasTable
  <1> QED
    BY <1>2, <1>3

(* Processes without tables: at the beginning and once the machine stops.  *)
LEMMA NobodyHasFiles ==
    ASSUME NEW f \in File, \A q \in Slot : proc[q].filesp = NoTable
    PROVE  Cardinality(users(f)) = 0
  <1>1. users(f) = {}
    BY FilesAssumption DEF users, NoTable
  <1> QED
    BY <1>1, FS_EmptySet, Zenon

LEMMA Initially == Init => IInv
  <1> SUFFICES ASSUME Init PROVE IInv
    OBVIOUS
  <1>1. ASSUME NEW q \in Slot PROVE IsEntry(proc[q]) /\ proc[q].filesp = NoTable
    <2>1. \/ proc[q] = Entry("run", NoMm, NoTable, NULL)
          \/ proc[q] = Entry("none", NoMm, NoTable, NULL)
      BY DEF Init, Process, NoProc, Entry
    <2> QED
      BY <2>1, NoTableIsTable, EntryHasTable
  <1>2. proc = [p \in Slot |-> proc[p]]
    BY DEF Init
  <1>3. node \in [File -> [ref : Int, open : Int]] /\ lost \in [File -> Nat]
    BY DEF Init, Unused
  <1>4. Shape
    BY <1>1, <1>2, <1>3 DEF Shape
  <1>5. \A f \in File : node[f].ref = 0 /\ node[f].open = 0 /\ lost[f] = 0
    BY DEF Init, Unused
  <1>6. \A f \in File : Cardinality(users(f)) = 0
    BY <1>1, NobodyHasFiles
  <1>7. FilesCounted
    BY <1>5, <1>6 DEF FilesCounted
  <1> QED
    BY <1>4, <1>7 DEF IInv

LEMMA StutterKeeps ==
    ASSUME IInv, UNCHANGED <<proc, node, lost>> PROVE IInv'
  BY DEF IInv, Shape, FilesCounted, users

(* One process gets a new entry, and the references gone and come are       *)
(* those of the descriptors in its table that changed.                     *)
LEMMA EntryKeeps ==
    ASSUME IInv, NEW p \in Slot, NEW entry, IsEntry(entry),
           proc' = [proc EXCEPT ![p] = entry],
           node' \in [File -> [ref : Int, open : Int]], lost' = lost,
           \A f \in File : \E gone, come \in Nat :
             /\ refs(entry.filesp, Descriptor, f) + gone
                  = refs(proc[p].filesp, Descriptor, f) + come
             /\ node'[f].ref = node[f].ref - gone + come
             /\ node'[f].open = node[f].open - gone + come
    PROVE  IInv'
  <1>1. Shape /\ FilesCounted /\ lost' \in [File -> Nat]
    BY DEF IInv, Shape
  <1>2. Shape' /\ proc'[p] = entry /\ \A q \in Slot \ {p} : proc'[q] = proc[q]
    BY <1>1, ShapeFollows
  <1>3. FilesCounted'
    BY <1>1, <1>2, CountsFollow
  <1> QED
    BY <1>2, <1>3 DEF IInv

-----------------------------------------------------------------------------
(* One lemma for every operation.                                          *)
LEMMA HaltKeeps ==
    ASSUME IInv, halts PROVE IInv'
  <1>1. proc' = [p \in Slot |-> NoProc] /\ node' = Unused /\ lost' = [f \in File |-> 0]
    BY DEF halts
  <1>2. ASSUME NEW q \in Slot PROVE IsEntry(proc'[q]) /\ proc'[q].filesp = NoTable
    <2>1. proc'[q] = Entry("none", NoMm, NoTable, NULL)
      BY <1>1 DEF NoProc, Entry
    <2> QED
      BY <2>1, NoTableIsTable, EntryHasTable
  <1>3. node' \in [File -> [ref : Int, open : Int]] /\ lost' \in [File -> Nat]
    BY <1>1 DEF Unused
  <1>4. proc' = [p \in Slot |-> proc'[p]]
    BY <1>1
  <1>5. Shape'
    BY <1>2, <1>3, <1>4 DEF Shape
  <1>6. ASSUME NEW f \in File PROVE Cardinality(users(f)') = 0
    <2>1. users(f)' = {}
      BY <1>2, FilesAssumption DEF users, NoTable
    <2> QED
      BY <2>1, FS_EmptySet, Zenon
  <1>7. \A f \in File : node'[f].ref = 0 /\ node'[f].open = 0 /\ lost'[f] = 0
    BY <1>1 DEF Unused
  <1>8. FilesCounted'
    BY <1>6, <1>7 DEF FilesCounted
  <1> QED
    BY <1>5, <1>8 DEF IInv

LEMMA CloseCounts ==
    ASSUME NEW table \in Table, NEW D \in SUBSET Descriptor
    PROVE  /\ closed(table, D) \in Table
           /\ \A f \in File : refs(table, Descriptor, f)
                                = refs(closed(table, D), Descriptor, f) + refs(table, D, f)
  <1>1. /\ \A d \in Descriptor \ D : closed(table, D)[d] = table[d]
        /\ \A d \in D : closed(table, D)[d] = NoFile
    BY DEF closed
  <1>2. ASSUME NEW f \in File
        PROVE  refs(table, Descriptor, f)
                 = refs(closed(table, D), Descriptor, f) + refs(table, D, f)
    BY <1>1, RefsSplit, FilesAssumption
  <1> QED
    BY <1>2, ClosedIsTable

LEMMA FillCounts ==
    ASSUME NEW table \in Table, NEW d \in FreeOnes(table), NEW g \in File
    PROVE  /\ [table EXCEPT ![d] = g] \in Table
           /\ \A f \in File :
                refs([table EXCEPT ![d] = g], Descriptor, f)
                  = refs(table, Descriptor, f) + refs([table EXCEPT ![d] = g], {d}, f)
  <1> DEFINE filled == [table EXCEPT ![d] = g]
  <1>1. d \in Descriptor /\ table[d] = NoFile
    BY DEF FreeOnes, Opened
  <1>2. filled \in Table /\ \A e \in Descriptor \ {d} : table[e] = filled[e]
    BY <1>1, FilledIsTable
  <1> HIDE DEF filled
  <1>3. ASSUME NEW f \in File
        PROVE  refs(filled, Descriptor, f) = refs(table, Descriptor, f) + refs(filled, {d}, f)
    <2>1. \A e \in {d} : table[e] # f
      BY <1>1, FilesAssumption
    <2>2. {d} \in SUBSET Descriptor
      BY <1>1
    <2> QED
      BY <1>2, <2>1, <2>2, RefsSplit
  <1> QED
    BY <1>2, <1>3 DEF filled

LEMMA ForkChildKeeps ==
    ASSUME IInv, NEW p \in Slot, NEW c \in Slot, NEW w, proc[c] = NoProc, do_fork_child(p, c, w)
    PROVE  IInv'
  <1> DEFINE table == proc[p].filesp
             entry == Entry("run", w.mm, table, proc[p].exe)
  <1>1. Descriptor \in SUBSET Descriptor /\ node \in [File -> [ref : Int, open : Int]]
    BY DEF IInv, Shape
  <1>2. IsEntry(entry) /\ entry.filesp = table
    BY HasTable, EntryHasTable DEF IInv
  <1>3. proc' = [proc EXCEPT ![c] = entry]
    BY DEF do_fork_child, Process, Entry
  <1>4. node' = inc(node, table, Descriptor) /\ lost' = lost
    BY DEF do_fork_child
  <1> HIDE DEF table, entry
  <1>5. /\ node' \in [File -> [ref : Int, open : Int]]
        /\ \A f \in File : /\ refs(table, Descriptor, f) \in Nat
                           /\ node'[f].ref = node[f].ref + refs(table, Descriptor, f)
                           /\ node'[f].open = node[f].open + refs(table, Descriptor, f)
    BY <1>1, <1>4, CountsMove
  <1>6. \A f \in File : refs(proc[c].filesp, Descriptor, f) = 0
    BY <1>1, NoTableRefersToNothing DEF NoProc
  <1>7. ASSUME NEW f \in File
        PROVE  \E gone, come \in Nat :
                 /\ refs(entry.filesp, Descriptor, f) + gone
                      = refs(proc[c].filesp, Descriptor, f) + come
                 /\ node'[f].ref = node[f].ref - gone + come
                 /\ node'[f].open = node[f].open - gone + come
    <2>1. node[f].ref \in Int /\ node[f].open \in Int
      BY <1>1
    <2> refs(table, Descriptor, f) \in Nat
      BY <1>5
    <2> WITNESS 0 \in Nat, refs(table, Descriptor, f) \in Nat
    <2> QED
      BY <1>2, <1>5, <1>6, <2>1
  <1> QED
    BY <1>2, <1>3, <1>4, <1>5, <1>7, EntryKeeps

(* do_exit, or do_execve without a program: all files are given up.        *)
LEMMA DropKeeps ==
    ASSUME IInv, NEW p \in Slot,
           proc' = [proc EXCEPT ![p] = Zombie(NoTable)],
           node' = dec(node, proc[p].filesp, Descriptor), lost' = lost
    PROVE  IInv'
  <1> DEFINE table == proc[p].filesp
  <1>1. Descriptor \in SUBSET Descriptor /\ node \in [File -> [ref : Int, open : Int]]
    BY DEF IInv, Shape
  <1>2. IsEntry(Zombie(NoTable)) /\ Zombie(NoTable).filesp = NoTable
    <2>1. Zombie(NoTable) = Entry("zombie", NoMm, NoTable, NULL)
      BY DEF Zombie, NoProc, Entry
    <2> QED
      BY <2>1, NoTableIsTable, EntryHasTable
  <1> HIDE DEF table
  <1>3. /\ node' \in [File -> [ref : Int, open : Int]]
        /\ \A f \in File : /\ refs(table, Descriptor, f) \in Nat
                           /\ node'[f].ref = node[f].ref - refs(table, Descriptor, f)
                           /\ node'[f].open = node[f].open - refs(table, Descriptor, f)
    BY <1>1, CountsMove DEF table
  <1>4. ASSUME NEW f \in File
        PROVE  \E gone, come \in Nat :
                 /\ refs(Zombie(NoTable).filesp, Descriptor, f) + gone
                      = refs(proc[p].filesp, Descriptor, f) + come
                 /\ node'[f].ref = node[f].ref - gone + come
                 /\ node'[f].open = node[f].open - gone + come
    <2>1. node[f].ref \in Int /\ node[f].open \in Int
      BY <1>1
    <2>2. refs(NoTable, Descriptor, f) = 0
      BY <1>1, NoTableRefersToNothing
    <2> refs(table, Descriptor, f) \in Nat
      BY <1>3
    <2> WITNESS refs(table, Descriptor, f) \in Nat, 0 \in Nat
    <2> QED
      BY <1>2, <1>3, <2>1, <2>2 DEF table
  <1> QED
    BY <1>2, <1>3, <1>4, EntryKeeps

LEMMA ExitKeeps ==
    ASSUME IInv, NEW p \in Slot, do_exit(p) PROVE IInv'
  <1>1. CASE proc[p].mm # NoMm
    BY <1>1, DropKeeps DEF do_exit
  <1>2. CASE proc[p].mm = NoMm
    <2> DEFINE table == proc[p].filesp
    <2>1. node \in [File -> [ref : Int, open : Int]]
      BY DEF IInv, Shape
    <2>2. IsEntry(Zombie(table)) /\ Zombie(table).filesp = table
      <3>1. Zombie(table) = Entry("zombie", NoMm, table, NULL)
        BY DEF Zombie, Entry
      <3> QED
        BY <3>1, HasTable, EntryHasTable DEF IInv
    <2>3. proc' = [proc EXCEPT ![p] = Zombie(table)] /\ node' = node /\ lost' = lost
      BY <1>2 DEF do_exit
    <2>4. ASSUME NEW f \in File
          PROVE  \E gone, come \in Nat :
                   /\ refs(Zombie(table).filesp, Descriptor, f) + gone
                        = refs(proc[p].filesp, Descriptor, f) + come
                   /\ node'[f].ref = node[f].ref - gone + come
                   /\ node'[f].open = node[f].open - gone + come
      <3>1. node[f].ref \in Int /\ node[f].open \in Int
        BY <2>1
      <3>2. refs(table, Descriptor, f) \in Nat
        <4>1. Descriptor \in SUBSET Descriptor
          OBVIOUS
        <4> QED
          BY <4>1, RefsIsNat
      <3> WITNESS 0 \in Nat, 0 \in Nat
      <3> QED
        BY <2>2, <2>3, <3>1, <3>2
    <2> HIDE DEF table
    <2> QED
      BY <2>1, <2>2, <2>3, <2>4, EntryKeeps
  <1> QED
    BY <1>1, <1>2

(* do_wait: what a table that was left behind refers to is lost.           *)
LEMMA WaitKeeps ==
    ASSUME IInv, NEW p \in Slot, do_wait(p) PROVE IInv'
  <1>1. Shape /\ FilesCounted /\ lost \in [File -> Nat] /\ node \in [File -> [ref : Int, open : Int]]
    BY DEF IInv, Shape
  <1>2. Descriptor \in SUBSET Descriptor
    OBVIOUS
  <1>3. \A f \in File : refs(proc[p].filesp, Descriptor, f) \in Nat
    BY <1>2, RefsIsNat
  <1>4. lost' = [f \in File |-> lost[f] + refs(proc[p].filesp, Descriptor, f)] /\ node' = node
    BY DEF do_wait
  <1>5. lost' \in [File -> Nat]
    BY <1>1, <1>3, <1>4
  <1>6. IsEntry(NoProc) /\ NoProc.filesp = NoTable
    <2>1. NoProc = Entry("none", NoMm, NoTable, NULL)
      BY DEF NoProc, Entry
    <2> QED
      BY <2>1, NoTableIsTable, EntryHasTable
  <1>7. proc' = [proc EXCEPT ![p] = NoProc]
    BY DEF do_wait
  <1>8. Shape' /\ proc'[p] = NoProc /\ \A q \in Slot \ {p} : proc'[q] = proc[q]
    BY <1>1, <1>4, <1>5, <1>6, <1>7, ShapeFollows
  <1>9. ASSUME NEW f \in File
        PROVE  /\ Cardinality(users(f)') <= node'[f].open
               /\ node'[f].open <= node'[f].ref
               /\ node'[f].ref = Cardinality(users(f)') + lost'[f]
    <2>1. /\ \A q \in Slot \ {p} : Tables[q] = Tables'[q]
          /\ Tables[p] = proc[p].filesp /\ Tables'[p] = NoTable
      BY <1>6, <1>8 DEF Tables
    <2>2. Change(Tables, Tables', refs(proc[p].filesp, Descriptor, f),
                 refs(NoTable, Descriptor, f), f)
      BY <2>1, OneTableChanges
    <2>3. refs(NoTable, Descriptor, f) = 0
      BY <1>2, NoTableRefersToNothing
    <2>4. /\ Cardinality(HeldBy(Tables, f)) <= node[f].open
          /\ node[f].open <= node[f].ref
          /\ node[f].ref = Cardinality(HeldBy(Tables, f)) + lost[f]
      BY <1>1, UsersAreHeld DEF FilesCounted
    <2>5. /\ lost'[f] = lost[f] + refs(proc[p].filesp, Descriptor, f)
          /\ refs(proc[p].filesp, Descriptor, f) \in Nat
          /\ lost[f] \in Nat /\ node[f].ref \in Int /\ node[f].open \in Int /\ node'[f] = node[f]
      BY <1>1, <1>3, <1>4
    <2> QED
      BY <2>2, <2>3, <2>4, <2>5, UsersAreHeldNext DEF Change
  <1>10. FilesCounted'
    BY <1>9 DEF FilesCounted
  <1> QED
    BY <1>8, <1>10 DEF IInv

-----------------------------------------------------------------------------
(* The calls that change one table of a process that goes on.              *)
LEMMA Refile ==
    ASSUME Shape, NEW p \in Slot, NEW table \in Table, proc' = [proc EXCEPT ![p].filesp = table]
    PROVE  \E entry : /\ IsEntry(entry) /\ entry.filesp = table
                      /\ proc' = [proc EXCEPT ![p] = entry]
  <1>1. PICK state, mm, exe : proc[p] = Entry(state, mm, proc[p].filesp, exe)
    BY HasTable
  <1> DEFINE entry == Entry(state, mm, table, exe)
  <1>2. IsEntry(entry) /\ entry.filesp = table
    BY EntryHasTable
  <1>3. [proc[p] EXCEPT !.filesp = table] = entry
    BY <1>1 DEF Entry
  <1>4. proc' = [proc EXCEPT ![p] = entry]
    BY <1>3 DEF Shape
  <1> QED
    BY <1>2, <1>4

(* The descriptors in D are new, or are gone.                              *)
LEMMA NewTableKeeps ==
    ASSUME IInv, NEW p \in Slot, NEW table \in Table, NEW D \in SUBSET Descriptor,
           proc' = [proc EXCEPT ![p].filesp = table], lost' = lost,
           \/ /\ node' = inc(node, table, D)
              /\ \A f \in File : refs(table, Descriptor, f)
                                   = refs(proc[p].filesp, Descriptor, f) + refs(table, D, f)
           \/ /\ node' = dec(node, proc[p].filesp, D)
              /\ \A f \in File : refs(proc[p].filesp, Descriptor, f)
                                   = refs(table, Descriptor, f) + refs(proc[p].filesp, D, f)
    PROVE  IInv'
  <1>1. Shape /\ node \in [File -> [ref : Int, open : Int]] /\ Descriptor \in SUBSET Descriptor
    BY DEF IInv, Shape
  <1>2. PICK entry : IsEntry(entry) /\ entry.filesp = table /\ proc' = [proc EXCEPT ![p] = entry]
    BY <1>1, Refile
  <1> DEFINE old == proc[p].filesp
  <1>3. \A f \in File : /\ refs(table, D, f) \in Nat /\ refs(old, D, f) \in Nat
                        /\ refs(table, Descriptor, f) \in Nat /\ refs(old, Descriptor, f) \in Nat
                        /\ node[f].ref \in Int /\ node[f].open \in Int
    BY <1>1, RefsIsNat
  <1>4. node' \in [File -> [ref : Int, open : Int]]
    <2>1. CASE node' = inc(node, table, D)
      BY <1>1, <2>1, CountsMove
    <2>2. CASE node' = dec(node, old, D)
      BY <1>1, <2>2, CountsMove
    <2> QED
      BY <2>1, <2>2
  <1>5. ASSUME NEW f \in File
        PROVE  \E gone, come \in Nat :
                 /\ refs(entry.filesp, Descriptor, f) + gone = refs(old, Descriptor, f) + come
                 /\ node'[f].ref = node[f].ref - gone + come
                 /\ node'[f].open = node[f].open - gone + come
    <2>1. CASE /\ node' = inc(node, table, D)
               /\ refs(table, Descriptor, f) = refs(old, Descriptor, f) + refs(table, D, f)
      <3>1. /\ node'[f].ref = node[f].ref + refs(table, D, f)
            /\ node'[f].open = node[f].open + refs(table, D, f)
        BY <1>1, <2>1, CountsMove
      <3> refs(table, D, f) \in Nat
        BY <1>3
      <3> WITNESS 0 \in Nat, refs(table, D, f) \in Nat
      <3> HIDE DEF old
      <3> QED
        BY <1>2, <1>3, <2>1, <3>1
    <2>2. CASE /\ node' = dec(node, old, D)
               /\ refs(old, Descriptor, f) = refs(table, Descriptor, f) + refs(old, D, f)
      <3>1. /\ node'[f].ref = node[f].ref - refs(old, D, f)
            /\ node'[f].open = node[f].open - refs(old, D, f)
        BY <1>1, <2>2, CountsMove
      <3> refs(old, D, f) \in Nat
        BY <1>3
      <3> WITNESS refs(old, D, f) \in Nat, 0 \in Nat
      <3> HIDE DEF old
      <3> QED
        BY <1>2, <1>3, <2>2, <3>1
    <2> QED
      BY <2>1, <2>2
  <1> QED
    BY <1>2, <1>4, <1>5, EntryKeeps

LEMMA FillKeeps ==
    ASSUME IInv, NEW p \in Slot, NEW d \in FreeOnes(proc[p].filesp), NEW g \in File, lost' = lost,
           proc' = [proc EXCEPT ![p].filesp = [proc[p].filesp EXCEPT ![d] = g]],
           node' = inc(node, [proc[p].filesp EXCEPT ![d] = g], {d})
    PROVE  IInv'
  <1>1. proc[p].filesp \in Table /\ {d} \in SUBSET Descriptor
    BY HasTable DEF IInv, FreeOnes
  <1>2. PICK filled : filled = [proc[p].filesp EXCEPT ![d] = g]
    OBVIOUS
  <1>3. /\ filled \in Table
        /\ \A f \in File : refs(filled, Descriptor, f)
                             = refs(proc[p].filesp, Descriptor, f) + refs(filled, {d}, f)
    BY <1>1, <1>2, FillCounts
  <1>4. node' = inc(node, filled, {d}) /\ proc' = [proc EXCEPT ![p].filesp = filled]
    BY <1>2
  <1> QED
    BY <1>1, <1>3, <1>4, NewTableKeeps

LEMMA OpenKeeps ==
    ASSUME IInv, NEW p \in Slot, NEW f \in File, NEW fd \in Descriptor, file_open(p, f, fd)
    PROVE  IInv'
  BY FillKeeps DEF file_open, Lowest

LEMMA DupKeeps ==
    ASSUME IInv, NEW p \in Slot, NEW d \in Descriptor, NEW e \in Descriptor, file_dup(p, d, e)
    PROVE  IInv'
  <1>1. proc[p].filesp \in Table
    BY HasTable DEF IInv
  <1>2. proc[p].filesp[d] \in File /\ e \in FreeOnes(proc[p].filesp)
    BY <1>1 DEF file_dup, Opened, Table
  <1> QED
    BY <1>2, FillKeeps DEF file_dup

LEMMA CloseKeeps ==
    ASSUME IInv, NEW p \in Slot, NEW d \in Descriptor, file_close(p, d) PROVE IInv'
  <1>1. proc[p].filesp \in Table /\ {d} \in SUBSET Descriptor
    BY HasTable DEF IInv
  <1>2. PICK rest : rest = closed(proc[p].filesp, {d})
    OBVIOUS
  <1>3. /\ rest \in Table
        /\ \A f \in File : refs(proc[p].filesp, Descriptor, f)
                             = refs(rest, Descriptor, f) + refs(proc[p].filesp, {d}, f)
    BY <1>1, <1>2, CloseCounts
  <1>4. /\ node' = dec(node, proc[p].filesp, {d}) /\ lost' = lost
        /\ proc' = [proc EXCEPT ![p].filesp = rest]
    BY <1>2 DEF file_close
  <1> QED
    BY <1>1, <1>3, <1>4, NewTableKeeps

(* vfs_open keeps a reference for which there is no descriptor.             *)
LEMMA ExclKeeps ==
    ASSUME IInv, NEW p \in Slot, NEW f \in File, file_open_excl(p, f) PROVE IInv'
  <1>1. node \in [File -> [ref : Int, open : Int]] /\ lost \in [File -> Nat]
    BY DEF IInv, Shape
  <1>2. /\ node' = [node EXCEPT ![f].ref = @ + 1] /\ lost' = [lost EXCEPT ![f] = @ + 1]
        /\ proc' = proc
    BY DEF file_open_excl
  <1>3. node' \in [File -> [ref : Int, open : Int]] /\ lost' \in [File -> Nat]
    BY <1>1, <1>2
  <1>4. \A g \in File :
          /\ node[g].ref \in Int /\ node[g].open \in Int /\ lost[g] \in Nat
          /\ node'[g].open = node[g].open
          /\ \/ node'[g].ref = node[g].ref /\ lost'[g] = lost[g]
             \/ node'[g].ref = node[g].ref + 1 /\ lost'[g] = lost[g] + 1
    BY <1>1, <1>2
  <1>5. \A g : users(g)' = users(g)
    BY <1>2 DEF users
  <1>6. \A g \in File : /\ Cardinality(users(g)) <= node[g].open /\ node[g].open <= node[g].ref
                        /\ node[g].ref = Cardinality(users(g)) + lost[g]
    BY DEF IInv, FilesCounted
  <1>7. Shape'
    BY <1>2, <1>3 DEF IInv, Shape
  <1>8. ASSUME NEW g \in File
        PROVE  /\ Cardinality(users(g)') <= node'[g].open /\ node'[g].open <= node'[g].ref
               /\ node'[g].ref = Cardinality(users(g)') + lost'[g]
    <2>1. Cardinality(users(g)) \in Nat
      <3>1. users(g) \in SUBSET (Slot \X Descriptor)
        BY DEF users
      <3> QED
        BY <3>1, DescriptorsAreFinite, FS_Subset, FS_CardinalityType
    <2> QED
      BY <1>4, <1>5, <1>6, <2>1
  <1>9. FilesCounted'
    BY <1>8 DEF FilesCounted
  <1> QED
    BY <1>7, <1>9 DEF IInv

(* do_execve closes some files and opens the program, and the process goes *)
(* on with it or dies and leaves its table behind.                         *)
LEMMA ExecveKeeps ==
    ASSUME IInv, NEW p \in Slot, NEW f \in File, NEW fd \in Descriptor, do_execve(p, f, fd)
    PROVE  IInv'
  <1> DEFINE old == proc[p].filesp
             w == load_icode(Dropped(p), Elf[f])
  <1>1. CASE panics(w)
    BY <1>1, HaltKeeps DEF panics
  <1>2. CASE ~panics(w)
    <2>1. /\ Shape /\ node \in [File -> [ref : Int, open : Int]]
          /\ Descriptor \in SUBSET Descriptor /\ {fd} \in SUBSET Descriptor
          /\ Beyond \in SUBSET Descriptor /\ old \in Table
      BY HasTable, FilesAssumption DEF IInv, Shape, Beyond, Descriptor
    <2>2. PICK kept : kept = closed(old, Beyond)
      OBVIOUS
    <2>3. PICK table : table = [kept EXCEPT ![fd] = f]
      OBVIOUS
    <2>4. /\ kept \in Table
          /\ \A g \in File : refs(old, Descriptor, g) = refs(kept, Descriptor, g) + refs(old, Beyond, g)
      BY <2>1, <2>2, CloseCounts
    <2>5. fd \in FreeOnes(kept)
      BY <2>2 DEF do_execve, Lowest, Kept
    <2>6. /\ table \in Table
          /\ \A g \in File : refs(table, Descriptor, g) = refs(kept, Descriptor, g) + refs(table, {fd}, g)
      BY <2>3, <2>4, <2>5, FillCounts
    <2>7. PICK middle : middle = dec(node, old, Beyond)
      OBVIOUS
    <2>8. /\ lost' = lost
          /\ node' = inc(middle, table, {fd})
          /\ \/ proc' = [proc EXCEPT ![p] = Zombie(table)]
             \/ \E mm : proc' = [proc EXCEPT ![p] = Process(mm, table, f)]
      BY <1>2, <2>2, <2>3, <2>7 DEF do_execve, Kept
    <2>9. PICK entry : IsEntry(entry) /\ entry.filesp = table /\ proc' = [proc EXCEPT ![p] = entry]
      <3>1. CASE proc' = [proc EXCEPT ![p] = Zombie(table)]
        <4>1. Zombie(table) = Entry("zombie", NoMm, table, NULL)
          BY DEF Zombie, Entry
        <4>2. IsEntry(Zombie(table)) /\ Zombie(table).filesp = table
          BY <4>1, <2>6, EntryHasTable
        <4> QED
          BY <3>1, <4>2
      <3>2. CASE \E mm : proc' = [proc EXCEPT ![p] = Process(mm, table, f)]
        <4>1. PICK mm : proc' = [proc EXCEPT ![p] = Process(mm, table, f)]
          BY <3>2
        <4>2. Process(mm, table, f) = Entry("run", mm, table, f)
          BY DEF Process, Entry
        <4>3. IsEntry(Process(mm, table, f)) /\ Process(mm, table, f).filesp = table
          BY <4>2, <2>6, EntryHasTable
        <4> QED
          BY <4>1, <4>3
      <3> QED
        BY <2>8, <3>1, <3>2
    <2>10. /\ middle \in [File -> [ref : Int, open : Int]]
           /\ node' \in [File -> [ref : Int, open : Int]]
      <3>1. middle \in [File -> [ref : Int, open : Int]]
        BY <2>1, <2>7, CountsMove
      <3> QED
        BY <2>1, <2>8, <3>1, CountsMove
    <2>11. ASSUME NEW g \in File
           PROVE  /\ Lowered(middle, node, refs(old, Beyond, g), g)
                  /\ Raised(node', middle, refs(table, {fd}, g), g)
      BY <2>1, <2>7, <2>8, <2>10, CountsMoveBy
    <2>12. ASSUME NEW g \in File
           PROVE  \E gone, come \in Nat :
                    /\ refs(entry.filesp, Descriptor, g) + gone = refs(old, Descriptor, g) + come
                    /\ node'[g].ref = node[g].ref - gone + come
                    /\ node'[g].open = node[g].open - gone + come
      <3>1. /\ refs(kept, Descriptor, g) \in Nat
            /\ node[g].ref \in Int /\ node[g].open \in Int
            /\ middle[g].ref \in Int /\ middle[g].open \in Int
        BY <2>1, <2>10, RefsIsNat
      <3>2. /\ refs(old, Descriptor, g) = refs(kept, Descriptor, g) + refs(old, Beyond, g)
            /\ refs(table, Descriptor, g) = refs(kept, Descriptor, g) + refs(table, {fd}, g)
        BY <2>4, <2>6
      <3>3. /\ Lowered(middle, node, refs(old, Beyond, g), g)
            /\ Raised(node', middle, refs(table, {fd}, g), g)
        BY <2>11
      <3> refs(old, Beyond, g) \in Nat /\ refs(table, {fd}, g) \in Nat
        BY <3>3 DEF Lowered, Raised
      <3> WITNESS refs(old, Beyond, g) \in Nat, refs(table, {fd}, g) \in Nat
      <3> HIDE DEF old
      <3>4. refs(entry.filesp, Descriptor, g) + refs(old, Beyond, g)
              = refs(old, Descriptor, g) + refs(table, {fd}, g)
        BY <2>9, <3>1, <3>2
      <3>5. /\ node'[g].ref = node[g].ref - refs(old, Beyond, g) + refs(table, {fd}, g)
            /\ node'[g].open = node[g].open - refs(old, Beyond, g) + refs(table, {fd}, g)
        BY <3>1, <3>3 DEF Lowered, Raised
      <3> QED
        BY <3>4, <3>5
    <2> QED
      BY <2>8, <2>9, <2>10, <2>12, EntryKeeps
  <1> QED
    BY <1>1, <1>2

-----------------------------------------------------------------------------
LEMMA ForkKeeps ==
    ASSUME IInv, NEW p \in Slot, NEW c \in Slot, do_fork(p, c) PROVE IInv'
  <1> DEFINE stack == alloc_pages(With(EmptyMm), KSTACKPAGE)
             w == IF stack.ok THEN copy_mm(stack, proc[p].mm) ELSE stack
  <1>1. /\ proc[c] = NoProc
        /\ do_fork_fails(p, w) \/ do_fork_no_files(p, w) \/ do_fork_child(p, c, w) \/ panics(w)
    BY DEF do_fork
  <1> HIDE DEF w
  <1>2. CASE do_fork_fails(p, w) \/ do_fork_no_files(p, w)
    BY <1>2, StutterKeeps DEF do_fork_fails, do_fork_no_files
  <1>3. CASE do_fork_child(p, c, w)
    BY <1>1, <1>3, ForkChildKeeps
  <1>4. CASE panics(w)
    BY <1>4, HaltKeeps DEF panics
  <1> QED
    BY <1>1, <1>2, <1>3, <1>4

LEMMA StepKeeps == IInv /\ [Next]_vars => IInv'
  <1> SUFFICES ASSUME IInv, [Next]_vars PROVE IInv'
    OBVIOUS
  <1>1. ASSUME NEW p \in Slot, NEW c \in Slot, do_fork(p, c) PROVE IInv'
    BY <1>1, ForkKeeps
  <1>2. ASSUME NEW p \in Slot, do_exit(p) PROVE IInv'
    BY <1>2, ExitKeeps
  <1>3. ASSUME NEW p \in Slot, do_wait(p) PROVE IInv'
    BY <1>3, WaitKeeps
  <1>4. ASSUME NEW p \in Slot, do_execve_no_file(p) PROVE IInv'
    BY <1>4, DropKeeps DEF do_execve_no_file
  <1>5. ASSUME NEW p \in Slot, NEW f \in File, NEW fd \in Descriptor, do_execve(p, f, fd)
        PROVE  IInv'
    BY <1>5, ExecveKeeps
  <1>6. ASSUME NEW p \in Slot, NEW f \in File, NEW fd \in Descriptor, file_open(p, f, fd)
        PROVE  IInv'
    BY <1>6, OpenKeeps
  <1>7. ASSUME NEW p \in Slot, NEW f \in File, file_open_excl(p, f) PROVE IInv'
    BY <1>7, ExclKeeps
  <1>8. ASSUME NEW p \in Slot, NEW d \in Descriptor, file_close(p, d) PROVE IInv'
    BY <1>8, CloseKeeps
  <1>9. ASSUME NEW p \in Slot, NEW d \in Descriptor, NEW e \in Descriptor, file_dup(p, d, e)
        PROVE  IInv'
    BY <1>9, DupKeeps
  <1>10. CASE stopped \/ UNCHANGED vars
    BY <1>10, StutterKeeps DEF stopped, vars
  <1>11. ASSUME NEW p \in Slot, proc_run(p) PROVE IInv'
    BY <1>11, HaltKeeps DEF proc_run
  <1> QED
    BY <1>1, <1>2, <1>3, <1>4, <1>5, <1>6, <1>7, <1>8, <1>9, <1>10, <1>11 DEF Next

(* The counts of an inode agree with the tables of open files, and it stays *)
(* in memory as long as a descriptor refers to it: do_fork, do_execve,      *)
(* do_exit and do_wait with every failure, and the calls on files.         *)
THEOREM CountsAgreeWithTables == Spec => []FilesCounted
  <1>1. IInv => FilesCounted
    BY DEF IInv
  <1> QED
    BY Initially, StepKeeps, <1>1, PTL DEF Spec
-----------------------------------------------------------------------------
(* Address spaces.                                                         *)
VmaSet == [start : Nat, end : Nat]
IsMap(pte) == pte = [la \in DOMAIN pte |-> pte[la]] /\ IsFiniteSet(DOMAIN pte)
IsMm(m) ==
    /\ m = [vma |-> m.vma, pte |-> m.pte, pt |-> m.pt, pd |-> m.pd]
    /\ m.vma \in Seq(VmaSet)
    /\ IsMap(m.pte) /\ IsFiniteSet(m.pt) /\ IsFiniteSet(m.pd)
IsWork(w) ==
    /\ w = [free |-> w.free, mm |-> w.mm, ok |-> w.ok, ret |-> w.ret, panic |-> w.panic,
           leaked |-> w.leaked]
    /\ w.free \in Nat /\ w.leaked \in Nat /\ IsMm(w.mm)

(* The pages an address space holds, and with those that are free.          *)
Size(m) == Cardinality(Owned(m))
Worth(w) == w.free + Size(w.mm)
Alike(w, u) == Worth(u) = Worth(w) /\ u.leaked = w.leaked

LEMMA DisjointCount ==
    ASSUME NEW S, NEW T, IsFiniteSet(S), IsFiniteSet(T), S \cap T = {}
    PROVE  /\ IsFiniteSet(S \cup T) /\ Cardinality(S \cup T) = Cardinality(S) + Cardinality(T)
           /\ Cardinality(S) \in Nat /\ Cardinality(T) \in Nat
  <1>1. Cardinality(S) \in Nat /\ Cardinality(T) \in Nat
    BY FS_CardinalityType
  <1>2. /\ IsFiniteSet(S \cup T)
        /\ Cardinality(S \cup T) = Cardinality(S) + Cardinality(T) - Cardinality(S \cap T)
    BY FS_Union
  <1>3. Cardinality(S \cap T) = 0
    BY FS_EmptySet, Zenon
  <1> QED
    BY <1>1, <1>2, <1>3

(* As many pairs with one and the same first part as second parts.         *)
LEMMA TaggedCount ==
    ASSUME NEW tag, NEW T, IsFiniteSet(T)
    PROVE  IsFiniteSet({tag} \X T) /\ Cardinality({tag} \X T) = Cardinality(T)
  <1> DEFINE pair == [t \in T |-> <<tag, t>>]
  <1>1. pair \in [T -> {tag} \X T] /\ \A x, y \in T : pair[x] = pair[y] => x = y
    OBVIOUS
  <1>2. \A x \in {tag} \X T : x[2] \in T /\ pair[x[2]] = x
    OBVIOUS
  <1>3. pair \in Bijection(T, {tag} \X T)
    BY <1>1, <1>2 DEF Bijection, Injection, Surjection, IsInjective
  <1>4. ExistsBijection(T, {tag} \X T)
    BY <1>3 DEF ExistsBijection
  <1> QED
    BY <1>4, FS_Bijection

LEMMA OwnedCounted ==
    ASSUME NEW m, IsFiniteSet(DOMAIN m.pte), IsFiniteSet(m.pt), IsFiniteSet(m.pd)
    PROVE  /\ IsFiniteSet(Owned(m))
           /\ Size(m) = 1 + Cardinality(DOMAIN m.pte) + Cardinality(m.pt) + Cardinality(m.pd)
           /\ Size(m) \in Nat
           /\ Cardinality(DOMAIN m.pte) \in Nat
           /\ Cardinality(m.pt) \in Nat
           /\ Cardinality(m.pd) \in Nat
  <1> DEFINE A == {<<"pgdir", 0>>}
             B == {"page"} \X DOMAIN m.pte
             C == {"table"} \X m.pt
             D == {"directory"} \X m.pd
  <1>1. IsFiniteSet(A) /\ Cardinality(A) = 1
    BY FS_Singleton
  <1>2. /\ Cardinality(DOMAIN m.pte) \in Nat /\ Cardinality(m.pt) \in Nat /\ Cardinality(m.pd) \in Nat
    BY FS_CardinalityType
  <1>3. IsFiniteSet(B) /\ Cardinality(B) = Cardinality(DOMAIN m.pte)
    BY TaggedCount
  <1>4. IsFiniteSet(C) /\ Cardinality(C) = Cardinality(m.pt)
    BY TaggedCount
  <1>5. IsFiniteSet(D) /\ Cardinality(D) = Cardinality(m.pd)
    BY TaggedCount
  <1>6. A \cap B = {} /\ (A \cup B) \cap C = {} /\ ((A \cup B) \cup C) \cap D = {}
    OBVIOUS
  <1>7. Owned(m) = ((A \cup B) \cup C) \cup D
    BY DEF Owned, Below
  <1> HIDE DEF A, B, C, D
  <1>8. IsFiniteSet(A \cup B) /\ Cardinality(A \cup B) = Cardinality(A) + Cardinality(B)
    BY <1>1, <1>3, <1>6, DisjointCount
  <1>9. /\ IsFiniteSet((A \cup B) \cup C)
        /\ Cardinality((A \cup B) \cup C) = Cardinality(A \cup B) + Cardinality(C)
    BY <1>4, <1>6, <1>8, DisjointCount
  <1>10. /\ IsFiniteSet(((A \cup B) \cup C) \cup D)
         /\ Cardinality(((A \cup B) \cup C) \cup D) = Cardinality((A \cup B) \cup C) + Cardinality(D)
    BY <1>5, <1>6, <1>9, DisjointCount
  <1> QED
    BY <1>1, <1>2, <1>3, <1>4, <1>5, <1>7, <1>8, <1>9, <1>10 DEF Size

LEMMA MmSize ==
    ASSUME NEW m, IsMm(m)
    PROVE  /\ IsFiniteSet(Owned(m)) /\ Size(m) \in Nat
           /\ Size(m) = 1 + Cardinality(DOMAIN m.pte) + Cardinality(m.pt) + Cardinality(m.pd)
           /\ Cardinality(DOMAIN m.pte) \in Nat
           /\ Cardinality(m.pt) \in Nat /\ Cardinality(m.pd) \in Nat
  BY OwnedCounted DEF IsMm, IsMap

LEMMA EmptyMmIs == IsMm(EmptyMm) /\ Size(EmptyMm) = 1
  <1>1. DOMAIN EmptyMm.pte = {} /\ EmptyMm.pt = {} /\ EmptyMm.pd = {} /\ EmptyMm.vma = <<>>
    BY DEF EmptyMm
  <1>2. IsFiniteSet({}) /\ Cardinality({}) = 0
    BY FS_EmptySet
  <1>3. IsMap(EmptyMm.pte)
    BY <1>1, <1>2 DEF IsMap, EmptyMm
  <1>4. IsMm(EmptyMm)
    BY <1>1, <1>2, <1>3 DEF IsMm, EmptyMm
  <1>5. Size(EmptyMm) = 1 + 0 + 0 + 0
    BY <1>1, <1>2, <1>4, MmSize
  <1> QED
    BY <1>4, <1>5

(* An address space is not the lack of one.                                *)
LEMMA MmIsSomething == \A m : IsMm(m) => m # NoMm
  <1> SUFFICES ASSUME NEW m, IsMm(m), m = NoMm PROVE FALSE
    OBVIOUS
  <1>1. DOMAIN m = {"vma", "pte", "pt", "pd"}
    BY DEF IsMm
  <1>2. DOMAIN m = {}
    BY DEF NoMm
  <1> QED
    BY <1>1, <1>2

-----------------------------------------------------------------------------
(* What one operator makes of a record w: other free pages, other tables.  *)
Kept2(w, u) == u.ret = w.ret /\ u.panic = w.panic /\ u.leaked = w.leaked

LEMMA AllocPages ==
    ASSUME NEW w, IsWork(w), NEW n \in Nat
    PROVE  LET u == alloc_pages(w, n)
           IN  /\ IsWork(u) /\ u.mm = w.mm /\ Kept2(w, u)
               /\ w.free < n => u.free = w.free /\ u.ok = FALSE
               /\ ~(w.free < n) => u.free = w.free - n /\ u.ok = w.ok
  <1>1. CASE w.free < n
    <2>1. alloc_pages(w, n) = [w EXCEPT !.ok = FALSE]
      BY <1>1 DEF alloc_pages, Fails
    <2> QED
      BY <1>1, <2>1 DEF IsWork, Kept2
  <1>2. CASE ~(w.free < n)
    <2>1. alloc_pages(w, n) = [w EXCEPT !.free = @ - n]
      BY <1>2 DEF alloc_pages
    <2>2. w.free - n \in Nat
      BY <1>2 DEF IsWork
    <2> QED
      BY <1>2, <2>1, <2>2 DEF IsWork, Kept2
  <1> QED
    BY <1>1, <1>2

LEMMA FreePages ==
    ASSUME NEW w, IsWork(w), NEW n \in Nat
    PROVE  LET u == free_pages(w, n)
           IN  IsWork(u) /\ u.mm = w.mm /\ Kept2(w, u) /\ u.free = w.free + n /\ u.ok = w.ok
  BY DEF free_pages, IsWork, Kept2

(* Records, by their fields.                                               *)
MmOf(vma, pte, pt, pd) == [vma |-> vma, pte |-> pte, pt |-> pt, pd |-> pd]
WorkOf(fr, mm, ok, ret, panic, lk) ==
    [free |-> fr, mm |-> mm, ok |-> ok, ret |-> ret, panic |-> panic, leaked |-> lk]

LEMMA MmFields ==
    \A vma, pte, pt, pd :
      /\ MmOf(vma, pte, pt, pd).vma = vma /\ MmOf(vma, pte, pt, pd).pte = pte
      /\ MmOf(vma, pte, pt, pd).pt = pt /\ MmOf(vma, pte, pt, pd).pd = pd
  BY DEF MmOf

LEMMA WorkFields ==
    \A fr, mm, ok, ret, panic, lk :
      /\ WorkOf(fr, mm, ok, ret, panic, lk).free = fr /\ WorkOf(fr, mm, ok, ret, panic, lk).mm = mm
      /\ WorkOf(fr, mm, ok, ret, panic, lk).ok = ok /\ WorkOf(fr, mm, ok, ret, panic, lk).ret = ret
      /\ WorkOf(fr, mm, ok, ret, panic, lk).panic = panic
      /\ WorkOf(fr, mm, ok, ret, panic, lk).leaked = lk
  BY DEF WorkOf

LEMMA WorkRead ==
    ASSUME NEW h, NEW fr, NEW mm, NEW ok, NEW ret, NEW panic, NEW lk,
           h = WorkOf(fr, mm, ok, ret, panic, lk)
    PROVE  h.free = fr /\ h.mm = mm /\ h.ok = ok /\ h.leaked = lk
  BY WorkFields

LEMMA MmChanges ==
    ASSUME NEW m, IsMm(m), NEW x
    PROVE  /\ [m EXCEPT !.vma = x] = MmOf(x, m.pte, m.pt, m.pd)
           /\ [m EXCEPT !.pte = x] = MmOf(m.vma, x, m.pt, m.pd)
           /\ [m EXCEPT !.pt = x] = MmOf(m.vma, m.pte, x, m.pd)
           /\ [m EXCEPT !.pd = x] = MmOf(m.vma, m.pte, m.pt, x)
           /\ m = MmOf(m.vma, m.pte, m.pt, m.pd)
  <1>1. PICK vma, pte, pt, pd : m = MmOf(vma, pte, pt, pd)
    BY DEF IsMm, MmOf
  <1>2. m.vma = vma /\ m.pte = pte /\ m.pt = pt /\ m.pd = pd
    BY <1>1, MmFields
  <1> QED
    BY <1>1, <1>2 DEF MmOf

LEMMA WorkChanges ==
    ASSUME NEW w, IsWork(w), NEW x
    PROVE  /\ [w EXCEPT !.free = x] = WorkOf(x, w.mm, w.ok, w.ret, w.panic, w.leaked)
           /\ [w EXCEPT !.mm = x] = WorkOf(w.free, x, w.ok, w.ret, w.panic, w.leaked)
           /\ [w EXCEPT !.ok = x] = WorkOf(w.free, w.mm, x, w.ret, w.panic, w.leaked)
           /\ [w EXCEPT !.ret = x] = WorkOf(w.free, w.mm, w.ok, x, w.panic, w.leaked)
           /\ [w EXCEPT !.panic = x] = WorkOf(w.free, w.mm, w.ok, w.ret, x, w.leaked)
           /\ [w EXCEPT !.leaked = x] = WorkOf(w.free, w.mm, w.ok, w.ret, w.panic, x)
           /\ w = WorkOf(w.free, w.mm, w.ok, w.ret, w.panic, w.leaked)
  <1>1. PICK fr, mm, ok, ret, panic, lk : w = WorkOf(fr, mm, ok, ret, panic, lk)
    BY DEF IsWork, WorkOf
  <1>2. w.free = fr /\ w.mm = mm /\ w.ok = ok /\ w.ret = ret /\ w.panic = panic /\ w.leaked = lk
    BY <1>1, WorkFields
  <1> QED
    BY <1>1, <1>2 DEF WorkOf

LEMMA MmOfIs ==
    ASSUME NEW vma \in Seq(VmaSet), NEW pte, IsMap(pte),
           NEW pt, IsFiniteSet(pt), NEW pd, IsFiniteSet(pd)
    PROVE  IsMm(MmOf(vma, pte, pt, pd))
  BY DEF IsMm, MmOf

LEMMA WorkOfIs ==
    ASSUME NEW fr \in Nat, NEW mm, IsMm(mm), NEW ok, NEW ret, NEW panic, NEW lk \in Nat
    PROVE  IsWork(WorkOf(fr, mm, ok, ret, panic, lk))
  BY DEF IsWork, WorkOf

LEMMA MmParts ==
    ASSUME NEW m, IsMm(m)
    PROVE  m.vma \in Seq(VmaSet) /\ IsMap(m.pte) /\ IsFiniteSet(m.pt) /\ IsFiniteSet(m.pd)
  BY DEF IsMm

LEMMA WorkParts ==
    ASSUME NEW w, IsWork(w) PROVE w.free \in Nat /\ w.leaked \in Nat /\ IsMm(w.mm)
  BY DEF IsWork

LEMMA FailsWith ==
    ASSUME NEW w, IsWork(w), NEW x
    PROVE  /\ [Fails(w) EXCEPT !.ret = x] = WorkOf(w.free, w.mm, FALSE, x, w.panic, w.leaked)
           /\ [Fails(w) EXCEPT !.panic = x] = WorkOf(w.free, w.mm, FALSE, w.ret, x, w.leaked)
  <1>1. Fails(w) = WorkOf(w.free, w.mm, FALSE, w.ret, w.panic, w.leaked)
    BY WorkChanges, Zenon DEF Fails
  <1>2. PICK no : no = FALSE
    OBVIOUS
  <1>3. PICK u : u = WorkOf(w.free, w.mm, no, w.ret, w.panic, w.leaked)
    OBVIOUS
  <1>4. IsWork(u)
    BY <1>3, WorkOfIs, WorkParts
  <1>5. /\ u.free = w.free /\ u.mm = w.mm /\ u.ok = no /\ u.ret = w.ret /\ u.panic = w.panic /\ u.leaked = w.leaked
    BY <1>3, WorkFields
  <1>6. /\ [u EXCEPT !.ret = x] = WorkOf(u.free, u.mm, u.ok, x, u.panic, u.leaked)
        /\ [u EXCEPT !.panic = x] = WorkOf(u.free, u.mm, u.ok, u.ret, x, u.leaked)
    BY <1>4, WorkChanges
  <1> QED
    BY <1>1, <1>2, <1>3, <1>5, <1>6, Zenon

(* More page tables and directories.                                       *)
Tabled(w, u, pt, pd) ==
    /\ IsWork(u) /\ Kept2(w, u)
    /\ u.mm.vma = w.mm.vma /\ u.mm.pte = w.mm.pte
    /\ Worth(u) = Worth(w)
    /\ u.ok => u.mm.pt = w.mm.pt \cup pt /\ u.mm.pd = w.mm.pd \cup pd
    /\ pt \subseteq w.mm.pt /\ pd \subseteq w.mm.pd => u = w

LEMMA PtMore ==
    ASSUME NEW m, IsMm(m), NEW n, n \notin m.pt
    PROVE  LET x == MmOf(m.vma, m.pte, m.pt \cup {n}, m.pd) IN IsMm(x) /\ Size(x) = Size(m) + 1
  <1>1. PICK x : x = MmOf(m.vma, m.pte, m.pt \cup {n}, m.pd)
    OBVIOUS
  <1>2. IsFiniteSet(m.pt \cup {n}) /\ Cardinality(m.pt \cup {n}) = Cardinality(m.pt) + 1
    BY FS_AddElement, MmParts
  <1>3. IsMm(x)
    BY <1>1, <1>2, MmOfIs, MmParts
  <1>4. x.pte = m.pte /\ x.pt = m.pt \cup {n} /\ x.pd = m.pd
    BY <1>1, MmFields
  <1>5. /\ Size(x) = 1 + Cardinality(DOMAIN m.pte) + Cardinality(m.pt \cup {n}) + Cardinality(m.pd)
    BY <1>3, <1>4, MmSize
  <1>6. /\ Size(m) = 1 + Cardinality(DOMAIN m.pte) + Cardinality(m.pt) + Cardinality(m.pd)
        /\ Cardinality(DOMAIN m.pte) \in Nat
        /\ Cardinality(m.pt) \in Nat /\ Cardinality(m.pd) \in Nat
    BY MmSize
  <1>7. Size(x) = Size(m) + 1
    BY <1>2, <1>5, <1>6
  <1> QED
    BY <1>1, <1>3, <1>7

LEMMA WithPt ==
    ASSUME NEW w, IsWork(w), w.ok, NEW n
    PROVE  Tabled(w, with_table(w, "pt", n), {n}, {})
  <1>1. CASE n \in w.mm.pt
    <2>1. with_table(w, "pt", n) = w
      BY <1>1 DEF with_table
    <2> QED
      BY <1>1, <2>1 DEF Tabled, Kept2
  <1>2. CASE n \notin w.mm.pt
    <2>1. PICK a : a = alloc_pages(w, 1)
      OBVIOUS
    <2>2. /\ IsWork(a) /\ a.mm = w.mm /\ Kept2(w, a)
          /\ w.free < 1 => a.free = w.free /\ a.ok = FALSE
          /\ ~(w.free < 1) => a.free = w.free - 1 /\ a.ok = w.ok
      BY <2>1, AllocPages
    <2>3. PICK u : u = with_table(w, "pt", n)
      OBVIOUS
    <2>4. u = IF a.ok THEN [a EXCEPT !.mm["pt"] = @ \cup {n}] ELSE a
      BY <1>2, <2>1, <2>3 DEF with_table
    <2>5. CASE w.free < 1
      <3>1. u = a
        BY <2>2, <2>4, <2>5
      <3>2. Tabled(w, u, {n}, {})
        BY <1>2, <2>2, <2>5, <3>1 DEF Tabled, Worth
      <3> QED
        BY <2>3, <3>2
    <2>6. CASE ~(w.free < 1)
      <3>1. PICK m : m = MmOf(w.mm.vma, w.mm.pte, w.mm.pt \cup {n}, w.mm.pd)
        OBVIOUS
      <3>2. IsMm(m) /\ Size(m) = Size(w.mm) + 1 /\ Size(w.mm) \in Nat /\ w.free \in Nat
        BY <1>2, <3>1, PtMore, MmSize, WorkParts
      <3>3. m.vma = w.mm.vma /\ m.pte = w.mm.pte /\ m.pt = w.mm.pt \cup {n} /\ m.pd = w.mm.pd
        BY <3>1, MmFields
      <3>4. [a.mm EXCEPT !.pt = a.mm.pt \cup {n}] = m
        <4>1. PICK x : x = w.mm.pt \cup {n}
          OBVIOUS
        <4>2. PICK b : b = w.mm
          OBVIOUS
        <4>3. IsMm(b)
          BY <4>2, WorkParts
        <4>4. [b EXCEPT !.pt = x] = MmOf(b.vma, b.pte, x, b.pd)
          BY <4>3, MmChanges
        <4> QED
          BY <2>2, <3>1, <4>1, <4>2, <4>4, Zenon
      <3>5. u = [a EXCEPT !.mm = [a.mm EXCEPT !.pt = a.mm.pt \cup {n}]]
        BY <2>2, <2>4, <2>6
      <3>6. u = WorkOf(w.free - 1, m, w.ok, w.ret, w.panic, w.leaked)
        <4>1. u = [a EXCEPT !.mm = m]
          BY <3>4, <3>5, Zenon
        <4>2. [a EXCEPT !.mm = m] = WorkOf(a.free, m, a.ok, a.ret, a.panic, a.leaked)
          BY <2>2, WorkChanges
        <4>3. a.free = w.free - 1 /\ a.ok = w.ok /\ a.ret = w.ret /\ a.panic = w.panic /\ a.leaked = w.leaked
          BY <2>2, <2>6 DEF Kept2
        <4> QED
          BY <4>1, <4>2, <4>3, Zenon
      <3>7. w.free - 1 \in Nat
        BY <2>6, <3>2
      <3>8. IsWork(u) /\ u.free = w.free - 1 /\ u.mm = m /\ Kept2(w, u)
        <4>1. IsWork(u)
          BY <3>2, <3>6, <3>7, WorkOfIs, WorkParts
        <4>2. u.free = w.free - 1 /\ u.mm = m /\ u.ret = w.ret /\ u.panic = w.panic /\ u.leaked = w.leaked
          BY <3>6 DEF WorkOf
        <4> QED
          BY <4>1, <4>2 DEF Kept2
      <3>9. Worth(u) = Worth(w)
        BY <3>2, <3>8 DEF Worth
      <3>10. Tabled(w, u, {n}, {})
        BY <1>2, <3>3, <3>8, <3>9 DEF Tabled
      <3> QED
        BY <2>3, <3>10
    <2> QED
      BY <2>5, <2>6
  <1> QED
    BY <1>1, <1>2

LEMMA PdMore ==
    ASSUME NEW m, IsMm(m), NEW n, n \notin m.pd
    PROVE  LET x == MmOf(m.vma, m.pte, m.pt, m.pd \cup {n}) IN IsMm(x) /\ Size(x) = Size(m) + 1
  <1>1. PICK x : x = MmOf(m.vma, m.pte, m.pt, m.pd \cup {n})
    OBVIOUS
  <1>2. IsFiniteSet(m.pd \cup {n}) /\ Cardinality(m.pd \cup {n}) = Cardinality(m.pd) + 1
    BY FS_AddElement, MmParts
  <1>3. IsMm(x)
    BY <1>1, <1>2, MmOfIs, MmParts
  <1>4. x.pte = m.pte /\ x.pt = m.pt /\ x.pd = m.pd \cup {n}
    BY <1>1, MmFields
  <1>5. /\ Size(x) = 1 + Cardinality(DOMAIN m.pte) + Cardinality(m.pt) + Cardinality(m.pd \cup {n})
    BY <1>3, <1>4, MmSize
  <1>6. /\ Size(m) = 1 + Cardinality(DOMAIN m.pte) + Cardinality(m.pt) + Cardinality(m.pd)
        /\ Cardinality(DOMAIN m.pte) \in Nat
        /\ Cardinality(m.pt) \in Nat /\ Cardinality(m.pd) \in Nat
    BY MmSize
  <1>7. Size(x) = Size(m) + 1
    BY <1>2, <1>5, <1>6
  <1> QED
    BY <1>1, <1>3, <1>7

LEMMA WithPd ==
    ASSUME NEW w, IsWork(w), w.ok, NEW n
    PROVE  Tabled(w, with_table(w, "pd", n), {}, {n})
  <1>1. CASE n \in w.mm.pd
    <2>1. with_table(w, "pd", n) = w
      BY <1>1 DEF with_table
    <2> QED
      BY <1>1, <2>1 DEF Tabled, Kept2
  <1>2. CASE n \notin w.mm.pd
    <2>1. PICK a : a = alloc_pages(w, 1)
      OBVIOUS
    <2>2. /\ IsWork(a) /\ a.mm = w.mm /\ Kept2(w, a)
          /\ w.free < 1 => a.free = w.free /\ a.ok = FALSE
          /\ ~(w.free < 1) => a.free = w.free - 1 /\ a.ok = w.ok
      BY <2>1, AllocPages
    <2>3. PICK u : u = with_table(w, "pd", n)
      OBVIOUS
    <2>4. u = IF a.ok THEN [a EXCEPT !.mm["pd"] = @ \cup {n}] ELSE a
      BY <1>2, <2>1, <2>3 DEF with_table
    <2>5. CASE w.free < 1
      <3>1. u = a
        BY <2>2, <2>4, <2>5
      <3>2. Tabled(w, u, {}, {n})
        BY <1>2, <2>2, <2>5, <3>1 DEF Tabled, Worth
      <3> QED
        BY <2>3, <3>2
    <2>6. CASE ~(w.free < 1)
      <3>1. PICK m : m = MmOf(w.mm.vma, w.mm.pte, w.mm.pt, w.mm.pd \cup {n})
        OBVIOUS
      <3>2. IsMm(m) /\ Size(m) = Size(w.mm) + 1 /\ Size(w.mm) \in Nat /\ w.free \in Nat
        BY <1>2, <3>1, PdMore, MmSize, WorkParts
      <3>3. m.vma = w.mm.vma /\ m.pte = w.mm.pte /\ m.pt = w.mm.pt /\ m.pd = w.mm.pd \cup {n}
        BY <3>1, MmFields
      <3>4. [a.mm EXCEPT !.pd = a.mm.pd \cup {n}] = m
        <4>1. PICK x : x = w.mm.pd \cup {n}
          OBVIOUS
        <4>2. PICK b : b = w.mm
          OBVIOUS
        <4>3. IsMm(b)
          BY <4>2, WorkParts
        <4>4. [b EXCEPT !.pd = x] = MmOf(b.vma, b.pte, b.pt, x)
          BY <4>3, MmChanges
        <4> QED
          BY <2>2, <3>1, <4>1, <4>2, <4>4, Zenon
      <3>5. u = [a EXCEPT !.mm = [a.mm EXCEPT !.pd = a.mm.pd \cup {n}]]
        BY <2>2, <2>4, <2>6
      <3>6. u = WorkOf(w.free - 1, m, w.ok, w.ret, w.panic, w.leaked)
        <4>1. u = [a EXCEPT !.mm = m]
          BY <3>4, <3>5, Zenon
        <4>2. [a EXCEPT !.mm = m] = WorkOf(a.free, m, a.ok, a.ret, a.panic, a.leaked)
          BY <2>2, WorkChanges
        <4>3. a.free = w.free - 1 /\ a.ok = w.ok /\ a.ret = w.ret /\ a.panic = w.panic /\ a.leaked = w.leaked
          BY <2>2, <2>6 DEF Kept2
        <4> QED
          BY <4>1, <4>2, <4>3, Zenon
      <3>7. w.free - 1 \in Nat
        BY <2>6, <3>2
      <3>8. IsWork(u) /\ u.free = w.free - 1 /\ u.mm = m /\ Kept2(w, u)
        <4>1. IsWork(u)
          BY <3>2, <3>6, <3>7, WorkOfIs, WorkParts
        <4>2. u.free = w.free - 1 /\ u.mm = m /\ u.ret = w.ret /\ u.panic = w.panic /\ u.leaked = w.leaked
          BY <3>6 DEF WorkOf
        <4> QED
          BY <4>1, <4>2 DEF Kept2
      <3>9. Worth(u) = Worth(w)
        BY <3>2, <3>8 DEF Worth
      <3>10. Tabled(w, u, {}, {n})
        BY <1>2, <3>3, <3>8, <3>9 DEF Tabled
      <3> QED
        BY <2>3, <3>10
    <2> QED
      BY <2>5, <2>6
  <1> QED
    BY <1>1, <1>2

LEMMA GetPte ==
    ASSUME NEW w, IsWork(w), w.ok, NEW la
    PROVE  Tabled(w, get_pte(w, la), {PT(la)}, {PD(la)})
  <1>1. PICK d : d = with_table(w, "pd", PD(la))
    OBVIOUS
  <1>2. Tabled(w, d, {}, {PD(la)})
    BY <1>1, WithPd
  <1>3. PICK u : u = get_pte(w, la)
    OBVIOUS
  <1>4. u = IF d.ok THEN with_table(d, "pt", PT(la)) ELSE d
    BY <1>1, <1>3 DEF get_pte
  <1>5. CASE ~d.ok
    <2>1. u = d
      BY <1>4, <1>5
    <2>2. Tabled(w, u, {PT(la)}, {PD(la)})
      BY <1>2, <1>5, <2>1 DEF Tabled
    <2> QED
      BY <1>3, <2>2
  <1>6. CASE d.ok
    <2>1. Tabled(d, u, {PT(la)}, {})
      BY <1>2, <1>4, <1>6, WithPt DEF Tabled
    <2>2. /\ IsWork(u) /\ Kept2(w, u) /\ u.mm.vma = w.mm.vma /\ u.mm.pte = w.mm.pte
          /\ Worth(u) = Worth(w)
      BY <1>2, <2>1 DEF Tabled, Kept2
    <2>3. u.ok => u.mm.pt = w.mm.pt \cup {PT(la)} /\ u.mm.pd = w.mm.pd \cup {PD(la)}
      <3>1. d.mm.pt = w.mm.pt \cup {} /\ d.mm.pd = w.mm.pd \cup {PD(la)}
        BY <1>2, <1>6 DEF Tabled
      <3>2. u.ok => u.mm.pt = d.mm.pt \cup {PT(la)} /\ u.mm.pd = d.mm.pd \cup {}
        BY <2>1 DEF Tabled
      <3> QED
        BY <3>1, <3>2
    <2>4. {PT(la)} \subseteq w.mm.pt /\ {PD(la)} \subseteq w.mm.pd => u = w
      <3>1. SUFFICES ASSUME {PT(la)} \subseteq w.mm.pt, {PD(la)} \subseteq w.mm.pd PROVE u = w
        OBVIOUS
      <3>2. d = w
        BY <1>2, <3>1 DEF Tabled
      <3>3. u = d
        BY <2>1, <3>1, <3>2 DEF Tabled
      <3> QED
        BY <3>2, <3>3
    <2>5. Tabled(w, u, {PT(la)}, {PD(la)})
      BY <2>2, <2>3, <2>4 DEF Tabled
    <2> QED
      BY <1>3, <2>5
  <1> QED
    BY <1>5, <1>6

(* A page is mapped in place of what was mapped there.                     *)
Replaced(put, pte, la, content) ==
    /\ IsMap(put) /\ DOMAIN put = DOMAIN pte \cup {la}
    /\ put[la] = content
    /\ \A x \in DOMAIN pte \ {la} : put[x] = pte[x]
    /\ Cardinality(DOMAIN put)
         = IF la \in DOMAIN pte THEN Cardinality(DOMAIN pte) ELSE Cardinality(DOMAIN pte) + 1

LEMMA PutMap ==
    ASSUME NEW pte, IsMap(pte), NEW la, NEW content
    PROVE  Replaced(Put(pte, la, content), pte, la, content)
  <1>1. PICK put : put = Put(pte, la, content)
    OBVIOUS
  <1>2. put = [x \in DOMAIN pte \cup {la} |-> IF x = la THEN content ELSE pte[x]]
    BY <1>1 DEF Put
  <1>3. DOMAIN put = DOMAIN pte \cup {la} /\ put = [x \in DOMAIN put |-> put[x]]
    BY <1>2
  <1>4. IsFiniteSet(DOMAIN pte)
    BY DEF IsMap
  <1>5. /\ IsFiniteSet(DOMAIN pte \cup {la})
        /\ Cardinality(DOMAIN pte \cup {la})
             = IF la \in DOMAIN pte THEN Cardinality(DOMAIN pte) ELSE Cardinality(DOMAIN pte) + 1
    BY <1>4, FS_AddElement
  <1>6. IsMap(put)
    BY <1>3, <1>5 DEF IsMap
  <1>7. put[la] = content /\ \A x \in DOMAIN pte \ {la} : put[x] = pte[x]
    BY <1>2
  <1> QED
    BY <1>1, <1>3, <1>5, <1>6, <1>7 DEF Replaced

LEMMA PageMore ==
    ASSUME NEW m, IsMm(m), NEW la, NEW content
    PROVE  LET x == MmOf(m.vma, Put(m.pte, la, content), m.pt, m.pd)
           IN  IsMm(x) /\ Size(x) = IF la \in DOMAIN m.pte THEN Size(m) ELSE Size(m) + 1
  <1>1. PICK x : x = MmOf(m.vma, Put(m.pte, la, content), m.pt, m.pd)
    OBVIOUS
  <1>2. PICK put : put = Put(m.pte, la, content)
    OBVIOUS
  <1>3. /\ IsMap(put)
        /\ Cardinality(DOMAIN put)
             = IF la \in DOMAIN m.pte THEN Cardinality(DOMAIN m.pte) ELSE Cardinality(DOMAIN m.pte) + 1
    <2>1. IsMap(m.pte)
      BY MmParts
    <2>2. Replaced(Put(m.pte, la, content), m.pte, la, content)
      BY <2>1, PutMap
    <2>3. Replaced(put, m.pte, la, content)
      BY <1>2, <2>2
    <2> QED
      BY <2>3 DEF Replaced
  <1>4. IsMm(x)
    BY <1>1, <1>2, <1>3, MmOfIs, MmParts
  <1>5. x.pte = put /\ x.pt = m.pt /\ x.pd = m.pd
    BY <1>1, <1>2, MmFields
  <1>6. /\ Size(x) = 1 + Cardinality(DOMAIN put) + Cardinality(m.pt) + Cardinality(m.pd)
    BY <1>4, <1>5, MmSize
  <1>7. /\ Size(m) = 1 + Cardinality(DOMAIN m.pte) + Cardinality(m.pt) + Cardinality(m.pd)
        /\ Cardinality(DOMAIN m.pte) \in Nat
        /\ Cardinality(m.pt) \in Nat /\ Cardinality(m.pd) \in Nat
    BY MmSize
  <1>8. Size(x) = IF la \in DOMAIN m.pte THEN Size(m) ELSE Size(m) + 1
    BY <1>3, <1>6, <1>7
  <1> QED
    BY <1>1, <1>4, <1>8

(* n pages have come in; or nothing was mapped and as many are left.        *)
Mapped(w, u, la, content, n) ==
    /\ IsWork(u) /\ Kept2(w, u) /\ u.mm.vma = w.mm.vma
    /\ u.ok => /\ u.mm.pte = Put(w.mm.pte, la, content)
               /\ u.mm.pt = w.mm.pt \cup {PT(la)} /\ u.mm.pd = w.mm.pd \cup {PD(la)}
               /\ Worth(u) = Worth(w) + n
    /\ ~u.ok => u.mm.pte = w.mm.pte /\ Worth(u) = Worth(w)

LEMMA PageInsert ==
    ASSUME NEW w, IsWork(w), w.ok, NEW la, NEW content
    PROVE  /\ Mapped(w, page_insert(w, la, content), la, content, 1)
           /\ PT(la) \in w.mm.pt /\ PD(la) \in w.mm.pd => page_insert(w, la, content).ok
  <1>1. PICK t : t = get_pte(w, la)
    OBVIOUS
  <1>2. Tabled(w, t, {PT(la)}, {PD(la)})
    BY <1>1, GetPte
  <1>3. PICK u : u = page_insert(w, la, content)
    OBVIOUS
  <1>4. u = IF ~t.ok THEN t
            ELSE [t EXCEPT !.mm.pte = Put(@, la, content),
                           !.free = IF la \in DOMAIN t.mm.pte THEN @ + 1 ELSE @]
    BY <1>1, <1>3 DEF page_insert
  <1>5. CASE ~t.ok
    <2>1. u = t
      BY <1>4, <1>5
    <2>2. Mapped(w, u, la, content, 1)
      BY <1>2, <1>5, <2>1 DEF Mapped, Tabled
    <2>3. ~(PT(la) \in w.mm.pt /\ PD(la) \in w.mm.pd)
      BY <1>2, <1>5 DEF Tabled
    <2> QED
      BY <1>3, <2>2, <2>3
  <1>6. CASE t.ok
    <2>1. PICK m : m = MmOf(t.mm.vma, Put(t.mm.pte, la, content), t.mm.pt, t.mm.pd)
      OBVIOUS
    <2>2. IsWork(t) /\ IsMm(t.mm) /\ t.free \in Nat /\ Size(t.mm) \in Nat
      BY <1>2, MmSize, WorkParts DEF Tabled
    <2>3. IsMm(m) /\ Size(m) = IF la \in DOMAIN t.mm.pte THEN Size(t.mm) ELSE Size(t.mm) + 1
      BY <2>1, <2>2, PageMore
    <2>4. PICK fr : fr = IF la \in DOMAIN t.mm.pte THEN t.free + 1 ELSE t.free
      OBVIOUS
    <2>5. fr \in Nat
      BY <2>2, <2>4
    <2>6. u = WorkOf(fr, m, t.ok, t.ret, t.panic, t.leaked)
      <3>1. PICK vma, pte, pt, pd : t.mm = MmOf(vma, pte, pt, pd)
        BY <2>2 DEF IsMm, MmOf
      <3>2. PICK tf, ok, ret, panic, lk : t = WorkOf(tf, t.mm, ok, ret, panic, lk)
        BY <2>2 DEF IsWork, WorkOf
      <3>3. t = WorkOf(tf, MmOf(vma, pte, pt, pd), ok, ret, panic, lk)
        BY <3>1, <3>2
      <3>4. /\ t.free = tf /\ t.ok = ok /\ t.ret = ret /\ t.panic = panic /\ t.leaked = lk
            /\ t.mm.vma = vma /\ t.mm.pte = pte /\ t.mm.pt = pt /\ t.mm.pd = pd
        BY <3>3 DEF WorkOf, MmOf
      <3>5. m = MmOf(vma, Put(pte, la, content), pt, pd)
        BY <2>1, <3>4
      <3>6. PICK put : put = Put(pte, la, content)
        OBVIOUS
      <3>7. u = [t EXCEPT !.mm.pte = put, !.free = fr]
        BY <1>4, <1>6, <2>4, <3>4, <3>6
      <3>8. u = WorkOf(fr, MmOf(vma, put, pt, pd), ok, ret, panic, lk)
        BY <3>3, <3>7 DEF WorkOf, MmOf
      <3> QED
        BY <3>4, <3>5, <3>6, <3>8
    <2>7. IsWork(u)
      <3>1. t.leaked \in Nat
        BY <2>2, WorkParts
      <3> QED
        BY <2>3, <2>5, <2>6, <3>1, WorkOfIs
    <2>8. u.free = fr /\ u.mm = m /\ u.ok = t.ok /\ u.ret = t.ret /\ u.panic = t.panic /\ u.leaked = t.leaked
      BY <2>6 DEF WorkOf
    <2>9. m.vma = t.mm.vma /\ m.pte = Put(t.mm.pte, la, content) /\ m.pt = t.mm.pt /\ m.pd = t.mm.pd
      BY <2>1 DEF MmOf
    <2>10. Worth(u) = Worth(t) + 1
      BY <2>2, <2>3, <2>4, <2>8 DEF Worth
    <2>11. Mapped(w, u, la, content, 1)
      BY <1>2, <1>6, <2>7, <2>8, <2>9, <2>10 DEF Mapped, Tabled, Kept2
    <2>12. u.ok
      BY <1>6, <2>8
    <2> QED
      BY <1>3, <2>11, <2>12
  <1> QED
    BY <1>5, <1>6

LEMMA PgdirAllocPage ==
    ASSUME NEW w, IsWork(w), w.ok, NEW la, NEW content
    PROVE  Mapped(w, pgdir_alloc_page(w, la, content), la, content, 0)
  <1>1. PICK a : a = alloc_pages(w, 1)
    OBVIOUS
  <1>2. /\ IsWork(a) /\ a.mm = w.mm /\ Kept2(w, a)
        /\ w.free < 1 => a.free = w.free /\ a.ok = FALSE
        /\ ~(w.free < 1) => a.free = w.free - 1 /\ a.ok = w.ok
    BY <1>1, AllocPages
  <1>3. PICK i : i = page_insert(a, la, content)
    OBVIOUS
  <1>4. PICK u : u = pgdir_alloc_page(w, la, content)
    OBVIOUS
  <1>5. u = IF a.ok THEN (IF i.ok THEN i ELSE free_pages(i, 1)) ELSE a
    BY <1>1, <1>3, <1>4 DEF pgdir_alloc_page
  <1>6. w.free \in Nat /\ Size(w.mm) \in Nat
    BY WorkParts, MmSize
  <1>7. CASE ~a.ok
    <2>1. u = a /\ a.free = w.free
      BY <1>2, <1>5, <1>7
    <2>2. Mapped(w, u, la, content, 0)
      BY <1>2, <1>7, <2>1 DEF Mapped, Worth
    <2> QED
      BY <1>4, <2>2
  <1>8. CASE a.ok
    <2>1. a.free = w.free - 1
      BY <1>2, <1>8
    <2>2. Worth(a) = Worth(w) - 1 /\ Worth(w) \in Int
      BY <1>2, <1>6, <2>1 DEF Worth
    <2>3. Mapped(a, i, la, content, 1)
      BY <1>2, <1>3, <1>8, PageInsert
    <2>4. CASE i.ok
      <3>1. u = i
        BY <1>5, <1>8, <2>4
      <3>2. Worth(u) = Worth(w) + 0
        BY <2>2, <2>3, <2>4, <3>1 DEF Mapped
      <3>3. Mapped(w, u, la, content, 0)
        BY <1>2, <2>3, <2>4, <3>1, <3>2 DEF Mapped, Kept2
      <3> QED
        BY <1>4, <3>3
    <2>5. CASE ~i.ok
      <3>1. u = free_pages(i, 1)
        BY <1>5, <1>8, <2>5
      <3>2. IsWork(i)
        BY <2>3 DEF Mapped
      <3>3. IsWork(u) /\ u.mm = i.mm /\ Kept2(i, u) /\ u.free = i.free + 1 /\ u.ok = i.ok
        BY <3>1, <3>2, FreePages
      <3>4. i.free \in Nat /\ Size(i.mm) \in Nat
        BY <3>2, WorkParts, MmSize
      <3>5. Worth(u) = Worth(i) + 1 /\ Worth(i) = Worth(a)
        BY <2>3, <2>5, <3>3, <3>4 DEF Worth, Mapped
      <3>6. Worth(u) = Worth(w)
        BY <2>2, <3>5
      <3>7. Mapped(w, u, la, content, 0)
        BY <1>2, <2>3, <2>5, <3>3, <3>6 DEF Mapped, Kept2
      <3> QED
        BY <1>4, <3>7
    <2> QED
      BY <2>4, <2>5
  <1> QED
    BY <1>7, <1>8

-----------------------------------------------------------------------------
(* The loops.                                                              *)
LEMMA CountUp ==
    ASSUME NEW n \in Nat, NEW Good, 0 \in Good, \A i \in 1 .. n : i - 1 \in Good => i \in Good
    PROVE  n \in Good
  <1> DEFINE P == {i \in Nat : i <= n => i \in Good}
  <1>1. 0 \in P
    OBVIOUS
  <1>2. ASSUME NEW i \in Nat, i \in P PROVE i + 1 \in P
    <2>1. i + 1 <= n => i + 1 \in 1 .. n /\ (i + 1) - 1 = i /\ i \in Good
      BY <1>2
    <2> QED
      BY <2>1
  <1> HIDE DEF P
  <1>3. Nat \subseteq P
    BY <1>1, <1>2, Induction
  <1>4. n \in P
    BY <1>3
  <1> QED
    BY <1>4 DEF P

(* What the i-th turn of a loop makes of u.                                *)
Fetch(a, whole) == IF a.ok THEN load_icode_read(a, whole) ELSE a
Turn(loop, u, i, x, y) ==
    CASE loop = "put_pages" -> (IF u.ok THEN pgdir_alloc_page(u, x[i].la, x[i].content) ELSE u)
      [] loop = "load_data" ->
           (IF u.ok THEN Fetch(pgdir_alloc_page(u, x[i].la, x[i].content), x[i].upto <= y) ELSE u)
      [] loop = "load_segments" -> load_segment(u, x[i])
      [] loop = "copy_range" ->
           (LET la == x.start + i - 1
            IN  IF la \in DOMAIN y.pte THEN copy_page(u, la, y.pte[la]) ELSE u)
      [] loop = "dup_mmap" ->
           (LET vma == x.vma[Len(x.vma) + 1 - i]
            IN  IF u.ok
                THEN copy_range([u EXCEPT !.mm.vma = insert_vma_struct(@, vma)], x, vma)
                ELSE u)
      [] loop = "unmap_all" -> unmap_range(u, x[i])
      [] loop = "exit_all" -> exit_range(u, x[i])
      [] loop = "exit_range" -> exit_pd(u, x, PD(x.start) + i - 1)

Turns(g, loop, w, n, x, y) ==
    g = [i \in 0 .. n |-> IF i = 0 THEN w ELSE Turn(loop, g[i - 1], i, x, y)]

LEMMA TurnsExist ==
    ASSUME NEW loop, NEW w, NEW n \in Nat, NEW x, NEW y
    PROVE  \E g : Turns(g, loop, w, n, x, y)
  <1> DEFINE Good == {m \in Nat : \E g : Turns(g, loop, w, m, x, y)}
  <1>1. 0 \in Good
    <2>1. Turns([i \in 0 .. 0 |-> w], loop, w, 0, x, y)
      BY DEF Turns
    <2> QED
      BY <2>1
  <1>2. ASSUME NEW m \in Nat, m \in Good PROVE m + 1 \in Good
    <2>1. PICK g : Turns(g, loop, w, m, x, y)
      BY <1>2
    <2> DEFINE h == [i \in 0 .. m + 1 |-> IF i = m + 1 THEN Turn(loop, g[m], m + 1, x, y) ELSE g[i]]
    <2>2. ASSUME NEW i \in 0 .. m + 1
          PROVE  h[i] = IF i = 0 THEN w ELSE Turn(loop, h[i - 1], i, x, y)
      <3>1. CASE i = m + 1
        <4>1. i # 0 /\ i - 1 = m /\ m \in 0 .. m + 1 /\ m # m + 1
          BY <3>1
        <4> QED
          BY <3>1, <4>1
      <3>2. CASE i # m + 1
        <4>1. i \in 0 .. m /\ (i # 0 => i - 1 \in 0 .. m + 1 /\ i - 1 # m + 1)
          BY <3>2
        <4>2. g[i] = IF i = 0 THEN w ELSE Turn(loop, g[i - 1], i, x, y)
          BY <2>1, <4>1 DEF Turns
        <4> QED
          BY <3>2, <4>1, <4>2
      <3> QED
        BY <3>1, <3>2
    <2>3. Turns(h, loop, w, m + 1, x, y)
      BY <2>2 DEF Turns
    <2> HIDE DEF h
    <2>4. \E k : Turns(k, loop, w, m + 1, x, y)
      BY <2>3
    <2> QED
      BY <2>4
  <1> HIDE DEF Good
  <1>3. Nat \subseteq Good
    BY <1>1, <1>2, Induction
  <1> QED
    BY <1>3 DEF Good

LEMMA PutPagesTurns ==
    ASSUME NEW w, NEW pages, Len(pages) \in Nat
    PROVE  \E g : /\ Turns(g, "put_pages", w, Len(pages), pages, 0)
                  /\ put_pages(w, pages) = g[Len(pages)]
  <1>1. PICK n \in Nat : n = Len(pages)
    OBVIOUS
  <1> DEFINE g == CHOOSE h : h = [i \in 0 .. n |->
                     IF i = 0 THEN w
                     ELSE IF h[i - 1].ok THEN pgdir_alloc_page(h[i - 1], pages[i].la, pages[i].content)
                     ELSE h[i - 1]]
  <1>2. put_pages(w, pages) = g[n]
    BY <1>1 DEF put_pages
  <1>3. \A h, i : Turn("put_pages", h[i - 1], i, pages, 0)
                 = IF h[i - 1].ok THEN pgdir_alloc_page(h[i - 1], pages[i].la, pages[i].content)
                   ELSE h[i - 1]
    BY DEF Turn
  <1>4. \E h : Turns(h, "put_pages", w, n, pages, 0)
    BY TurnsExist
  <1>5. \A h : Turns(h, "put_pages", w, n, pages, 0)
          <=> h = [i \in 0 .. n |->
                     IF i = 0 THEN w
                     ELSE IF h[i - 1].ok THEN pgdir_alloc_page(h[i - 1], pages[i].la, pages[i].content)
                     ELSE h[i - 1]]
    BY <1>3, Zenon DEF Turns
  <1>6. Turns(g, "put_pages", w, n, pages, 0)
    BY <1>4, <1>5, Zenon
  <1> HIDE DEF g
  <1> QED
    BY <1>1, <1>2, <1>6

LEMMA LoadDataTurns ==
    ASSUME NEW w, NEW seg, NEW pages, pages = DataPages(seg), Len(pages) \in Nat
    PROVE  \E g : /\ Turns(g, "load_data", w, Len(pages), pages, seg.there)
                  /\ load_data(w, seg) = g[Len(pages)]
  <1>1. PICK n \in Nat : n = Len(pages)
    OBVIOUS
  <1> DEFINE g == CHOOSE h : h = [i \in 0 .. n |->
                     IF i = 0 THEN w
                     ELSE IF h[i - 1].ok
                     THEN Fetch(pgdir_alloc_page(h[i - 1], pages[i].la, pages[i].content),
                                pages[i].upto <= seg.there)
                     ELSE h[i - 1]]
  <1>2. load_data(w, seg) = g[n]
    BY <1>1 DEF load_data, Fetch
  <1>3. \A h, i : Turn("load_data", h[i - 1], i, pages, seg.there)
                 = IF h[i - 1].ok
                   THEN Fetch(pgdir_alloc_page(h[i - 1], pages[i].la, pages[i].content),
                              pages[i].upto <= seg.there)
                   ELSE h[i - 1]
    BY DEF Turn
  <1>4. \E h : Turns(h, "load_data", w, n, pages, seg.there)
    BY TurnsExist
  <1>5. \A h : Turns(h, "load_data", w, n, pages, seg.there)
          <=> h = [i \in 0 .. n |->
                     IF i = 0 THEN w
                     ELSE IF h[i - 1].ok
                     THEN Fetch(pgdir_alloc_page(h[i - 1], pages[i].la, pages[i].content),
                                pages[i].upto <= seg.there)
                     ELSE h[i - 1]]
    BY <1>3, Zenon DEF Turns
  <1>6. Turns(g, "load_data", w, n, pages, seg.there)
    BY <1>4, <1>5, Zenon
  <1> HIDE DEF g
  <1> QED
    BY <1>1, <1>2, <1>6

LEMMA LoadSegmentsTurns ==
    ASSUME NEW w, NEW elf, Len(elf) \in Nat
    PROVE  \E g : Turns(g, "load_segments", w, Len(elf), elf, 0)
           /\ load_segments(w, elf) = g[Len(elf)]
  <1>1. PICK n \in Nat : n = Len(elf)
    OBVIOUS
  <1> DEFINE g == CHOOSE h : h = [i \in 0 .. n |-> IF i = 0 THEN w ELSE load_segment(h[i - 1], elf[i])]
  <1>2. load_segments(w, elf) = g[n]
    BY <1>1 DEF load_segments
  <1>3. \A h, i : Turn("load_segments", h[i - 1], i, elf, 0) = load_segment(h[i - 1], elf[i])
    BY DEF Turn
  <1>4. \E h : Turns(h, "load_segments", w, n, elf, 0)
    BY TurnsExist
  <1>5. \A h : Turns(h, "load_segments", w, n, elf, 0)
          <=> h = [i \in 0 .. n |-> IF i = 0 THEN w ELSE load_segment(h[i - 1], elf[i])]
    BY <1>3, Zenon DEF Turns
  <1>6. Turns(g, "load_segments", w, n, elf, 0)
    BY <1>4, <1>5, Zenon
  <1> HIDE DEF g
  <1> QED
    BY <1>1, <1>2, <1>6

LEMMA CopyRangeTurns ==
    ASSUME NEW w, NEW from, NEW vma, vma.end - vma.start \in Nat
    PROVE  \E g : Turns(g, "copy_range", w, (vma.end - vma.start), vma, from)
           /\ copy_range(w, from, vma) = g[(vma.end - vma.start)]
  <1>1. PICK n \in Nat : n = (vma.end - vma.start)
    OBVIOUS
  <1> DEFINE g == CHOOSE h : h = [i \in 0 .. n |-> IF i = 0 THEN w ELSE
        (LET la == vma.start + i - 1
         IN IF la \in DOMAIN from.pte THEN copy_page(h[i - 1], la, from.pte[la]) ELSE h[i - 1])]
  <1>2. copy_range(w, from, vma) = g[n]
    BY <1>1 DEF copy_range
  <1>3. \A h, i : Turn("copy_range", h[i - 1], i, vma, from) =
        (LET la == vma.start + i - 1
         IN IF la \in DOMAIN from.pte THEN copy_page(h[i - 1], la, from.pte[la]) ELSE h[i - 1])
    BY DEF Turn
  <1>4. \E h : Turns(h, "copy_range", w, n, vma, from)
    BY TurnsExist
  <1>5. \A h : Turns(h, "copy_range", w, n, vma, from)
          <=> h = [i \in 0 .. n |-> IF i = 0 THEN w ELSE
                (LET la == vma.start + i - 1
                 IN IF la \in DOMAIN from.pte THEN copy_page(h[i - 1], la, from.pte[la]) ELSE h[i - 1])]
    BY <1>3, Zenon DEF Turns
  <1>6. Turns(g, "copy_range", w, n, vma, from)
    BY <1>4, <1>5, Zenon
  <1> HIDE DEF g
  <1> QED
    BY <1>1, <1>2, <1>6

LEMMA DupMmapTurns ==
    ASSUME NEW w, NEW from, Len(from.vma) \in Nat
    PROVE  \E g : Turns(g, "dup_mmap", w, Len(from.vma), from, 0)
           /\ dup_mmap(w, from) = g[Len(from.vma)]
  <1>1. PICK n \in Nat : n = Len(from.vma)
    OBVIOUS
  <1> DEFINE g == CHOOSE h : h = [i \in 0 .. n |-> IF i = 0 THEN w ELSE
        (LET vma == from.vma[Len(from.vma) + 1 - i]
         IN IF h[i - 1].ok THEN copy_range([h[i - 1] EXCEPT !.mm.vma = insert_vma_struct(@, vma)], from, vma) ELSE h[i - 1])]
  <1>2. dup_mmap(w, from) = g[n]
    BY <1>1 DEF dup_mmap
  <1>3. \A h, i : Turn("dup_mmap", h[i - 1], i, from, 0) =
        (LET vma == from.vma[Len(from.vma) + 1 - i]
         IN IF h[i - 1].ok THEN copy_range([h[i - 1] EXCEPT !.mm.vma = insert_vma_struct(@, vma)], from, vma) ELSE h[i - 1])
    BY DEF Turn
  <1>4. \E h : Turns(h, "dup_mmap", w, n, from, 0)
    BY TurnsExist
  <1>5. \A h : Turns(h, "dup_mmap", w, n, from, 0)
          <=> h = [i \in 0 .. n |-> IF i = 0 THEN w ELSE
                (LET vma == from.vma[Len(from.vma) + 1 - i]
                 IN IF h[i - 1].ok THEN copy_range([h[i - 1] EXCEPT !.mm.vma = insert_vma_struct(@, vma)], from, vma) ELSE h[i - 1])]
    BY <1>3, Zenon DEF Turns
  <1>6. Turns(g, "dup_mmap", w, n, from, 0)
    BY <1>4, <1>5, Zenon
  <1> HIDE DEF g
  <1> QED
    BY <1>1, <1>2, <1>6

LEMMA UnmapAllTurns ==
    ASSUME NEW w, NEW list, Len(list) \in Nat
    PROVE  \E g : Turns(g, "unmap_all", w, Len(list), list, 0) /\ unmap_all(w, list) = g[Len(list)]
  <1>1. PICK n \in Nat : n = Len(list)
    OBVIOUS
  <1> DEFINE g == CHOOSE h : h = [i \in 0 .. n |-> IF i = 0 THEN w ELSE unmap_range(h[i - 1], list[i])]
  <1>2. unmap_all(w, list) = g[n]
    BY <1>1 DEF unmap_all
  <1>3. \A h, i : Turn("unmap_all", h[i - 1], i, list, 0) = unmap_range(h[i - 1], list[i])
    BY DEF Turn
  <1>4. \E h : Turns(h, "unmap_all", w, n, list, 0)
    BY TurnsExist
  <1>5. \A h : Turns(h, "unmap_all", w, n, list, 0)
          <=> h = [i \in 0 .. n |-> IF i = 0 THEN w ELSE unmap_range(h[i - 1], list[i])]
    BY <1>3, Zenon DEF Turns
  <1>6. Turns(g, "unmap_all", w, n, list, 0)
    BY <1>4, <1>5, Zenon
  <1> HIDE DEF g
  <1> QED
    BY <1>1, <1>2, <1>6

LEMMA ExitAllTurns ==
    ASSUME NEW w, NEW list, Len(list) \in Nat
    PROVE  \E g : Turns(g, "exit_all", w, Len(list), list, 0) /\ exit_all(w, list) = g[Len(list)]
  <1>1. PICK n \in Nat : n = Len(list)
    OBVIOUS
  <1> DEFINE g == CHOOSE h : h = [i \in 0 .. n |-> IF i = 0 THEN w ELSE exit_range(h[i - 1], list[i])]
  <1>2. exit_all(w, list) = g[n]
    BY <1>1 DEF exit_all
  <1>3. \A h, i : Turn("exit_all", h[i - 1], i, list, 0) = exit_range(h[i - 1], list[i])
    BY DEF Turn
  <1>4. \E h : Turns(h, "exit_all", w, n, list, 0)
    BY TurnsExist
  <1>5. \A h : Turns(h, "exit_all", w, n, list, 0)
          <=> h = [i \in 0 .. n |-> IF i = 0 THEN w ELSE exit_range(h[i - 1], list[i])]
    BY <1>3, Zenon DEF Turns
  <1>6. Turns(g, "exit_all", w, n, list, 0)
    BY <1>4, <1>5, Zenon
  <1> HIDE DEF g
  <1> QED
    BY <1>1, <1>2, <1>6

LEMMA ExitRangeTurns ==
    ASSUME NEW w, NEW vma, PD(vma.end - 1) - PD(vma.start) + 1 \in Nat
    PROVE  \E g : Turns(g, "exit_range", w, (PD(vma.end - 1) - PD(vma.start) + 1), vma, 0)
           /\ exit_range(w, vma) = g[(PD(vma.end - 1) - PD(vma.start) + 1)]
  <1>1. PICK n \in Nat : n = (PD(vma.end - 1) - PD(vma.start) + 1)
    OBVIOUS
  <1> DEFINE g == CHOOSE h : h = [i \in 0 .. n |-> IF i = 0 THEN w ELSE exit_pd(h[i - 1], vma, PD(vma.start) + i - 1)]
  <1>2. exit_range(w, vma) = g[n]
    BY <1>1 DEF exit_range
  <1>3. \A h, i : Turn("exit_range", h[i - 1], i, vma, 0) = exit_pd(h[i - 1], vma, PD(vma.start) + i - 1)
    BY DEF Turn
  <1>4. \E h : Turns(h, "exit_range", w, n, vma, 0)
    BY TurnsExist
  <1>5. \A h : Turns(h, "exit_range", w, n, vma, 0)
          <=> h = [i \in 0 .. n |-> IF i = 0 THEN w ELSE exit_pd(h[i - 1], vma, PD(vma.start) + i - 1)]
    BY <1>3, Zenon DEF Turns
  <1>6. Turns(g, "exit_range", w, n, vma, 0)
    BY <1>4, <1>5, Zenon
  <1> HIDE DEF g
  <1> QED
    BY <1>1, <1>2, <1>6

-----------------------------------------------------------------------------
(* The tables are those of the pages.                                      *)
TablesFit(m) ==
    /\ m.pt = {PT(la) : la \in DOMAIN m.pte}
    /\ m.pd = {PD(la) : la \in DOMAIN m.pte}

(* The first k pages have been mapped, each where nothing else was put.     *)
Las(pages, k) == {pages[i].la : i \in 1 .. k}
Apart(pages) == \A i, j \in 1 .. Len(pages) : pages[i].la = pages[j].la => i = j
Pted(w, u, pages, k) ==
    /\ DOMAIN u.mm.pte = DOMAIN w.mm.pte \cup Las(pages, k)
    /\ \A la \in DOMAIN w.mm.pte \ Las(pages, k) : u.mm.pte[la] = w.mm.pte[la]
    /\ \A i \in 1 .. k : u.mm.pte[pages[i].la] = pages[i].content
    /\ TablesFit(w.mm) => TablesFit(u.mm)
Filled(w, u, pages, k) ==
    /\ IsWork(u) /\ Kept2(w, u) /\ u.mm.vma = w.mm.vma /\ Worth(u) = Worth(w)
    /\ u.ok => w.ok /\ Pted(w, u, pages, k)

LEMMA PutFits ==
    ASSUME NEW m, IsMm(m), TablesFit(m), NEW x, NEW la, NEW content,
           x.pte = Put(m.pte, la, content),
           x.pt = m.pt \cup {PT(la)}, x.pd = m.pd \cup {PD(la)}
    PROVE  TablesFit(x)
  <1>1. Replaced(x.pte, m.pte, la, content)
    BY PutMap, MmParts
  <1>2. DOMAIN x.pte = DOMAIN m.pte \cup {la}
    BY <1>1 DEF Replaced
  <1> QED
    BY <1>2 DEF TablesFit

LEMMA NothingFilled ==
    ASSUME NEW w, IsWork(w), NEW pages PROVE Filled(w, w, pages, 0)
  <1>1. Las(pages, 0) = {} /\ 1 .. 0 = {}
    BY DEF Las
  <1> QED
    BY <1>1 DEF Filled, Pted, Kept2

LEMMA OneFilledMore ==
    ASSUME NEW w, NEW u, NEW pages, Len(pages) \in Nat, Apart(pages),
           NEW i \in 1 .. Len(pages), Filled(w, u, pages, i - 1), u.ok
    PROVE  Filled(w, pgdir_alloc_page(u, pages[i].la, pages[i].content), pages, i)
  <1>1. PICK v : v = pgdir_alloc_page(u, pages[i].la, pages[i].content)
    OBVIOUS
  <1>2. PICK la, content : la = pages[i].la /\ content = pages[i].content
    OBVIOUS
  <1>3. IsWork(u) /\ Pted(w, u, pages, i - 1)
    BY DEF Filled
  <1>4. Mapped(u, v, la, content, 0)
    BY <1>1, <1>2, <1>3, PgdirAllocPage
  <1>5. IsMm(u.mm) /\ u.free \in Nat /\ Size(u.mm) \in Nat
    BY <1>3, WorkParts, MmSize
  <1>6. Worth(v) = Worth(u)
    BY <1>4, <1>5 DEF Mapped, Worth
  <1>7. ASSUME v.ok PROVE Pted(w, v, pages, i)
    <2>1. /\ v.mm.pte = Put(u.mm.pte, la, content)
          /\ v.mm.pt = u.mm.pt \cup {PT(la)} /\ v.mm.pd = u.mm.pd \cup {PD(la)}
      BY <1>4, <1>7 DEF Mapped
    <2>2. Replaced(v.mm.pte, u.mm.pte, la, content)
      BY <1>5, <2>1, PutMap, MmParts
    <2>3. Las(pages, i) = Las(pages, i - 1) \cup {la}
      <3>1. 1 .. i = (1 .. i - 1) \cup {i}
        OBVIOUS
      <3> QED
        BY <1>2, <3>1 DEF Las
    <2>4. DOMAIN v.mm.pte = DOMAIN w.mm.pte \cup Las(pages, i)
      BY <1>3, <2>2, <2>3 DEF Replaced, Pted
    <2>5. \A x \in DOMAIN w.mm.pte \ Las(pages, i) : v.mm.pte[x] = w.mm.pte[x]
      <3> TAKE x \in DOMAIN w.mm.pte \ Las(pages, i)
      <3>1. x # la /\ x \in DOMAIN w.mm.pte \ Las(pages, i - 1)
        BY <2>3
      <3>2. x \in DOMAIN u.mm.pte \ {la}
        BY <1>3, <3>1 DEF Pted
      <3> QED
        BY <1>3, <2>2, <3>1, <3>2 DEF Replaced, Pted
    <2>6. \A j \in 1 .. i : v.mm.pte[pages[j].la] = pages[j].content
      <3> TAKE j \in 1 .. i
      <3>1. CASE j = i
        BY <1>2, <2>2, <3>1 DEF Replaced
      <3>2. CASE j # i
        <4>1. j \in 1 .. i - 1 /\ j \in 1 .. Len(pages)
          BY <3>2
        <4>2. pages[j].la # la
          BY <1>2, <3>2, <4>1 DEF Apart
        <4>3. pages[j].la \in DOMAIN u.mm.pte \ {la}
          BY <1>3, <4>1, <4>2 DEF Pted, Las
        <4>4. u.mm.pte[pages[j].la] = pages[j].content
          BY <1>3, <4>1 DEF Pted
        <4> QED
          BY <2>2, <4>3, <4>4 DEF Replaced
      <3> QED
        BY <3>1, <3>2
    <2>7. TablesFit(w.mm) => TablesFit(v.mm)
      BY <1>3, <1>5, <2>1, PutFits DEF Pted
    <2> QED
      BY <2>4, <2>5, <2>6, <2>7 DEF Pted
  <1>8. Filled(w, v, pages, i)
    BY <1>4, <1>6, <1>7 DEF Filled, Mapped, Kept2
  <1> QED
    BY <1>1, <1>8

LEMMA PutPages ==
    ASSUME NEW w, IsWork(w), NEW pages, Len(pages) \in Nat, Apart(pages)
    PROVE  Filled(w, put_pages(w, pages), pages, Len(pages))
  <1>1. PICK n \in Nat : n = Len(pages)
    OBVIOUS
  <1>2. PICK g : Turns(g, "put_pages", w, n, pages, 0) /\ put_pages(w, pages) = g[n]
    BY <1>1, PutPagesTurns
  <1>3. g[0] = w /\ \A i \in 1 .. n : g[i] = Turn("put_pages", g[i - 1], i, pages, 0)
    BY <1>2 DEF Turns
  <1> DEFINE Good == {i \in 0 .. n : Filled(w, g[i], pages, i)}
  <1>4. 0 \in Good
    BY <1>3, NothingFilled
  <1>5. ASSUME NEW i \in 1 .. n, i - 1 \in Good PROVE i \in Good
    <2>1. Filled(w, g[i - 1], pages, i - 1)
      BY <1>5
    <2>2. g[i] = IF g[i - 1].ok THEN pgdir_alloc_page(g[i - 1], pages[i].la, pages[i].content)
                 ELSE g[i - 1]
      BY <1>3 DEF Turn
    <2>3. CASE g[i - 1].ok
      <3>1. Filled(w, g[i], pages, i)
        BY <1>1, <2>1, <2>2, <2>3, OneFilledMore
      <3> QED
        BY <3>1
    <2>4. CASE ~g[i - 1].ok
      <3>1. g[i] = g[i - 1]
        BY <2>2, <2>4
      <3>2. Filled(w, g[i], pages, i)
        BY <2>1, <2>4, <3>1 DEF Filled
      <3> QED
        BY <3>2
    <2> QED
      BY <2>3, <2>4
  <1> HIDE DEF Good
  <1>6. n \in Good
    BY <1>4, <1>5, CountUp
  <1> QED
    BY <1>1, <1>2, <1>6 DEF Good

(* A read of the program's file changes nothing but the outcome.            *)
Fetched1(w, u) ==
    /\ IsWork(u) /\ u.free = w.free /\ u.mm = w.mm
    /\ u.panic = w.panic /\ u.leaked = w.leaked
    /\ u.ok => u = w
    /\ ~u.ok => u.ret \in {"E_NO_MEM", "-1"}

LEMMA IcodeRead ==
    ASSUME NEW w, IsWork(w), w.ok, NEW whole
    PROVE  Fetched1(w, load_icode_read(w, whole))
  <1>1. PICK u : u = load_icode_read(w, whole)
    OBVIOUS
  <1>2. u = w \/ \E x \in {"E_NO_MEM", "-1"} : u = [Fails(w) EXCEPT !.ret = x]
    BY <1>1, Zenon DEF load_icode_read
  <1>3. CASE u = w
    BY <1>1, <1>3 DEF Fetched1
  <1>4. ASSUME NEW x \in {"E_NO_MEM", "-1"}, u = [Fails(w) EXCEPT !.ret = x] PROVE Fetched1(w, u)
    <2>1. PICK no : no = FALSE
      OBVIOUS
    <2>2. u = WorkOf(w.free, w.mm, no, x, w.panic, w.leaked)
      BY <1>4, <2>1, FailsWith, Zenon
    <2>3. IsWork(u)
      BY <2>2, WorkOfIs, WorkParts
    <2>4. u.free = w.free /\ u.mm = w.mm /\ u.ok = no /\ u.ret = x /\ u.panic = w.panic
          /\ u.leaked = w.leaked
      BY <2>2, WorkFields
    <2> QED
      BY <2>1, <2>3, <2>4 DEF Fetched1
  <1> QED
    BY <1>1, <1>2, <1>3, <1>4

(* As Filled, when the contents of the pages are read from the file.       *)
Fetched(w, u, pages, k) ==
    /\ IsWork(u) /\ u.panic = w.panic /\ u.leaked = w.leaked
    /\ u.mm.vma = w.mm.vma /\ Worth(u) = Worth(w)
    /\ u.ok => w.ok /\ u.ret = w.ret /\ Pted(w, u, pages, k)
    /\ u.ret \in {w.ret, "E_NO_MEM", "-1"}

LEMMA OneFetchedMore ==
    ASSUME NEW w, NEW u, NEW pages, Len(pages) \in Nat, Apart(pages), NEW whole,
           NEW i \in 1 .. Len(pages), Fetched(w, u, pages, i - 1), u.ok
    PROVE  Fetched(w, Fetch(pgdir_alloc_page(u, pages[i].la, pages[i].content), whole), pages, i)
  <1>1. PICK a : a = pgdir_alloc_page(u, pages[i].la, pages[i].content)
    OBVIOUS
  <1>2. Filled(w, u, pages, i - 1)
    BY DEF Fetched, Filled, Kept2
  <1>3. Filled(w, a, pages, i)
    BY <1>1, <1>2, OneFilledMore
  <1>4. CASE a.ok
    <2>1. PICK v : v = load_icode_read(a, whole)
      OBVIOUS
    <2>2. Fetched1(a, v)
      BY <1>3, <1>4, <2>1, IcodeRead DEF Filled
    <2>3. Fetched(w, v, pages, i)
      BY <1>3, <1>4, <2>2 DEF Fetched1, Filled, Fetched, Kept2, Worth
    <2> QED
      BY <1>1, <1>4, <2>1, <2>3 DEF Fetch
  <1>5. CASE ~a.ok
    BY <1>1, <1>3, <1>5 DEF Fetch, Filled, Fetched, Kept2
  <1> QED
    BY <1>4, <1>5

LEMMA LoadData ==
    ASSUME NEW w, IsWork(w), NEW seg, NEW pages, pages = DataPages(seg),
           Len(pages) \in Nat, Apart(pages)
    PROVE  Fetched(w, load_data(w, seg), pages, Len(pages))
  <1>1. PICK n \in Nat : n = Len(pages)
    OBVIOUS
  <1>2. PICK g : Turns(g, "load_data", w, n, pages, seg.there) /\ load_data(w, seg) = g[n]
    BY <1>1, LoadDataTurns
  <1>3. g[0] = w /\ \A i \in 1 .. n : g[i] = Turn("load_data", g[i - 1], i, pages, seg.there)
    BY <1>2 DEF Turns
  <1> DEFINE Good == {i \in 0 .. n : Fetched(w, g[i], pages, i)}
  <1>4. 0 \in Good
    <2>1. Fetched(w, w, pages, 0)
      BY NothingFilled DEF Filled, Fetched
    <2> QED
      BY <1>3, <2>1
  <1>5. ASSUME NEW i \in 1 .. n, i - 1 \in Good PROVE i \in Good
    <2>1. Fetched(w, g[i - 1], pages, i - 1)
      BY <1>5
    <2>2. g[i] = IF g[i - 1].ok
                 THEN Fetch(pgdir_alloc_page(g[i - 1], pages[i].la, pages[i].content),
                            pages[i].upto <= seg.there)
                 ELSE g[i - 1]
      BY <1>3 DEF Turn
    <2>3. CASE g[i - 1].ok
      <3>1. Fetched(w, g[i], pages, i)
        BY <1>1, <2>1, <2>2, <2>3, OneFetchedMore
      <3> QED
        BY <3>1
    <2>4. CASE ~g[i - 1].ok
      <3>1. g[i] = g[i - 1]
        BY <2>2, <2>4
      <3>2. Fetched(w, g[i], pages, i)
        BY <2>1, <2>4, <3>1 DEF Fetched
      <3> QED
        BY <3>2
    <2> QED
      BY <2>3, <2>4
  <1> HIDE DEF Good
  <1>6. n \in Good
    BY <1>4, <1>5, CountUp
  <1> QED
    BY <1>1, <1>2, <1>6 DEF Good

-----------------------------------------------------------------------------
(* The list of vmas.                                                       *)
Elems(list) == {list[i] : i \in 1 .. Len(list)}

Added(more, list, vma) == more \in Seq(VmaSet) /\ Elems(more) = Elems(list) \cup {vma}

LEMMA InsertAdds ==
    ASSUME NEW list \in Seq(VmaSet), NEW vma \in VmaSet
    PROVE  Added(insert_vma_struct(list, vma), list, vma)
  <1>1. PICK n \in Nat : n = Len(list)
    OBVIOUS
  <1>2. PICK k : k = Cardinality({i \in DOMAIN list : list[i].start <= vma.start})
    OBVIOUS
  <1>3. k \in 0 .. n
    <2>1. {i \in DOMAIN list : list[i].start <= vma.start} \in SUBSET (1 .. n)
      BY <1>1
    <2>2. IsFiniteSet(1 .. n) /\ Cardinality(1 .. n) = n
      <3>1. IsFiniteSet(1 .. n) /\ Cardinality(1 .. n) = IF 1 > n THEN 0 ELSE n - 1 + 1
        BY FS_Interval
      <3> QED
        BY <3>1
    <2> QED
      BY <1>2, <2>1, <2>2, FS_Subset, FS_CardinalityType
  <1>4. PICK more : more = [i \in 1 .. n + 1 |-> IF i <= k THEN list[i] ELSE IF i = k + 1 THEN vma ELSE list[i - 1]]
    OBVIOUS
  <1>5. more \in Seq(VmaSet) /\ Len(more) = n + 1
    <2>1. \A i \in 1 .. n + 1 : more[i] \in VmaSet
      BY <1>1, <1>3, <1>4
    <2> QED
      BY <1>4, <2>1
  <1>6. insert_vma_struct(list, vma) = more
    <2>1. insert_vma_struct(list, vma) = SubSeq(list, 1, k) \o <<vma>> \o SubSeq(list, k + 1, n)
      <3>1. insert_vma_struct(list, vma) = InsertAt(list, k + 1, vma)
        BY <1>2 DEF insert_vma_struct
      <3>2. InsertAt(list, k + 1, vma) = SubSeq(list, 1, (k + 1) - 1) \o <<vma>> \o SubSeq(list, k + 1, n)
        BY <1>1 DEF InsertAt
      <3>3. (k + 1) - 1 = k
        BY <1>3
      <3> QED
        BY <3>1, <3>2, <3>3
    <2>2. SubSeq(list, 1, k) = [i \in 1 .. k |-> list[i]] /\ SubSeq(list, 1, k) \in Seq(VmaSet)
      BY <1>1, <1>3
    <2>3. /\ SubSeq(list, k + 1, n) = [i \in 1 .. n - k |-> list[i + k]]
          /\ SubSeq(list, k + 1, n) \in Seq(VmaSet)
      BY <1>1, <1>3
    <2>4. PICK a \in Seq(VmaSet) : a = SubSeq(list, 1, k)
      BY <2>2
    <2>5. PICK b \in Seq(VmaSet) : b = SubSeq(list, k + 1, n)
      BY <2>3
    <2>6. /\ Len(a) = k /\ \A i \in 1 .. k : a[i] = list[i]
          /\ Len(b) = n - k /\ \A i \in 1 .. n - k : b[i] = list[i + k]
      BY <1>1, <1>3, <2>2, <2>3, <2>4, <2>5
    <2>7. PICK c \in Seq(VmaSet) : c = a \o <<vma>>
      <3>1. <<vma>> \in Seq(VmaSet)
        OBVIOUS
      <3>2. a \o <<vma>> \in Seq(VmaSet)
        BY <3>1
      <3> QED
        BY <3>2
    <2>8. Len(c) = k + 1 /\ \A i \in 1 .. k : c[i] = list[i]
      BY <2>6, <2>7
    <2>9. c[k + 1] = vma
      BY <1>3, <2>6, <2>7
    <2>10. PICK d \in Seq(VmaSet) : d = c \o b
      <3>1. c \o b \in Seq(VmaSet)
        OBVIOUS
      <3> QED
        BY <3>1
    <2>11. Len(d) = n + 1
      BY <1>1, <1>3, <2>6, <2>8, <2>10
    <2>12. ASSUME NEW i \in 1 .. n + 1 PROVE d[i] = more[i]
      <3>1. CASE i <= k + 1
        <4>1. d[i] = c[i]
          BY <1>3, <2>8, <2>10, <3>1
        <4> QED
          BY <1>3, <1>4, <2>8, <2>9, <3>1, <4>1
      <3>2. CASE ~(i <= k + 1)
        <4>1. d[i] = b[i - (k + 1)]
          BY <1>1, <1>3, <2>6, <2>8, <2>10, <2>11, <3>2
        <4>2. i - (k + 1) \in 1 .. n - k
          BY <1>1, <1>3, <3>2
        <4>3. (i - (k + 1)) + k = i - 1
          BY <1>3
        <4>4. b[i - (k + 1)] = list[i - 1]
          BY <2>6, <4>2, <4>3
        <4>5. more[i] = list[i - 1]
          BY <1>3, <1>4, <3>2
        <4> QED
          BY <4>1, <4>4, <4>5
      <3> QED
        BY <3>1, <3>2
    <2>13. d = more
      BY <1>5, <2>11, <2>12
    <2> QED
      BY <2>1, <2>4, <2>5, <2>7, <2>10, <2>13
  <1>7. Elems(more) = Elems(list) \cup {vma}
    <2>1. ASSUME NEW i \in 1 .. n + 1 PROVE more[i] \in Elems(list) \cup {vma}
      BY <1>1, <1>3, <1>4 DEF Elems
    <2>2. more[k + 1] = vma /\ k + 1 \in 1 .. n + 1
      BY <1>1, <1>3, <1>4
    <2>3. ASSUME NEW i \in 1 .. n PROVE list[i] \in Elems(more)
      <3>1. CASE i <= k
        <4>1. more[i] = list[i] /\ i \in 1 .. n + 1
          BY <1>1, <1>4, <3>1
        <4> QED
          BY <1>5, <4>1 DEF Elems
      <3>2. CASE ~(i <= k)
        <4>1. more[i + 1] = list[i] /\ i + 1 \in 1 .. n + 1
          BY <1>1, <1>3, <1>4, <3>2
        <4> QED
          BY <1>5, <4>1 DEF Elems
      <3> QED
        BY <3>1, <3>2
    <2> QED
      BY <1>1, <1>5, <2>1, <2>2, <2>3 DEF Elems
  <1> QED
    BY <1>5, <1>6, <1>7 DEF Added

LEMMA VmaMore ==
    ASSUME NEW m, IsMm(m), NEW vma \in VmaSet
    PROVE  LET x == MmOf(insert_vma_struct(m.vma, vma), m.pte, m.pt, m.pd)
           IN  IsMm(x) /\ Size(x) = Size(m) /\ Elems(x.vma) = Elems(m.vma) \cup {vma}
  <1>1. PICK x : x = MmOf(insert_vma_struct(m.vma, vma), m.pte, m.pt, m.pd)
    OBVIOUS
  <1>2. Added(insert_vma_struct(m.vma, vma), m.vma, vma)
    BY InsertAdds, MmParts
  <1>3. x.vma = insert_vma_struct(m.vma, vma) /\ x.pte = m.pte /\ x.pt = m.pt /\ x.pd = m.pd
    BY <1>1, MmFields
  <1>4. IsMm(x)
    BY <1>1, <1>2, MmOfIs, MmParts DEF Added
  <1>5. Size(x) = Size(m)
    BY <1>3, <1>4, MmSize
  <1> QED
    BY <1>1, <1>2, <1>3, <1>4, <1>5 DEF Added

(* A vma more, away from all others; or there is one, and nothing happens.  *)
Inserted(w, u, vma) ==
    /\ IsWork(u) /\ Kept2(w, u) /\ u.ok = w.ok /\ Worth(u) = Worth(w)
    /\ u.mm.pte = w.mm.pte /\ u.mm.pt = w.mm.pt /\ u.mm.pd = w.mm.pd
    /\ Elems(u.mm.vma) = Elems(w.mm.vma) \cup {vma}

LEMMA InsertVma ==
    ASSUME NEW w, IsWork(w), NEW vma \in VmaSet
    PROVE  Inserted(w, [w EXCEPT !.mm.vma = insert_vma_struct(@, vma)], vma)
  <1>1. PICK more : more = insert_vma_struct(w.mm.vma, vma)
    OBVIOUS
  <1>2. PICK m : m = MmOf(more, w.mm.pte, w.mm.pt, w.mm.pd)
    OBVIOUS
  <1>3. IsMm(w.mm) /\ w.free \in Nat
    BY WorkParts
  <1>4. IsMm(m) /\ Size(m) = Size(w.mm) /\ Elems(m.vma) = Elems(w.mm.vma) \cup {vma}
    BY <1>1, <1>2, <1>3, VmaMore
  <1>5. PICK u : u = [w EXCEPT !.mm.vma = insert_vma_struct(@, vma)]
    OBVIOUS
  <1>6. u = [w EXCEPT !.mm.vma = more]
    BY <1>1, <1>5
  <1>7. u = WorkOf(w.free, m, w.ok, w.ret, w.panic, w.leaked)
    <2>1. PICK a, pte, pt, pd : w.mm = MmOf(a, pte, pt, pd)
      BY <1>3 DEF IsMm, MmOf
    <2>2. PICK fr, ok, ret, panic, lk : w = WorkOf(fr, w.mm, ok, ret, panic, lk)
      BY DEF IsWork, WorkOf
    <2>3. w = WorkOf(fr, MmOf(a, pte, pt, pd), ok, ret, panic, lk)
      BY <2>1, <2>2
    <2>4. /\ w.free = fr /\ w.ok = ok /\ w.ret = ret /\ w.panic = panic /\ w.leaked = lk
          /\ w.mm.pte = pte /\ w.mm.pt = pt /\ w.mm.pd = pd
      BY <2>3 DEF WorkOf, MmOf
    <2>5. u = WorkOf(fr, MmOf(more, pte, pt, pd), ok, ret, panic, lk)
      BY <1>6, <2>3 DEF WorkOf, MmOf
    <2> QED
      BY <1>2, <2>4, <2>5
  <1>8. IsWork(u)
    BY <1>3, <1>4, <1>7, WorkOfIs, WorkParts
  <1>9. u.free = w.free /\ u.mm = m /\ u.ok = w.ok /\ u.ret = w.ret /\ u.panic = w.panic /\ u.leaked = w.leaked
    BY <1>7 DEF WorkOf
  <1>10. m.pte = w.mm.pte /\ m.pt = w.mm.pt /\ m.pd = w.mm.pd
    BY <1>2, MmFields
  <1>11. Worth(u) = Worth(w)
    BY <1>4, <1>9 DEF Worth
  <1>12. Inserted(w, u, vma)
    BY <1>4, <1>8, <1>9, <1>10, <1>11 DEF Inserted, Kept2
  <1> QED
    BY <1>5, <1>12

(* A new vma has no page in common with another one; or it is an error that *)
(* changes nothing, or the machine stops.                                  *)
Beyond2(list, vma) == \A v \in Elems(list) : Pages(v) \cap Pages(vma) = {}
MmMapped(w, u, vma) ==
    /\ IsWork(u) /\ Alike(w, u)
    /\ u.ok => Inserted(w, u, vma) /\ vma.start < vma.end /\ Beyond2(w.mm.vma, vma)
    /\ ~u.ok => u.mm = w.mm /\ (u.panic # "" \/ (u.panic = w.panic /\ u.ret = "E_INVAL"))

LEMMA MmMap ==
    ASSUME NEW w, IsWork(w), w.ok, NEW vma \in VmaSet
    PROVE  MmMapped(w, mm_map(w, vma), vma)
  <1> DEFINE list == w.mm.vma
             there == {i \in DOMAIN list : Pages(list[i]) \cap Pages(vma) # {}}
             bad == vma.start >= vma.end \/ \E i \in there : vma.start \in Pages(list[i])
  <1>1. PICK u : u = mm_map(w, vma)
    OBVIOUS
  <1>2. u = IF bad THEN [Fails(w) EXCEPT !.ret = "E_INVAL"]
            ELSE IF there # {} THEN [Fails(w) EXCEPT !.panic = "prev->vm_end <= next->vm_start"]
            ELSE [w EXCEPT !.mm.vma = insert_vma_struct(@, vma)]
    BY <1>1 DEF mm_map
  <1>3. w.free \in Nat /\ IsMm(w.mm)
    BY WorkParts
  <1>4. /\ [Fails(w) EXCEPT !.ret = "E_INVAL"] = WorkOf(w.free, w.mm, FALSE, "E_INVAL", w.panic, w.leaked)
        /\ [Fails(w) EXCEPT !.panic = "prev->vm_end <= next->vm_start"]
             = WorkOf(w.free, w.mm, FALSE, w.ret, "prev->vm_end <= next->vm_start", w.leaked)
    BY FailsWith, Zenon
  <1>6. CASE bad
    <2>1. u = WorkOf(w.free, w.mm, FALSE, "E_INVAL", w.panic, w.leaked)
      BY <1>2, <1>4, <1>6
    <2>2. IsWork(u)
      BY <1>3, <2>1, WorkOfIs, WorkParts
    <2>3. u.free = w.free /\ u.mm = w.mm /\ ~u.ok /\ u.ret = "E_INVAL" /\ u.panic = w.panic /\ u.leaked = w.leaked
      BY <2>1 DEF WorkOf
    <2>4. MmMapped(w, u, vma)
      BY <2>2, <2>3 DEF MmMapped, Worth, Alike
    <2> QED
      BY <1>1, <2>4
  <1>7. CASE ~bad /\ there # {}
    <2>1. u = WorkOf(w.free, w.mm, FALSE, w.ret, "prev->vm_end <= next->vm_start", w.leaked)
      BY <1>2, <1>4, <1>7
    <2>2. IsWork(u)
      BY <1>3, <2>1, WorkOfIs, WorkParts
    <2>3. u.free = w.free /\ u.mm = w.mm /\ ~u.ok /\ u.panic # "" /\ u.leaked = w.leaked
      BY <2>1 DEF WorkOf
    <2>4. MmMapped(w, u, vma)
      BY <2>2, <2>3 DEF MmMapped, Worth, Alike
    <2> QED
      BY <1>1, <2>4
  <1>8. CASE ~bad /\ there = {}
    <2>1. u = [w EXCEPT !.mm.vma = insert_vma_struct(@, vma)]
      BY <1>2, <1>8
    <2>2. Inserted(w, u, vma)
      BY <2>1, InsertVma
    <2>3. vma.start < vma.end
      <3>1. ~(vma.start >= vma.end)
        BY <1>8
      <3>2. vma.start \in Nat /\ vma.end \in Nat
        BY DEF VmaSet
      <3> QED
        BY <3>1, <3>2
    <2>4. Beyond2(list, vma)
      <3>1. list \in Seq(VmaSet)
        BY <1>3, MmParts
      <3>2. DOMAIN list = 1 .. Len(list)
        BY <3>1
      <3>3. \A i \in 1 .. Len(list) : Pages(list[i]) \cap Pages(vma) = {}
        BY <1>8, <3>2
      <3> HIDE DEF list
      <3> QED
        BY <3>3 DEF Beyond2, Elems
    <2>5. IsWork(u) /\ Alike(w, u) /\ u.ok = w.ok
      BY <2>2 DEF Inserted, Kept2, Alike
    <2>6. MmMapped(w, u, vma)
      BY <2>2, <2>3, <2>4, <2>5 DEF MmMapped
    <2> QED
      BY <1>1, <2>6
  <1> HIDE DEF bad, there
  <1> QED
    BY <1>6, <1>7, <1>8

-----------------------------------------------------------------------------
(* Division.                                                               *)
LEMMA DivIs ==
    ASSUME NEW n \in Nat \ {0}, NEW a \in Int
    PROVE  a \div n \in Int /\ a % n \in 0 .. n - 1 /\ a = (a \div n) * n + (a % n)
  <1>1. a \div n \in Int
    OBVIOUS
  <1>2. a % n \in 0 .. n - 1
    OBVIOUS
  <1>3. a % n = a - n * (a \div n)
    OBVIOUS
  <1> QED
    BY <1>1, <1>2, <1>3

LEMMA DivUnique ==
    ASSUME NEW n \in Nat \ {0}, NEW a \in Int, NEW q \in Int, q * n <= a, a < q * n + n
    PROVE  a \div n = q /\ a % n = a - q * n
  <1>1. PICK d \in Int, r \in 0 .. n - 1 : d = a \div n /\ r = a % n /\ a = d * n + r
    BY DivIs
  <1>2. PICK dn \in Int : dn = d * n
    OBVIOUS
  <1>3. PICK qn \in Int : qn = q * n
    OBVIOUS
  <1>4. CASE d < q
    <2>1. PICK k \in Nat : q = d + 1 + k
      <3>1. q - d - 1 \in Nat /\ q = d + 1 + (q - d - 1)
        BY <1>4
      <3> QED
        BY <3>1
    <2>2. PICK kn \in Nat : kn = k * n
      OBVIOUS
    <2>3. qn = dn + n + kn
      BY <1>2, <1>3, <2>1, <2>2
    <2> QED
      BY <1>1, <1>2, <1>3, <2>3
  <1>5. CASE q < d
    <2>1. PICK k \in Nat : d = q + 1 + k
      <3>1. d - q - 1 \in Nat /\ d = q + 1 + (d - q - 1)
        BY <1>5
      <3> QED
        BY <3>1
    <2>2. PICK kn \in Nat : kn = k * n
      OBVIOUS
    <2>3. dn = qn + n + kn
      BY <1>2, <1>3, <2>1, <2>2
    <2> QED
      BY <1>1, <1>2, <1>3, <2>3
  <1>6. CASE d = q
    BY <1>1, <1>2, <1>3, <1>6
  <1> QED
    BY <1>4, <1>5, <1>6

LEMMA DivMono ==
    ASSUME NEW n \in Nat \ {0}, NEW a \in Int, NEW b \in Int, a <= b
    PROVE  a \div n <= b \div n
  <1>1. PICK d \in Int, r \in 0 .. n - 1 : d = a \div n /\ r = a % n /\ a = d * n + r
    BY DivIs
  <1>2. PICK e \in Int, s \in 0 .. n - 1 : e = b \div n /\ s = b % n /\ b = e * n + s
    BY DivIs
  <1>3. SUFFICES ASSUME e < d PROVE FALSE
    BY <1>1, <1>2
  <1>4. PICK k \in Nat : d = e + 1 + k
    <2>1. d - e - 1 \in Nat /\ d = e + 1 + (d - e - 1)
      BY <1>3
    <2> QED
      BY <2>1
  <1>5. PICK kn \in Nat : kn = k * n
    OBVIOUS
  <1>6. PICK dn \in Int : dn = d * n
    OBVIOUS
  <1>7. PICK en \in Int : en = e * n
    OBVIOUS
  <1>8. dn = en + n + kn
    BY <1>4, <1>5, <1>6, <1>7
  <1> QED
    BY <1>1, <1>2, <1>5, <1>6, <1>7, <1>8

Reached(n, a, b, q) == \E x \in a .. b : x \div n = q

LEMMA DivOnto ==
    ASSUME NEW n \in Nat \ {0}, NEW a \in Int, NEW b \in Int, a <= b,
           NEW q \in (a \div n) .. (b \div n)
    PROVE  Reached(n, a, b, q)
  <1>1. PICK d \in Int, r \in 0 .. n - 1 : d = a \div n /\ r = a % n /\ a = d * n + r
    BY DivIs
  <1>2. PICK e \in Int, s \in 0 .. n - 1 : e = b \div n /\ s = b % n /\ b = e * n + s
    BY DivIs
  <1>3. q \in Int /\ d <= q /\ q <= e
    BY <1>1, <1>2
  <1>4. CASE q = d
    <2>1. a \in a .. b /\ a \div n = q
      BY <1>1, <1>4
    <2> QED
      BY <2>1 DEF Reached
  <1>5. CASE q # d
    <2>1. PICK k \in Nat, l \in Nat : q = d + 1 + k /\ e = q + l
      <3>1. q - d - 1 \in Nat /\ q = d + 1 + (q - d - 1) /\ e - q \in Nat /\ e = q + (e - q)
        BY <1>3, <1>5
      <3> QED
        BY <3>1
    <2>2. PICK kn \in Nat, ln \in Nat : kn = k * n /\ ln = l * n
      OBVIOUS
    <2>3. PICK qn \in Int : qn = q * n
      BY <1>3
    <2>4. PICK dn \in Int, en \in Int : dn = d * n /\ en = e * n
      OBVIOUS
    <2>5. qn = dn + n + kn
      BY <1>3, <2>1, <2>2, <2>3, <2>4
    <2>6. en = qn + ln
      BY <1>3, <2>1, <2>2, <2>3, <2>4
    <2>7. qn \in a .. b
      BY <1>1, <1>2, <2>2, <2>4, <2>5, <2>6
    <2>8. qn \div n = q
      <3>1. q * n <= qn /\ qn < q * n + n
        BY <2>3
      <3> QED
        BY <1>3, <2>3, <3>1, DivUnique
    <2> QED
      BY <2>7, <2>8 DEF Reached
  <1> QED
    BY <1>4, <1>5

(* The page of an address.                                                 *)
LEMMA PageIs ==
    ASSUME NEW a \in Int
    PROVE  RoundDown(a) \in Int /\ a % PGSIZE \in 0 .. PGSIZE - 1
             /\ a = RoundDown(a) * PGSIZE + (a % PGSIZE)
  <1>1. PGSIZE \in Nat \ {0}
    BY VmAssumption
  <1> QED
    BY <1>1, DivIs DEF RoundDown

LEMMA PagesGrow ==
    ASSUME NEW a \in Int, NEW b \in Int, a <= b PROVE RoundDown(a) <= RoundDown(b)
  <1>1. PGSIZE \in Nat \ {0}
    BY VmAssumption
  <1> QED
    BY <1>1, DivMono DEF RoundDown

LEMMA PagesAreNat ==
    ASSUME NEW a \in Nat PROVE RoundDown(a) \in Nat /\ RoundDown(a - 1) + 1 \in Nat
  <1>1. PGSIZE \in Nat \ {0}
    BY VmAssumption
  <1>2. RoundDown(0) = 0
    <2>1. 0 * PGSIZE <= 0 /\ 0 < 0 * PGSIZE + PGSIZE
      BY <1>1
    <2> QED
      BY <1>1, <2>1, DivUnique DEF RoundDown
  <1>3. RoundDown(-1) = -1
    <2>1. (-1) * PGSIZE <= -1 /\ -1 < (-1) * PGSIZE + PGSIZE
      BY <1>1
    <2>2. -1 \in Int
      OBVIOUS
    <2> QED
      BY <1>1, <2>1, <2>2, DivUnique DEF RoundDown
  <1>4. RoundDown(a) \in Int /\ RoundDown(a - 1) \in Int
    <2>1. a \in Int /\ a - 1 \in Int
      OBVIOUS
    <2> QED
      BY <2>1, PageIs
  <1>5. 0 <= RoundDown(a)
    <2>1. a \in Int /\ 0 \in Int /\ 0 <= a
      OBVIOUS
    <2> QED
      BY <1>2, <2>1, PagesGrow, Zenon
  <1>6. -1 <= RoundDown(a - 1)
    <2>1. a - 1 \in Int /\ -1 \in Int /\ -1 <= a - 1
      OBVIOUS
    <2> QED
      BY <1>3, <2>1, PagesGrow, Zenon
  <1> QED
    BY <1>4, <1>5, <1>6

(* The next address is in the same page or in the next one, and at the     *)
(* beginning of a page it is in the next one.                              *)
LEMMA PagesStep ==
    ASSUME NEW a \in Int
    PROVE  /\ RoundDown(a) <= RoundDown(a - 1) + 1
           /\ a % PGSIZE = 0 => RoundDown(a - 1) = RoundDown(a) - 1
  <1>1. PGSIZE \in Nat \ {0}
    BY VmAssumption
  <1>2. PICK d \in Int, r \in 0 .. PGSIZE - 1 :
             d = RoundDown(a) /\ r = a % PGSIZE /\ a = d * PGSIZE + r
    BY PageIs
  <1>3. PICK dn \in Int : dn = d * PGSIZE
    BY <1>1
  <1>4. a = dn + r
    BY <1>2, <1>3
  <1>5. a - 1 \in Int /\ d - 1 \in Int
    OBVIOUS
  <1>6. CASE r = 0
    <2>1. PICK q \in Int : q = d - 1
      BY <1>5
    <2>2. q * PGSIZE = dn - PGSIZE
      BY <1>1, <1>3, <2>1
    <2>3. q * PGSIZE <= a - 1 /\ a - 1 < q * PGSIZE + PGSIZE
      <3>1. PICK qn \in Int : qn = q * PGSIZE
        BY <1>1
      <3>2. qn = dn - PGSIZE
        BY <2>2, <3>1
      <3>3. qn <= a - 1 /\ a - 1 < qn + PGSIZE
        BY <1>1, <1>6, <1>4, <3>2
      <3> QED
        BY <3>1, <3>3, Zenon
    <2>4. (a - 1) \div PGSIZE = q
      BY <1>1, <1>5, <2>3, DivUnique
    <2>5. RoundDown(a - 1) = d - 1
      BY <2>1, <2>4 DEF RoundDown
    <2> QED
      BY <1>2, <2>5
  <1>7. CASE r # 0
    <2>1. d * PGSIZE <= a - 1 /\ a - 1 < d * PGSIZE + PGSIZE
      <3>1. dn <= a - 1 /\ a - 1 < dn + PGSIZE
        BY <1>1, <1>2, <1>7, <1>4
      <3> QED
        BY <1>3, <3>1, Zenon
    <2>2. (a - 1) \div PGSIZE = d
      BY <1>1, <1>5, <2>1, DivUnique
    <2> QED
      BY <1>2, <1>7, <2>2 DEF RoundDown
  <1> QED
    BY <1>6, <1>7

-----------------------------------------------------------------------------
(* Segments.                                                               *)
Segment == [va : Nat, filesz : Nat, memsz : Nat, header : BOOLEAN, there : Nat]

LEMMA VmaOfSegment ==
    ASSUME NEW seg \in Segment PROVE Vma(seg) \in VmaSet
  <1>1. seg.va \in Nat /\ MemEnd(seg) \in Nat
    BY DEF MemEnd, Segment
  <1>2. RoundDown(seg.va) \in Nat /\ RoundDown(MemEnd(seg) - 1) + 1 \in Nat
    BY <1>1, PagesAreNat
  <1> QED
    BY <1>2 DEF Vma, VmaSet

LEMMA VmaPages ==
    ASSUME NEW seg \in Segment
    PROVE  Pages(Vma(seg)) = RoundDown(seg.va) .. RoundDown(MemEnd(seg) - 1)
  <1>1. seg.va \in Int /\ MemEnd(seg) - 1 \in Int
    BY DEF MemEnd, Segment
  <1>2. RoundDown(seg.va) \in Int /\ RoundDown(MemEnd(seg) - 1) \in Int
    BY <1>1, PageIs
  <1> QED
    BY <1>2 DEF Vma, Pages

(* A sequence of pages, one behind the other.                              *)
InRow(pages, first, last) ==
    /\ Len(pages) \in Nat /\ Apart(pages)
    /\ Las(pages, Len(pages)) = first .. last
    /\ \A la \in first .. last : la - first + 1 \in 1 .. Len(pages) /\ pages[la - first + 1].la = la

LEMMA RowOfPages ==
    ASSUME NEW first \in Int, NEW last \in Int, first <= last + 1, NEW pages, Len(pages) = last - first + 1,
           \A i \in 1 .. last - first + 1 : pages[i].la = first + i - 1
    PROVE  InRow(pages, first, last)
  <1>1. PICK n \in Nat : n = last - first + 1
    <2>1. last - first + 1 \in Nat
      OBVIOUS
    <2> QED
      BY <2>1
  <1>2. Len(pages) = n /\ \A i \in 1 .. n : pages[i].la = first + i - 1
    BY <1>1
  <1>3. Apart(pages)
    BY <1>2 DEF Apart
  <1>4. \A la \in first .. last : la - first + 1 \in 1 .. n /\ pages[la - first + 1].la = la
    <2> TAKE la \in first .. last
    <2>1. la - first + 1 \in 1 .. n
      BY <1>1
    <2>2. pages[la - first + 1].la = first + (la - first + 1) - 1
      BY <1>2, <2>1
    <2> QED
      BY <2>1, <2>2
  <1>5. Las(pages, n) = first .. last
    <2>1. \A i \in 1 .. n : pages[i].la \in first .. last
      BY <1>1, <1>2
    <2> QED
      BY <1>4, <2>1 DEF Las
  <1> QED
    BY <1>1, <1>2, <1>3, <1>4, <1>5 DEF InRow

LEMMA DataRow ==
    ASSUME NEW seg \in Segment
    PROVE  IF seg.filesz = 0 THEN DataPages(seg) = <<>>
           ELSE /\ InRow(DataPages(seg), RoundDown(seg.va), RoundDown(FileEnd(seg) - 1))
                /\ \A i \in 1 .. Len(DataPages(seg)) :
                     DataPages(seg)[i].content
                       = Page(DataPages(seg)[i].la, seg.va, FileEnd(seg), Unit)
  <1>1. seg.va \in Int /\ FileEnd(seg) - 1 \in Int /\ (seg.filesz # 0 => seg.va <= FileEnd(seg) - 1)
    BY DEF FileEnd, Segment
  <1>2. PICK first \in Int, last \in Int : first = RoundDown(seg.va) /\ last = RoundDown(FileEnd(seg) - 1)
    BY <1>1, PageIs
  <1>3. CASE seg.filesz = 0
    BY <1>3 DEF DataPages
  <1>4. CASE seg.filesz # 0
    <2>1. first <= last
      BY <1>1, <1>2, <1>4, PagesGrow
    <2>2. PICK n \in Nat : n = last - first + 1
      <3>1. last - first + 1 \in Nat
        BY <2>1
      <3> QED
        BY <3>1
    <2>3. PICK pages : pages = DataPages(seg)
      OBVIOUS
    <2> DEFINE upto(la) == (IF la = last THEN FileEnd(seg) ELSE (la + 1) * PGSIZE) - seg.va
    <2>4. pages = [i \in 1 .. n |->
                     [la |-> first + i - 1,
                      content |-> Page(first + i - 1, seg.va, FileEnd(seg), Unit),
                      upto |-> upto(first + i - 1)]]
      BY <1>2, <1>4, <2>2, <2>3 DEF DataPages
    <2> HIDE DEF upto
    <2>5. Len(pages) = n
      BY <2>4
    <2>6. \A i \in 1 .. n : /\ pages[i].la = first + i - 1
                            /\ pages[i].content = Page(first + i - 1, seg.va, FileEnd(seg), Unit)
      BY <2>4
    <2>7. InRow(pages, first, last)
      <3>1. \A i \in 1 .. last - first + 1 : pages[i].la = first + i - 1
        BY <2>2, <2>6
      <3>2. Len(pages) = last - first + 1 /\ first <= last + 1
        BY <2>1, <2>2, <2>5
      <3> QED
        BY <3>1, <3>2, RowOfPages
    <2>8. \A i \in 1 .. Len(pages) : pages[i].content = Page(pages[i].la, seg.va, FileEnd(seg), Unit)
      BY <2>5, <2>6, Zenon
    <2> QED
      BY <1>2, <1>4, <2>3, <2>7, <2>8
  <1> QED
    BY <1>3, <1>4

LEMMA BssRow ==
    ASSUME NEW seg \in Segment
    PROVE  IF seg.memsz <= seg.filesz THEN BssPages(seg) = <<>>
           ELSE /\ InRow(BssPages(seg), RoundDown(FileEnd(seg)), RoundDown(MemEnd(seg) - 1))
                /\ \A i \in 1 .. Len(BssPages(seg)) :
                     LET la == BssPages(seg)[i].la
                         to == IF la = RoundDown(FileEnd(seg)) THEN MemEnd(seg) ELSE (la + 1) * PGSIZE
                     IN  BssPages(seg)[i].content = Page(la, FileEnd(seg), to, Zero)
  <1>1. FileEnd(seg) \in Int /\ MemEnd(seg) - 1 \in Int
        /\ (~(seg.memsz <= seg.filesz) => FileEnd(seg) <= MemEnd(seg) - 1)
    BY DEF FileEnd, MemEnd, Segment
  <1>2. PICK first \in Int, last \in Int :
             first = RoundDown(FileEnd(seg)) /\ last = RoundDown(MemEnd(seg) - 1)
    BY <1>1, PageIs
  <1> DEFINE to(la) == IF la = first THEN MemEnd(seg) ELSE (la + 1) * PGSIZE
  <1>3. CASE seg.memsz <= seg.filesz
    BY <1>3 DEF BssPages
  <1>4. CASE ~(seg.memsz <= seg.filesz)
    <2>1. first <= last
      BY <1>1, <1>2, <1>4, PagesGrow
    <2>2. PICK n \in Nat : n = last - first + 1
      <3>1. last - first + 1 \in Nat
        BY <2>1
      <3> QED
        BY <3>1
    <2>3. PICK pages : pages = BssPages(seg)
      OBVIOUS
    <2>4. pages = [i \in 1 .. n |->
                     [la |-> first + i - 1,
                      content |-> Page(first + i - 1, FileEnd(seg), to(first + i - 1), Zero)]]
      BY <1>2, <1>4, <2>2, <2>3 DEF BssPages
    <2> HIDE DEF to
    <2>5. Len(pages) = n
      BY <2>4
    <2>6. \A i \in 1 .. n :
            /\ pages[i].la = first + i - 1
            /\ pages[i].content = Page(first + i - 1, FileEnd(seg), to(first + i - 1), Zero)
      BY <2>4
    <2>7. InRow(pages, first, last)
      <3>1. first <= last + 1 /\ Len(pages) = last - first + 1
        BY <2>1, <2>2, <2>5
      <3>2. \A i \in 1 .. last - first + 1 : pages[i].la = first + i - 1
        BY <2>2, <2>6, Zenon
      <3> QED
        BY <3>1, <3>2, RowOfPages
    <2>8. \A i \in 1 .. Len(pages) :
            pages[i].content = Page(pages[i].la, FileEnd(seg), to(pages[i].la), Zero)
      BY <2>5, <2>6, Zenon
    <2>9. \A i \in 1 .. Len(BssPages(seg)) :
            BssPages(seg)[i].content
              = Page(BssPages(seg)[i].la, FileEnd(seg), to(BssPages(seg)[i].la), Zero)
      BY <2>3, <2>8
    <2> QED
      BY <1>2, <1>4, <2>3, <2>7, <2>9 DEF to
  <1> QED
    BY <1>3, <1>4

(* The stack is filled from the top down.                                  *)
LEMMA StackRow ==
    /\ Len(StackContents) \in Nat /\ Apart(StackContents)
    /\ Las(StackContents, Len(StackContents)) = Pages(STACK)
  <1>1. STACK.start \in Nat /\ STACK.end \in Nat /\ STACK.start < STACK.end
    BY VmAssumption
  <1>2. PICK n \in Nat : n = STACK.end - STACK.start
    <2>1. STACK.end - STACK.start \in Nat
      BY <1>1
    <2> QED
      BY <2>1
  <1>3. Len(StackContents) = n /\ \A i \in 1 .. n : StackContents[i].la = STACK.end - i
    BY <1>2 DEF StackContents
  <1>4. Apart(StackContents)
    BY <1>1, <1>3 DEF Apart
  <1>5. \A i \in 1 .. n : StackContents[i].la \in STACK.start .. STACK.end - 1
    BY <1>1, <1>2, <1>3
  <1>6. \A la \in STACK.start .. STACK.end - 1 :
           STACK.end - la \in 1 .. n /\ StackContents[STACK.end - la].la = la
    <2> TAKE la \in STACK.start .. STACK.end - 1
    <2>1. STACK.end - la \in 1 .. n
      BY <1>1, <1>2
    <2>2. StackContents[STACK.end - la].la = STACK.end - (STACK.end - la)
      BY <1>3, <2>1
    <2>3. STACK.end - (STACK.end - la) = la
      BY <1>1
    <2> QED
      BY <2>1, <2>2, <2>3
  <1>7. Las(StackContents, n) = STACK.start .. STACK.end - 1
    BY <1>5, <1>6 DEF Las
  <1> QED
    BY <1>3, <1>4, <1>7 DEF Pages

LEMMA PageHolds ==
    ASSUME NEW a \in Int, NEW from \in Int, NEW to \in Int, a \in from .. to - 1
    PROVE  /\ Page(RoundDown(a), from, to, Unit)[a % PGSIZE] = Unit(a)
           /\ Page(RoundDown(a), from, to, Zero)[a % PGSIZE] = 0
  <1>1. PGSIZE \in Nat \ {0}
    BY VmAssumption
  <1>2. PICK d \in Int, r \in 0 .. PGSIZE - 1 :
             d = RoundDown(a) /\ r = a % PGSIZE /\ a = d * PGSIZE + r
    BY PageIs
  <1>3. Page(d, from, to, Unit)[r] = IF d * PGSIZE + r \in from .. to - 1 THEN Unit(d * PGSIZE + r) ELSE Junk
    BY DEF Page
  <1>4. Page(d, from, to, Zero)[r] = IF d * PGSIZE + r \in from .. to - 1 THEN Zero(d * PGSIZE + r) ELSE Junk
    BY DEF Page
  <1>5. Page(d, from, to, Unit)[r] = Unit(a)
    BY <1>2, <1>3, Zenon
  <1>6. Page(d, from, to, Zero)[r] = 0
    BY <1>2, <1>4, Zenon DEF Zero
  <1> QED
    BY <1>2, <1>5, <1>6

(* A segment has been filled; where both are in a page, that is with BSS.   *)
SegFilled(m, seg) ==
    /\ Las(DataPages(seg), Len(DataPages(seg))) \subseteq DOMAIN m.pte
    /\ Las(BssPages(seg), Len(BssPages(seg))) \subseteq DOMAIN m.pte
    /\ \A i \in 1 .. Len(DataPages(seg)) :
         DataPages(seg)[i].la \notin Las(BssPages(seg), Len(BssPages(seg)))
           => m.pte[DataPages(seg)[i].la] = DataPages(seg)[i].content
    /\ \A i \in 1 .. Len(BssPages(seg)) : m.pte[BssPages(seg)[i].la] = BssPages(seg)[i].content

(* What a program may expect of a segment, and when it gets it: data and    *)
(* BSS have no page in common.                                             *)
SegLoaded(m, seg) ==
    \A a \in seg.va .. MemEnd(seg) - 1 :
      /\ RoundDown(a) \in DOMAIN m.pte
      /\ m.pte[RoundDown(a)][a % PGSIZE] = IF a < FileEnd(seg) THEN Unit(a) ELSE 0

LEMMA SegmentIsThere ==
    ASSUME NEW seg \in Segment, seg.filesz <= seg.memsz, PagedSegment(seg),
           NEW m, SegFilled(m, seg)
    PROVE  SegLoaded(m, seg)
  <1>1. PICK va \in Nat, fe \in Nat, me \in Nat :
             va = seg.va /\ fe = FileEnd(seg) /\ me = MemEnd(seg)
    BY DEF Segment, FileEnd, MemEnd
  <1>2. va <= fe /\ fe <= me /\ (seg.filesz = 0 <=> fe = va) /\ (seg.memsz <= seg.filesz <=> me <= fe)
    BY <1>1 DEF Segment, FileEnd, MemEnd
  <1>3. SUFFICES ASSUME NEW a \in va .. me - 1
                 PROVE  /\ RoundDown(a) \in DOMAIN m.pte
                        /\ m.pte[RoundDown(a)][a % PGSIZE] = IF a < fe THEN Unit(a) ELSE 0
    BY <1>1 DEF SegLoaded
  <1>4. PICK la \in Int : la = RoundDown(a)
    BY PageIs
  <1> DEFINE data == DataPages(seg)
             bss == BssPages(seg)
  <1>5. CASE a < fe
    <2>1. seg.filesz # 0
      BY <1>2, <1>5
    <2>2. /\ InRow(data, RoundDown(va), RoundDown(fe - 1))
          /\ \A i \in 1 .. Len(data) : data[i].content = Page(data[i].la, va, fe, Unit)
      BY <1>1, <2>1, DataRow
    <2> HIDE DEF data
    <2>3. la \in RoundDown(va) .. RoundDown(fe - 1)
      <3>1. va \in Int /\ fe - 1 \in Int /\ a \in Int /\ va <= a /\ a <= fe - 1
        BY <1>5
      <3>2. RoundDown(va) \in Int /\ RoundDown(fe - 1) \in Int
        BY <3>1, PageIs
      <3>3. RoundDown(va) <= RoundDown(a) /\ RoundDown(a) <= RoundDown(fe - 1)
        BY <3>1, PagesGrow
      <3> QED
        BY <1>4, <3>2, <3>3
    <2>4. PICK i \in 1 .. Len(data) : data[i].la = la
      BY <2>2, <2>3 DEF InRow
    <2>5. la \notin Las(bss, Len(bss))
      <3>1. CASE me <= fe
        <4>1. bss = <<>>
          BY <1>2, <3>1, BssRow
        <4>2. Len(bss) = 0 /\ 1 .. 0 = {}
          BY <4>1
        <4> HIDE DEF bss
        <4> QED
          BY <4>2 DEF Las
      <3>2. CASE ~(me <= fe)
        <4>1. InRow(bss, RoundDown(fe), RoundDown(me - 1))
          BY <1>1, <1>2, <3>2, BssRow
        <4> HIDE DEF bss
        <4>2. fe % PGSIZE = 0
          BY <1>1, <1>2, <2>1, <3>2 DEF PagedSegment, Segment
        <4>3. RoundDown(fe - 1) = RoundDown(fe) - 1 /\ RoundDown(fe) \in Int
          <5>1. fe \in Int
            OBVIOUS
          <5> QED
            BY <4>2, <5>1, PagesStep, PageIs
        <4>4. la < RoundDown(fe)
          BY <2>3, <4>3
        <4>5. RoundDown(me - 1) \in Int
          <5>1. me - 1 \in Int
            OBVIOUS
          <5> QED
            BY <5>1, PageIs
        <4>6. la \notin RoundDown(fe) .. RoundDown(me - 1)
          BY <4>3, <4>4, <4>5
        <4> QED
          BY <4>1, <4>6 DEF InRow
      <3> QED
        BY <3>1, <3>2
    <2>6. m.pte[la] = Page(la, va, fe, Unit)
      <3>1. m.pte[data[i].la] = data[i].content
        BY <2>4, <2>5 DEF SegFilled, data
      <3> QED
        BY <2>2, <2>4, <3>1
    <2>7. la \in DOMAIN m.pte
      BY <2>4 DEF SegFilled, data, Las
    <2>8. Page(RoundDown(a), va, fe, Unit)[a % PGSIZE] = Unit(a)
      <3>1. a \in Int /\ va \in Int /\ fe \in Int /\ a \in va .. fe - 1
        BY <1>5
      <3> QED
        BY <3>1, PageHolds
    <2> QED
      BY <1>4, <1>5, <2>6, <2>7, <2>8
  <1>6. CASE ~(a < fe)
    <2>1. ~(me <= fe) /\ ~(seg.memsz <= seg.filesz)
      BY <1>2, <1>6
    <2> DEFINE to(x) == IF x = RoundDown(fe) THEN me ELSE (x + 1) * PGSIZE
    <2>2. /\ InRow(bss, RoundDown(fe), RoundDown(me - 1))
          /\ \A i \in 1 .. Len(bss) : bss[i].content = Page(bss[i].la, fe, to(bss[i].la), Zero)
      BY <1>1, <2>1, BssRow
    <2> HIDE DEF bss
    <2>3. la \in RoundDown(fe) .. RoundDown(me - 1)
      <3>1. fe \in Int /\ me - 1 \in Int /\ a \in Int /\ fe <= a /\ a <= me - 1
        BY <1>6
      <3>2. RoundDown(fe) \in Int /\ RoundDown(me - 1) \in Int
        BY <3>1, PageIs
      <3>3. RoundDown(fe) <= RoundDown(a) /\ RoundDown(a) <= RoundDown(me - 1)
        BY <3>1, PagesGrow
      <3> QED
        BY <1>4, <3>2, <3>3
    <2>4. PICK i \in 1 .. Len(bss) : bss[i].la = la
      BY <2>2, <2>3 DEF InRow
    <2>5. m.pte[la] = Page(la, fe, to(la), Zero)
      <3>1. m.pte[bss[i].la] = bss[i].content
        BY <2>4 DEF SegFilled, bss
      <3> HIDE DEF to
      <3> QED
        BY <2>2, <2>4, <3>1
    <2>6. la \in DOMAIN m.pte
      BY <2>4 DEF SegFilled, bss, Las
    <2>7. to(la) \in Int /\ a \in fe .. to(la) - 1
      <3>1. PGSIZE \in Nat \ {0}
        BY VmAssumption
      <3>2. PICK r \in 0 .. PGSIZE - 1 : a = la * PGSIZE + r
        <4>1. a \in Int
          OBVIOUS
        <4> QED
          BY <1>4, <4>1, PageIs
      <3>3. PICK p \in Int : p = la * PGSIZE
        BY <3>1
      <3>4. (la + 1) * PGSIZE = p + PGSIZE
        BY <3>1, <3>3
      <3>5. a < (la + 1) * PGSIZE /\ (la + 1) * PGSIZE \in Int
        BY <3>1, <3>2, <3>3, <3>4
      <3> QED
        BY <1>6, <3>5
    <2>8. Page(RoundDown(a), fe, to(la), Zero)[a % PGSIZE] = 0
      <3>1. a \in Int /\ fe \in Int
        OBVIOUS
      <3> HIDE DEF to
      <3> QED
        BY <2>7, <3>1, PageHolds
    <2> QED
      BY <1>4, <1>6, <2>5, <2>6, <2>8
  <1> QED
    BY <1>5, <1>6

DataLas(seg) == Las(DataPages(seg), Len(DataPages(seg)))
BssLas(seg) == Las(BssPages(seg), Len(BssPages(seg)))

LEMMA DataLasAre ==
    ASSUME NEW seg \in Segment
    PROVE  /\ Len(DataPages(seg)) \in Nat /\ Apart(DataPages(seg))
           /\ seg.filesz = 0 => DataLas(seg) = {}
           /\ seg.filesz # 0 => DataLas(seg) = RoundDown(seg.va) .. RoundDown(FileEnd(seg) - 1)
  <1>1. CASE seg.filesz = 0
    <2>1. PICK pages : pages = DataPages(seg)
      OBVIOUS
    <2>2. pages = <<>>
      BY <1>1, <2>1, DataRow
    <2>3. Len(pages) = 0 /\ 1 .. 0 = {}
      BY <2>2
    <2>4. Apart(pages) /\ Las(pages, Len(pages)) = {}
      BY <2>3 DEF Apart, Las
    <2> QED
      BY <1>1, <2>1, <2>3, <2>4 DEF DataLas
  <1>2. CASE seg.filesz # 0
    <2>1. InRow(DataPages(seg), RoundDown(seg.va), RoundDown(FileEnd(seg) - 1))
      BY <1>2, DataRow
    <2> QED
      BY <1>2, <2>1 DEF InRow, DataLas
  <1> QED
    BY <1>1, <1>2

LEMMA BssLasAre ==
    ASSUME NEW seg \in Segment
    PROVE  /\ Len(BssPages(seg)) \in Nat /\ Apart(BssPages(seg))
           /\ seg.memsz <= seg.filesz => BssLas(seg) = {}
           /\ ~(seg.memsz <= seg.filesz)
                => BssLas(seg) = RoundDown(FileEnd(seg)) .. RoundDown(MemEnd(seg) - 1)
  <1>1. CASE seg.memsz <= seg.filesz
    <2>1. PICK pages : pages = BssPages(seg)
      OBVIOUS
    <2>2. pages = <<>>
      BY <1>1, <2>1, BssRow
    <2>3. Len(pages) = 0 /\ 1 .. 0 = {}
      BY <2>2
    <2>4. Apart(pages) /\ Las(pages, Len(pages)) = {}
      BY <2>3 DEF Apart, Las
    <2> QED
      BY <1>1, <2>1, <2>3, <2>4 DEF BssLas
  <1>2. CASE ~(seg.memsz <= seg.filesz)
    <2>1. InRow(BssPages(seg), RoundDown(FileEnd(seg)), RoundDown(MemEnd(seg) - 1))
      BY <1>2, BssRow
    <2> QED
      BY <1>2, <2>1 DEF InRow, BssLas
  <1> QED
    BY <1>1, <1>2

(* The pages of a segment are in its vma, and they are all of it if there   *)
(* is something in the segment.                                            *)
LEMMA LasInVma ==
    ASSUME NEW seg \in Segment, seg.filesz <= seg.memsz
    PROVE  /\ DataLas(seg) \cup BssLas(seg) \subseteq Pages(Vma(seg))
           /\ seg.memsz > 0 => Pages(Vma(seg)) \subseteq DataLas(seg) \cup BssLas(seg)
  <1>1. PICK va \in Nat, fe \in Nat, me \in Nat :
             va = seg.va /\ fe = FileEnd(seg) /\ me = MemEnd(seg)
    BY DEF Segment, FileEnd, MemEnd
  <1>2. /\ va <= fe /\ fe <= me /\ (seg.filesz = 0 <=> fe = va)
        /\ (seg.memsz <= seg.filesz <=> me <= fe) /\ (seg.memsz > 0 <=> va < me)
    BY <1>1 DEF Segment, FileEnd, MemEnd
  <1>3. va \in Int /\ fe \in Int /\ me \in Int /\ fe - 1 \in Int /\ me - 1 \in Int
    OBVIOUS
  <1>4. PICK pv \in Int, pf \in Int, pf1 \in Int, pm1 \in Int :
             /\ pv = RoundDown(va) /\ pf = RoundDown(fe)
             /\ pf1 = RoundDown(fe - 1) /\ pm1 = RoundDown(me - 1)
    BY <1>3, PageIs
  <1>5. pv <= pf /\ pf <= pf1 + 1
    BY <1>2, <1>3, <1>4, PagesGrow, PagesStep
  <1>6. pf1 <= pm1
    <2>1. fe - 1 <= me - 1
      BY <1>2
    <2> QED
      BY <1>3, <1>4, <2>1, PagesGrow
  <1>7. Pages(Vma(seg)) = pv .. pm1
    BY <1>1, <1>4, VmaPages
  <1>8. DataLas(seg) = IF seg.filesz = 0 THEN {} ELSE pv .. pf1
    BY <1>1, <1>4, DataLasAre
  <1>9. BssLas(seg) = IF seg.memsz <= seg.filesz THEN {} ELSE pf .. pm1
    BY <1>1, <1>4, BssLasAre
  <1>10. DataLas(seg) \cup BssLas(seg) \subseteq Pages(Vma(seg))
    BY <1>5, <1>6, <1>7, <1>8, <1>9
  <1>11. ASSUME seg.memsz > 0 PROVE Pages(Vma(seg)) \subseteq DataLas(seg) \cup BssLas(seg)
    <2>1. CASE seg.filesz = 0
      <3>1. ~(seg.memsz <= seg.filesz) /\ pf = pv
        BY <1>2, <1>4, <1>11, <2>1
      <3> QED
        BY <1>7, <1>9, <3>1
    <2>2. CASE seg.filesz # 0 /\ seg.memsz <= seg.filesz
      <3>1. pf1 = pm1
        BY <1>2, <1>4, <2>2
      <3> QED
        BY <1>7, <1>8, <2>2, <3>1
    <2>3. CASE seg.filesz # 0 /\ ~(seg.memsz <= seg.filesz)
      BY <1>5, <1>7, <1>8, <1>9, <2>3
    <2> QED
      BY <2>1, <2>2, <2>3
  <1> QED
    BY <1>10, <1>11

-----------------------------------------------------------------------------
(* Programs.                                                               *)
PagesOf(list) == UNION {Pages(v) : v \in Elems(list)}
Proper(list) == \A v \in Elems(list) : v.start < v.end
Segs(elf, k) == {Vma(elf[i]) : i \in 1 .. k}

(* Every page is in a vma, every table there is for a page.                *)
Shaped(m) == Proper(m.vma) /\ TablesFit(m) /\ DOMAIN m.pte \subseteq PagesOf(m.vma)
Laid(m, elf, k) ==
    /\ Shaped(m)
    /\ Elems(m.vma) = Segs(elf, k)
    /\ Filling(elf) => PagesOf(m.vma) \subseteq DOMAIN m.pte
    /\ \A i \in 1 .. k : PagedSegment(elf[i]) => SegLoaded(m, elf[i])

LEMMA NothingLaid == ASSUME NEW elf PROVE Laid(EmptyMm, elf, 0)
  <1>1. /\ EmptyMm.vma = <<>> /\ DOMAIN EmptyMm.pte = {} /\ EmptyMm.pt = {} /\ EmptyMm.pd = {}
    BY DEF EmptyMm
  <1>2. Elems(<<>>) = {} /\ 1 .. 0 = {}
    BY DEF Elems
  <1> QED
    BY <1>1, <1>2 DEF Laid, Shaped, Proper, TablesFit, PagesOf, Segs

(* What holds after a segment more, when nothing fails.                    *)
LEMMA OneLaidMore ==
    ASSUME NEW elf, NEW k \in Nat \ {0}, elf[k] \in Segment, elf[k].filesz <= elf[k].memsz,
           NEW w, NEW u, NEW t, NEW v, Laid(w.mm, elf, k - 1),
           Inserted(w, u, Vma(elf[k])), Vma(elf[k]).start < Vma(elf[k]).end,
           Beyond2(w.mm.vma, Vma(elf[k])),
           Pted(u, t, DataPages(elf[k]), Len(DataPages(elf[k]))), t.mm.vma = u.mm.vma,
           Pted(t, v, BssPages(elf[k]), Len(BssPages(elf[k]))), v.mm.vma = t.mm.vma,
           Filling(elf) => elf[k].memsz > 0
    PROVE  Laid(v.mm, elf, k)
  <1>1. PICK seg \in Segment : seg = elf[k]
    OBVIOUS
  <1>2. PICK old, new : old = w.mm /\ new = v.mm
    OBVIOUS
  <1> DEFINE V == Pages(Vma(seg))
             P == DataLas(seg) \cup BssLas(seg)
  <1>3. P \subseteq V /\ (seg.memsz > 0 => V \subseteq P)
    BY <1>1, LasInVma
  <1>4. Elems(new.vma) = Elems(old.vma) \cup {Vma(seg)}
    BY <1>1, <1>2 DEF Inserted
  <1>5. PagesOf(new.vma) = PagesOf(old.vma) \cup V /\ PagesOf(old.vma) \cap V = {}
    BY <1>1, <1>2, <1>4 DEF PagesOf, Beyond2
  <1>6. u.mm.pte = old.pte /\ u.mm.pt = old.pt /\ u.mm.pd = old.pd
    BY <1>2 DEF Inserted
  <1>7. DOMAIN new.pte = DOMAIN old.pte \cup P
    BY <1>1, <1>2, <1>6 DEF Pted, DataLas, BssLas
  <1>8. \A la \in DOMAIN old.pte \ P : new.pte[la] = old.pte[la]
    <2> TAKE la \in DOMAIN old.pte \ P
    <2>1. la \in DOMAIN u.mm.pte \ DataLas(seg)
      BY <1>6
    <2>2. t.mm.pte[la] = old.pte[la] /\ la \in DOMAIN t.mm.pte
      BY <1>1, <1>6, <2>1 DEF Pted, DataLas
    <2>3. la \in DOMAIN t.mm.pte \ BssLas(seg)
      BY <2>2
    <2> QED
      BY <1>1, <1>2, <2>2, <2>3 DEF Pted, BssLas
  <1>9. SegFilled(new, seg)
    <2>1. DataLas(seg) \subseteq DOMAIN new.pte /\ BssLas(seg) \subseteq DOMAIN new.pte
      BY <1>7
    <2>2. ASSUME NEW i \in 1 .. Len(DataPages(seg)), DataPages(seg)[i].la \notin BssLas(seg)
          PROVE  new.pte[DataPages(seg)[i].la] = DataPages(seg)[i].content
      <3>1. PICK la : la = DataPages(seg)[i].la
        OBVIOUS
      <3>2. t.mm.pte[la] = DataPages(seg)[i].content
        BY <1>1, <3>1 DEF Pted
      <3>3. la \in DataLas(seg)
        BY <3>1 DEF DataLas, Las
      <3>4. la \in DOMAIN t.mm.pte \ BssLas(seg)
        BY <1>1, <2>2, <3>1, <3>3 DEF Pted, DataLas
      <3>5. new.pte[la] = t.mm.pte[la]
        BY <1>1, <1>2, <3>4 DEF Pted, BssLas
      <3> QED
        BY <3>1, <3>2, <3>5
    <2>3. \A i \in 1 .. Len(BssPages(seg)) : new.pte[BssPages(seg)[i].la] = BssPages(seg)[i].content
      BY <1>1, <1>2 DEF Pted
    <2> QED
      BY <2>1, <2>2, <2>3 DEF SegFilled, DataLas, BssLas
  <1> HIDE DEF V, P
  <1>10. Shaped(old)
    BY <1>2 DEF Laid
  <1>11. Shaped(new)
    <2>1. Proper(new.vma)
      BY <1>1, <1>4, <1>10 DEF Proper, Shaped
    <2>2. TablesFit(new)
      <3>1. TablesFit(u.mm)
        BY <1>6, <1>10 DEF TablesFit, Shaped
      <3>2. TablesFit(t.mm)
        BY <3>1 DEF Pted
      <3> QED
        BY <1>2, <3>2 DEF Pted
    <2>3. DOMAIN new.pte \subseteq PagesOf(new.vma)
      BY <1>3, <1>5, <1>7, <1>10 DEF Shaped
    <2> QED
      BY <2>1, <2>2, <2>3 DEF Shaped
  <1>12. Elems(new.vma) = Segs(elf, k)
    <2>1. Elems(old.vma) = Segs(elf, k - 1)
      BY <1>2 DEF Laid
    <2>2. 1 .. k = (1 .. k - 1) \cup {k}
      OBVIOUS
    <2> QED
      BY <1>1, <1>4, <2>1, <2>2 DEF Segs
  <1>13. Filling(elf) => PagesOf(new.vma) \subseteq DOMAIN new.pte
    <2>1. Filling(elf) => PagesOf(old.vma) \subseteq DOMAIN old.pte
      BY <1>2 DEF Laid
    <2> QED
      BY <1>1, <1>3, <1>5, <1>7, <2>1
  <1>14. ASSUME NEW i \in 1 .. k, PagedSegment(elf[i]) PROVE SegLoaded(new, elf[i])
    <2>1. CASE i = k
      BY <1>1, <1>9, <1>14, <2>1, SegmentIsThere
    <2>2. CASE i # k
      <3>1. i \in 1 .. k - 1
        BY <2>2
      <3>2. SegLoaded(old, elf[i])
        BY <1>2, <1>14, <3>1 DEF Laid
      <3>3. \A la \in DOMAIN old.pte : la \in DOMAIN new.pte /\ new.pte[la] = old.pte[la]
        BY <1>3, <1>5, <1>7, <1>8, <1>10 DEF Shaped
      <3> QED
        BY <3>2, <3>3 DEF SegLoaded
    <2> QED
      BY <2>1, <2>2
  <1> QED
    BY <1>2, <1>11, <1>12, <1>13, <1>14 DEF Laid

(* The vmas are segments of the program, or the stack; and none is empty.   *)
Even(m, elf) ==
    /\ Shaped(m)
    /\ Elems(m.vma) \subseteq ProgramVmas(elf)
    /\ Filling(elf) => PagesOf(m.vma) \subseteq DOMAIN m.pte

LEMMA LaidIsEven ==
    ASSUME NEW elf, Len(elf) \in Nat, NEW k \in 0 .. Len(elf), NEW m, Laid(m, elf, k)
    PROVE  Even(m, elf)
  <1>1. Segs(elf, k) \subseteq ProgramVmas(elf)
    <2>1. \A i \in 1 .. k : i \in 1 .. Len(elf)
      OBVIOUS
    <2> QED
      BY <2>1 DEF Segs, ProgramVmas
  <1> QED
    BY <1>1 DEF Laid, Even

(* In the course of load_icode; a program that is turned down for what its  *)
(* headers say leaves whole segments.                                      *)
NoCode(w) == w.ret = "0"
Clean(w) == NoCode(w) /\ w.panic = ""
BadProgram(w) == w.ret \in {"E_INVAL", "E_INVAL_ELF"}
Undone(w, elf) == w.panic = "" /\ BadProgram(w) => Even(w.mm, elf)
Loading(w, v, elf, k) ==
    /\ IsWork(v) /\ Alike(w, v) /\ Proper(v.mm.vma)
    /\ v.ok => Clean(v) /\ Laid(v.mm, elf, k)
    /\ ~v.ok => Undone(v, elf)

LEMMA FilledKeeps ==
    ASSUME NEW w, NEW u, NEW pages, NEW k, Filled(w, u, pages, k)
    PROVE  (Clean(w) => Clean(u)) /\ (NoCode(w) => NoCode(u))
  BY DEF Filled, Kept2, Clean, NoCode

LEMMA LoadSegment ==
    ASSUME NEW elf, Len(elf) \in Nat, NEW k \in 1 .. Len(elf), elf[k] \in Segment,
           NEW w, NEW u, Loading(w, u, elf, k - 1)
    PROVE  Loading(w, load_segment(u, elf[k]), elf, k)
  <1>1. PICK v : v = load_segment(u, elf[k])
    OBVIOUS
  <1>2. PICK seg \in Segment : seg = elf[k]
    OBVIOUS
  <1>3. PICK read, mapped : read = load_icode_read(u, seg.header) /\ mapped = mm_map(read, Vma(seg))
    OBVIOUS
  <1>4. v = IF ~u.ok THEN u
            ELSE IF ~read.ok THEN read
            ELSE IF seg.filesz > seg.memsz THEN [Fails(read) EXCEPT !.ret = "E_INVAL_ELF"]
            ELSE IF ~mapped.ok THEN mapped
            ELSE put_pages(load_data(mapped, seg), BssPages(seg))
    BY <1>1, <1>2, <1>3 DEF load_segment
  <1>5. IsWork(u) /\ u.free \in Nat /\ IsMm(u.mm) /\ Proper(u.mm.vma) /\ Alike(w, u)
    BY WorkParts DEF Loading
  <1>6. u.ok => Even(u.mm, elf)
    <2>1. k - 1 \in 0 .. Len(elf)
      OBVIOUS
    <2> QED
      BY <2>1, LaidIsEven DEF Loading
  <1>7. CASE ~u.ok
    <2>1. v = u
      BY <1>4, <1>7
    <2>2. Loading(w, v, elf, k)
      BY <1>7, <2>1 DEF Loading
    <2> QED
      BY <1>1, <2>2
  <1>8. u.ok => Fetched1(u, read)
    BY <1>3, <1>5, IcodeRead
  <1>9. CASE u.ok /\ ~read.ok
    <2>1. v = read
      BY <1>4, <1>9
    <2>2. ~BadProgram(v)
      BY <1>8, <1>9, <2>1 DEF Fetched1, BadProgram
    <2>3. Undone(v, elf)
      BY <2>2 DEF Undone
    <2>4. Loading(w, v, elf, k)
      BY <1>5, <1>8, <1>9, <2>1, <2>3 DEF Loading, Fetched1, Alike, Worth
    <2> QED
      BY <1>1, <2>4
  <1>10. u.ok /\ read.ok => read = u
    BY <1>8 DEF Fetched1
  <1>11. CASE (u.ok /\ read.ok) /\ seg.filesz > seg.memsz
    <2> DEFINE no == FALSE
    <2>1. v = WorkOf(u.free, u.mm, no, "E_INVAL_ELF", u.panic, u.leaked)
      <3>1. v = [Fails(read) EXCEPT !.ret = "E_INVAL_ELF"]
        BY <1>4, <1>11
      <3>2. v = [Fails(u) EXCEPT !.ret = "E_INVAL_ELF"]
        BY <1>10, <1>11, <3>1, Zenon
      <3> QED
        BY <1>5, <3>2, FailsWith, Zenon
    <2>2. IsWork(v)
      BY <1>5, <2>1, WorkOfIs, WorkParts
    <2> HIDE DEF no
    <2>3. v.free = u.free /\ v.mm = u.mm /\ v.ok = no /\ v.leaked = u.leaked
      BY <2>1, WorkFields
    <2>4. Undone(v, elf)
      BY <1>6, <1>11, <2>3 DEF Undone
    <2>5. Loading(w, v, elf, k)
      BY <1>5, <2>2, <2>3, <2>4 DEF Loading, Worth, Alike, no
    <2> QED
      BY <1>1, <2>5
  <1>12. CASE (u.ok /\ read.ok) /\ ~(seg.filesz > seg.memsz)
    <2>1. Vma(seg) \in VmaSet
      BY VmaOfSegment
    <2>2. MmMapped(u, mapped, Vma(seg))
      BY <1>3, <1>5, <1>10, <1>12, <2>1, MmMap
    <2>3. CASE ~mapped.ok
      <3>1. v = mapped
        BY <1>4, <1>12, <2>3
      <3>2. IsWork(v) /\ Alike(w, v) /\ v.mm = u.mm
        BY <1>5, <2>2, <2>3, <3>1 DEF MmMapped, Alike
      <3>3. Undone(v, elf)
        BY <1>6, <1>12, <3>2 DEF Undone
      <3>4. Loading(w, v, elf, k)
        BY <1>5, <2>3, <3>1, <3>2, <3>3 DEF Loading
      <3> QED
        BY <1>1, <3>4
    <2>4. CASE mapped.ok
      <3>1. /\ Inserted(u, mapped, Vma(seg)) /\ Vma(seg).start < Vma(seg).end
            /\ Beyond2(u.mm.vma, Vma(seg))
        BY <2>2, <2>4 DEF MmMapped
      <3>2. PICK t : t = load_data(mapped, seg)
        OBVIOUS
      <3>3. v = put_pages(t, BssPages(seg))
        BY <1>4, <1>12, <2>4, <3>2
      <3>4. IsWork(mapped) /\ Worth(mapped) = Worth(u) /\ Kept2(u, mapped)
        BY <3>1 DEF Inserted
      <3>5. Fetched(mapped, t, DataPages(seg), Len(DataPages(seg)))
        BY <3>2, <3>4, DataLasAre, LoadData
      <3>6. Filled(t, v, BssPages(seg), Len(BssPages(seg)))
        <4>1. IsWork(t)
          BY <3>5 DEF Fetched
        <4> QED
          BY <3>3, <4>1, BssLasAre, PutPages
      <3>7. IsWork(v) /\ Alike(w, v) /\ v.mm.vma = t.mm.vma /\ t.mm.vma = mapped.mm.vma
        BY <1>5, <3>4, <3>5, <3>6 DEF Filled, Fetched, Kept2, Alike
      <3>8. Clean(u)
        BY <1>12 DEF Loading
      <3>9. Clean(mapped)
        BY <3>4, <3>8 DEF Clean, Kept2, NoCode
      <3>10. (t.ok => Clean(t)) /\ ~BadProgram(t)
        BY <3>5, <3>9 DEF Fetched, Clean, NoCode, BadProgram
      <3>11. (v.ok => Clean(v)) /\ ~BadProgram(v)
        BY <3>6, <3>10 DEF Filled, Kept2, Clean, NoCode, BadProgram
      <3>12. Proper(v.mm.vma)
        <4>1. Elems(mapped.mm.vma) = Elems(u.mm.vma) \cup {Vma(seg)}
          BY <3>1 DEF Inserted
        <4> QED
          BY <1>5, <3>1, <3>7, <4>1 DEF Proper
      <3>13. ASSUME v.ok PROVE Laid(v.mm, elf, k)
        <4>1. t.ok /\ Pted(t, v, BssPages(seg), Len(BssPages(seg)))
          BY <3>6, <3>13 DEF Filled
        <4>2. Pted(mapped, t, DataPages(seg), Len(DataPages(seg)))
          BY <3>5, <4>1 DEF Fetched
        <4>3. Laid(u.mm, elf, k - 1)
          BY <1>12 DEF Loading
        <4>4. Filling(elf) => elf[k].memsz > 0
          BY DEF Filling
        <4>5. k \in Nat \ {0} /\ elf[k] \in Segment /\ elf[k].filesz <= elf[k].memsz
          BY <1>2, <1>12 DEF Segment
        <4> QED
          BY <1>2, <3>1, <3>7, <4>1, <4>2, <4>3, <4>4, <4>5, OneLaidMore
      <3>14. Undone(v, elf)
        BY <3>11 DEF Undone
      <3>15. Loading(w, v, elf, k)
        BY <3>7, <3>11, <3>12, <3>13, <3>14 DEF Loading
      <3> QED
        BY <1>1, <3>15
    <2> QED
      BY <2>3, <2>4
  <1> QED
    BY <1>7, <1>9, <1>11, <1>12

LEMMA LoadSegments ==
    ASSUME NEW elf, Len(elf) \in Nat, \A i \in 1 .. Len(elf) : elf[i] \in Segment,
           NEW w, NEW h, Loading(w, h, elf, 0)
    PROVE  Loading(w, load_segments(h, elf), elf, Len(elf))
  <1>1. PICK n \in Nat : n = Len(elf)
    OBVIOUS
  <1>2. PICK g : Turns(g, "load_segments", h, n, elf, 0) /\ load_segments(h, elf) = g[n]
    BY <1>1, LoadSegmentsTurns
  <1>3. g[0] = h /\ \A i \in 1 .. n : g[i] = Turn("load_segments", g[i - 1], i, elf, 0)
    BY <1>2 DEF Turns
  <1> DEFINE Good == {i \in 0 .. n : Loading(w, g[i], elf, i)}
  <1>4. 0 \in Good
    BY <1>3
  <1>5. ASSUME NEW i \in 1 .. n, i - 1 \in Good PROVE i \in Good
    <2>1. Loading(w, g[i - 1], elf, i - 1)
      BY <1>5
    <2>2. g[i] = load_segment(g[i - 1], elf[i])
      BY <1>3 DEF Turn
    <2>3. Loading(w, g[i], elf, i)
      BY <1>1, <2>1, <2>2, LoadSegment
    <2> QED
      BY <2>3
  <1> HIDE DEF Good
  <1>6. n \in Good
    BY <1>4, <1>5, CountUp
  <1> QED
    BY <1>1, <1>2, <1>6 DEF Good

(* A process and its program.                                              *)
Image(m, elf) ==
    /\ Even(m, elf)
    /\ \A i \in 1 .. Len(elf) : PagedSegment(elf[i]) => SegLoaded(m, elf[i])

LEMMA StackLaid ==
    ASSUME NEW elf, Len(elf) \in Nat, NEW w, NEW u, NEW v, Laid(w.mm, elf, Len(elf)),
           Inserted(w, u, STACK), Beyond2(w.mm.vma, STACK),
           Pted(u, v, StackContents, Len(StackContents)), v.mm.vma = u.mm.vma
    PROVE  Image(v.mm, elf)
  <1>1. PICK old, new : old = w.mm /\ new = v.mm
    OBVIOUS
  <1>2. Las(StackContents, Len(StackContents)) = Pages(STACK)
    BY StackRow
  <1>3. Elems(new.vma) = Elems(old.vma) \cup {STACK}
    BY <1>1 DEF Inserted
  <1>4. PagesOf(new.vma) = PagesOf(old.vma) \cup Pages(STACK) /\ PagesOf(old.vma) \cap Pages(STACK) = {}
    BY <1>1, <1>3 DEF PagesOf, Beyond2
  <1>5. u.mm.pte = old.pte /\ u.mm.pt = old.pt /\ u.mm.pd = old.pd
    BY <1>1 DEF Inserted
  <1>6. DOMAIN new.pte = DOMAIN old.pte \cup Pages(STACK)
    BY <1>1, <1>2, <1>5 DEF Pted
  <1>7. Shaped(old) /\ Elems(old.vma) = Segs(elf, Len(elf))
    BY <1>1 DEF Laid
  <1>8. \A la \in DOMAIN old.pte : la \in DOMAIN new.pte /\ new.pte[la] = old.pte[la]
    <2> TAKE la \in DOMAIN old.pte
    <2>1. la \in DOMAIN u.mm.pte \ Pages(STACK)
      BY <1>4, <1>5, <1>7 DEF Shaped
    <2> QED
      BY <1>1, <1>2, <1>5, <1>6, <2>1 DEF Pted
  <1>9. Shaped(new)
    <2>1. Proper(new.vma)
      BY <1>3, <1>7, VmAssumption DEF Proper, Shaped
    <2>2. TablesFit(new)
      <3>1. TablesFit(u.mm)
        BY <1>5, <1>7 DEF TablesFit, Shaped
      <3> QED
        BY <1>1, <3>1 DEF Pted
    <2>3. DOMAIN new.pte \subseteq PagesOf(new.vma)
      BY <1>4, <1>6, <1>7 DEF Shaped
    <2> QED
      BY <2>1, <2>2, <2>3 DEF Shaped
  <1>10. Elems(new.vma) \subseteq ProgramVmas(elf)
    BY <1>3, <1>7 DEF ProgramVmas, Segs
  <1>11. Filling(elf) => PagesOf(new.vma) \subseteq DOMAIN new.pte
    <2>1. Filling(elf) => PagesOf(old.vma) \subseteq DOMAIN old.pte
      BY <1>1 DEF Laid
    <2> QED
      BY <1>4, <1>6, <2>1
  <1>12. ASSUME NEW i \in 1 .. Len(elf), PagedSegment(elf[i]) PROVE SegLoaded(new, elf[i])
    <2>1. SegLoaded(old, elf[i])
      BY <1>1, <1>12 DEF Laid
    <2> QED
      BY <1>8, <2>1 DEF SegLoaded
  <1> QED
    BY <1>1, <1>9, <1>10, <1>11, <1>12 DEF Image, Even

Stacked(w, v, elf) ==
    /\ IsWork(v) /\ Alike(w, v) /\ Proper(v.mm.vma)
    /\ v.ok => Clean(v) /\ Image(v.mm, elf)
    /\ ~v.ok => Undone(v, elf)

LEMMA LoadStack ==
    ASSUME NEW elf, Len(elf) \in Nat, NEW w, NEW u, Loading(w, u, elf, Len(elf))
    PROVE  Stacked(w, load_stack(u), elf)
  <1>1. PICK v : v = load_stack(u)
    OBVIOUS
  <1>2. PICK mapped : mapped = mm_map(u, STACK)
    OBVIOUS
  <1>3. PICK s : s = put_pages(mapped, StackContents)
    OBVIOUS
  <1>4. v = IF ~u.ok THEN u ELSE IF ~mapped.ok THEN mapped
            ELSE IF s.ok THEN s ELSE [s EXCEPT !.panic = "stack page != NULL"]
    BY <1>1, <1>2, <1>3 DEF load_stack
  <1>5. IsWork(u) /\ u.free \in Nat /\ IsMm(u.mm) /\ Proper(u.mm.vma) /\ Alike(w, u)
    BY WorkParts DEF Loading
  <1>6. u.ok => Even(u.mm, elf)
    <2>1. Len(elf) \in 0 .. Len(elf)
      OBVIOUS
    <2> QED
      BY <2>1, LaidIsEven DEF Loading
  <1>7. CASE ~u.ok
    <2>1. v = u
      BY <1>4, <1>7
    <2>2. Stacked(w, v, elf)
      BY <1>7, <2>1 DEF Loading, Stacked
    <2> QED
      BY <1>1, <2>2
  <1>8. CASE u.ok
    <2>1. STACK \in VmaSet
      BY VmAssumption DEF VmaSet
    <2>2. MmMapped(u, mapped, STACK)
      BY <1>2, <1>5, <1>8, <2>1, MmMap
    <2>3. CASE ~mapped.ok
      <3>1. v = mapped
        BY <1>4, <1>8, <2>3
      <3>2. IsWork(v) /\ Alike(w, v) /\ v.mm = u.mm
        BY <1>5, <2>2, <2>3, <3>1 DEF MmMapped, Alike
      <3>3. Undone(v, elf)
        BY <1>6, <1>8, <3>2 DEF Undone
      <3>4. Stacked(w, v, elf)
        BY <1>5, <2>3, <3>1, <3>2, <3>3 DEF Stacked
      <3> QED
        BY <1>1, <3>4
    <2>4. CASE mapped.ok
      <3>1. Inserted(u, mapped, STACK) /\ Beyond2(u.mm.vma, STACK)
        BY <2>2, <2>4 DEF MmMapped
      <3>2. IsWork(mapped) /\ Worth(mapped) = Worth(u) /\ Kept2(u, mapped)
        BY <3>1 DEF Inserted
      <3>3. Filled(mapped, s, StackContents, Len(StackContents))
        BY <1>3, <3>2, StackRow, PutPages
      <3>4. IsWork(s) /\ Alike(w, s) /\ s.mm.vma = mapped.mm.vma
        BY <1>5, <3>2, <3>3 DEF Filled, Kept2, Alike
      <3>5. Clean(s)
        <4>1. Clean(mapped)
          BY <1>8, <3>2 DEF Loading, Clean, Kept2, NoCode
        <4> QED
          BY <3>3, <4>1, FilledKeeps
      <3>6. Proper(s.mm.vma)
        <4>1. Elems(mapped.mm.vma) = Elems(u.mm.vma) \cup {STACK}
          BY <3>1 DEF Inserted
        <4> QED
          BY <1>5, <3>4, <4>1, VmAssumption DEF Proper
      <3>7. CASE s.ok
        <4>1. v = s
          BY <1>4, <1>8, <2>4, <3>7
        <4>2. Pted(mapped, s, StackContents, Len(StackContents))
          BY <3>3, <3>7 DEF Filled
        <4>3. Laid(u.mm, elf, Len(elf))
          BY <1>8 DEF Loading
        <4>4. Image(s.mm, elf)
          BY <3>1, <3>4, <4>2, <4>3, StackLaid
        <4>5. Stacked(w, v, elf)
          BY <3>4, <3>5, <3>6, <3>7, <4>1, <4>4 DEF Stacked
        <4> QED
          BY <1>1, <4>5
      <3>8. CASE ~s.ok
        <4>1. PICK panic : panic = "stack page != NULL"
          OBVIOUS
        <4>2. v = [s EXCEPT !.panic = panic]
          BY <1>4, <1>8, <2>4, <3>8, <4>1
        <4>3. v = WorkOf(s.free, s.mm, s.ok, s.ret, panic, s.leaked)
          BY <3>4, <4>2, WorkChanges
        <4>4. IsWork(v)
          BY <3>4, <4>3, WorkOfIs, WorkParts
        <4>5. v.free = s.free /\ v.mm = s.mm /\ v.ok = s.ok /\ v.panic = panic /\ v.leaked = s.leaked
          BY <4>3, WorkFields
        <4>6. Undone(v, elf)
          BY <4>1, <4>5 DEF Undone
        <4>7. Stacked(w, v, elf)
          BY <3>4, <3>6, <3>8, <4>4, <4>5, <4>6 DEF Stacked, Worth, Alike
        <4> QED
          BY <1>1, <4>7
      <3> QED
        BY <3>7, <3>8
    <2> QED
      BY <2>3, <2>4
  <1> QED
    BY <1>7, <1>8

-----------------------------------------------------------------------------
(* Pages go back.                                                          *)
Freeing(w, u) ==
    /\ IsWork(u) /\ Kept2(w, u) /\ u.ok = w.ok /\ u.mm.vma = w.mm.vma /\ Worth(u) = Worth(w)

LEMMA FewerCount ==
    ASSUME NEW S, NEW T, IsFiniteSet(S), T \subseteq S
    PROVE  /\ IsFiniteSet(S \ T) /\ Cardinality(S) = Cardinality(S \ T) + Cardinality(T)
           /\ Cardinality(S \ T) \in Nat /\ Cardinality(T) \in Nat
  <1>1. IsFiniteSet(T) /\ IsFiniteSet(S \ T)
    <2>1. T \in SUBSET S /\ S \ T \in SUBSET S
      OBVIOUS
    <2> QED
      BY <2>1, FS_Subset
  <1>2. S = (S \ T) \cup T /\ (S \ T) \cap T = {}
    OBVIOUS
  <1>3. PICK rest : rest = S \ T
    OBVIOUS
  <1>4. /\ Cardinality(rest \cup T) = Cardinality(rest) + Cardinality(T)
        /\ Cardinality(rest) \in Nat /\ Cardinality(T) \in Nat
    BY <1>1, <1>2, <1>3, DisjointCount
  <1> QED
    BY <1>1, <1>2, <1>3, <1>4

(* What is left of an address space, and how many pages that makes free.    *)
LeftOf(m, x, n) == IsMm(x) /\ x.vma = m.vma /\ n \in Nat /\ Size(x) + n = Size(m)

LEMMA LessPte ==
    ASSUME NEW m, IsMm(m), NEW gone, gone \subseteq DOMAIN m.pte
    PROVE  LET x == MmOf(m.vma, [la \in DOMAIN m.pte \ gone |-> m.pte[la]], m.pt, m.pd)
           IN  LeftOf(m, x, Cardinality(gone))
  <1>1. PICK less : less = [la \in DOMAIN m.pte \ gone |-> m.pte[la]]
    OBVIOUS
  <1>2. PICK x : x = MmOf(m.vma, less, m.pt, m.pd)
    OBVIOUS
  <1>3. IsFiniteSet(DOMAIN m.pte)
    BY MmParts DEF IsMap
  <1>4. /\ IsFiniteSet(DOMAIN m.pte \ gone)
        /\ Cardinality(DOMAIN m.pte) = Cardinality(DOMAIN m.pte \ gone) + Cardinality(gone)
        /\ Cardinality(DOMAIN m.pte \ gone) \in Nat /\ Cardinality(gone) \in Nat
    BY <1>3, FewerCount
  <1>5. DOMAIN less = DOMAIN m.pte \ gone /\ less = [la \in DOMAIN less |-> less[la]]
    BY <1>1
  <1>6. IsMap(less)
    BY <1>4, <1>5 DEF IsMap
  <1>7. IsMm(x)
    BY <1>2, <1>6, MmOfIs, MmParts
  <1>8. x.vma = m.vma /\ x.pte = less /\ x.pt = m.pt /\ x.pd = m.pd
    BY <1>2, MmFields
  <1>9. Size(x) = 1 + Cardinality(DOMAIN m.pte \ gone) + Cardinality(m.pt) + Cardinality(m.pd)
    BY <1>5, <1>7, <1>8, MmSize
  <1>10. /\ Size(m) = 1 + Cardinality(DOMAIN m.pte) + Cardinality(m.pt) + Cardinality(m.pd)
         /\ Cardinality(m.pt) \in Nat /\ Cardinality(m.pd) \in Nat
    BY MmSize
  <1>11. Size(x) + Cardinality(gone) = Size(m)
    BY <1>4, <1>9, <1>10
  <1> QED
    BY <1>1, <1>2, <1>4, <1>7, <1>8, <1>11 DEF LeftOf

LEMMA LessTables ==
    ASSUME NEW m, IsMm(m), NEW pts, pts \subseteq m.pt, NEW pds, pds \subseteq m.pd
    PROVE  LET x == MmOf(m.vma, m.pte, m.pt \ pts, m.pd \ pds)
           IN  LeftOf(m, x, Cardinality(pts) + Cardinality(pds))
  <1>1. PICK x : x = MmOf(m.vma, m.pte, m.pt \ pts, m.pd \ pds)
    OBVIOUS
  <1>2. IsFiniteSet(m.pt) /\ IsFiniteSet(m.pd)
    BY MmParts
  <1>3. /\ IsFiniteSet(m.pt \ pts)
        /\ Cardinality(m.pt) = Cardinality(m.pt \ pts) + Cardinality(pts)
        /\ Cardinality(m.pt \ pts) \in Nat /\ Cardinality(pts) \in Nat
    BY <1>2, FewerCount
  <1>4. /\ IsFiniteSet(m.pd \ pds)
        /\ Cardinality(m.pd) = Cardinality(m.pd \ pds) + Cardinality(pds)
        /\ Cardinality(m.pd \ pds) \in Nat /\ Cardinality(pds) \in Nat
    BY <1>2, FewerCount
  <1>5. IsMm(x)
    BY <1>1, <1>3, <1>4, MmOfIs, MmParts
  <1>6. x.vma = m.vma /\ x.pte = m.pte /\ x.pt = m.pt \ pts /\ x.pd = m.pd \ pds
    BY <1>1, MmFields
  <1>7. Size(x) = 1 + Cardinality(DOMAIN m.pte) + Cardinality(m.pt \ pts) + Cardinality(m.pd \ pds)
    BY <1>5, <1>6, MmSize
  <1>8. /\ Size(m) = 1 + Cardinality(DOMAIN m.pte) + Cardinality(m.pt) + Cardinality(m.pd)
        /\ Cardinality(DOMAIN m.pte) \in Nat
    BY MmSize
  <1>9. /\ Size(x) + (Cardinality(pts) + Cardinality(pds)) = Size(m)
        /\ Cardinality(pts) + Cardinality(pds) \in Nat
    BY <1>3, <1>4, <1>7, <1>8
  <1> QED
    BY <1>1, <1>5, <1>6, <1>9 DEF LeftOf

(* n pages more are free, and x is left.                                   *)
LEMMA FreeingMore ==
    ASSUME NEW w, IsWork(w), NEW x, NEW n, LeftOf(w.mm, x, n), NEW u,
           u = WorkOf(w.free + n, x, w.ok, w.ret, w.panic, w.leaked)
    PROVE  Freeing(w, u) /\ u.mm = x
  <1>1. w.free \in Nat /\ IsMm(x) /\ n \in Nat /\ Size(x) + n = Size(w.mm) /\ x.vma = w.mm.vma
    BY WorkParts DEF LeftOf
  <1>2. w.free + n \in Nat
    BY <1>1
  <1>3. IsWork(u)
    BY <1>1, <1>2, WorkOfIs, WorkParts
  <1>4. u.free = w.free + n /\ u.mm = x /\ u.ok = w.ok /\ u.ret = w.ret /\ u.panic = w.panic /\ u.leaked = w.leaked
    BY WorkFields
  <1>5. Size(x) \in Nat
    BY <1>1, MmSize
  <1>6. Worth(u) = Worth(w)
    BY <1>1, <1>4, <1>5 DEF Worth
  <1> QED
    BY <1>1, <1>3, <1>4, <1>6 DEF Freeing, Kept2

Unmapped(w, u, vma) ==
    /\ Freeing(w, u) /\ u.mm.pt = w.mm.pt /\ u.mm.pd = w.mm.pd
    /\ DOMAIN u.mm.pte = DOMAIN w.mm.pte \ Pages(vma)

LEMMA UnmapRange ==
    ASSUME NEW w, IsWork(w), NEW vma
    PROVE  Unmapped(w, unmap_range(w, vma), vma)
  <1>1. PICK gone : gone = DOMAIN w.mm.pte \cap Pages(vma)
    OBVIOUS
  <1>2. PICK less : less = [la \in DOMAIN w.mm.pte \ gone |-> w.mm.pte[la]]
    OBVIOUS
  <1>3. PICK x : x = MmOf(w.mm.vma, less, w.mm.pt, w.mm.pd)
    OBVIOUS
  <1>4. IsMm(w.mm)
    BY WorkParts
  <1>5. PICK n : n = Cardinality(gone)
    OBVIOUS
  <1>6. LeftOf(w.mm, x, n)
    BY <1>1, <1>2, <1>3, <1>4, <1>5, LessPte
  <1>7. PICK u : u = unmap_range(w, vma)
    OBVIOUS
  <1>8. u = WorkOf(w.free + n, x, w.ok, w.ret, w.panic, w.leaked)
    <2>1. PICK a, pte, pt, pd : w.mm = MmOf(a, pte, pt, pd)
      BY <1>4 DEF IsMm, MmOf
    <2>2. PICK fr, ok, ret, panic, lk : w = WorkOf(fr, w.mm, ok, ret, panic, lk)
      BY DEF IsWork, WorkOf
    <2>3. w = WorkOf(fr, MmOf(a, pte, pt, pd), ok, ret, panic, lk)
      BY <2>1, <2>2
    <2>4. /\ w.free = fr /\ w.ok = ok /\ w.ret = ret /\ w.panic = panic /\ w.leaked = lk
          /\ w.mm.vma = a /\ w.mm.pte = pte /\ w.mm.pt = pt /\ w.mm.pd = pd
      BY <2>3 DEF WorkOf, MmOf
    <2>5. PICK f : f = WorkOf(fr + n, MmOf(a, pte, pt, pd), ok, ret, panic, lk)
      OBVIOUS
    <2>6. free_pages(w, n) = f
      BY <2>3, <2>5 DEF free_pages, WorkOf
    <2>7. f.mm.pte = pte
      BY <2>5 DEF WorkOf, MmOf
    <2>8. u = [f EXCEPT !.mm.pte = [la \in DOMAIN f.mm.pte \ gone |-> f.mm.pte[la]]]
      BY <1>1, <1>5, <1>7, <2>6 DEF unmap_range
    <2>9. u = [f EXCEPT !.mm.pte = less]
      BY <1>2, <2>4, <2>7, <2>8
    <2>10. u = WorkOf(fr + n, MmOf(a, less, pt, pd), ok, ret, panic, lk)
      BY <2>5, <2>9 DEF WorkOf, MmOf
    <2> QED
      BY <1>3, <2>4, <2>10
  <1>9. Freeing(w, u) /\ u.mm = x
    BY <1>6, <1>8, FreeingMore
  <1>10. x.pte = less /\ x.pt = w.mm.pt /\ x.pd = w.mm.pd
    BY <1>3, MmFields
  <1>11. DOMAIN less = DOMAIN w.mm.pte \ Pages(vma)
    BY <1>1, <1>2
  <1>12. Unmapped(w, u, vma)
    BY <1>9, <1>10, <1>11 DEF Unmapped
  <1> QED
    BY <1>7, <1>12

(* A turn of exit_range.                                                   *)
Exited(w, u, range, d) ==
    /\ Freeing(w, u) /\ u.mm.pte = w.mm.pte
    /\ d \notin w.mm.pd => u = w
    /\ d \in w.mm.pd /\ DOMAIN w.mm.pte = {} /\ range \subseteq w.mm.pt
         => u.mm.pt = w.mm.pt \ range /\ u.mm.pd = w.mm.pd \ {d}

LEMMA FreeingNothing == ASSUME NEW w, IsWork(w) PROVE Freeing(w, w)
  BY DEF Freeing, Kept2

LEMMA ExitPd ==
    ASSUME NEW w, IsWork(w), NEW vma, NEW d
    PROVE  Exited(w, exit_pd(w, vma, d), TablesIn(vma, d), d)
  <1>1. PICK range : range = TablesIn(vma, d)
    OBVIOUS
  <1>2. PICK pts : pts = {t \in range \cap w.mm.pt : \A la \in DOMAIN w.mm.pte : PT(la) # t}
    OBVIOUS
  <1>3. PICK pds : pds = IF range \subseteq w.mm.pt THEN {d} ELSE {}
    OBVIOUS
  <1>4. PICK u : u = exit_pd(w, vma, d)
    OBVIOUS
  <1>5. PICK n : n = Cardinality(pts) + Cardinality(pds)
    OBVIOUS
  <1>6. u = IF d \notin w.mm.pd THEN w
            ELSE [free_pages(w, n) EXCEPT !.mm.pt = @ \ pts, !.mm.pd = @ \ pds]
    BY <1>1, <1>2, <1>3, <1>4, <1>5 DEF exit_pd
  <1>7. CASE d \notin w.mm.pd
    <2>1. u = w
      BY <1>6, <1>7
    <2>2. Exited(w, u, range, d)
      BY <1>7, <2>1, FreeingNothing DEF Exited
    <2> QED
      BY <1>1, <1>4, <2>2
  <1>8. CASE d \in w.mm.pd
    <2>1. PICK x : x = MmOf(w.mm.vma, w.mm.pte, w.mm.pt \ pts, w.mm.pd \ pds)
      OBVIOUS
    <2>2. IsMm(w.mm)
      BY WorkParts
    <2>3. LeftOf(w.mm, x, n)
      <3>1. pts \subseteq w.mm.pt /\ pds \subseteq w.mm.pd
        BY <1>2, <1>3, <1>8
      <3> QED
        BY <1>5, <2>1, <2>2, <3>1, LessTables
    <2>4. u = WorkOf(w.free + n, x, w.ok, w.ret, w.panic, w.leaked)
      <3>1. PICK a, pte, pt, pd : w.mm = MmOf(a, pte, pt, pd)
        BY <2>2 DEF IsMm, MmOf
      <3>2. PICK fr, ok, ret, panic, lk : w = WorkOf(fr, w.mm, ok, ret, panic, lk)
        BY DEF IsWork, WorkOf
      <3>3. w = WorkOf(fr, MmOf(a, pte, pt, pd), ok, ret, panic, lk)
        BY <3>1, <3>2
      <3>4. /\ w.free = fr /\ w.ok = ok /\ w.ret = ret /\ w.panic = panic /\ w.leaked = lk
            /\ w.mm.vma = a /\ w.mm.pte = pte /\ w.mm.pt = pt /\ w.mm.pd = pd
        BY <3>3 DEF WorkOf, MmOf
      <3>5. PICK f : f = WorkOf(fr + n, MmOf(a, pte, pt, pd), ok, ret, panic, lk)
        OBVIOUS
      <3>6. free_pages(w, n) = f
        BY <3>3, <3>5 DEF free_pages, WorkOf
      <3>7. f.mm.pt = pt /\ f.mm.pd = pd
        BY <3>5 DEF WorkOf, MmOf
      <3>8. PICK pt2, pd2 : pt2 = pt \ pts /\ pd2 = pd \ pds
        OBVIOUS
      <3>9. u = [f EXCEPT !.mm.pt = pt2, !.mm.pd = pd2]
        <4>1. u = [f EXCEPT !.mm.pt = @ \ pts, !.mm.pd = @ \ pds]
          BY <1>6, <1>8, <3>6
        <4> QED
          BY <3>5, <3>8, <4>1 DEF WorkOf, MmOf
      <3>10. u = WorkOf(fr + n, MmOf(a, pte, pt2, pd2), ok, ret, panic, lk)
        BY <3>5, <3>9 DEF WorkOf, MmOf
      <3> QED
        BY <2>1, <3>4, <3>8, <3>10
    <2>5. Freeing(w, u) /\ u.mm = x
      BY <2>3, <2>4, FreeingMore
    <2>6. x.pte = w.mm.pte /\ x.pt = w.mm.pt \ pts /\ x.pd = w.mm.pd \ pds
      BY <2>1, MmFields
    <2>7. DOMAIN w.mm.pte = {} /\ range \subseteq w.mm.pt
            => u.mm.pt = w.mm.pt \ range /\ u.mm.pd = w.mm.pd \ {d}
      BY <1>2, <1>3, <2>5, <2>6
    <2>8. Exited(w, u, range, d)
      BY <1>8, <2>5, <2>6, <2>7 DEF Exited
    <2> QED
      BY <1>1, <1>4, <2>8
  <1> QED
    BY <1>7, <1>8

LEMMA FreeingBoth ==
    ASSUME NEW w, NEW u, NEW v, Freeing(w, u), Freeing(u, v) PROVE Freeing(w, v)
  BY DEF Freeing, Kept2

(* All pages of the first k vmas have been unmapped.                       *)
UnmappedAll(w, u, list, k) ==
    /\ Freeing(w, u) /\ u.mm.pt = w.mm.pt /\ u.mm.pd = w.mm.pd
    /\ DOMAIN u.mm.pte = DOMAIN w.mm.pte \ UNION {Pages(list[i]) : i \in 1 .. k}

LEMMA OneUnmappedMore ==
    ASSUME NEW w, NEW u, NEW list, NEW k \in Nat \ {0}, UnmappedAll(w, u, list, k - 1)
    PROVE  UnmappedAll(w, unmap_range(u, list[k]), list, k)
  <1>1. PICK v : v = unmap_range(u, list[k])
    OBVIOUS
  <1>2. Freeing(w, u) /\ IsWork(u)
    BY DEF UnmappedAll, Freeing
  <1>3. Unmapped(u, v, list[k])
    BY <1>1, <1>2, UnmapRange
  <1>4. Freeing(w, v)
    BY <1>2, <1>3, FreeingBoth DEF Unmapped
  <1>5. 1 .. k = (1 .. k - 1) \cup {k}
    OBVIOUS
  <1>6. UNION {Pages(list[i]) : i \in 1 .. k}
          = (UNION {Pages(list[i]) : i \in 1 .. k - 1}) \cup Pages(list[k])
    BY <1>5
  <1>7. DOMAIN v.mm.pte = DOMAIN w.mm.pte \ UNION {Pages(list[i]) : i \in 1 .. k}
    BY <1>3, <1>6 DEF Unmapped, UnmappedAll
  <1>8. UnmappedAll(w, v, list, k)
    BY <1>3, <1>4, <1>7 DEF Unmapped, UnmappedAll
  <1> QED
    BY <1>1, <1>8

LEMMA UnmapAll ==
    ASSUME NEW w, IsWork(w), NEW list, Len(list) \in Nat
    PROVE  UnmappedAll(w, unmap_all(w, list), list, Len(list))
  <1>1. PICK n \in Nat : n = Len(list)
    OBVIOUS
  <1>2. PICK g : Turns(g, "unmap_all", w, n, list, 0) /\ unmap_all(w, list) = g[n]
    BY <1>1, UnmapAllTurns
  <1>3. g[0] = w /\ \A i \in 1 .. n : g[i] = Turn("unmap_all", g[i - 1], i, list, 0)
    BY <1>2 DEF Turns
  <1> DEFINE Good == {i \in 0 .. n : UnmappedAll(w, g[i], list, i)}
  <1>4. 0 \in Good
    <2>1. 1 .. 0 = {}
      OBVIOUS
    <2>2. UnmappedAll(w, w, list, 0)
      BY <2>1, FreeingNothing DEF UnmappedAll
    <2> QED
      BY <1>3, <2>2
  <1>5. ASSUME NEW i \in 1 .. n, i - 1 \in Good PROVE i \in Good
    <2>1. UnmappedAll(w, g[i - 1], list, i - 1)
      BY <1>5
    <2>2. g[i] = unmap_range(g[i - 1], list[i])
      BY <1>3 DEF Turn
    <2>3. i \in Nat \ {0}
      OBVIOUS
    <2>4. UnmappedAll(w, g[i], list, i)
      BY <2>1, <2>2, <2>3, OneUnmappedMore
    <2> QED
      BY <2>4
  <1> HIDE DEF Good
  <1>6. n \in Good
    BY <1>4, <1>5, CountUp
  <1> QED
    BY <1>1, <1>2, <1>6 DEF Good

-----------------------------------------------------------------------------
(* Tables and directories.                                                 *)
Dirs(vma) == PD(vma.start) .. PD(vma.end - 1)

LEMMA TablesAre ==
    ASSUME NEW vma \in VmaSet, vma.start < vma.end
    PROVE  /\ PT(vma.start) \in Int /\ PT(vma.end - 1) \in Int /\ PT(vma.start) <= PT(vma.end - 1)
           /\ PD(vma.start) \in Int /\ PD(vma.end - 1) \in Int /\ PD(vma.start) <= PD(vma.end - 1)
  <1>1. NPTEENTRY \in Nat \ {0} /\ NPDEENTRY \in Nat \ {0}
    BY VmAssumption
  <1>2. PICK a \in Int, b \in Int : a = vma.start /\ b = vma.end - 1 /\ a <= b
    BY DEF VmaSet
  <1>3. PT(a) \in Int /\ PT(b) \in Int /\ PT(a) <= PT(b)
    BY <1>1, <1>2, DivIs, DivMono DEF PT
  <1>4. PD(a) \in Int /\ PD(b) \in Int /\ PD(a) <= PD(b)
    <2>1. PICK s \in Int, t \in Int : s = PT(a) /\ t = PT(b) /\ s <= t
      BY <1>3
    <2>2. s \div NPDEENTRY \in Int /\ t \div NPDEENTRY \in Int /\ s \div NPDEENTRY <= t \div NPDEENTRY
      BY <1>1, <2>1, DivIs, DivMono
    <2> QED
      BY <2>1, <2>2 DEF PD
  <1> QED
    BY <1>2, <1>3, <1>4

(* The tables and directories of a vma are those of its pages.             *)
LEMMA TablesOfPages ==
    ASSUME NEW vma \in VmaSet, vma.start < vma.end
    PROVE  /\ \A la \in Pages(vma) : /\ PT(la) \in TablesIn(vma, PD(la))
                                     /\ PD(la) \in Dirs(vma)
           /\ \A d : \A t \in TablesIn(vma, d) : \E la \in Pages(vma) : PT(la) = t /\ PD(la) = d
           /\ \A d \in Dirs(vma) : \E la \in Pages(vma) : PD(la) = d
  <1>1. NPTEENTRY \in Nat \ {0} /\ NPDEENTRY \in Nat \ {0}
    BY VmAssumption
  <1>2. PICK a \in Int, b \in Int : a = vma.start /\ b = vma.end - 1 /\ a <= b
    BY DEF VmaSet
  <1>3. PICK s \in Int, t \in Int : s = PT(a) /\ t = PT(b) /\ s <= t
    BY <1>2, TablesAre
  <1>4. PICK c \in Int, e \in Int : c = PD(a) /\ e = PD(b) /\ c <= e
    BY <1>2, TablesAre
  <1>5. Pages(vma) = a .. b
    BY <1>2 DEF Pages
  <1>6. \A d : TablesIn(vma, d) = {x \in s .. t : x \div NPDEENTRY = d}
    BY <1>2, <1>3 DEF TablesIn
  <1>7. Dirs(vma) = c .. e
    BY <1>2, <1>4 DEF Dirs
  <1>8. ASSUME NEW la \in a .. b
        PROVE  PT(la) \in TablesIn(vma, PD(la)) /\ PD(la) \in Dirs(vma)
    <2>1. la \in Int /\ a <= la /\ la <= b
      OBVIOUS
    <2>2. PICK x \in Int : x = PT(la)
      BY <1>1, <2>1, DivIs DEF PT
    <2>3. s <= x /\ x <= t
      BY <1>1, <1>3, <2>1, <2>2, DivMono DEF PT
    <2>4. x \div NPDEENTRY = PD(la)
      BY <2>2 DEF PD
    <2>5. PT(la) \in TablesIn(vma, PD(la))
      BY <1>6, <2>2, <2>3, <2>4
    <2>6. x \div NPDEENTRY \in Int /\ s \div NPDEENTRY <= x \div NPDEENTRY /\ x \div NPDEENTRY <= t \div NPDEENTRY
      BY <1>1, <2>2, <2>3, DivIs, DivMono
    <2>7. c = s \div NPDEENTRY /\ e = t \div NPDEENTRY
      BY <1>3, <1>4 DEF PD
    <2>8. PD(la) \in c .. e
      BY <2>4, <2>6, <2>7
    <2> QED
      BY <1>7, <2>5, <2>8
  <1>9. ASSUME NEW d, NEW x \in TablesIn(vma, d)
        PROVE  \E la \in a .. b : PT(la) = x /\ PD(la) = d
    <2>1. x \in s .. t /\ x \div NPDEENTRY = d
      BY <1>6
    <2>2. PICK la \in a .. b : la \div NPTEENTRY = x
      <3>1. x \in (a \div NPTEENTRY) .. (b \div NPTEENTRY)
        BY <1>3, <2>1 DEF PT
      <3> QED
        <4>1. Reached(NPTEENTRY, a, b, x)
          BY <1>1, <1>2, <3>1, DivOnto
        <4> QED
          BY <4>1 DEF Reached
    <2>3. PT(la) = x /\ PD(la) = d
      BY <2>1, <2>2 DEF PT, PD
    <2> QED
      BY <2>3
  <1>10. ASSUME NEW d \in Dirs(vma) PROVE \E la \in a .. b : PD(la) = d
    <2>1. PICK x \in s .. t : x \div NPDEENTRY = d
      <3>1. d \in (s \div NPDEENTRY) .. (t \div NPDEENTRY)
        BY <1>3, <1>4, <1>7 DEF PD
      <3> QED
        <4>1. Reached(NPDEENTRY, s, t, d)
          BY <1>1, <1>3, <3>1, DivOnto
        <4> QED
          BY <4>1 DEF Reached
    <2>2. x \in TablesIn(vma, d)
      BY <1>6, <2>1
    <2> QED
      BY <1>9, <2>2
  <1> QED
    BY <1>5, <1>8, <1>9, <1>10

(* Before exit_range, the pages being gone; and after it went through the   *)
(* directories in done.                                                    *)
Whole(m, list) ==
    /\ DOMAIN m.pte = {}
    /\ m.pt = {PT(la) : la \in PagesOf(list)} /\ m.pd = {PD(la) : la \in PagesOf(list)}
    /\ Proper(list) /\ Elems(list) \subseteq VmaSet /\ TidyVmas(Elems(list))
Gone(m, x, done) ==
    /\ DOMAIN x.pte = {}
    /\ x.pt = {t \in m.pt : t \div NPDEENTRY \notin done}
    /\ x.pd = m.pd \ done

LEMMA DirectoryGoes ==
    ASSUME NEW m, NEW list, Whole(m, list), NEW vma \in Elems(list), NEW d \in Dirs(vma),
           NEW done, NEW w, Gone(m, w.mm, done), NEW u, Exited(w, u, TablesIn(vma, d), d)
    PROVE  Gone(m, u.mm, done \cup {d})
  <1>1. vma \in VmaSet /\ vma.start < vma.end
    BY DEF Whole, Proper
  <1>2. CASE d \in done
    <2>1. u = w
      BY <1>2 DEF Gone, Exited
    <2>2. done \cup {d} = done
      BY <1>2
    <2> QED
      BY <2>1, <2>2
  <1>3. CASE d \notin done
    <2>1. d \in m.pd
      <3>1. PICK la \in Pages(vma) : PD(la) = d
        BY <1>1, TablesOfPages
      <3>2. la \in PagesOf(list)
        BY DEF PagesOf
      <3> QED
        BY <3>1, <3>2 DEF Whole
    <2>2. TablesIn(vma, d) \subseteq w.mm.pt
      <3>1. SUFFICES ASSUME NEW t \in TablesIn(vma, d) PROVE t \in w.mm.pt
        OBVIOUS
      <3>2. PICK la \in Pages(vma) : PT(la) = t /\ PD(la) = d
        BY <1>1, TablesOfPages
      <3>3. la \in PagesOf(list)
        BY DEF PagesOf
      <3>4. t \in m.pt
        BY <3>2, <3>3 DEF Whole
      <3>5. t \div NPDEENTRY = d
        BY <3>2 DEF PD
      <3> QED
        BY <1>3, <3>4, <3>5 DEF Gone
    <2>3. /\ DOMAIN w.mm.pte = {} /\ d \in w.mm.pd
          /\ u.mm.pte = w.mm.pte
          /\ u.mm.pt = w.mm.pt \ TablesIn(vma, d) /\ u.mm.pd = w.mm.pd \ {d}
      <3>1. DOMAIN w.mm.pte = {} /\ d \in w.mm.pd
        BY <1>3, <2>1 DEF Gone
      <3> QED
        BY <2>2, <3>1 DEF Exited
    <2>4. ASSUME NEW t \in m.pt, t \div NPDEENTRY = d PROVE t \in TablesIn(vma, d)
      <3>1. PICK la \in PagesOf(list) : PT(la) = t
        BY DEF Whole
      <3>2. PICK v \in Elems(list) : la \in Pages(v)
        BY DEF PagesOf
      <3>3. v \in VmaSet /\ v.start < v.end
        BY DEF Whole, Proper
      <3>4. PD(la) = d
        BY <2>4, <3>1 DEF PD
      <3>5. t \in TablesIn(v, d)
        BY <3>1, <3>2, <3>3, <3>4, TablesOfPages
      <3>6. PICK la2 \in Pages(vma) : PD(la2) = d
        BY <1>1, TablesOfPages
      <3>7. TablesIn(v, d) = TablesIn(vma, d)
        <4>1. TidyVmas(Elems(list))
          BY DEF Whole
        <4>2. PD(la) = PD(la2) => TablesIn(v, PD(la)) = TablesIn(vma, PD(la2))
          BY <3>2, <4>1 DEF TidyVmas
        <4> QED
          BY <3>4, <3>6, <4>2, Zenon
      <3> QED
        BY <3>5, <3>7
    <2>5. \A t \in TablesIn(vma, d) : t \div NPDEENTRY = d
      BY DEF TablesIn
    <2>6. u.mm.pt = {t \in m.pt : t \div NPDEENTRY \notin done \cup {d}}
      <3>1. w.mm.pt = {t \in m.pt : t \div NPDEENTRY \notin done}
        BY DEF Gone
      <3> QED
        BY <2>3, <2>4, <2>5, <3>1
    <2>7. u.mm.pd = m.pd \ (done \cup {d})
      BY <2>3 DEF Gone
    <2> QED
      BY <2>3, <2>6, <2>7 DEF Gone
  <1> QED
    BY <1>2, <1>3

(* exit_range of a vma: nothing is lost, and its directories are done.     *)
RangeExited(w, u, m, list, done, ds) ==
    /\ Freeing(w, u) /\ u.mm.pte = w.mm.pte
    /\ Whole(m, list) /\ Gone(m, w.mm, done) => Gone(m, u.mm, done \cup ds)

LEMMA OneDirMore ==
    ASSUME NEW m, NEW list, NEW vma \in Elems(list), NEW done, NEW ds, NEW d \in Dirs(vma),
           NEW w, NEW u, RangeExited(w, u, m, list, done, ds)
    PROVE  RangeExited(w, exit_pd(u, vma, d), m, list, done, ds \cup {d})
  <1>1. PICK v : v = exit_pd(u, vma, d)
    OBVIOUS
  <1>2. IsWork(u) /\ Freeing(w, u) /\ u.mm.pte = w.mm.pte
    BY DEF RangeExited, Freeing
  <1>3. Exited(u, v, TablesIn(vma, d), d)
    BY <1>1, <1>2, ExitPd
  <1>4. Freeing(w, v) /\ v.mm.pte = w.mm.pte
    BY <1>2, <1>3, FreeingBoth DEF Exited
  <1>5. ASSUME Whole(m, list), Gone(m, w.mm, done) PROVE Gone(m, v.mm, done \cup (ds \cup {d}))
    <2>1. Gone(m, u.mm, done \cup ds)
      BY <1>5 DEF RangeExited
    <2>2. Gone(m, v.mm, (done \cup ds) \cup {d})
      BY <1>3, <1>5, <2>1, DirectoryGoes
    <2>3. (done \cup ds) \cup {d} = done \cup (ds \cup {d})
      OBVIOUS
    <2> QED
      BY <2>2, <2>3
  <1>6. RangeExited(w, v, m, list, done, ds \cup {d})
    BY <1>4, <1>5 DEF RangeExited
  <1> QED
    BY <1>1, <1>6

LEMMA NoDirYet ==
    ASSUME NEW w, IsWork(w), NEW m, NEW list, NEW done
    PROVE  RangeExited(w, w, m, list, done, {})
  <1>1. done \cup {} = done
    OBVIOUS
  <1> QED
    BY <1>1, FreeingNothing DEF RangeExited

LEMMA ExitRange ==
    ASSUME NEW w, IsWork(w), NEW m, NEW list, NEW vma \in Elems(list), NEW done,
           vma \in VmaSet, vma.start < vma.end
    PROVE  RangeExited(w, exit_range(w, vma), m, list, done, Dirs(vma))
  <1>1. PICK first \in Int, last \in Int :
             first = PD(vma.start) /\ last = PD(vma.end - 1) /\ first <= last
    BY TablesAre
  <1>2. PICK n \in Nat : n = last - first + 1
    <2>1. last - first + 1 \in Nat
      BY <1>1
    <2> QED
      BY <2>1
  <1>3. PICK g : Turns(g, "exit_range", w, n, vma, 0) /\ exit_range(w, vma) = g[n]
    BY <1>1, <1>2, ExitRangeTurns
  <1>4. g[0] = w /\ \A i \in 1 .. n : g[i] = Turn("exit_range", g[i - 1], i, vma, 0)
    BY <1>3 DEF Turns
  <1> DEFINE Good == {i \in 0 .. n : RangeExited(w, g[i], m, list, done, first .. first + i - 1)}
  <1>5. 0 \in Good
    <2>1. first .. first + 0 - 1 = {}
      BY <1>1
    <2> QED
      BY <1>4, <2>1, NoDirYet
  <1>6. ASSUME NEW i \in 1 .. n, i - 1 \in Good PROVE i \in Good
    <2>1. RangeExited(w, g[i - 1], m, list, done, first .. first + (i - 1) - 1)
      BY <1>6
    <2>2. g[i] = exit_pd(g[i - 1], vma, first + i - 1)
      BY <1>1, <1>4 DEF Turn
    <2>3. PICK d \in Int : d = first + i - 1
      BY <1>1
    <2>4. d \in Dirs(vma)
      BY <1>1, <1>2, <2>3 DEF Dirs
    <2>5. first .. first + i - 1 = (first .. first + (i - 1) - 1) \cup {d}
      BY <1>1, <2>3
    <2>6. PICK ds : ds = first .. first + (i - 1) - 1
      OBVIOUS
    <2>7. RangeExited(w, exit_pd(g[i - 1], vma, d), m, list, done, ds \cup {d})
      BY <2>1, <2>4, <2>6, OneDirMore
    <2>8. RangeExited(w, g[i], m, list, done, first .. first + i - 1)
      BY <2>2, <2>3, <2>5, <2>6, <2>7
    <2> QED
      BY <2>8
  <1> HIDE DEF Good
  <1>7. n \in Good
    BY <1>5, <1>6, CountUp
  <1>8. first .. first + n - 1 = Dirs(vma)
    BY <1>1, <1>2 DEF Dirs
  <1> QED
    BY <1>3, <1>7, <1>8 DEF Good

LEMMA RangesExited ==
    ASSUME NEW w, NEW u, NEW v, NEW m, NEW list, NEW ds, NEW es,
           RangeExited(w, u, m, list, {}, ds), RangeExited(u, v, m, list, ds, es)
    PROVE  RangeExited(w, v, m, list, {}, ds \cup es)
  <1>1. {} \cup ds = ds /\ {} \cup (ds \cup es) = ds \cup es
    OBVIOUS
  <1>2. Freeing(w, v) /\ v.mm.pte = w.mm.pte
    BY FreeingBoth DEF RangeExited
  <1>3. ASSUME Whole(m, list), Gone(m, w.mm, {}) PROVE Gone(m, v.mm, ds \cup es)
    <2>1. Gone(m, u.mm, ds)
      BY <1>1, <1>3 DEF RangeExited
    <2> QED
      BY <1>3, <2>1 DEF RangeExited
  <1> QED
    BY <1>1, <1>2, <1>3 DEF RangeExited

Bare(m) == DOMAIN m.pte = {} /\ m.pt = {} /\ m.pd = {}
AllExited(w, u, list) == Freeing(w, u) /\ (Whole(w.mm, list) => Bare(u.mm))

LEMMA ExitAll ==
    ASSUME NEW w, IsWork(w), NEW list, Len(list) \in Nat,
           Elems(list) \subseteq VmaSet, Proper(list)
    PROVE  AllExited(w, exit_all(w, list), list)
  <1>1. PICK n \in Nat : n = Len(list)
    OBVIOUS
  <1>2. PICK g : Turns(g, "exit_all", w, n, list, 0) /\ exit_all(w, list) = g[n]
    BY <1>1, ExitAllTurns
  <1>3. g[0] = w /\ \A i \in 1 .. n : g[i] = Turn("exit_all", g[i - 1], i, list, 0)
    BY <1>2 DEF Turns
  <1>4. PICK m : m = w.mm
    OBVIOUS
  <1> DEFINE Ds(i) == UNION {Dirs(list[j]) : j \in 1 .. i}
             Good == {i \in 0 .. n : RangeExited(w, g[i], m, list, {}, Ds(i))}
  <1>5. 0 \in Good
    <2>1. 1 .. 0 = {}
      OBVIOUS
    <2>2. Ds(0) = {}
      BY <2>1
    <2> HIDE DEF Ds
    <2> QED
      BY <1>3, <2>2, NoDirYet
  <1>6. ASSUME NEW i \in 1 .. n, i - 1 \in Good PROVE i \in Good
    <2>1. PICK ds : ds = Ds(i - 1)
      OBVIOUS
    <2>2. RangeExited(w, g[i - 1], m, list, {}, ds)
      BY <1>6, <2>1
    <2>3. Ds(i) = ds \cup Dirs(list[i])
      <3>1. 1 .. i = (1 .. i - 1) \cup {i}
        OBVIOUS
      <3> QED
        BY <2>1, <3>1
    <2> HIDE DEF Ds
    <2>4. g[i] = exit_range(g[i - 1], list[i])
      BY <1>3 DEF Turn
    <2>5. PICK vma : vma = list[i]
      OBVIOUS
    <2>6. vma \in Elems(list) /\ vma \in VmaSet /\ vma.start < vma.end
      <3>1. vma \in Elems(list)
        BY <1>1, <2>5 DEF Elems
      <3> QED
        BY <3>1 DEF Proper
    <2>7. IsWork(g[i - 1])
      BY <2>2 DEF RangeExited, Freeing
    <2>8. RangeExited(g[i - 1], g[i], m, list, ds, Dirs(vma))
      BY <2>4, <2>5, <2>6, <2>7, ExitRange
    <2>9. RangeExited(w, g[i], m, list, {}, ds \cup Dirs(vma))
      BY <2>2, <2>8, RangesExited
    <2>10. RangeExited(w, g[i], m, list, {}, Ds(i))
      BY <2>3, <2>5, <2>9
    <2> QED
      BY <2>10
  <1> HIDE DEF Good
  <1>7. n \in Good
    BY <1>5, <1>6, CountUp
  <1>8. PICK u : u = exit_all(w, list)
    OBVIOUS
  <1>9. RangeExited(w, u, m, list, {}, Ds(n))
    BY <1>2, <1>7, <1>8 DEF Good
  <1>10. ASSUME Whole(m, list) PROVE Bare(u.mm)
    <2>1. Gone(m, w.mm, {})
      BY <1>4, <1>10 DEF Gone, Whole
    <2>2. PICK ds : ds = {} \cup Ds(n)
      OBVIOUS
    <2>3. Gone(m, u.mm, ds)
      <3> HIDE DEF Ds
      <3> QED
        BY <1>9, <1>10, <2>1, <2>2 DEF RangeExited
    <2>4. \A la \in PagesOf(list) : PD(la) \in ds
      <3> TAKE la \in PagesOf(list)
      <3>1. PICK i \in 1 .. n : la \in Pages(list[i])
        BY <1>1 DEF PagesOf, Elems
      <3>2. PICK vma : vma = list[i]
        OBVIOUS
      <3>3. vma \in VmaSet /\ vma.start < vma.end
        <4>1. vma \in Elems(list)
          BY <1>1, <3>2 DEF Elems
        <4> QED
          BY <4>1 DEF Proper
      <3>4. PD(la) \in Dirs(vma)
        BY <3>1, <3>2, <3>3, TablesOfPages
      <3>5. PD(la) \in Ds(n)
        BY <3>2, <3>4
      <3> QED
        BY <2>2, <3>5
    <2>5. \A t \in m.pt : t \div NPDEENTRY \in ds
      BY <1>10, <2>4 DEF Whole, PD
    <2>6. \A d \in m.pd : d \in ds
      BY <1>10, <2>4 DEF Whole
    <2> QED
      BY <2>3, <2>5, <2>6 DEF Gone, Bare
  <1>11. AllExited(w, u, list)
    BY <1>4, <1>9, <1>10 DEF AllExited, RangeExited
  <1> QED
    BY <1>8, <1>11

-----------------------------------------------------------------------------
(* The whole of an address space.                                          *)
FullMm(m) == Shaped(m) /\ PagesOf(m.vma) \subseteq DOMAIN m.pte /\ TidyVmas(Elems(m.vma))
MmExited(w, u) == Freeing(w, u) /\ (FullMm(w.mm) => Bare(u.mm))

LEMMA ExitMmap ==
    ASSUME NEW w, IsWork(w), Proper(w.mm.vma)
    PROVE  MmExited(w, exit_mmap(w))
  <1>1. PICK list : list = w.mm.vma
    OBVIOUS
  <1>2. list \in Seq(VmaSet) /\ Len(list) \in Nat /\ Elems(list) \subseteq VmaSet
    <2>1. list \in Seq(VmaSet)
      BY <1>1, WorkParts, MmParts
    <2>2. \A i \in 1 .. Len(list) : list[i] \in VmaSet
      BY <2>1
    <2> QED
      BY <2>1, <2>2 DEF Elems
  <1>3. PICK t : t = unmap_all(w, list)
    OBVIOUS
  <1>4. PICK u : u = exit_all(t, list)
    OBVIOUS
  <1>5. exit_mmap(w) = u
    BY <1>1, <1>3, <1>4 DEF exit_mmap
  <1>6. UnmappedAll(w, t, list, Len(list))
    BY <1>2, <1>3, UnmapAll
  <1>7. Freeing(w, t) /\ IsWork(t)
    BY <1>6 DEF UnmappedAll, Freeing
  <1>8. AllExited(t, u, list)
    BY <1>1, <1>2, <1>4, <1>7, ExitAll
  <1>9. Freeing(w, u)
    BY <1>7, <1>8, FreeingBoth DEF AllExited
  <1>10. ASSUME FullMm(w.mm) PROVE Bare(u.mm)
    <2>1. /\ DOMAIN w.mm.pte = PagesOf(list) /\ TidyVmas(Elems(list))
          /\ TablesFit(w.mm)
      BY <1>1, <1>10 DEF FullMm, Shaped
    <2>2. PagesOf(list) = UNION {Pages(list[i]) : i \in 1 .. Len(list)}
      BY DEF PagesOf, Elems
    <2>3. DOMAIN t.mm.pte = {} /\ t.mm.pt = w.mm.pt /\ t.mm.pd = w.mm.pd
      BY <1>6, <2>1, <2>2 DEF UnmappedAll
    <2>4. Whole(t.mm, list)
      BY <1>1, <1>2, <2>1, <2>3 DEF Whole, TablesFit
    <2> QED
      BY <1>8, <2>4 DEF AllExited
  <1>11. MmExited(w, u)
    BY <1>9, <1>10 DEF MmExited
  <1> QED
    BY <1>5, <1>11

(* drop_mm gives back or loses every page, and loses none if the address    *)
(* space is complete.                                                      *)
MmDropped(w, u) ==
    /\ IsWork(u) /\ u.ret = w.ret /\ u.panic = w.panic /\ u.ok = w.ok /\ u.mm = EmptyMm
    /\ u.free + u.leaked = Worth(w) + w.leaked
    /\ FullMm(w.mm) => u.leaked = w.leaked

LEMMA BelowCounted ==
    ASSUME NEW m, IsMm(m)
    PROVE  /\ Cardinality(Below(m)) \in Nat /\ Size(m) = 1 + Cardinality(Below(m))
           /\ Bare(m) => Cardinality(Below(m)) = 0
  <1>1. Owned(m) = {<<"pgdir", 0>>} \cup Below(m) /\ {<<"pgdir", 0>>} \cap Below(m) = {}
    BY DEF Owned, Below
  <1>2. IsFiniteSet(Below(m))
    <2>1. IsFiniteSet(Owned(m)) /\ Below(m) \in SUBSET Owned(m)
      BY <1>1, MmSize
    <2> QED
      BY <2>1, FS_Subset
  <1>3. IsFiniteSet({<<"pgdir", 0>>}) /\ Cardinality({<<"pgdir", 0>>}) = 1
    BY FS_Singleton
  <1>4. Cardinality(Below(m)) \in Nat /\ Size(m) = 1 + Cardinality(Below(m))
    BY <1>1, <1>2, <1>3, DisjointCount DEF Size
  <1>5. ASSUME Bare(m) PROVE Cardinality(Below(m)) = 0
    <2>1. Below(m) = {}
      BY <1>5 DEF Bare, Below
    <2> QED
      BY <2>1, FS_EmptySet
  <1> QED
    BY <1>4, <1>5

LEMMA DropMm ==
    ASSUME NEW w, IsWork(w), Proper(w.mm.vma)
    PROVE  MmDropped(w, drop_mm(w))
  <1>1. PICK t : t = exit_mmap(w)
    OBVIOUS
  <1>2. MmExited(w, t)
    BY <1>1, ExitMmap
  <1>3. IsWork(t) /\ Kept2(w, t) /\ t.ok = w.ok /\ Worth(t) = Worth(w)
    BY <1>2 DEF MmExited, Freeing
  <1>4. PICK f : f = free_pages(t, 1)
    OBVIOUS
  <1>5. IsWork(f) /\ Kept2(t, f) /\ f.free = t.free + 1 /\ f.ok = t.ok
    BY <1>3, <1>4, FreePages
  <1>6. PICK u : u = drop_mm(w)
    OBVIOUS
  <1>7. PICK lost1 : lost1 = f.leaked + Cardinality(Below(t.mm))
    OBVIOUS
  <1>8. u = WorkOf(f.free, EmptyMm, f.ok, f.ret, f.panic, lost1)
    <2>1. PICK x : x = [f EXCEPT !.leaked = lost1]
      OBVIOUS
    <2>2. x = WorkOf(f.free, f.mm, f.ok, f.ret, f.panic, lost1)
      BY <1>5, <2>1, WorkChanges
    <2>3. u = [f EXCEPT !.leaked = lost1, !.mm = EmptyMm]
      BY <1>1, <1>4, <1>6, <1>7 DEF drop_mm
    <2>4. PICK fr, mm, ok, ret, panic, lk : f = WorkOf(fr, mm, ok, ret, panic, lk)
      BY <1>5 DEF IsWork, WorkOf
    <2>5. f.free = fr /\ f.ok = ok /\ f.ret = ret /\ f.panic = panic
      BY <2>4, WorkFields
    <2>6. u = WorkOf(fr, EmptyMm, ok, ret, panic, lost1)
      BY <2>3, <2>4 DEF WorkOf
    <2> QED
      BY <2>5, <2>6
  <1>9. /\ u.free = f.free /\ u.mm = EmptyMm /\ u.ok = f.ok /\ u.ret = f.ret
        /\ u.panic = f.panic /\ u.leaked = lost1
    BY <1>8, WorkFields
  <1>10. /\ Cardinality(Below(t.mm)) \in Nat /\ Size(t.mm) = 1 + Cardinality(Below(t.mm))
         /\ Bare(t.mm) => Cardinality(Below(t.mm)) = 0
    BY <1>3, WorkParts, BelowCounted
  <1>11. f.leaked = w.leaked /\ w.leaked \in Nat /\ t.free \in Nat
    BY <1>3, <1>5, WorkParts DEF Kept2
  <1>12. IsWork(u)
    <2>1. lost1 \in Nat /\ f.free \in Nat
      BY <1>5, <1>7, <1>10, <1>11, WorkParts
    <2> QED
      BY <1>8, <2>1, EmptyMmIs, WorkOfIs
  <1>13. u.free + u.leaked = Worth(w) + w.leaked
    BY <1>3, <1>5, <1>7, <1>9, <1>10, <1>11 DEF Worth
  <1>14. FullMm(w.mm) => u.leaked = w.leaked
    BY <1>2, <1>7, <1>9, <1>10, <1>11 DEF MmExited
  <1>15. MmDropped(w, u)
    BY <1>3, <1>5, <1>9, <1>12, <1>13, <1>14 DEF MmDropped, Kept2
  <1> QED
    BY <1>6, <1>15

(* Where a handler begins.                                                 *)
LEMMA WithIs ==
    ASSUME free \in Nat, leaked \in Nat, NEW m, IsMm(m)
    PROVE  /\ IsWork(With(m)) /\ With(m).free = free /\ With(m).mm = m /\ With(m).ok = TRUE
           /\ Clean(With(m)) /\ With(m).leaked = leaked
  <1>1. PICK yes, ret, panic : yes = TRUE /\ ret = "0" /\ panic = ""
    OBVIOUS
  <1>2. With(m) = WorkOf(free, m, yes, ret, panic, leaked)
    BY <1>1 DEF With, WorkOf
  <1>3. IsWork(With(m))
    BY <1>2, WorkOfIs
  <1>4. /\ With(m).free = free /\ With(m).mm = m /\ With(m).ok = yes
        /\ With(m).ret = ret /\ With(m).panic = panic /\ With(m).leaked = leaked
    BY <1>2, WorkFields
  <1>5. Clean(With(m))
    BY <1>1, <1>4 DEF Clean, NoCode
  <1> QED
    BY <1>1, <1>3, <1>4, <1>5, Zenon

(* The page directory of a new address space.                              *)
LEMMA NewMm ==
    ASSUME NEW w, IsWork(w), w.mm = EmptyMm, NEW a, a = alloc_pages(w, 1)
    PROVE  /\ IsWork(a) /\ a.mm = EmptyMm /\ Kept2(w, a) /\ Proper(a.mm.vma)
           /\ a.ok => w.ok /\ Worth(a) = w.free
           /\ w.ok /\ ~a.ok => a.free = w.free
  <1>1. /\ IsWork(a) /\ a.mm = w.mm /\ Kept2(w, a)
        /\ w.free < 1 => a.free = w.free /\ a.ok = FALSE
        /\ ~(w.free < 1) => a.free = w.free - 1 /\ a.ok = w.ok
    <2>1. 1 \in Nat
      OBVIOUS
    <2> QED
      BY <2>1, AllocPages
  <1>2. w.free \in Nat /\ a.free \in Nat
    BY <1>1, WorkParts
  <1>3. Proper(a.mm.vma)
    BY <1>1 DEF Proper, Elems, EmptyMm
  <1>4. ASSUME a.ok PROVE w.ok /\ Worth(a) = w.free
    <2>1. ~(w.free < 1)
      BY <1>1, <1>4
    <2>2. a.free = w.free - 1 /\ a.ok = w.ok /\ Size(a.mm) = 1
      BY <1>1, <2>1, EmptyMmIs
    <2> QED
      BY <1>2, <1>4, <2>2 DEF Worth
  <1>5. w.ok /\ ~a.ok => a.free = w.free
    BY <1>1
  <1> QED
    BY <1>1, <1>2, <1>3, <1>4, <1>5

LEMMA EvenIsFull ==
    ASSUME NEW elf, Filling(elf), Tidy(elf), NEW m, Even(m, elf) PROVE FullMm(m)
  <1>1. Elems(m.vma) \subseteq ProgramVmas(elf)
    BY DEF Even
  <1>2. TidyVmas(Elems(m.vma))
    BY <1>1 DEF Tidy, TidyVmas
  <1> QED
    BY <1>2 DEF Even, FullMm

(* load_icode gives back or loses what it took when it fails, and loses     *)
(* nothing when it turns a neat program down for what its headers say.     *)
CodeLoaded(w, u, elf) ==
    /\ IsWork(u)
    /\ u.panic = "" /\ u.ok =>
         Worth(u) = w.free /\ u.leaked = w.leaked /\ NoCode(u) /\ Image(u.mm, elf)
    /\ u.panic = "" /\ ~u.ok => u.free + u.leaked = w.free + w.leaked
    /\ ~u.ok /\ Filling(elf) /\ Tidy(elf) /\ BadProgram(u) => u.leaked = w.leaked

(* The ELF header.                                                         *)
LEMMA HeaderTurnedDown ==
    ASSUME NEW elf, NEW a, IsWork(a), Even(a.mm, elf), Proper(a.mm.vma),
           NEW no, no = FALSE, NEW ret, NEW h,
           h = WorkOf(a.free, a.mm, no, ret, a.panic, a.leaked)
    PROVE  Loading(a, h, elf, 0)
  <1>1. IsWork(h)
    BY WorkOfIs, WorkParts
  <1>2. h.free = a.free /\ h.mm = a.mm /\ h.ok = no /\ h.leaked = a.leaked
    BY WorkFields
  <1>3. Undone(h, elf)
    BY <1>2 DEF Undone
  <1>4. Alike(a, h) /\ Proper(h.mm.vma)
    BY <1>2 DEF Alike, Worth
  <1> QED
    BY <1>1, <1>2, <1>3, <1>4 DEF Loading

LEMMA HeaderRead ==
    ASSUME NEW elf, Len(elf) \in Nat, NEW a, IsWork(a), a.mm = EmptyMm, a.ok, Clean(a),
           NEW r, r = load_icode_read(a, TRUE),
           NEW h, h = IF r.ok /\ elf = <<>> THEN [Fails(r) EXCEPT !.ret = "E_INVAL_ELF"] ELSE r
    PROVE  Loading(a, h, elf, 0)
  <1>1. Fetched1(a, r)
    BY IcodeRead
  <1>2. Laid(a.mm, elf, 0) /\ Proper(a.mm.vma)
    BY NothingLaid DEF Laid, Shaped
  <1>3. Even(a.mm, elf)
    BY <1>2, LaidIsEven
  <1>4. CASE ~r.ok
    <2>1. h = r /\ ~BadProgram(r)
      BY <1>1, <1>4 DEF Fetched1, BadProgram
    <2> QED
      BY <1>1, <1>2, <1>4, <2>1 DEF Loading, Undone, Fetched1, Alike, Worth
  <1>5. CASE r.ok /\ elf # <<>>
    <2>1. h = a
      BY <1>1, <1>5 DEF Fetched1
    <2> QED
      BY <1>2, <2>1 DEF Loading, Alike
  <1>6. CASE r.ok /\ elf = <<>>
    <2>1. PICK no : no = FALSE
      OBVIOUS
    <2>2. h = [Fails(a) EXCEPT !.ret = "E_INVAL_ELF"]
      BY <1>1, <1>6, Zenon DEF Fetched1
    <2>3. h = WorkOf(a.free, a.mm, no, "E_INVAL_ELF", a.panic, a.leaked)
      BY <2>1, <2>2, FailsWith, Zenon
    <2> QED
      BY <1>2, <1>3, <2>1, <2>3, HeaderTurnedDown, Zenon
  <1> QED
    BY <1>4, <1>5, <1>6

LEMMA LoadIcode ==
    ASSUME NEW w, IsWork(w), w.mm = EmptyMm, w.ok, Clean(w), NEW elf \in Seq(Segment)
    PROVE  CodeLoaded(w, load_icode(w, elf), elf)
  <1>1. PICK a : a = alloc_pages(w, 1)
    OBVIOUS
  <1>2. /\ IsWork(a) /\ a.mm = EmptyMm /\ Kept2(w, a)
        /\ a.ok => Worth(a) = w.free
        /\ ~a.ok => a.free = w.free
    BY <1>1, NewMm
  <1>3. Clean(a)
    BY <1>2 DEF Clean, NoCode, Kept2
  <1>4. [w EXCEPT !.mm = EmptyMm] = w
    <2>1. /\ [w EXCEPT !.mm = EmptyMm] = WorkOf(w.free, EmptyMm, w.ok, w.ret, w.panic, w.leaked)
          /\ w = WorkOf(w.free, w.mm, w.ok, w.ret, w.panic, w.leaked)
      BY WorkChanges
    <2> QED
      BY <2>1
  <1>5. PICK r : r = load_icode_read(a, TRUE)
    OBVIOUS
  <1>6. PICK h : h = IF r.ok /\ elf = <<>> THEN [Fails(r) EXCEPT !.ret = "E_INVAL_ELF"] ELSE r
    OBVIOUS
  <1>7. PICK s : s = load_stack(load_segments(h, elf))
    OBVIOUS
  <1>8. PICK u : u = load_icode(w, elf)
    OBVIOUS
  <1>9. u = IF ~a.ok THEN [a EXCEPT !.ret = "E_NO_MEM"]
            ELSE IF s.ok \/ s.panic # "" THEN s ELSE drop_mm(s)
    BY <1>1, <1>4, <1>5, <1>6, <1>7, <1>8 DEF load_icode
  <1>10. Len(elf) \in Nat /\ \A i \in 1 .. Len(elf) : elf[i] \in Segment
    OBVIOUS
  <1>11. CASE ~a.ok
    <2>1. PICK ret : ret = "E_NO_MEM"
      OBVIOUS
    <2>2. u = [a EXCEPT !.ret = ret]
      BY <1>9, <1>11, <2>1
    <2>3. u = WorkOf(a.free, a.mm, a.ok, ret, a.panic, a.leaked)
      BY <1>2, <2>2, WorkChanges
    <2>4. IsWork(u)
      BY <1>2, <2>3, WorkOfIs, WorkParts
    <2>5. u.free = a.free /\ u.ok = a.ok /\ u.ret = ret /\ u.leaked = a.leaked
      BY <2>3, WorkFields
    <2>6. CodeLoaded(w, u, elf)
      BY <1>2, <1>11, <2>4, <2>5 DEF CodeLoaded, Kept2
    <2> QED
      BY <1>8, <2>6
  <1>12. CASE a.ok
    <2>1. Loading(a, h, elf, 0)
      BY <1>2, <1>3, <1>5, <1>6, <1>10, <1>12, HeaderRead
    <2>2. PICK t : t = load_segments(h, elf)
      OBVIOUS
    <2>3. Loading(a, t, elf, Len(elf))
      BY <1>10, <2>1, <2>2, LoadSegments
    <2>4. Stacked(a, s, elf)
      BY <1>7, <1>10, <2>2, <2>3, LoadStack
    <2>5. IsWork(s) /\ Worth(s) = w.free /\ s.leaked = w.leaked /\ Proper(s.mm.vma)
      BY <1>2, <1>12, <2>4 DEF Stacked, Alike, Kept2
    <2>6. CASE s.ok
      <3>1. u = s
        BY <1>9, <1>12, <2>6
      <3>2. CodeLoaded(w, u, elf)
        BY <2>4, <2>5, <2>6, <3>1 DEF Stacked, CodeLoaded, Clean
      <3> QED
        BY <1>8, <3>2
    <2>7. CASE ~s.ok /\ s.panic # ""
      <3>1. u = s
        BY <1>9, <1>12, <2>7
      <3>2. CodeLoaded(w, u, elf)
        BY <2>5, <2>7, <3>1 DEF CodeLoaded
      <3> QED
        BY <1>8, <3>2
    <2>8. CASE ~s.ok /\ s.panic = ""
      <3>1. u = drop_mm(s)
        BY <1>9, <1>12, <2>8
      <3>2. MmDropped(s, u)
        BY <2>5, <3>1, DropMm
      <3>3. IsWork(u) /\ ~u.ok /\ u.free + u.leaked = w.free + w.leaked
        BY <2>5, <2>8, <3>2 DEF MmDropped
      <3>4. ASSUME Filling(elf), Tidy(elf), BadProgram(u) PROVE u.leaked = w.leaked
        <4>1. BadProgram(s)
          BY <3>2, <3>4 DEF MmDropped, BadProgram
        <4>2. Even(s.mm, elf)
          BY <2>4, <2>8, <4>1 DEF Stacked, Undone
        <4>3. FullMm(s.mm)
          BY <3>4, <4>2, EvenIsFull
        <4> QED
          BY <2>5, <3>2, <4>3 DEF MmDropped
      <3>5. CodeLoaded(w, u, elf)
        BY <3>3, <3>4 DEF CodeLoaded
      <3> QED
        BY <1>8, <3>5
    <2> QED
      BY <2>6, <2>7, <2>8
  <1> QED
    BY <1>11, <1>12

-----------------------------------------------------------------------------
(* The address space of a child.                                           *)
CopiedPage(w, u, la, content) ==
    /\ IsWork(u) /\ Alike(w, u) /\ u.mm.vma = w.mm.vma
    /\ u.ok => /\ u.mm.pte = Put(w.mm.pte, la, content)
               /\ u.mm.pt = w.mm.pt \cup {PT(la)} /\ u.mm.pd = w.mm.pd \cup {PD(la)}

LEMMA CopyPage ==
    ASSUME NEW w, IsWork(w), w.ok, NEW la, NEW content
    PROVE  CopiedPage(w, copy_page(w, la, content), la, content)
  <1>1. PICK t : t = get_pte(w, la)
    OBVIOUS
  <1>2. PICK a : a = alloc_pages(t, 1)
    OBVIOUS
  <1>3. PICK i : i = page_insert(a, la, content)
    OBVIOUS
  <1>4. PICK panic : panic = "npage != NULL"
    OBVIOUS
  <1>5. PICK u : u = copy_page(w, la, content)
    OBVIOUS
  <1>6. u = IF ~t.ok THEN t ELSE IF a.ok THEN i ELSE [a EXCEPT !.panic = panic]
    BY <1>1, <1>2, <1>3, <1>4, <1>5 DEF copy_page
  <1>7. Tabled(w, t, {PT(la)}, {PD(la)})
    BY <1>1, GetPte
  <1>8. IsWork(t) /\ t.mm.vma = w.mm.vma /\ t.mm.pte = w.mm.pte /\ Alike(w, t)
    BY <1>7 DEF Tabled, Kept2, Alike
  <1>9. CASE ~t.ok
    <2>1. u = t
      BY <1>6, <1>9
    <2>2. CopiedPage(w, u, la, content)
      BY <1>8, <1>9, <2>1 DEF CopiedPage
    <2> QED
      BY <1>5, <2>2
  <1>10. CASE t.ok
    <2>1. /\ IsWork(a) /\ a.mm = t.mm /\ Kept2(t, a)
          /\ t.free < 1 => a.free = t.free /\ a.ok = FALSE
          /\ ~(t.free < 1) => a.free = t.free - 1 /\ a.ok = t.ok
      <3>1. 1 \in Nat
        OBVIOUS
      <3> QED
        BY <1>2, <1>8, <3>1, AllocPages
    <2>2. t.free \in Nat /\ Size(t.mm) \in Nat
      BY <1>8, WorkParts, MmSize
    <2>3. CASE ~a.ok
      <3>1. u = [a EXCEPT !.panic = panic]
        BY <1>6, <1>10, <2>3
      <3>2. u = WorkOf(a.free, a.mm, a.ok, a.ret, panic, a.leaked)
        <4>1. IsWork(a)
          BY <2>1
        <4> QED
          BY <3>1, <4>1, WorkChanges
      <3>3. IsWork(u)
        BY <2>1, <3>2, WorkOfIs, WorkParts
      <3>4. u.free = a.free /\ u.mm = a.mm /\ u.ok = a.ok /\ u.leaked = a.leaked
        BY <3>2, WorkFields
      <3>5. a.free = t.free
        BY <1>10, <2>1, <2>3
      <3>6. Alike(w, u)
        BY <1>8, <2>1, <3>4, <3>5 DEF Worth, Alike, Kept2
      <3>7. CopiedPage(w, u, la, content)
        BY <1>8, <2>1, <2>3, <3>3, <3>4, <3>6 DEF CopiedPage
      <3> QED
        BY <1>5, <3>7
    <2>4. CASE a.ok
      <3>1. u = i
        BY <1>6, <1>10, <2>4
      <3>2. a.free = t.free - 1
        BY <2>1, <2>4
      <3>3. PT(la) \in a.mm.pt /\ PD(la) \in a.mm.pd
        BY <1>7, <1>10, <2>1 DEF Tabled
      <3>4. Mapped(a, i, la, content, 1) /\ i.ok
        BY <1>3, <2>1, <2>4, <3>3, PageInsert
      <3>5. Worth(i) = Worth(a) + 1
        BY <3>4 DEF Mapped
      <3>6. Alike(w, u)
        <4>1. u.leaked = t.leaked
          BY <2>1, <3>1, <3>4 DEF Mapped, Kept2
        <4> QED
          BY <1>8, <2>1, <2>2, <3>1, <3>2, <3>5, <4>1 DEF Worth, Alike
      <3>7. u.mm.pt = w.mm.pt \cup {PT(la)} /\ u.mm.pd = w.mm.pd \cup {PD(la)}
        <4>1. t.mm.pt = w.mm.pt \cup {PT(la)} /\ t.mm.pd = w.mm.pd \cup {PD(la)}
          BY <1>7, <1>10 DEF Tabled
        <4>2. i.mm.pt = a.mm.pt \cup {PT(la)} /\ i.mm.pd = a.mm.pd \cup {PD(la)}
          BY <3>4 DEF Mapped
        <4> QED
          BY <2>1, <3>1, <4>1, <4>2
      <3>8. CopiedPage(w, u, la, content)
        BY <1>8, <2>1, <3>1, <3>4, <3>6, <3>7 DEF CopiedPage, Mapped
      <3> QED
        BY <1>5, <3>8
    <2> QED
      BY <2>3, <2>4
  <1> QED
    BY <1>9, <1>10

(* The pages in S have been copied, and the vmas in V.                     *)
CopyOf(m, from, S) ==
    /\ DOMAIN m.pte = DOMAIN from.pte \cap S
    /\ \A la \in DOMAIN m.pte : m.pte[la] = from.pte[la]
    /\ TablesFit(m)
Copying(b, u, from, S, V) ==
    /\ IsWork(u) /\ Alike(b, u) /\ Proper(u.mm.vma)
    /\ u.ok => CopyOf(u.mm, from, S) /\ Elems(u.mm.vma) = V

LEMMA OneCopiedMore ==
    ASSUME NEW b, NEW u, NEW from, NEW S, NEW V, Copying(b, u, from, S, V), NEW la,
           NEW v, v = IF la \in DOMAIN from.pte THEN copy_page(u, la, from.pte[la]) ELSE u
    PROVE  Copying(b, v, from, S \cup {la}, V)
  <1>1. CASE la \notin DOMAIN from.pte
    <2>1. v = u /\ DOMAIN from.pte \cap (S \cup {la}) = DOMAIN from.pte \cap S
      BY <1>1
    <2> QED
      BY <2>1 DEF Copying, CopyOf
  <1>2. CASE la \in DOMAIN from.pte /\ ~u.ok
    <2>1. v = u
      BY <1>2 DEF copy_page
    <2> QED
      BY <1>2, <2>1 DEF Copying
  <1>3. CASE la \in DOMAIN from.pte /\ u.ok
    <2>1. PICK content : content = from.pte[la]
      OBVIOUS
    <2>2. IsWork(u) /\ Alike(b, u) /\ Proper(u.mm.vma) /\ IsMm(u.mm)
      BY WorkParts DEF Copying
    <2>3. CopiedPage(u, v, la, content)
      <3>1. v = copy_page(u, la, content)
        BY <1>3, <2>1
      <3> QED
        BY <1>3, <2>2, <3>1, CopyPage
    <2>4. IsWork(v) /\ Alike(b, v) /\ v.mm.vma = u.mm.vma
      BY <2>2, <2>3 DEF CopiedPage, Alike
    <2>5. ASSUME v.ok PROVE CopyOf(v.mm, from, S \cup {la}) /\ Elems(v.mm.vma) = V
      <3>1. /\ v.mm.pte = Put(u.mm.pte, la, content)
            /\ v.mm.pt = u.mm.pt \cup {PT(la)} /\ v.mm.pd = u.mm.pd \cup {PD(la)}
        BY <2>3, <2>5 DEF CopiedPage
      <3>2. Replaced(v.mm.pte, u.mm.pte, la, content)
        BY <2>2, <3>1, PutMap, MmParts
      <3>3. CopyOf(u.mm, from, S) /\ Elems(u.mm.vma) = V
        BY <1>3 DEF Copying
      <3>4. DOMAIN v.mm.pte = DOMAIN from.pte \cap (S \cup {la})
        BY <1>3, <3>2, <3>3 DEF Replaced, CopyOf
      <3>5. \A x \in DOMAIN v.mm.pte : v.mm.pte[x] = from.pte[x]
        <4> TAKE x \in DOMAIN v.mm.pte
        <4>1. CASE x = la
          BY <2>1, <3>2, <4>1 DEF Replaced
        <4>2. CASE x # la
          <5>1. x \in DOMAIN u.mm.pte \ {la}
            BY <3>2, <4>2 DEF Replaced
          <5> QED
            BY <3>2, <3>3, <5>1 DEF Replaced, CopyOf
        <4> QED
          BY <4>1, <4>2
      <3>6. TablesFit(v.mm)
        BY <2>2, <3>1, <3>3, PutFits DEF CopyOf
      <3> QED
        BY <2>4, <3>3, <3>4, <3>5, <3>6 DEF CopyOf
    <2> QED
      BY <2>2, <2>4, <2>5 DEF Copying
  <1> QED
    BY <1>1, <1>2, <1>3

LEMMA CopyRange ==
    ASSUME NEW b, NEW w, NEW from, NEW S, NEW V, Copying(b, w, from, S, V),
           NEW vma \in VmaSet, vma.start < vma.end
    PROVE  Copying(b, copy_range(w, from, vma), from, S \cup Pages(vma), V)
  <1>1. PICK first \in Nat, last \in Nat : first = vma.start /\ last = vma.end /\ first < last
    BY DEF VmaSet
  <1>2. PICK k \in Nat : k = last - first
    <2>1. last - first \in Nat
      BY <1>1
    <2> QED
      BY <2>1
  <1>3. PICK g : Turns(g, "copy_range", w, k, vma, from) /\ copy_range(w, from, vma) = g[k]
    BY <1>1, <1>2, CopyRangeTurns
  <1>4. g[0] = w /\ \A i \in 1 .. k : g[i] = Turn("copy_range", g[i - 1], i, vma, from)
    BY <1>3 DEF Turns
  <1> DEFINE Good == {i \in 0 .. k : Copying(b, g[i], from, S \cup (first .. first + i - 1), V)}
  <1>5. 0 \in Good
    <2>1. S \cup (first .. first + 0 - 1) = S
      BY <1>1
    <2>2. Copying(b, g[0], from, S \cup (first .. first + 0 - 1), V)
      BY <1>4, <2>1
    <2> QED
      BY <2>2
  <1>6. ASSUME NEW i \in 1 .. k, i - 1 \in Good PROVE i \in Good
    <2>1. PICK done : done = S \cup (first .. first + (i - 1) - 1)
      OBVIOUS
    <2>2. Copying(b, g[i - 1], from, done, V)
      BY <1>6, <2>1
    <2>3. PICK la \in Int : la = first + i - 1
      BY <1>1
    <2>4. g[i] = IF la \in DOMAIN from.pte THEN copy_page(g[i - 1], la, from.pte[la]) ELSE g[i - 1]
      BY <1>1, <1>4, <2>3 DEF Turn
    <2>5. Copying(b, g[i], from, done \cup {la}, V)
      BY <2>2, <2>4, OneCopiedMore
    <2>6. done \cup {la} = S \cup (first .. first + i - 1)
      BY <1>1, <2>1, <2>3
    <2> QED
      BY <2>5, <2>6
  <1> HIDE DEF Good
  <1>7. k \in Good
    BY <1>5, <1>6, CountUp
  <1>8. first .. first + k - 1 = Pages(vma)
    BY <1>1, <1>2 DEF Pages
  <1> QED
    BY <1>3, <1>7, <1>8 DEF Good

(* The last k vmas have been copied.                                       *)
LastVmas(list, k) == {list[Len(list) + 1 - i] : i \in 1 .. k}

LEMMA OneVmaMore ==
    ASSUME NEW b, NEW u, NEW from, NEW S, NEW V, Copying(b, u, from, S, V), u.ok,
           NEW vma \in VmaSet, vma.start < vma.end
    PROVE  Copying(b, copy_range([u EXCEPT !.mm.vma = insert_vma_struct(@, vma)], from, vma),
                   from, S \cup Pages(vma), V \cup {vma})
  <1>1. PICK t : t = [u EXCEPT !.mm.vma = insert_vma_struct(@, vma)]
    OBVIOUS
  <1>2. IsWork(u)
    BY DEF Copying
  <1>3. Inserted(u, t, vma)
    BY <1>1, <1>2, InsertVma
  <1>4. Copying(b, t, from, S, V \cup {vma})
    <2>1. IsWork(t) /\ Alike(b, t)
      BY <1>3 DEF Inserted, Copying, Alike, Kept2
    <2>2. Elems(t.mm.vma) = Elems(u.mm.vma) \cup {vma} /\ Elems(u.mm.vma) = V
      BY <1>3 DEF Inserted, Copying
    <2>3. Proper(t.mm.vma)
      BY <2>2 DEF Proper, Copying
    <2>4. CopyOf(t.mm, from, S)
      BY <1>3 DEF Inserted, Copying, CopyOf, TablesFit
    <2> QED
      BY <2>1, <2>2, <2>3, <2>4 DEF Copying
  <1>5. Copying(b, copy_range(t, from, vma), from, S \cup Pages(vma), V \cup {vma})
    BY <1>4, CopyRange
  <1> QED
    BY <1>1, <1>5

LEMMA DupMmap ==
    ASSUME NEW b, NEW w, NEW from, IsMm(from), Proper(from.vma), Copying(b, w, from, {}, {})
    PROVE  Copying(b, dup_mmap(w, from), from, PagesOf(from.vma), Elems(from.vma))
  <1>1. PICK list : list = from.vma
    OBVIOUS
  <1>2. PICK k \in Nat : k = Len(list)
    <2>1. list \in Seq(VmaSet)
      BY <1>1, MmParts
    <2> QED
      BY <2>1
  <1>3. \A i \in 1 .. k : list[i] \in VmaSet /\ list[i].start < list[i].end
    <2>1. list \in Seq(VmaSet)
      BY <1>1, MmParts
    <2>2. \A i \in 1 .. k : list[i] \in VmaSet /\ list[i] \in Elems(list)
      BY <1>2, <2>1 DEF Elems
    <2> QED
      BY <1>1, <2>2 DEF Proper
  <1>4. PICK g : Turns(g, "dup_mmap", w, k, from, 0) /\ dup_mmap(w, from) = g[k]
    BY <1>1, <1>2, DupMmapTurns
  <1>5. g[0] = w /\ \A i \in 1 .. k : g[i] = Turn("dup_mmap", g[i - 1], i, from, 0)
    BY <1>4 DEF Turns
  <1> DEFINE S(i) == UNION {Pages(v) : v \in LastVmas(list, i)}
             Good == {i \in 0 .. k : Copying(b, g[i], from, S(i), LastVmas(list, i))}
  <1>6. 0 \in Good
    <2>1. LastVmas(list, 0) = {}
      <3>1. 1 .. 0 = {}
        OBVIOUS
      <3> QED
        BY <3>1 DEF LastVmas
    <2>2. S(0) = {}
      BY <2>1
    <2> HIDE DEF S
    <2> QED
      BY <1>5, <2>1, <2>2
  <1>7. ASSUME NEW i \in 1 .. k, i - 1 \in Good PROVE i \in Good
    <2>1. PICK done, vmas : done = S(i - 1) /\ vmas = LastVmas(list, i - 1)
      OBVIOUS
    <2>2. Copying(b, g[i - 1], from, done, vmas)
      BY <1>7, <2>1
    <2>3. PICK vma : vma = list[k + 1 - i]
      OBVIOUS
    <2>4. vma \in VmaSet /\ vma.start < vma.end
      <3>1. k + 1 - i \in 1 .. k
        OBVIOUS
      <3> QED
        BY <1>3, <2>3, <3>1
    <2>5. LastVmas(list, i) = vmas \cup {vma}
      <3>1. 1 .. i = (1 .. i - 1) \cup {i}
        OBVIOUS
      <3> QED
        BY <1>2, <2>1, <2>3, <3>1 DEF LastVmas
    <2>6. S(i) = done \cup Pages(vma)
      BY <2>1, <2>5
    <2> HIDE DEF S
    <2>7. g[i] = IF g[i - 1].ok
                 THEN copy_range([g[i - 1] EXCEPT !.mm.vma = insert_vma_struct(@, vma)], from, vma)
                 ELSE g[i - 1]
      BY <1>1, <1>2, <1>5, <2>3 DEF Turn
    <2>8. CASE g[i - 1].ok
      <3>1. PICK u : u = g[i - 1]
        OBVIOUS
      <3>2. Copying(b, copy_range([u EXCEPT !.mm.vma = insert_vma_struct(@, vma)], from, vma),
                    from, done \cup Pages(vma), vmas \cup {vma})
        BY <2>2, <2>4, <2>8, <3>1, OneVmaMore
      <3>3. g[i] = copy_range([u EXCEPT !.mm.vma = insert_vma_struct(@, vma)], from, vma)
        BY <2>7, <2>8, <3>1
      <3>4. Copying(b, g[i], from, S(i), LastVmas(list, i))
        BY <2>5, <2>6, <3>2, <3>3
      <3> QED
        BY <3>4
    <2>9. CASE ~g[i - 1].ok
      <3>1. g[i] = g[i - 1]
        BY <2>7, <2>9
      <3>2. Copying(b, g[i], from, S(i), LastVmas(list, i))
        BY <2>2, <2>9, <3>1 DEF Copying
      <3> QED
        BY <3>2
    <2> QED
      BY <2>8, <2>9
  <1> HIDE DEF Good
  <1>8. k \in Good
    BY <1>6, <1>7, CountUp
  <1>9. LastVmas(list, k) = Elems(list)
    <2>1. \A i \in 1 .. k : k + 1 - i \in 1 .. k /\ k + 1 - (k + 1 - i) = i
      OBVIOUS
    <2> QED
      BY <1>2, <2>1 DEF LastVmas, Elems
  <1>10. S(k) = PagesOf(list)
    BY <1>9 DEF PagesOf
  <1> HIDE DEF S
  <1> QED
    BY <1>1, <1>4, <1>8, <1>9, <1>10 DEF Good

SameImage(m, from) ==
    /\ DOMAIN m.pte = DOMAIN from.pte /\ \A la \in DOMAIN m.pte : m.pte[la] = from.pte[la]
    /\ TablesFit(m) /\ Proper(m.vma) /\ Elems(m.vma) = Elems(from.vma)
MmCopied(w, u, from) ==
    /\ IsWork(u)
    /\ u.ok => Worth(u) = w.free /\ u.leaked = w.leaked /\ SameImage(u.mm, from)
    /\ u.panic = "" /\ ~u.ok => u.free + u.leaked = w.free + w.leaked

LEMMA CopyMm ==
    ASSUME NEW w, IsWork(w), w.mm = EmptyMm, w.ok, NEW from, IsMm(from), Shaped(from)
    PROVE  MmCopied(w, copy_mm(w, from), from)
  <1>1. [w EXCEPT !.mm = EmptyMm] = w
    <2>1. /\ [w EXCEPT !.mm = EmptyMm] = WorkOf(w.free, EmptyMm, w.ok, w.ret, w.panic, w.leaked)
          /\ w = WorkOf(w.free, w.mm, w.ok, w.ret, w.panic, w.leaked)
      BY WorkChanges
    <2> QED
      BY <2>1
  <1>2. PICK a : a = alloc_pages(w, 1)
    OBVIOUS
  <1>3. PICK n : n = w.free
    OBVIOUS
  <1>4. /\ IsWork(a) /\ a.mm = EmptyMm /\ Proper(a.mm.vma) /\ Kept2(w, a)
        /\ a.ok => Worth(a) = n
        /\ ~a.ok => a.free = n
    BY <1>2, <1>3, NewMm
  <1>5. PICK d : d = dup_mmap(a, from)
    OBVIOUS
  <1>6. PICK u : u = copy_mm(w, from)
    OBVIOUS
  <1>7. u = IF ~a.ok THEN a ELSE IF d.ok \/ d.panic # "" THEN d ELSE drop_mm(d)
    BY <1>1, <1>2, <1>5, <1>6 DEF copy_mm
  <1>8. CASE ~a.ok
    <2>1. u = a
      BY <1>7, <1>8
    <2>2. MmCopied(w, u, from)
      BY <1>3, <1>4, <1>8, <2>1 DEF MmCopied, Kept2
    <2> QED
      BY <1>3, <1>6, <2>2
  <1>9. CASE a.ok
    <2>1. Copying(a, a, from, {}, {})
      <3>1. DOMAIN EmptyMm.pte = {} /\ EmptyMm.pt = {} /\ EmptyMm.pd = {} /\ Elems(EmptyMm.vma) = {}
        BY DEF EmptyMm, Elems
      <3>2. CopyOf(EmptyMm, from, {})
        BY <3>1 DEF CopyOf, TablesFit
      <3> QED
        BY <1>4, <1>9, <3>1, <3>2 DEF Copying, Alike
    <2>2. Copying(a, d, from, PagesOf(from.vma), Elems(from.vma))
      BY <1>5, <2>1, DupMmap DEF Shaped
    <2>3. IsWork(d) /\ Worth(d) = w.free /\ d.leaked = w.leaked /\ Proper(d.mm.vma)
      BY <1>3, <1>4, <1>9, <2>2 DEF Copying, Alike, Kept2
    <2>4. ASSUME d.ok PROVE SameImage(d.mm, from)
      <3>1. CopyOf(d.mm, from, PagesOf(from.vma)) /\ Elems(d.mm.vma) = Elems(from.vma)
        BY <2>2, <2>4 DEF Copying
      <3>2. DOMAIN from.pte \cap PagesOf(from.vma) = DOMAIN from.pte
        BY DEF Shaped
      <3> QED
        BY <2>3, <3>1, <3>2 DEF CopyOf, SameImage
    <2>5. CASE d.ok \/ d.panic # ""
      <3>1. u = d
        BY <1>7, <1>9, <2>5
      <3>2. MmCopied(w, u, from)
        BY <2>3, <2>4, <2>5, <3>1 DEF MmCopied
      <3> QED
        BY <1>3, <1>6, <3>2
    <2>6. CASE ~(d.ok \/ d.panic # "")
      <3>1. u = drop_mm(d)
        BY <1>7, <1>9, <2>6
      <3>2. MmDropped(d, u)
        BY <2>3, <3>1, DropMm
      <3>3. IsWork(u) /\ u.ok = d.ok /\ u.free + u.leaked = w.free + w.leaked
        BY <2>3, <3>2 DEF MmDropped
      <3>4. MmCopied(w, u, from)
        BY <2>6, <3>3 DEF MmCopied
      <3> QED
        BY <1>3, <1>6, <3>4
    <2> QED
      BY <2>5, <2>6
  <1> QED
    BY <1>8, <1>9

(* The child finds in its memory what its parent had.                      *)
LEMMA ImageCopied ==
    ASSUME NEW m, NEW from, SameImage(m, from), NEW elf, Image(from, elf)
    PROVE  Image(m, elf)
  <1>1. PagesOf(m.vma) = PagesOf(from.vma)
    BY DEF SameImage, PagesOf
  <1>2. Even(m, elf)
    BY <1>1 DEF SameImage, Image, Even, Shaped
  <1>3. ASSUME NEW i \in 1 .. Len(elf), PagedSegment(elf[i]) PROVE SegLoaded(m, elf[i])
    <2>1. SegLoaded(from, elf[i])
      BY <1>3 DEF Image
    <2> QED
      BY <2>1 DEF SegLoaded, SameImage
  <1> QED
    BY <1>2, <1>3 DEF Image

-----------------------------------------------------------------------------
(* The pages of all processes.                                             *)
PagesHeld(e) ==
    (IF e.state = "none" THEN {} ELSE {"stack"} \X (1 .. KSTACKPAGE))
      \cup (IF e.mm = NoMm THEN {} ELSE Owned(e.mm))
Weight(e) ==
    (IF e.state = "none" THEN 0 ELSE KSTACKPAGE) + (IF e.mm = NoMm THEN 0 ELSE Size(e.mm))

(* Only a process that runs has an address space, with its program in it.   *)
Housed(e) ==
    e.mm # NoMm =>
      e.state = "run" /\ IsMm(e.mm) /\ e.exe \in File /\ Image(e.mm, Elf[e.exe])

CountIs(S, n) == IsFiniteSet(S) /\ Cardinality(S) = n /\ n \in Nat

LEMMA WeightIsCount == ASSUME NEW e, Housed(e) PROVE CountIs(PagesHeld(e), Weight(e))
  <1> DEFINE A == IF e.state = "none" THEN {} ELSE {"stack"} \X (1 .. KSTACKPAGE)
             a == IF e.state = "none" THEN 0 ELSE KSTACKPAGE
             B == IF e.mm = NoMm THEN {} ELSE Owned(e.mm)
             b == IF e.mm = NoMm THEN 0 ELSE Size(e.mm)
  <1>1. CountIs({}, 0)
    BY FS_EmptySet DEF CountIs
  <1>2. CountIs({"stack"} \X (1 .. KSTACKPAGE), KSTACKPAGE)
    <2>1. KSTACKPAGE \in Nat
      BY ResourcesAssumption
    <2>2. PICK n \in Nat : n = KSTACKPAGE
      BY <2>1
    <2>3. 1 \in Int /\ n \in Int
      OBVIOUS
    <2>4. IsFiniteSet(1 .. n) /\ Cardinality(1 .. n) = IF 1 > n THEN 0 ELSE n - 1 + 1
      BY <2>3, FS_Interval
    <2>5. IsFiniteSet(1 .. n) /\ Cardinality(1 .. n) = n
      BY <2>4
    <2> QED
      BY <2>1, <2>2, <2>5, TaggedCount DEF CountIs
  <1>3. CountIs(A, a)
    BY <1>1, <1>2, Zenon
  <1>4. CountIs(B, b)
    <2>1. ASSUME e.mm # NoMm PROVE CountIs(Owned(e.mm), Size(e.mm))
      BY <2>1, MmSize DEF Housed, CountIs, Size
    <2> QED
      BY <1>1, <2>1, Zenon
  <1>5. A \cap B = {}
    BY DEF Owned, Below
  <1>6. PagesHeld(e) = A \cup B /\ Weight(e) = a + b
    BY DEF PagesHeld, Weight
  <1> HIDE DEF A, a, B, b
  <1>7. IsFiniteSet(A \cup B) /\ Cardinality(A \cup B) = a + b
    BY <1>3, <1>4, <1>5, DisjointCount DEF CountIs
  <1> QED
    BY <1>3, <1>4, <1>6, <1>7 DEF CountIs

AllHeld(P, S) == UNION {{p} \X PagesHeld(P[p]) : p \in S}

LEMMA AllHeldIsFinite ==
    ASSUME NEW P, NEW S \in SUBSET Slot, \A p \in S : Housed(P[p])
    PROVE  IsFiniteSet(AllHeld(P, S))
  <1> DEFINE one == [p \in S |-> {p} \X PagesHeld(P[p])]
             all == {{p} \X PagesHeld(P[p]) : p \in S}
  <1>1. IsFiniteSet(S)
    BY ResourcesAssumption, FS_Subset
  <1>2. IsFiniteSet(all)
    <2>1. one \in Surjection(S, all)
      BY DEF Surjection
    <2> QED
      BY <1>1, <2>1, FS_Surjection
  <1>3. ASSUME NEW p \in S PROVE IsFiniteSet({p} \X PagesHeld(P[p]))
    <2>1. IsFiniteSet(PagesHeld(P[p]))
      BY WeightIsCount DEF CountIs
    <2> QED
      BY <2>1, TaggedCount
  <1>4. \A T \in all : IsFiniteSet(T)
    BY <1>3
  <1>5. IsFiniteSet(UNION all)
    BY <1>2, <1>4, FS_UNION
  <1> QED
    BY <1>5 DEF AllHeld

LEMMA OneMore ==
    ASSUME NEW P, NEW p \in Slot, \A q \in Slot : Housed(P[q])
    PROVE  LET n == Cardinality(AllHeld(P, Slot \ {p}))
           IN  n \in Nat /\ CountIs(AllHeld(P, Slot), n + Weight(P[p]))
  <1> DEFINE rest == AllHeld(P, Slot \ {p})
             mine == {p} \X PagesHeld(P[p])
  <1>1. IsFiniteSet(rest)
    <2>1. Slot \ {p} \in SUBSET Slot
      OBVIOUS
    <2> QED
      BY <2>1, AllHeldIsFinite
  <1>2. CountIs(PagesHeld(P[p]), Weight(P[p]))
    BY WeightIsCount
  <1>3. IsFiniteSet(mine) /\ Cardinality(mine) = Weight(P[p])
    BY <1>2, TaggedCount DEF CountIs
  <1>4. rest \cap mine = {}
    BY DEF AllHeld
  <1>5. AllHeld(P, Slot) = rest \cup mine
    BY DEF AllHeld
  <1> HIDE DEF rest, mine
  <1>6. /\ IsFiniteSet(rest \cup mine)
        /\ Cardinality(rest \cup mine) = Cardinality(rest) + Cardinality(mine)
        /\ Cardinality(rest) \in Nat /\ Cardinality(mine) \in Nat
    BY <1>1, <1>3, <1>4, DisjointCount
  <1>7. Cardinality(rest) \in Nat /\ CountIs(AllHeld(P, Slot), Cardinality(rest) + Weight(P[p]))
    BY <1>3, <1>5, <1>6 DEF CountIs
  <1> QED
    BY <1>7 DEF rest

(* When one process gets or gives back pages.                              *)
Moved(P, Q, old, new) ==
    LET n == Cardinality(AllHeld(P, Slot))
        m == Cardinality(AllHeld(Q, Slot))
    IN  n \in Nat /\ m \in Nat /\ m + old = n + new

LEMMA OneEntryChanges ==
    ASSUME NEW P, NEW Q, NEW p \in Slot,
           \A q \in Slot : Housed(P[q]), Housed(Q[p]), \A q \in Slot \ {p} : Q[q] = P[q]
    PROVE  Moved(P, Q, Weight(P[p]), Weight(Q[p]))
  <1>1. \A q \in Slot : Housed(Q[q])
    <2>1. ASSUME NEW q \in Slot PROVE Housed(Q[q])
      <3>1. CASE q = p
        BY <3>1
      <3>2. CASE q # p
        BY <3>2
      <3> QED
        BY <3>1, <3>2
    <2> QED
      BY <2>1
  <1>2. AllHeld(P, Slot \ {p}) = AllHeld(Q, Slot \ {p})
    BY DEF AllHeld
  <1>3. PICK n : n = Cardinality(AllHeld(P, Slot \ {p}))
    OBVIOUS
  <1>4. n \in Nat /\ CountIs(AllHeld(P, Slot), n + Weight(P[p]))
    BY <1>3, OneMore
  <1>5. CountIs(AllHeld(Q, Slot), n + Weight(Q[p]))
    BY <1>1, <1>2, <1>3, OneMore
  <1>6. Weight(P[p]) \in Nat /\ Weight(Q[p]) \in Nat
    BY <1>1, WeightIsCount DEF CountIs
  <1> QED
    BY <1>4, <1>5, <1>6 DEF CountIs, Moved

-----------------------------------------------------------------------------
(* Every page is free, or somebody's, or lost.                             *)
PInv ==
    /\ free \in Nat /\ leaked \in Nat /\ total \in Nat
    /\ \A p \in Slot : Housed(proc[p])
    /\ used + leaked = total

LEMMA UsedIs == used = free + Cardinality(AllHeld(proc, Slot))
  <1>1. \A p \in Slot : Held(p) = PagesHeld(proc[p])
    BY DEF Held, PagesHeld
  <1>2. UNION {{p} \X Held(p) : p \in Slot} = AllHeld(proc, Slot)
    BY <1>1 DEF AllHeld
  <1> QED
    BY <1>2, Zenon DEF used

LEMMA UsedNextIs == used' = free' + Cardinality(AllHeld(proc', Slot))
  <1>1. \A p \in Slot : Held(p)' = PagesHeld(proc'[p])
    BY DEF Held, PagesHeld
  <1>2. (UNION {{p} \X Held(p) : p \in Slot})' = AllHeld(proc', Slot)
    BY <1>1 DEF AllHeld
  <1> QED
    BY <1>2, Zenon DEF used

(* A step from a free and c lost pages to b and d, with n pages in use       *)
(* before and m behind it.                                                 *)
Books(a, b, c, d, n, m, old, new) ==
    b + d + new = a + c + old => (b + m) + d = (a + n) + c

LEMMA BooksBalance ==
    ASSUME NEW a \in Nat, NEW b \in Nat, NEW c \in Nat, NEW d \in Nat,
           NEW n \in Nat, NEW m \in Nat, NEW old \in Nat, NEW new \in Nat,
           m + old = n + new
    PROVE  Books(a, b, c, d, n, m, old, new)
  BY DEF Books

(* What one process gets comes from the free pages, and what it gives back  *)
(* goes there or is lost.                                                  *)
LEMMA Pays ==
    ASSUME PInv, NEW p \in Slot, Housed(proc'[p]), \A q \in Slot \ {p} : proc'[q] = proc[q],
           free' \in Nat, leaked' \in Nat, total' = total,
           free' + leaked' + Weight(proc'[p]) = free + leaked + Weight(proc[p])
    PROVE  PInv'
  <1>1. PICK old, new : old = Weight(proc[p]) /\ new = Weight(proc'[p])
    OBVIOUS
  <1>2. PICK n, m : n = Cardinality(AllHeld(proc, Slot)) /\ m = Cardinality(AllHeld(proc', Slot))
    OBVIOUS
  <1>3. \A q \in Slot : Housed(proc[q])
    BY DEF PInv
  <1>4. n \in Nat /\ m \in Nat /\ m + old = n + new
    BY <1>1, <1>2, <1>3, OneEntryChanges DEF Moved
  <1>5. old \in Nat /\ new \in Nat
    BY <1>1, <1>3, WeightIsCount DEF CountIs
  <1>6. used = free + n /\ used' = free' + m
    BY <1>2, UsedIs, UsedNextIs
  <1>7. free \in Nat /\ leaked \in Nat /\ total \in Nat /\ (free + n) + leaked = total
    BY <1>6 DEF PInv
  <1>8. free' + leaked' + new = free + leaked + old
    BY <1>1, Zenon
  <1>9. (free' + m) + leaked' = (free + n) + leaked
    <2>1. Books(free, free', leaked, leaked', n, m, old, new)
      BY <1>4, <1>5, <1>7, BooksBalance
    <2> QED
      BY <1>8, <2>1, Zenon DEF Books
  <1>10. \A q \in Slot : Housed(proc'[q])
    <2>1. ASSUME NEW q \in Slot PROVE Housed(proc'[q])
      <3>1. CASE q = p
        BY <3>1
      <3>2. CASE q # p
        BY <1>3, <3>2
      <3> QED
        BY <3>1, <3>2
    <2> QED
      BY <2>1
  <1>11. used' + leaked' = total'
    BY <1>6, <1>7, <1>9, Zenon
  <1> QED
    BY <1>7, <1>10, <1>11 DEF PInv

(* The fields of the entries that the calls make.                          *)
LEMMA EntryIs ==
    ASSUME NEW state, NEW mm, NEW table, NEW exe
    PROVE  LET e == Entry(state, mm, table, exe)
           IN  /\ e.state = state /\ e.mm = mm /\ e.exe = exe
               /\ Weight(e) = (IF state = "none" THEN 0 ELSE KSTACKPAGE)
                                + (IF mm = NoMm THEN 0 ELSE Size(mm))
               /\ Housed(e) <=> (mm # NoMm =>
                     state = "run" /\ IsMm(mm) /\ exe \in File /\ Image(mm, Elf[exe]))
  <1>1. PICK e : e = Entry(state, mm, table, exe)
    OBVIOUS
  <1>2. e.state = state /\ e.mm = mm /\ e.exe = exe
    BY <1>1 DEF Entry
  <1>3. Weight(e) = (IF state = "none" THEN 0 ELSE KSTACKPAGE) + (IF mm = NoMm THEN 0 ELSE Size(mm))
    BY <1>2 DEF Weight
  <1>4. Housed(e) <=> (mm # NoMm =>
          state = "run" /\ IsMm(mm) /\ exe \in File /\ Image(mm, Elf[exe]))
    BY <1>2 DEF Housed
  <1> QED
    BY <1>1, <1>2, <1>3, <1>4

LEMMA RunnerIsHoused ==
    ASSUME NEW mm, IsMm(mm), NEW exe \in File, Image(mm, Elf[exe]), NEW table
    PROVE  Housed(Entry("run", mm, table, exe))
  <1>1. PICK e : e = Entry("run", mm, table, exe)
    OBVIOUS
  <1>2. e.state = "run" /\ e.mm = mm /\ e.exe = exe
    BY <1>1 DEF Entry
  <1>3. Housed(e)
    BY <1>2 DEF Housed
  <1> QED
    BY <1>1, <1>3

(* Neither alive nor dead: no slot of proc_list is in use.                 *)
LEMMA NoProcHasNothing == Housed(NoProc) /\ Weight(NoProc) = 0
  <1>1. NoProc = Entry("none", NoMm, NoTable, NULL)
    BY DEF NoProc, Entry
  <1>2. Housed(NoProc) /\ Weight(NoProc) = 0 + 0
    BY <1>1, EntryIs
  <1> QED
    BY <1>2

LEMMA ZombieHasStack ==
    ASSUME NEW table
    PROVE  Housed(Zombie(table)) /\ Weight(Zombie(table)) = KSTACKPAGE
  <1>1. Zombie(table) = Entry("zombie", NoMm, table, NULL)
    BY DEF Zombie, Entry
  <1>2. Housed(Zombie(table)) /\ Weight(Zombie(table)) = KSTACKPAGE + 0
    BY <1>1, EntryIs
  <1>3. KSTACKPAGE \in Nat
    BY ResourcesAssumption
  <1> QED
    BY <1>2, <1>3

LEMMA NothingHeld ==
    ASSUME NEW P, \A q \in Slot : P[q] = NoProc PROVE Cardinality(AllHeld(P, Slot)) = 0
  <1>1. PagesHeld(NoProc) = {}
    BY DEF PagesHeld, NoProc
  <1>2. AllHeld(P, Slot) = {}
    BY <1>1 DEF AllHeld
  <1> QED
    BY <1>2, FS_EmptySet, Zenon

LEMMA EntryPays ==
    ASSUME PInv, Shape, NEW p \in Slot, NEW entry, Housed(entry),
           proc' = [proc EXCEPT ![p] = entry],
           free' \in Nat, leaked' \in Nat, total' = total,
           free' + leaked' + Weight(entry) = free + leaked + Weight(proc[p])
    PROVE  PInv'
  <1>1. proc' = [q \in Slot |-> IF q = p THEN entry ELSE proc[q]]
    BY DEF Shape
  <1>2. proc'[p] = entry /\ \A q \in Slot \ {p} : proc'[q] = proc[q]
    BY <1>1
  <1>3. Housed(proc'[p])
    BY <1>2
  <1>4. free' + leaked' + Weight(proc'[p]) = free + leaked + Weight(proc[p])
    BY <1>2, Zenon
  <1> QED
    BY <1>2, <1>3, <1>4, Pays

-----------------------------------------------------------------------------
(* do_exit and do_execve: what a process gives up but for its stack.       *)
AllNeat == \A f \in File : Neat(Elf[f])
Freed(w, e) ==
    /\ IsWork(w) /\ w.mm = EmptyMm /\ w.ok /\ Clean(w)
    /\ w.free + w.leaked + KSTACKPAGE = free + leaked + Weight(e)
    /\ AllNeat => w.leaked = leaked

LEMMA DroppedIs ==
    ASSUME PInv, NEW p \in Slot, proc[p].state # "none" PROVE Freed(Dropped(p), proc[p])
  <1>1. PICK e, u : e = proc[p] /\ u = Dropped(p)
    OBVIOUS
  <1>2. free \in Nat /\ leaked \in Nat /\ Housed(e) /\ KSTACKPAGE \in Nat
    BY <1>1, ResourcesAssumption DEF PInv
  <1>3. CASE e.mm = NoMm
    <2>1. Weight(e) = KSTACKPAGE + 0 /\ u = With(EmptyMm)
      BY <1>1, <1>3 DEF Weight, Dropped
    <2>2. /\ IsWork(u) /\ u.free = free /\ u.mm = EmptyMm /\ u.ok = TRUE /\ Clean(u)
          /\ u.leaked = leaked
      BY <1>2, <2>1, WithIs, EmptyMmIs
    <2>3. u.free + u.leaked + KSTACKPAGE = free + leaked + Weight(e)
      BY <1>2, <2>1, <2>2
    <2> QED
      BY <1>1, <2>2, <2>3, Zenon DEF Freed
  <1>4. CASE e.mm # NoMm
    <2>1. PICK m : m = e.mm
      OBVIOUS
    <2>2. IsMm(m) /\ e.exe \in File /\ Image(m, Elf[e.exe]) /\ Size(m) \in Nat
      BY <1>2, <1>4, <2>1, MmSize DEF Housed
    <2>3. PICK w : w = With(m)
      OBVIOUS
    <2>4. /\ IsWork(w) /\ w.free = free /\ w.mm = m /\ w.ok = TRUE /\ Clean(w)
          /\ w.leaked = leaked
      BY <1>2, <2>2, <2>3, WithIs
    <2>5. u = drop_mm(w) /\ Weight(e) = KSTACKPAGE + Size(m)
      BY <1>1, <1>4, <2>1, <2>3 DEF Dropped, Weight
    <2>6. MmDropped(w, u)
      <3>1. Proper(w.mm.vma)
        BY <2>2, <2>4 DEF Image, Even, Shaped
      <3> QED
        BY <2>4, <2>5, <3>1, DropMm
    <2>7. IsWork(u) /\ u.mm = EmptyMm /\ u.ok = TRUE /\ Clean(u)
      BY <2>4, <2>6 DEF MmDropped, Clean, NoCode
    <2>8. u.free + u.leaked = (free + Size(m)) + leaked
      BY <2>4, <2>6, Zenon DEF MmDropped, Worth
    <2>9. u.free + u.leaked + KSTACKPAGE = free + leaked + Weight(e)
      <3>1. u.free \in Nat /\ u.leaked \in Nat
        BY <2>7, WorkParts
      <3> QED
        BY <1>2, <2>2, <2>5, <2>8, <3>1
    <2>10. ASSUME AllNeat PROVE u.leaked = leaked
      <3>1. Filling(Elf[e.exe]) /\ Tidy(Elf[e.exe])
        BY <2>2, <2>10 DEF AllNeat, Neat
      <3>2. FullMm(m)
        BY <2>2, <3>1, EvenIsFull DEF Image
      <3> QED
        BY <2>4, <2>6, <3>2 DEF MmDropped
    <2> QED
      BY <1>1, <2>7, <2>9, <2>10, Zenon DEF Freed
  <1> QED
    BY <1>3, <1>4

(* Dead; what it had is free or lost but for its stack.                    *)
LEMMA DyingPays ==
    ASSUME PInv, Shape, NEW p \in Slot, proc[p].state # "none", NEW table,
           proc' = [proc EXCEPT ![p] = Zombie(table)], total' = total,
           free' = Dropped(p).free, leaked' = Dropped(p).leaked
    PROVE  PInv'
  <1>1. PICK u : u = Dropped(p)
    OBVIOUS
  <1>2. IsWork(u) /\ u.free + u.leaked + KSTACKPAGE = free + leaked + Weight(proc[p])
    BY <1>1, DroppedIs DEF Freed
  <1>3. Housed(Zombie(table)) /\ Weight(Zombie(table)) = KSTACKPAGE
    BY ZombieHasStack
  <1>4. free' \in Nat /\ leaked' \in Nat
    BY <1>1, <1>2, WorkParts
  <1>5. free' + leaked' + Weight(Zombie(table)) = free + leaked + Weight(proc[p])
    BY <1>1, <1>2, <1>3, Zenon
  <1> QED
    BY <1>3, <1>4, <1>5, EntryPays

LEMMA WaitPays ==
    ASSUME PInv, Shape, NEW p \in Slot, do_wait(p) PROVE PInv'
  <1>1. /\ proc[p].state = "zombie" /\ free' = free + KSTACKPAGE /\ leaked' = leaked
        /\ proc' = [proc EXCEPT ![p] = NoProc] /\ total' = total
    BY DEF do_wait
  <1>2. free \in Nat /\ leaked \in Nat /\ Housed(proc[p]) /\ KSTACKPAGE \in Nat
    BY <1>1, ResourcesAssumption DEF PInv
  <1>3. proc[p].mm = NoMm
    <2>1. "zombie" # "run"
      OBVIOUS
    <2> QED
      BY <1>1, <1>2, <2>1 DEF Housed
  <1>4. Weight(proc[p]) = KSTACKPAGE
    <2>1. Weight(proc[p]) = KSTACKPAGE + 0
      BY <1>1, <1>3 DEF Weight
    <2> QED
      BY <1>2, <2>1
  <1>5. Housed(NoProc) /\ Weight(NoProc) = 0
    BY NoProcHasNothing
  <1>6. free' \in Nat /\ leaked' \in Nat /\ free' + leaked' + 0 = free + leaked + KSTACKPAGE
    BY <1>1, <1>2
  <1>7. free' + leaked' + Weight(NoProc) = free + leaked + Weight(proc[p])
    BY <1>4, <1>5, <1>6, Zenon
  <1> QED
    BY <1>1, <1>5, <1>6, <1>7, EntryPays

LEMMA ExitPays ==
    ASSUME PInv, Shape, NEW p \in Slot, do_exit(p) PROVE PInv'
  <1>1. /\ proc[p].state # "none" /\ total' = total
        /\ free' = Dropped(p).free /\ leaked' = Dropped(p).leaked
    BY DEF do_exit, Running
  <1>2. \E table : proc' = [proc EXCEPT ![p] = Zombie(table)]
    BY DEF do_exit
  <1> QED
    BY <1>1, <1>2, DyingPays

(* Calls on files: a process has what it had, another table aside.         *)
LEMMA FilesPay ==
    ASSUME PInv, Shape, NEW p \in Slot, NEW table,
           proc' = [proc EXCEPT ![p].filesp = table],
           free' = free, total' = total, leaked' = leaked
    PROVE  PInv'
  <1>1. PICK state, mm, exe : proc[p] = Entry(state, mm, proc[p].filesp, exe)
    BY HasTable
  <1>2. PICK entry : entry = Entry(state, mm, table, exe)
    OBVIOUS
  <1>3. [proc[p] EXCEPT !.filesp = table] = entry
    BY <1>1, <1>2 DEF Entry
  <1>4. proc' = [proc EXCEPT ![p] = entry]
    BY <1>3 DEF Shape
  <1>5. Housed(proc[p]) /\ free' \in Nat /\ leaked' \in Nat
    BY DEF PInv
  <1>6. entry.state = proc[p].state /\ entry.mm = proc[p].mm /\ entry.exe = proc[p].exe
    BY <1>1, <1>2 DEF Entry
  <1>7. Housed(entry) /\ Weight(entry) = Weight(proc[p])
    BY <1>5, <1>6, Zenon DEF Housed, Weight
  <1>8. free' + leaked' + Weight(entry) = free + leaked + Weight(proc[p])
    BY <1>7, Zenon
  <1> QED
    BY <1>4, <1>5, <1>7, <1>8, EntryPays

LEMMA SamePay ==
    ASSUME PInv, proc' = proc, free' = free, total' = total, leaked' = leaked PROVE PInv'
  <1>1. used' = used
    BY UsedIs, UsedNextIs, Zenon
  <1> QED
    BY <1>1 DEF PInv

(* A call that fails gives back what it took, or loses it.                 *)
LEMMA LessPay ==
    ASSUME PInv, proc' = proc, free' \in Nat, leaked' \in Nat, total' = total,
           free' + leaked' = free + leaked
    PROVE  PInv'
  <1>1. PICK n : n = Cardinality(AllHeld(proc, Slot))
    OBVIOUS
  <1>2. n \in Nat
    <2>1. Slot \in SUBSET Slot /\ \A q \in Slot : Housed(proc[q])
      BY DEF PInv
    <2>2. IsFiniteSet(AllHeld(proc, Slot))
      BY <2>1, AllHeldIsFinite
    <2> QED
      BY <1>1, <2>2, FS_CardinalityType
  <1>3. used = free + n /\ used' = free' + n
    BY <1>1, UsedIs, UsedNextIs, Zenon
  <1>4. free \in Nat /\ leaked \in Nat /\ (free + n) + leaked = total
    BY <1>3 DEF PInv
  <1>5. (free' + n) + leaked' = (free + n) + leaked
    <2>1. PICK a \in Nat, b \in Nat, c \in Nat, d \in Nat :
            a = free /\ b = free' /\ c = leaked /\ d = leaked'
      BY <1>4, Zenon
    <2>2. b + d = a + c
      BY <2>1, Zenon
    <2>3. (b + n) + d = (a + n) + c
      BY <1>2, <2>2
    <2> QED
      BY <2>1, <2>3, Zenon
  <1>6. used' + leaked' = total'
    BY <1>3, <1>4, <1>5, Zenon
  <1> QED
    BY <1>6 DEF PInv

(* After an assertion nothing runs; the pages do not matter any more.       *)
LEMMA HaltPays ==
    ASSUME PInv, halts PROVE PInv'
  <1>1. /\ proc' = [p \in Slot |-> NoProc] /\ free' = total /\ total' = total /\ leaked' = 0
    BY DEF halts
  <1>2. \A q \in Slot : proc'[q] = NoProc
    BY <1>1
  <1>3. used' = total + 0
    BY <1>1, <1>2, NothingHeld, UsedNextIs, Zenon
  <1>4. total \in Nat
    BY DEF PInv
  <1>5. \A q \in Slot : Housed(proc'[q])
    BY <1>2, NoProcHasNothing
  <1>6. used' + leaked' = total'
    BY <1>1, <1>3, <1>4
  <1> QED
    BY <1>1, <1>4, <1>5, <1>6 DEF PInv

-----------------------------------------------------------------------------
(* do_fork: the stack and the address space of the child, or what is left   *)
(* when there is no memory for both.                                       *)
Forked(v, w, from) ==
    /\ IsWork(w)
    /\ w.ok => Worth(w) + w.leaked + KSTACKPAGE = v.free + v.leaked /\ SameImage(w.mm, from)
    /\ w.panic = "" /\ ~w.ok =>
         w.free + w.leaked + (IF v.free < KSTACKPAGE THEN 0 ELSE KSTACKPAGE) = v.free + v.leaked

NewStack(v, a) ==
    /\ IsWork(a) /\ a.mm = v.mm /\ Kept2(v, a)
    /\ v.free < KSTACKPAGE => a.free = v.free /\ a.ok = FALSE
    /\ ~(v.free < KSTACKPAGE) => a.free = v.free - KSTACKPAGE /\ a.ok = v.ok

LEMMA StackAllocated ==
    ASSUME NEW v, IsWork(v) PROVE NewStack(v, alloc_pages(v, KSTACKPAGE))
  <1>1. KSTACKPAGE \in Nat
    BY ResourcesAssumption
  <1>2. PICK a : a = alloc_pages(v, KSTACKPAGE)
    OBVIOUS
  <1>3. /\ IsWork(a) /\ a.mm = v.mm /\ Kept2(v, a)
        /\ v.free < KSTACKPAGE => a.free = v.free /\ a.ok = FALSE
        /\ ~(v.free < KSTACKPAGE) => a.free = v.free - KSTACKPAGE /\ a.ok = v.ok
    BY <1>1, <1>2, AllocPages
  <1>4. NewStack(v, a)
    BY <1>3 DEF NewStack
  <1> QED
    BY <1>2, <1>4

LEMMA ForkMm ==
    ASSUME NEW v, IsWork(v), v.mm = EmptyMm, v.ok, NEW from, IsMm(from), Shaped(from),
           NEW stack, stack = alloc_pages(v, KSTACKPAGE),
           NEW w, w = IF stack.ok THEN copy_mm(stack, from) ELSE stack
    PROVE  Forked(v, w, from)
  <1>1. KSTACKPAGE \in Nat /\ v.free \in Nat /\ v.leaked \in Nat
    BY ResourcesAssumption, WorkParts
  <1>2. NewStack(v, stack)
    BY StackAllocated
  <1>3. IsWork(stack) /\ stack.mm = EmptyMm /\ stack.leaked = v.leaked
    BY <1>2 DEF NewStack, Kept2
  <1>4. CASE v.free < KSTACKPAGE
    <2>1. stack.free = v.free /\ ~stack.ok
      BY <1>2, <1>4 DEF NewStack
    <2>2. w = stack
      BY <2>1, Zenon
    <2>3. w.free + w.leaked + (IF v.free < KSTACKPAGE THEN 0 ELSE KSTACKPAGE) = v.free + v.leaked
      BY <1>1, <1>3, <1>4, <2>1, <2>2
    <2> QED
      BY <1>3, <2>1, <2>2, <2>3, Zenon DEF Forked
  <1>5. CASE ~(v.free < KSTACKPAGE)
    <2>1. stack.free = v.free - KSTACKPAGE /\ stack.ok
      BY <1>2, <1>5 DEF NewStack
    <2>2. w = copy_mm(stack, from)
      BY <2>1, Zenon
    <2>3. MmCopied(stack, w, from)
      BY <1>3, <2>1, <2>2, CopyMm
    <2>4. IsWork(w) /\ w.free \in Nat /\ w.leaked \in Nat /\ Size(w.mm) \in Nat
      <3>1. IsWork(w)
        BY <2>3 DEF MmCopied
      <3> QED
        BY <3>1, WorkParts, MmSize
    <2>5. ASSUME w.ok
          PROVE  /\ Worth(w) + w.leaked + KSTACKPAGE = v.free + v.leaked
                 /\ SameImage(w.mm, from)
      <3>1. Worth(w) = stack.free /\ w.leaked = stack.leaked /\ SameImage(w.mm, from)
        BY <2>3, <2>5 DEF MmCopied
      <3> QED
        BY <1>1, <1>3, <2>1, <3>1
    <2>6. ASSUME w.panic = "", ~w.ok
          PROVE  w.free + w.leaked + (IF v.free < KSTACKPAGE THEN 0 ELSE KSTACKPAGE)
                   = v.free + v.leaked
      <3>1. w.free + w.leaked = stack.free + stack.leaked
        BY <2>3, <2>6, Zenon DEF MmCopied
      <3> QED
        BY <1>1, <1>3, <1>5, <2>1, <2>4, <3>1
    <2> QED
      BY <2>4, <2>5, <2>6, Zenon DEF Forked
  <1> QED
    BY <1>4, <1>5

LEMMA ForkPays ==
    ASSUME PInv, Shape, NEW p \in Slot, NEW c \in Slot, do_fork(p, c) PROVE PInv'
  <1>1. PICK v, from, stack, w :
          /\ v = With(EmptyMm) /\ from = proc[p].mm /\ stack = alloc_pages(v, KSTACKPAGE)
          /\ w = IF stack.ok THEN copy_mm(stack, from) ELSE stack
    OBVIOUS
  <1>2. /\ User(p) /\ proc[c] = NoProc
        /\ do_fork_fails(p, w) \/ do_fork_no_files(p, w) \/ do_fork_child(p, c, w) \/ panics(w)
    BY <1>1 DEF do_fork
  <1>3. Housed(proc[p]) /\ free \in Nat /\ leaked \in Nat /\ KSTACKPAGE \in Nat
    BY ResourcesAssumption DEF PInv
  <1>4. IsMm(from) /\ proc[p].exe \in File /\ Image(from, Elf[proc[p].exe])
    BY <1>1, <1>2, <1>3 DEF User, Housed
  <1>5. IsWork(v) /\ v.free = free /\ v.mm = EmptyMm /\ v.ok /\ v.leaked = leaked
    BY <1>1, <1>3, WithIs, EmptyMmIs
  <1>6. Forked(v, w, from)
    BY <1>1, <1>4, <1>5, ForkMm DEF Image, Even
  <1>7. /\ IsWork(w) /\ w.free \in Nat /\ w.leaked \in Nat
        /\ IsMm(w.mm) /\ Size(w.mm) \in Nat
    <2>1. IsWork(w)
      BY <1>6 DEF Forked
    <2> QED
      BY <2>1, WorkParts, MmSize
  <1>8. CASE do_fork_fails(p, w)
    <2>1. /\ free' = w.free + (IF free < KSTACKPAGE THEN 0 ELSE KSTACKPAGE)
          /\ leaked' = w.leaked /\ proc' = proc /\ total' = total
      BY <1>8 DEF do_fork_fails
    <2>2. w.free + w.leaked + (IF free < KSTACKPAGE THEN 0 ELSE KSTACKPAGE) = free + leaked
      BY <1>5, <1>6, <1>8, Zenon DEF do_fork_fails, Forked
    <2>3. free' + leaked' = free + leaked /\ free' \in Nat /\ leaked' \in Nat
      BY <1>3, <1>7, <2>1, <2>2
    <2> QED
      BY <2>1, <2>3, LessPay
  <1>9. CASE do_fork_no_files(p, w)
    <2>1. Worth(w) + w.leaked + KSTACKPAGE = free + leaked
      BY <1>5, <1>6, <1>9, Zenon DEF do_fork_no_files, Forked
    <2>2. /\ free' = w.free + KSTACKPAGE /\ leaked' = w.leaked + Size(w.mm)
          /\ proc' = proc /\ total' = total
      BY <1>9 DEF do_fork_no_files, Size
    <2>3. free' + leaked' = free + leaked /\ free' \in Nat /\ leaked' \in Nat
      BY <1>3, <1>7, <2>1, <2>2 DEF Worth
    <2> QED
      BY <2>2, <2>3, LessPay
  <1>10. CASE do_fork_child(p, c, w)
    <2>1. Worth(w) + w.leaked + KSTACKPAGE = free + leaked /\ SameImage(w.mm, from)
      BY <1>5, <1>6, <1>10, Zenon DEF do_fork_child, Forked
    <2>2. PICK entry : entry = Entry("run", w.mm, proc[p].filesp, proc[p].exe)
      OBVIOUS
    <2>3. proc' = [proc EXCEPT ![c] = entry]
      BY <1>10, <2>2 DEF do_fork_child, Process, Entry
    <2>4. free' = w.free /\ total' = total /\ leaked' = w.leaked
      BY <1>10 DEF do_fork_child
    <2>5. Image(w.mm, Elf[proc[p].exe])
      BY <1>4, <2>1, ImageCopied
    <2>6. Housed(entry)
      BY <1>4, <1>7, <2>2, <2>5, RunnerIsHoused
    <2>7. Weight(entry) = KSTACKPAGE + Size(w.mm)
      <3>1. w.mm # NoMm /\ "run" # "none"
        BY <1>7, MmIsSomething
      <3> QED
        BY <2>2, <3>1, EntryIs
    <2>8. Weight(proc[c]) = 0
      BY <1>2, NoProcHasNothing
    <2>9. free' + leaked' + (KSTACKPAGE + Size(w.mm)) = free + leaked + 0
      BY <1>3, <1>7, <2>1, <2>4 DEF Worth
    <2>10. free' + leaked' + Weight(entry) = free + leaked + Weight(proc[c])
      BY <2>7, <2>8, <2>9, Zenon
    <2>11. free' \in Nat /\ leaked' \in Nat
      BY <1>7, <2>4
    <2> QED
      BY <2>3, <2>4, <2>6, <2>10, <2>11, EntryPays
  <1>11. CASE panics(w)
    BY <1>11, HaltPays DEF panics
  <1> QED
    BY <1>2, <1>8, <1>9, <1>10, <1>11

-----------------------------------------------------------------------------
(* do_execve.                                                              *)
Executing(w, table, f) ==
    IF w.ret # "0" THEN Zombie(table) ELSE Process(IF w.ok THEN w.mm ELSE NoMm, table, f)

LEMMA LoadedProcess ==
    ASSUME NEW w, w.ok, NoCode(w), IsWork(w), NEW f \in File, Image(w.mm, Elf[f]), NEW table
    PROVE  /\ Housed(Executing(w, table, f))
           /\ Weight(Executing(w, table, f)) = KSTACKPAGE + Size(w.mm)
  <1>1. PICK e : e = Entry("run", w.mm, table, f)
    OBVIOUS
  <1>2. Executing(w, table, f) = e
    <2>1. Process(w.mm, table, f) = e
      BY <1>1 DEF Process, Entry
    <2> QED
      BY <2>1, Zenon DEF Executing, NoCode
  <1>3. IsMm(w.mm) /\ w.mm # NoMm
    BY WorkParts, MmIsSomething
  <1>4. Housed(e)
    BY <1>1, <1>3, RunnerIsHoused
  <1>5. Weight(e) = KSTACKPAGE + Size(w.mm)
    <2>1. "run" # "none"
      OBVIOUS
    <2> QED
      BY <1>1, <1>3, <2>1, EntryIs
  <1> QED
    BY <1>2, <1>4, <1>5

LEMMA UnloadedProcess ==
    ASSUME NEW w, ~w.ok, NEW f, NEW table
    PROVE  /\ Housed(Executing(w, table, f))
           /\ Weight(Executing(w, table, f)) = KSTACKPAGE
  <1>1. CASE w.ret # "0"
    BY <1>1, ZombieHasStack, Zenon DEF Executing
  <1>2. CASE w.ret = "0"
    <2>1. PICK e : e = Entry("run", NoMm, table, f)
      OBVIOUS
    <2>2. Executing(w, table, f) = e
      <3>1. Process(NoMm, table, f) = e
        BY <2>1 DEF Process, Entry
      <3> QED
        BY <1>2, <3>1, Zenon DEF Executing
    <2>3. Housed(e)
      BY <2>1, EntryIs, Zenon
    <2>4. Weight(e) = KSTACKPAGE
      <3>1. "run" # "none" /\ KSTACKPAGE \in Nat
        BY ResourcesAssumption
      <3>2. Weight(e) = KSTACKPAGE + 0
        BY <2>1, <3>1, EntryIs
      <3> QED
        BY <3>1, <3>2
    <2> QED
      BY <2>2, <2>3, <2>4
  <1> QED
    BY <1>1, <1>2

(* What do_execve leaves of v's pages.                                     *)
Executed(v, w, e) ==
    /\ Housed(e) /\ w.free \in Nat /\ w.leaked \in Nat
    /\ w.free + w.leaked + Weight(e) = v.free + v.leaked + KSTACKPAGE

LEMMA SumOrder ==
    ASSUME NEW a \in Nat, NEW c \in Nat, NEW n \in Nat, NEW k \in Nat
    PROVE  a + c + (k + n) = (a + n) + c + k
  OBVIOUS

LEMMA ExecutedSum ==
    ASSUME NEW v, NEW w, NEW e, w.free \in Nat, w.leaked \in Nat, Size(w.mm) \in Nat,
           KSTACKPAGE \in Nat, v.free = w.free + Size(w.mm), w.leaked = v.leaked,
           Weight(e) = KSTACKPAGE + Size(w.mm)
    PROVE  w.free + w.leaked + Weight(e) = v.free + v.leaked + KSTACKPAGE
  BY SumOrder

LEMMA ExecveMm ==
    ASSUME NEW v, IsWork(v), v.mm = EmptyMm, v.ok, Clean(v), NEW f \in File, NEW table,
           NEW w, w = load_icode(v, Elf[f]), w.panic = ""
    PROVE  Executed(v, w, Executing(w, table, f))
  <1>1. PICK e : e = Executing(w, table, f)
    OBVIOUS
  <1>2. Elf[f] \in Seq(Segment)
    BY ResourcesAssumption DEF Segment
  <1>3. CodeLoaded(v, w, Elf[f])
    BY <1>2, LoadIcode
  <1>4. /\ IsWork(w) /\ w.free \in Nat /\ w.leaked \in Nat /\ Size(w.mm) \in Nat
        /\ KSTACKPAGE \in Nat /\ v.free \in Nat /\ v.leaked \in Nat
    <2>1. IsWork(w)
      BY <1>3 DEF CodeLoaded
    <2> QED
      BY <2>1, WorkParts, MmSize, ResourcesAssumption
  <1>5. CASE w.ok
    <2>1. Worth(w) = v.free /\ w.leaked = v.leaked /\ NoCode(w) /\ Image(w.mm, Elf[f])
      BY <1>3, <1>5, Zenon DEF CodeLoaded
    <2>2. Housed(e) /\ Weight(e) = KSTACKPAGE + Size(w.mm)
      BY <1>1, <1>4, <1>5, <2>1, LoadedProcess, Zenon
    <2>3. w.free + w.leaked + Weight(e) = v.free + v.leaked + KSTACKPAGE
      <3>1. v.free = w.free + Size(w.mm) /\ w.leaked = v.leaked
        BY <2>1, Zenon DEF Worth
      <3> QED
        BY <1>4, <2>2, <3>1, ExecutedSum, Zenon
    <2> QED
      BY <1>1, <1>4, <2>2, <2>3, Zenon DEF Executed
  <1>6. CASE ~w.ok
    <2>1. Housed(e) /\ Weight(e) = KSTACKPAGE
      BY <1>1, <1>6, UnloadedProcess, Zenon
    <2>2. w.free + w.leaked = v.free + v.leaked
      BY <1>3, <1>6, Zenon DEF CodeLoaded
    <2>3. w.free + w.leaked + Weight(e) = v.free + v.leaked + KSTACKPAGE
      BY <1>4, <2>1, <2>2
    <2> QED
      BY <1>1, <1>4, <2>1, <2>3, Zenon DEF Executed
  <1> QED
    BY <1>5, <1>6

LEMMA ExecvePays ==
    ASSUME PInv, Shape, NEW p \in Slot, NEW f \in File, NEW fd \in Descriptor,
           do_execve(p, f, fd)
    PROVE  PInv'
  <1>1. PICK table, v, w :
          /\ table = [Kept(p) EXCEPT ![fd] = f] /\ v = Dropped(p)
          /\ w = load_icode(v, Elf[f])
    OBVIOUS
  <1>2. /\ Running(p)
        /\ \/ panics(w)
           \/ /\ w.panic = "" /\ free' = w.free /\ leaked' = w.leaked /\ total' = total
              /\ proc' = [proc EXCEPT ![p] =
                   IF w.ret # "0" THEN Zombie(table)
                   ELSE Process(IF w.ok THEN w.mm ELSE NoMm, table, f)]
    BY <1>1 DEF do_execve
  <1>3. CASE panics(w)
    BY <1>3, HaltPays DEF panics
  <1>4. CASE ~panics(w)
    <2>1. PICK e : e = Executing(w, table, f)
      OBVIOUS
    <2>2. /\ w.panic = "" /\ free' = w.free /\ leaked' = w.leaked /\ total' = total
          /\ proc' = [proc EXCEPT ![p] = e]
      BY <1>2, <1>4, <2>1, Zenon DEF Executing
    <2>3. Freed(v, proc[p])
      <3>1. proc[p].state # "none"
        BY <1>2 DEF Running
      <3> QED
        BY <1>1, <3>1, DroppedIs
    <2>4. Executed(v, w, e)
      <3>1. IsWork(v) /\ v.mm = EmptyMm /\ v.ok /\ Clean(v)
        BY <2>3 DEF Freed
      <3> QED
        BY <1>1, <2>1, <2>2, <3>1, ExecveMm
    <2>5. Housed(e) /\ free' \in Nat /\ leaked' \in Nat
      BY <2>2, <2>4 DEF Executed
    <2>6. free' + leaked' + Weight(e) = free + leaked + Weight(proc[p])
      BY <2>2, <2>3, <2>4, Zenon DEF Executed, Freed
    <2> QED
      BY <2>2, <2>5, <2>6, EntryPays
  <1> QED
    BY <1>3, <1>4

-----------------------------------------------------------------------------
(* The invariant of the pages, from the beginning and in every step.        *)
LEMMA PagesInitially == Init => PInv
  <1> SUFFICES ASSUME Init PROVE PInv
    OBVIOUS
  <1>1. KSTACKPAGE \in Nat /\ First \in Slot /\ free \in Nat
    BY ResourcesAssumption DEF Init
  <1>2. total = free + KSTACKPAGE /\ leaked = 0
    BY DEF Init
  <1>3. PICK e : e = Entry("run", NoMm, NoTable, NULL)
    OBVIOUS
  <1>4. Housed(e) /\ Weight(e) = KSTACKPAGE
    <2>1. Housed(e)
      BY <1>3, EntryIs, Zenon
    <2>2. "run" # "none"
      OBVIOUS
    <2>3. Weight(e) = KSTACKPAGE + 0
      BY <1>3, <2>2, EntryIs
    <2> QED
      BY <1>1, <2>1, <2>3
  <1>5. proc = [p \in Slot |-> IF p = First THEN e ELSE NoProc]
    BY <1>3 DEF Init, Process, Entry
  <1>6. \A q \in Slot : Housed(proc[q])
    BY <1>4, <1>5, NoProcHasNothing
  <1>7. PICK nobody : nobody = [p \in Slot |-> NoProc]
    OBVIOUS
  <1>8. \A q \in Slot : nobody[q] = NoProc /\ Housed(nobody[q])
    BY <1>7, NoProcHasNothing
  <1>9. Moved(nobody, proc, Weight(nobody[First]), Weight(proc[First]))
    <2>1. \A q \in Slot \ {First} : proc[q] = nobody[q]
      BY <1>5, <1>7
    <2> QED
      BY <1>1, <1>6, <1>8, <2>1, OneEntryChanges
  <1>10. Cardinality(AllHeld(nobody, Slot)) = 0
    BY <1>8, NothingHeld
  <1>11. Weight(nobody[First]) = 0 /\ Weight(proc[First]) = KSTACKPAGE
    BY <1>1, <1>4, <1>5, <1>8, NoProcHasNothing
  <1>12. PICK m : m = Cardinality(AllHeld(proc, Slot))
    OBVIOUS
  <1>13. m \in Nat /\ m + 0 = 0 + KSTACKPAGE
    BY <1>9, <1>10, <1>11, <1>12, Zenon DEF Moved
  <1>14. used + leaked = total
    <2>1. used = free + m
      BY <1>12, UsedIs
    <2> QED
      BY <1>1, <1>2, <1>13, <2>1
  <1>15. total \in Nat /\ leaked \in Nat
    BY <1>1, <1>2
  <1> QED
    BY <1>1, <1>2, <1>6, <1>14, <1>15 DEF PInv

LEMMA StepPays == PInv /\ Shape /\ [Next]_vars => PInv'
  <1> SUFFICES ASSUME PInv, Shape, [Next]_vars PROVE PInv'
    OBVIOUS
  <1>1. ASSUME NEW p \in Slot, NEW c \in Slot, do_fork(p, c) PROVE PInv'
    BY <1>1, ForkPays
  <1>2. ASSUME NEW p \in Slot, do_exit(p) PROVE PInv'
    BY <1>2, ExitPays
  <1>3. ASSUME NEW p \in Slot, do_wait(p) PROVE PInv'
    BY <1>3, WaitPays
  <1>4. ASSUME NEW p \in Slot, do_execve_no_file(p) PROVE PInv'
    <2>1. /\ proc[p].state # "none" /\ total' = total
          /\ free' = Dropped(p).free /\ leaked' = Dropped(p).leaked
          /\ proc' = [proc EXCEPT ![p] = Zombie(NoTable)]
      BY <1>4 DEF do_execve_no_file, User, Running
    <2> QED
      BY <2>1, DyingPays
  <1>5. ASSUME NEW p \in Slot, NEW f \in File, NEW fd \in Descriptor, do_execve(p, f, fd)
        PROVE  PInv'
    BY <1>5, ExecvePays
  <1>6. ASSUME NEW p \in Slot, NEW f \in File, NEW fd \in Descriptor, file_open(p, f, fd)
        PROVE  PInv'
    <2>1. PICK table : table = [proc[p].filesp EXCEPT ![fd] = f]
      OBVIOUS
    <2>2. /\ proc' = [proc EXCEPT ![p].filesp = table]
          /\ free' = free /\ total' = total /\ leaked' = leaked
      BY <1>6, <2>1 DEF file_open
    <2> QED
      BY <2>2, FilesPay
  <1>7. ASSUME NEW p \in Slot, NEW f \in File, file_open_excl(p, f) PROVE PInv'
    BY <1>7, SamePay DEF file_open_excl
  <1>8. ASSUME NEW p \in Slot, NEW d \in Descriptor, file_close(p, d) PROVE PInv'
    <2>1. PICK table : table = closed(proc[p].filesp, {d})
      OBVIOUS
    <2>2. /\ proc' = [proc EXCEPT ![p].filesp = table]
          /\ free' = free /\ total' = total /\ leaked' = leaked
      BY <1>8, <2>1 DEF file_close
    <2> QED
      BY <2>2, FilesPay
  <1>9. ASSUME NEW p \in Slot, NEW d \in Descriptor, NEW e \in Descriptor, file_dup(p, d, e)
        PROVE  PInv'
    <2>1. PICK table : table = [proc[p].filesp EXCEPT ![e] = proc[p].filesp[d]]
      OBVIOUS
    <2>2. /\ proc' = [proc EXCEPT ![p].filesp = table]
          /\ free' = free /\ total' = total /\ leaked' = leaked
      BY <1>9, <2>1 DEF file_dup
    <2> QED
      BY <2>2, FilesPay
  <1>10. ASSUME NEW p \in Slot, proc_run(p) PROVE PInv'
    BY <1>10, HaltPays DEF proc_run
  <1>11. CASE stopped \/ UNCHANGED vars
    BY <1>11, SamePay DEF stopped, vars
  <1> QED
    BY <1>1, <1>2, <1>3, <1>4, <1>5, <1>6, <1>7, <1>8, <1>9, <1>10, <1>11 DEF Next

LEMMA PagesInvariant == Spec => [](IInv /\ PInv)
  <1>1. Init => IInv /\ PInv
    BY Initially, PagesInitially
  <1>2. IInv /\ PInv /\ [Next]_vars => (IInv /\ PInv)'
    BY StepKeeps, StepPays DEF IInv
  <1> QED
    BY <1>1, <1>2, PTL DEF Spec

(* Whatever the programs are, whatever their files lack and whenever memory *)
(* runs out: the free pages, those that processes hold and those that       *)
(* do_fork and drop_mm are known to lose add up to all pages, exactly.  A   *)
(* page freed twice, freed while somebody keeps it, or lost by any other    *)
(* failure would break the sum.                                            *)
THEOREM EveryPageIsCounted == Spec => []PagesCounted
  <1>1. PInv => PagesCounted
    BY DEF PInv, PagesCounted
  <1> QED
    BY PagesInvariant, <1>1, PTL

(* With programs laid out as the linker script does: a process that runs    *)
(* gives back every page when it ends or executes something else, tables    *)
(* and directories included, and load_icode does when it turns a program    *)
(* down for what its headers say.                                          *)
THEOREM NothingIsLeftBehind ==
    ASSUME \A f \in File : Neat(Elf[f])
    PROVE  Spec => []GivenBack
  <1>1. PInv => GivenBack
    <2> SUFFICES ASSUME PInv PROVE GivenBack
      OBVIOUS
    <2>1. AllNeat
      BY DEF AllNeat
    <2>2. ASSUME NEW p \in Slot, User(p) PROVE Dropped(p).leaked = leaked
      <3>1. proc[p].state # "none"
        BY <2>2 DEF User, Running
      <3> QED
        BY <2>1, <3>1, DroppedIs DEF Freed
    <2>3. ASSUME NEW f \in File, NEW w, w = load_icode(With(EmptyMm), Elf[f]),
                 ~w.ok, BadProgram(w)
          PROVE  w.leaked = leaked
      <3>1. PICK v : v = With(EmptyMm)
        OBVIOUS
      <3>2. IsWork(v) /\ v.mm = EmptyMm /\ v.ok /\ Clean(v) /\ v.leaked = leaked
        BY <3>1, WithIs, EmptyMmIs DEF PInv
      <3>3. Elf[f] \in Seq(Segment)
        BY ResourcesAssumption DEF Segment
      <3>4. CodeLoaded(v, w, Elf[f])
        BY <2>3, <3>1, <3>2, <3>3, LoadIcode
      <3>5. Filling(Elf[f]) /\ Tidy(Elf[f])
        BY <2>1 DEF AllNeat, Neat
      <3> QED
        BY <2>3, <3>2, <3>4, <3>5 DEF CodeLoaded
    <2> QED
      BY <2>2, <2>3 DEF GivenBack, BadProgram
  <1> QED
    BY PagesInvariant, <1>1, PTL

(* Whoever has an address space has its directory in pgdir.                *)
Directories ==
    /\ pgdir = [p \in Slot |-> pgdir[p]]
    /\ \A p \in Slot : proc[p].mm # NoMm => pgdir[p] = "own"

LEMMA OneDirectoryChanges ==
    ASSUME Shape, Directories, NEW p \in Slot, NEW entry, NEW dir,
           proc' = [proc EXCEPT ![p] = entry], pgdir' = [pgdir EXCEPT ![p] = dir],
           entry.mm # NoMm => dir = "own"
    PROVE  Directories'
  <1>1. /\ proc' = [q \in Slot |-> IF q = p THEN entry ELSE proc[q]]
        /\ pgdir' = [q \in Slot |-> IF q = p THEN dir ELSE pgdir[q]]
    BY DEF Shape, Directories
  <1>2. pgdir' = [q \in Slot |-> pgdir'[q]]
    BY <1>1
  <1>3. ASSUME NEW q \in Slot, proc'[q].mm # NoMm PROVE pgdir'[q] = "own"
    BY <1>1, <1>3 DEF Directories
  <1> QED
    BY <1>2, <1>3 DEF Directories

(* The calls on files.                                                     *)
LEMMA TableChanges ==
    ASSUME Shape, Directories, NEW p \in Slot, NEW table,
           proc' = [proc EXCEPT ![p].filesp = table], pgdir' = pgdir
    PROVE  Directories'
  <1>1. ASSUME NEW q \in Slot PROVE proc'[q].mm = proc[q].mm
    <2>1. proc' = [r \in Slot |-> IF r = p THEN [proc[p] EXCEPT !.filesp = table] ELSE proc[r]]
      BY DEF Shape
    <2>2. PICK state, mm, old, exe : proc[p] = Entry(state, mm, old, exe)
      BY HasTable
    <2>3. [proc[p] EXCEPT !.filesp = table].mm = proc[p].mm
      BY <2>2 DEF Entry
    <2> QED
      BY <2>1, <2>3
  <1> QED
    BY <1>1 DEF Directories

LEMMA HaltDirectories ==
    ASSUME halts PROVE Directories'
  <1>1. proc' = [q \in Slot |-> NoProc] /\ pgdir' = [q \in Slot |-> "boot"]
    BY DEF halts
  <1>2. NoProc.mm = NoMm
    BY DEF NoProc
  <1> QED
    BY <1>1, <1>2 DEF Directories

LEMMA ForkDirectories ==
    ASSUME Shape, Directories, NEW p \in Slot, NEW c \in Slot, do_fork(p, c)
    PROVE  Directories'
  <1>1. PICK w : do_fork_fails(p, w) \/ do_fork_no_files(p, w) \/ do_fork_child(p, c, w)
                   \/ panics(w)
    BY DEF do_fork
  <1>2. CASE do_fork_fails(p, w) \/ do_fork_no_files(p, w)
    BY <1>2 DEF do_fork_fails, do_fork_no_files, Directories
  <1>3. CASE do_fork_child(p, c, w)
    <2>1. PICK entry : entry = Process(w.mm, proc[p].filesp, proc[p].exe)
      OBVIOUS
    <2>2. proc' = [proc EXCEPT ![c] = entry] /\ pgdir' = [pgdir EXCEPT ![c] = "own"]
      BY <1>3, <2>1 DEF do_fork_child
    <2> QED
      BY <2>2, OneDirectoryChanges
  <1>4. CASE panics(w)
    BY <1>4, HaltDirectories DEF panics
  <1> QED
    BY <1>1, <1>2, <1>3, <1>4

(* A process that ends has no address space.                               *)
LEMMA EndDirectories ==
    ASSUME Shape, Directories, NEW p \in Slot, NEW table, NEW dir,
           proc' = [proc EXCEPT ![p] = Zombie(table)] \/ proc' = [proc EXCEPT ![p] = NoProc],
           pgdir' = [pgdir EXCEPT ![p] = dir]
    PROVE  Directories'
  <1>1. Zombie(table).mm = NoMm /\ NoProc.mm = NoMm
    BY DEF Zombie, NoProc
  <1>2. PICK entry : entry.mm = NoMm /\ proc' = [proc EXCEPT ![p] = entry]
    BY <1>1
  <1> QED
    BY <1>2, OneDirectoryChanges

LEMMA ExecveDirectories ==
    ASSUME Shape, Directories, NEW p \in Slot, NEW f \in File, NEW fd \in Descriptor,
           do_execve(p, f, fd)
    PROVE  Directories'
  <1>1. PICK w : w = load_icode(Dropped(p), Elf[f])
    OBVIOUS
  <1>2. PICK table : table = [Kept(p) EXCEPT ![fd] = f]
    OBVIOUS
  <1>3. PICK dir, mm : dir = (IF w.ok THEN "own" ELSE Stale(p)) /\ mm = (IF w.ok THEN w.mm ELSE NoMm)
    OBVIOUS
  <1>4. \/ panics(w)
        \/ /\ pgdir' = [pgdir EXCEPT ![p] = dir]
           /\ proc' = [proc EXCEPT ![p] =
                        IF w.ret # "0" THEN Zombie(table) ELSE Process(mm, table, f)]
    BY <1>1, <1>2, <1>3, Zenon DEF do_execve
  <1>5. Zombie(table).mm = NoMm /\ Process(mm, table, f).mm = mm
    BY DEF Zombie, Process
  <1>6. mm # NoMm => dir = "own"
    BY <1>3, Zenon
  <1>7. CASE panics(w)
    BY <1>7, HaltDirectories DEF panics
  <1>8. CASE ~panics(w)
    <2>1. PICK entry : entry = IF w.ret # "0" THEN Zombie(table) ELSE Process(mm, table, f)
      OBVIOUS
    <2>2. proc' = [proc EXCEPT ![p] = entry] /\ pgdir' = [pgdir EXCEPT ![p] = dir]
      BY <1>4, <1>8, <2>1, Zenon
    <2>3. entry.mm # NoMm => dir = "own"
      BY <1>5, <1>6, <2>1, Zenon
    <2> QED
      BY <2>2, <2>3, OneDirectoryChanges
  <1> QED
    BY <1>7, <1>8

LEMMA StepDirectories == Shape /\ Directories /\ [Next]_vars => Directories'
  <1> SUFFICES ASSUME Shape, Directories, [Next]_vars PROVE Directories'
    OBVIOUS
  <1>1. ASSUME NEW p \in Slot, NEW c \in Slot, do_fork(p, c) PROVE Directories'
    BY <1>1, ForkDirectories
  <1>2. ASSUME NEW p \in Slot, do_exit(p) \/ do_wait(p) \/ do_execve_no_file(p)
        PROVE  Directories'
    <2>1. PICK table, dir :
            /\ \/ proc' = [proc EXCEPT ![p] = Zombie(table)]
               \/ proc' = [proc EXCEPT ![p] = NoProc]
            /\ pgdir' = [pgdir EXCEPT ![p] = dir]
      BY <1>2 DEF do_exit, do_wait, do_execve_no_file
    <2> QED
      BY <2>1, EndDirectories
  <1>3. ASSUME NEW p \in Slot, NEW f \in File, NEW fd \in Descriptor, do_execve(p, f, fd)
        PROVE  Directories'
    BY <1>3, ExecveDirectories
  <1>4. ASSUME NEW p \in Slot, NEW f \in File, NEW fd \in Descriptor, file_open(p, f, fd)
        PROVE  Directories'
    BY <1>4, TableChanges DEF file_open
  <1>5. ASSUME NEW p \in Slot, NEW d \in Descriptor, file_close(p, d) PROVE Directories'
    BY <1>5, TableChanges DEF file_close
  <1>6. ASSUME NEW p \in Slot, NEW d \in Descriptor, NEW e \in Descriptor, file_dup(p, d, e)
        PROVE  Directories'
    BY <1>6, TableChanges DEF file_dup
  <1>7. ASSUME NEW p \in Slot, NEW f \in File, file_open_excl(p, f) PROVE Directories'
    BY <1>7 DEF file_open_excl, Directories
  <1>8. ASSUME NEW p \in Slot, proc_run(p) PROVE Directories'
    BY <1>8, HaltDirectories DEF proc_run
  <1>9. CASE stopped \/ UNCHANGED vars
    BY <1>9 DEF stopped, vars, Directories
  <1> QED
    BY <1>1, <1>2, <1>3, <1>4, <1>5, <1>6, <1>7, <1>8, <1>9 DEF Next

LEMMA DirectoriesInitially == Init => Directories
  <1> SUFFICES ASSUME Init PROVE Directories
    OBVIOUS
  <1>1. /\ proc = [p \in Slot |-> IF p = First THEN Process(NoMm, NoTable, NULL) ELSE NoProc]
        /\ pgdir = [p \in Slot |-> "boot"]
    BY DEF Init
  <1>2. Process(NoMm, NoTable, NULL).mm = NoMm /\ NoProc.mm = NoMm
    BY DEF Process, NoProc
  <1> QED
    BY <1>1, <1>2 DEF Directories

(* With programs whose zeros begin at a page: a process that has memory      *)
(* runs on its own directory, and finds text, data and zeros where the      *)
(* program says, after do_execve and in every child of a fork, however it   *)
(* came about and whatever exec has failed before.                         *)
THEOREM ProgramIsInMemory ==
    ASSUME \A f \in File : Paged(Elf[f])
    PROVE  Spec => []ImageLoaded
  <1>1. PInv /\ Directories => ImageLoaded
    <2> SUFFICES ASSUME PInv, Directories, NEW p \in Slot, proc[p].mm # NoMm
                 PROVE  Loaded(proc[p].mm, Elf[proc[p].exe])
      BY DEF ImageLoaded, Directories
    <2>1. PICK m, elf : m = proc[p].mm /\ elf = Elf[proc[p].exe]
      OBVIOUS
    <2>2. proc[p].exe \in File /\ Image(m, elf)
      BY <2>1 DEF PInv, Housed
    <2>3. Paged(elf) /\ DOMAIN elf = 1 .. Len(elf)
      <3>1. elf \in Seq(Segment)
        BY <2>1, <2>2, ResourcesAssumption DEF Segment
      <3> QED
        BY <2>1, <2>2, <3>1
    <2>4. \A i \in DOMAIN elf : SegLoaded(m, elf[i])
      BY <2>2, <2>3 DEF Image, Paged
    <2>5. Loaded(m, elf)
      BY <2>4 DEF Loaded, SegLoaded
    <2> QED
      BY <2>1, <2>5
  <1>2. IInv /\ Directories /\ [Next]_vars => Directories'
    BY StepDirectories DEF IInv
  <1>3. Spec => []Directories
    BY DirectoriesInitially, PagesInvariant, <1>2, PTL DEF Spec
  <1> QED
    BY PagesInvariant, <1>1, <1>3, PTL
=============================================================================
