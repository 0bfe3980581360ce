---------------------------------- MODULE Sfs ----------------------------------
(***************************************************************************)
(* Files on the simple file system (kern/fs/sfs/sfs_inode.c) and those who  *)
(* have them open (kern/fs/file.c).  The disk is in memory and no system   *)
(* call on a file sleeps, so that each one is a step; what interleaves are *)
(* the calls of several descriptors, each with its own position, on the    *)
(* same files, and files compete for the blocks of the disk.               *)
(*                                                                         *)
(*   s.free    freemap                  s.unused  super.unused_blocks      *)
(*   s.cont    what is in every block: BLK units, which are bytes of a      *)
(*             file or, in an indirect block, block numbers                 *)
(*   s.disk    the inodes on disk       s.dirty   sin->dirty               *)
(*   s.din     the inodes in memory; the one on disk as long as the file   *)
(*             is open nowhere                                             *)
(*   s.panic   the first assertion that has failed                         *)
(*                                                                         *)
(* What is written at offset o of file f is Byte(f, o), so that nothing    *)
(* that goes astray looks right.                                           *)
(***************************************************************************)
EXTENDS Integers, Sequences, SequencesExt, FiniteSetsExt

CONSTANTS File,      \* the files, by number
          Fd,        \* the file descriptors of all processes
          BLOCKS,    \* the number of blocks for data and indirect blocks
          BLK,       \* units of a block, SFS_BLKSIZE and SFS_BLK_NENTRY
          NDIRECT,   \* SFS_NDIRECT
          MAX_SIZE,  \* SFS_MAX_FILE_SIZE; in the code more than index blocks
                     \* can address, but the disk is full long before
          STALE,     \* may a file be truncated that is open elsewhere?
          OVERSEEK   \* may a seek ask for more blocks than are free?

ASSUME SfsAssumption ==
    /\ BLOCKS \in Nat \ {0} /\ BLK \in Nat \ {0} /\ NDIRECT \in Nat \ {0}
    /\ MAX_SIZE \in 1 .. (NDIRECT + BLK) * BLK
    /\ File \subseteq Nat \ {0}
    /\ STALE \in BOOLEAN /\ OVERSEEK \in BOOLEAN

VARIABLES s,
          fd       \* file->node and file->pos of every descriptor

vars == <<s, fd>>

Block == 1 .. BLOCKS
Byte(f, o) == f * (MAX_SIZE + BLOCKS + 1) + o
Junk == -1
Stale == [size |-> Junk, blocks |-> Junk, direct |-> <<>>, indirect |-> Junk]
Closed == [ino |-> 0, pos |-> 0]
Openers(f) == {h \in Fd : fd[h].ino = f}
RoundUp(n) == (n + BLK - 1) \div BLK

Panic(v, why) == IF v.panic = "" THEN [v EXCEPT !.panic = why] ELSE v
Check(v, cond, why) == IF cond THEN v ELSE Panic(v, why)

-----------------------------------------------------------------------------
(* Operators return the new state v, ok for ret = 0, and *ino_store.        *)
Success(v, b) == [v |-> v, ok |-> TRUE, ino |-> b]
Failure(v) == [v |-> v, ok |-> FALSE, ino |-> 0]

block_alloc_NotCleared(v) ==
    IF v.free = {} THEN Failure(v)
    ELSE LET b == Min(v.free)
         IN  Success([v EXCEPT !.free = @ \ {b}, !.unused = @ - 1], b)

(* sfs_block_alloc: bitmap_alloc takes the first free block.               *)
block_alloc(v) ==
    IF v.free = {} THEN Failure(v)
    ELSE LET b == Min(v.free)
         IN  Success([Check(v, v.unused > 0, "block_alloc") EXCEPT
                        !.free = @ \ {b}, !.unused = @ - 1,
                        !.cont[b] = [i \in 0 .. BLK - 1 |-> 0]], b)

(* sfs_block_free; nothing can be told any more of what is in the block.   *)
block_free(v, b) ==
    [Check(v, b \in Block \ v.free, "block_free") EXCEPT
       !.free = @ \cup {b}, !.unused = @ + 1, !.cont[b] = [i \in 0 .. BLK - 1 |-> Junk]]

(* The block number that is noted for block index of f, 0 if there is none. *)
Pointer(v, f, index) ==
    LET din == v.din[f]
    IN  IF index < NDIRECT THEN din.direct[index]
        ELSE IF din.indirect = 0 THEN 0 ELSE v.cont[din.indirect][index - NDIRECT]

(* sfs_bmap_get_sub_nolock with create: a missing indirect block first.  e *)
(* is the indirect block, d the block for the data.                        *)
Entered_KeepsEnt(e, d, f, entry) ==
    LET old == e.v.din[f].indirect
    IN  IF ~e.ok THEN e
        ELSE IF ~d.ok THEN d
        ELSE Success([d.v EXCEPT !.cont[e.ino][entry] = d.ino,
                                 !.din[f].indirect = e.ino,
                                 !.dirty[f] = @ \/ e.ino # old], d.ino)

Entered(e, d, f, entry) ==
    LET old == e.v.din[f].indirect
    IN  IF ~e.ok THEN e
        ELSE IF ~d.ok THEN Failure(IF e.ino # old THEN block_free(d.v, e.ino) ELSE d.v)
        ELSE Success([d.v EXCEPT !.cont[e.ino][entry] = d.ino,
                                 !.din[f].indirect = e.ino,
                                 !.dirty[f] = @ \/ e.ino # old], d.ino)

bmap_get_sub(v, f, entry) ==
    LET old == v.din[f].indirect
        With(e) == Entered(e, block_alloc(e.v), f, entry)
    IN  With(IF old # 0 THEN Success(v, old) ELSE block_alloc(v))

bmap_get(v, f, index, create) ==
    LET p == Pointer(v, f, index)
        With(d) == IF ~d.ok THEN d
                   ELSE Success([d.v EXCEPT !.din[f].direct[index] = d.ino, !.dirty[f] = TRUE], d.ino)
    IN  IF index >= NDIRECT + BLK THEN Failure(Panic(v, "out of range"))
        ELSE IF p # 0 \/ ~create THEN Success(v, p)
        ELSE IF index >= NDIRECT THEN bmap_get_sub(v, f, index - NDIRECT)
        ELSE With(block_alloc(v))

(* sfs_bmap_load_nolock: the block behind the last one is added.           *)
bmap_load(v, f, index) ==
    LET blocks == v.din[f].blocks
        Used(g) == Check(g.v, g.ino \in Block \ g.v.free, "block inuse")
        Got(g) == IF ~g.ok THEN g
                  ELSE IF index # blocks THEN Success(Used(g), g.ino)
                  ELSE Success([Used(g) EXCEPT !.din[f].blocks = @ + 1], g.ino)
    IN  IF index > blocks THEN Failure(Panic(v, "index <= blocks"))
        ELSE Got(bmap_get(v, f, index, index = blocks))

(* sfs_bmap_truncate_nolock, sfs_bmap_free_nolock: the last block goes, the *)
(* indirect block stays.                                                   *)
bmap_truncate(v, f) ==
    LET index == v.din[f].blocks - 1
        Forget(w, p) ==
            IF index < NDIRECT THEN [w EXCEPT !.din[f].direct[index] = 0]
            ELSE IF p # 0 THEN [w EXCEPT !.cont[w.din[f].indirect][index - NDIRECT] = 0]
            ELSE w
        Free(p) == Forget(IF p = 0 THEN v ELSE block_free(v, p), p)
    IN  IF index < 0 THEN Panic(v, "blocks != 0")
        ELSE [Free(Pointer(v, f, index)) EXCEPT !.din[f].blocks = index, !.dirty[f] = TRUE]

(* sfs_truncfile *)
Enlarged(v, f, tblks) ==
    LET more(u) == IF u.ok THEN bmap_load(u.v, f, u.v.din[f].blocks) ELSE u
        at[i \in 0 .. tblks - v.din[f].blocks] ==
          IF i = 0 THEN Success(v, 0) ELSE more(at[i - 1])
    IN  at[tblks - v.din[f].blocks]

Reduced(v, f, tblks) ==
    LET at[i \in 0 .. v.din[f].blocks - tblks] == IF i = 0 THEN v ELSE bmap_truncate(at[i - 1], f)
    IN  at[v.din[f].blocks - tblks]

truncfile_NotDirty(v, f, len) ==
    LET din == v.din[f]
        tblks == RoundUp(len)
        Even(w) == Check(w, w.din[f].blocks = tblks, "blocks == tblks")
        End(e) == IF e.ok THEN [v |-> [Even(e.v) EXCEPT !.din[f].size = len], ok |-> TRUE]
                  ELSE [v |-> e.v, ok |-> FALSE]
    IN  IF din.size = len
          THEN [v |-> Check(v, tblks = din.blocks, "tblks == blocks"), ok |-> TRUE]
        ELSE IF din.blocks < tblks THEN End(Enlarged(v, f, tblks))
        ELSE End([v |-> Reduced(v, f, tblks), ok |-> TRUE])

truncfile(v, f, len) ==
    LET din == v.din[f]
        tblks == RoundUp(len)
        Even(w) == Check(w, w.din[f].blocks = tblks, "blocks == tblks")
        End(e) == IF e.ok THEN [v |-> [Even(e.v) EXCEPT !.din[f].size = len, !.dirty[f] = TRUE], ok |-> TRUE]
                  ELSE [v |-> e.v, ok |-> FALSE]
    IN  IF din.size = len
          THEN [v |-> Check(v, tblks = din.blocks, "tblks == blocks"), ok |-> TRUE]
        ELSE IF din.blocks < tblks THEN End(Enlarged(v, f, tblks))
        ELSE End([v |-> Reduced(v, f, tblks), ok |-> TRUE])

-----------------------------------------------------------------------------
(* sfs_io_nolock *)

(* The rest of the first block, whole blocks, the beginning of the last.   *)
Chunks(offset, endpos) ==
    LET blkoff == offset % BLK
        blkno == offset \div BLK
        nblks == endpos \div BLK - blkno
        whole == IF blkoff = 0 THEN 0 ELSE 1
        first == IF blkoff = 0 THEN <<>>
                 ELSE <<[no |-> blkno, from |-> blkoff,
                         size |-> IF nblks = 0 THEN endpos - offset ELSE BLK - blkoff]>>
        middle == [i \in 1 .. nblks - whole |->
                     [no |-> blkno + whole + i - 1, from |-> 0, size |-> BLK]]
        last == IF endpos % BLK = 0 THEN <<>>
                ELSE <<[no |-> endpos \div BLK, from |-> 0, size |-> endpos % BLK]>>
    IN  IF blkoff # 0 /\ nblks = 0 THEN first ELSE first \o middle \o last

(* One block: sfs_wbuf and sfs_wblock, or sfs_rbuf and sfs_rblock.         *)
Written(f, c, old) ==
    [i \in 0 .. BLK - 1 |-> IF i \in c.from .. c.from + c.size - 1 THEN Byte(f, c.no * BLK + i) ELSE old[i]]

transfer_NoSkip(u, f, c, write) ==
    LET Put(v, b) == [v EXCEPT !.cont[b] = Written(f, c, @)]
        Get(v, b) == [i \in 1 .. c.size |-> v.cont[b][i - 1]]
        In(g) ==
            IF ~g.ok \/ g.v.panic # "" THEN [u EXCEPT !.v = g.v, !.ok = FALSE]
            ELSE IF write THEN [u EXCEPT !.v = Put(g.v, g.ino), !.alen = @ + c.size]
            ELSE [u EXCEPT !.v = g.v, !.alen = @ + c.size, !.buf = @ \o Get(g.v, g.ino)]
    IN  IF u.ok THEN In(bmap_load(u.v, f, c.no)) ELSE u

transfer(u, f, c, write) ==
    LET Put(v, b) == [v EXCEPT !.cont[b] = Written(f, c, @)]
        Get(v, b) == [i \in 1 .. c.size |-> v.cont[b][c.from + i - 1]]
        In(g) ==
            IF ~g.ok \/ g.v.panic # "" THEN [u EXCEPT !.v = g.v, !.ok = FALSE]
            ELSE IF write THEN [u EXCEPT !.v = Put(g.v, g.ino), !.alen = @ + c.size]
            ELSE [u EXCEPT !.v = g.v, !.alen = @ + c.size, !.buf = @ \o Get(g.v, g.ino)]
    IN  IF u.ok THEN In(bmap_load(u.v, f, c.no)) ELSE u

io(v, f, offset, len, write) ==
    LET none == [v |-> v, ok |-> TRUE, alen |-> 0, buf |-> <<>>]
        most == IF write THEN MAX_SIZE ELSE v.din[f].size
        endpos == Min({offset + len, most})
        cs == Chunks(offset, endpos)
        at[i \in 0 .. Len(cs)] == IF i = 0 THEN none ELSE transfer(at[i - 1], f, cs[i], write)
        End(u) == IF offset + u.alen > u.v.din[f].size
                    THEN [u EXCEPT !.v = [u.v EXCEPT !.din[f].size = offset + u.alen, !.dirty[f] = TRUE]]
                  ELSE u
    IN  IF offset >= most THEN none ELSE End(at[Len(cs)])

fsync(v, f) ==
    IF v.dirty[f] THEN [v EXCEPT !.disk[f] = v.din[f], !.dirty[f] = FALSE] ELSE v

(* An older inode on disk is only good for being overwritten.              *)
Older(v) == [v EXCEPT !.disk = [f \in File |-> IF v.disk[f] = v.din[f] THEN @[f] ELSE Stale]]

-----------------------------------------------------------------------------
(* Empty files, as mksfs makes them, and none of them open. *)
Empty == [size |-> 0, blocks |-> 0, direct |-> [i \in 0 .. NDIRECT - 1 |-> 0], indirect |-> 0]

Init ==
    /\ s = [free |-> Block, unused |-> BLOCKS,
            cont |-> [b \in Block |-> [i \in 0 .. BLK - 1 |-> Junk]],
            disk |-> [f \in File |-> Empty], din |-> [f \in File |-> Empty],
            dirty |-> [f \in File |-> FALSE],
            panic |-> ""]
    /\ fd = [h \in Fd |-> Closed]

Up == s.panic = ""
IsOpen(h) == Up /\ fd[h].ino # 0

(* file_open: vfs_open truncates with O_TRUNC (and with O_CREAT), then       *)
(* O_APPEND fetches the size.                                              *)
file_open(h, f, trunc, append) ==
    /\ Up /\ fd[h] = Closed
    /\ trunc => STALE \/ Openers(f) = {}
    /\ s' = IF trunc THEN Older(truncfile(s, f, 0).v) ELSE s
    /\ fd' = [fd EXCEPT ![h] = [ino |-> f, pos |-> IF append THEN s'.din[f].size ELSE 0]]

(* file_close: the last one writes the inode back (sfs_close) and drops it   *)
(* (sfs_reclaim).                                                          *)
file_close(h) ==
    LET f == fd[h].ino
        w == fsync(s, f)
    IN  /\ IsOpen(h)
        /\ s' = IF Openers(f) = {h} THEN [w EXCEPT !.din[f] = w.disk[f], !.dirty[f] = FALSE] ELSE s
        /\ fd' = [fd EXCEPT ![h] = Closed]

file_fsync(h) ==
    /\ IsOpen(h)
    /\ s' = fsync(s, fd[h].ino)
    /\ UNCHANGED fd

file_dup(h, g) ==
    /\ IsOpen(h) /\ fd[g] = Closed
    /\ fd' = [fd EXCEPT ![g] = fd[h]]
    /\ UNCHANGED s

(* file_seek: sfs_tryseek makes the file as long as the position.          *)
file_seek(h, pos) ==
    LET f == fd[h].ino IN
    /\ IsOpen(h)
    /\ pos < MAX_SIZE
    /\ \/ /\ pos <= s.din[f].size
          /\ fd' = [fd EXCEPT ![h].pos = pos]
          /\ UNCHANGED s
       \/ /\ pos > s.din[f].size
          /\ \E t \in {truncfile(s, f, pos)} :
               /\ OVERSEEK \/ t.ok
               /\ s' = Older(t.v)
               /\ fd' = IF t.ok THEN [fd EXCEPT ![h].pos = pos] ELSE fd

file_read(h, len) ==
    /\ IsOpen(h)
    /\ \E u \in {io(s, fd[h].ino, fd[h].pos, len, FALSE)} :
         /\ s' = Older(u.v)
         /\ fd' = [fd EXCEPT ![h].pos = @ + u.alen]

file_write(h, len) ==
    /\ IsOpen(h)
    /\ \E u \in {io(s, fd[h].ino, fd[h].pos, len, TRUE)} :
         /\ s' = Older(u.v)
         /\ fd' = [fd EXCEPT ![h].pos = @ + u.alen]

(* sys_read and sys_write hand over at most a block at a time.             *)
Next ==
    \/ \E h \in Fd :
         \/ \E f \in File, trunc, append \in BOOLEAN : file_open(h, f, trunc, append)
         \/ file_close(h) \/ file_fsync(h)
         \/ \E g \in Fd : file_dup(h, g)
         \/ \E pos \in 0 .. MAX_SIZE - 1 : file_seek(h, pos)
         \/ \E len \in 1 .. BLK : file_read(h, len) \/ file_write(h, len)

Spec == Init /\ [][Next]_vars

-----------------------------------------------------------------------------
(* The blocks an inode holds: those below blocks, and the indirect block.  *)
Data(f) == {Pointer(s, f, i) : i \in 0 .. s.din[f].blocks - 1}
Held(f) == Data(f) \cup ({s.din[f].indirect} \ {0})

(* A block is free or held by one file for one purpose, and unused_blocks   *)
(* is the number of free ones: whatever fails half way on a full disk, no    *)
(* block is lost and none is in two files.                                 *)
BlocksOwned ==
    /\ Block \ s.free = UNION {Held(f) : f \in File}
    /\ \A f \in File : Cardinality(Data(f)) = s.din[f].blocks /\ s.din[f].indirect \notin Data(f)
    /\ \A f, g \in File : f # g => Held(f) \cap Held(g) = {}
    /\ s.unused = Cardinality(s.free)

(* A clean inode is the one on disk: dropping it loses nothing.            *)
CleanIsSaved == \A f \in File : ~s.dirty[f] => s.din[f] = s.disk[f]

Content(f) ==
    [i \in 1 .. s.din[f].size |-> s.cont[Pointer(s, f, (i - 1) \div BLK)][(i - 1) % BLK]]

(* A read hands over what is in the file at the position.                  *)
ReadsBack ==
    \A h \in Fd, len \in 1 .. BLK : IsOpen(h) =>
        LET c == Content(fd[h].ino)
            pos == fd[h].pos
        IN  io(s, fd[h].ino, pos, len, FALSE).buf = SubSeq(c, pos + 1, Min({pos + len, Len(c)}))

(* What FileStore knows of all this. *)
content == [f \in File |-> Content(f)]
place == [h \in Fd |-> <<fd[h].ino, fd[h].pos>>]

Store == INSTANCE FileStore

(* Seen from the descriptors files are sequences of bytes: what is read is *)
(* what was written last, growth is filled with zeros, and nothing that is *)
(* done to one file shows in another.                                      *)
StoreSpec == Store!Spec

(* The assertions of sfs_inode.c hold, whatever programs do to files.      *)
NoAssertFails == Up
=============================================================================
