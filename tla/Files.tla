---------------------------------- MODULE Files ----------------------------------
(***************************************************************************)
(* Tables of open files (kern/fs/file.c, kern/fs/fs.c) and the counts of   *)
(* the inodes they refer to (kern/fs/vfs/inode.c).  No state of its own:   *)
(*                                                                         *)
(*   node[f]  = [ref, open]: ref_count, open_count; in memory if ref > 0   *)
(*   table    descriptor -> file, or NoFile for FD_NONE                    *)
(***************************************************************************)
EXTENDS Integers, FiniteSets

CONSTANTS File,
          NoFile,
          NENTRY,     \* FILES_STRUCT_NENTRY
          NSTD        \* stdin and stdout: files_closeall skips them

ASSUME FilesAssumption == NENTRY \in Nat /\ NSTD \in 0 .. NENTRY - 1 /\ NoFile \notin File

Descriptor == 0 .. NENTRY - 1
NoTable == [d \in Descriptor |-> NoFile]
Opened(table) == {d \in Descriptor : table[d] # NoFile}
FreeOnes(table) == Descriptor \ Opened(table)

(* The lowest descriptor that is free: fd_array_alloc.                     *)
Lowest(table, fd) == fd \in FreeOnes(table) /\ \A d \in FreeOnes(table) : fd <= d

(* How many of the descriptors in D refer to f.                            *)
refs(table, D, f) == Cardinality({d \in D : table[d] = f})

(* inode_ref_inc and inode_open_inc, once for every descriptor in D.       *)
inc(node, table, D) ==
    [f \in File |-> [ref |-> node[f].ref + refs(table, D, f),
                     open |-> node[f].open + refs(table, D, f)]]

(* vfs_close for every descriptor in D: inode_open_dec, inode_ref_dec.     *)
dec(node, table, D) ==
    [f \in File |-> [ref |-> node[f].ref - refs(table, D, f),
                     open |-> node[f].open - refs(table, D, f)]]

(* fd_array_close of the descriptors in D.                                 *)
closed(table, D) == [d \in Descriptor |-> IF d \in D THEN NoFile ELSE table[d]]

Beyond == NSTD .. NENTRY - 1
=============================================================================
