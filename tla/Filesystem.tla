----------------------------- MODULE Filesystem ------------------------------
(***************************************************************************)
(* The file table and the FAT of src/src/filesystem.c, as operators that   *)
(* Kernel calls: fs_create and fs_write for every I/O, fs_cleanup_process  *)
(* after a crash.                                                          *)
(*                                                                         *)
(* fs_init fills the FAT with memset(fs.fat, -2, ...), which repeats a     *)
(* byte and not an integer, while find_free_block looks for -2.  So        *)
(* fs_write ends at its first search; its loop and the chains of blocks    *)
(* are never reached, every first_block stays -1, and fs_delete has no     *)
(* block to free.                                                          *)
(***************************************************************************)
EXTENDS Integers, FiniteSets, FiniteSetsExt

CONSTANTS
    Pids,       \* the processes
    NoPid,      \* the owner of the three directories
    MaxFiles,   \* MAX_FILES
    BlockCount  \* BLOCK_COUNT

VARIABLE fs     \* the file system

\* "/logs/drone_<p>_seq_<n>.log", or one of the directories.
Path(p, n) == <<p, n>>
Directories == {Path(NoPid, n) : n \in 0..2}
Unused == Path(NoPid, -1)

Slots == 0..(MaxFiles - 1)
Blocks == 0..(BlockCount - 1)

-----------------------------------------------------------------------------
(* filesystem.c *)

\* The 32-bit integer memset(.., c, ..) writes, for a negative byte c.
Memset(c) == c * 2^24 + (c + 256) * (2^16 + 2^8 + 1)
FreeBlock == -2

Used(f) == {i \in Slots : f.path[i] # Unused}
find_file(f, path) == {i \in Used(f) : f.path[i] = path}
find_free_block(f) == {b \in Blocks : f.fat[b] = FreeBlock}

\* fs_create fails if the table is full, and does nothing for a known path.
fs_create(f, path) ==
    IF f.file_count >= MaxFiles \/ find_file(f, path) # {} \/ Used(f) = Slots THEN f
    ELSE LET i == Min(Slots \ Used(f))
         IN  [f EXCEPT !.path[i] = path, !.size[i] = 0, !.file_count = @ + 1]

fs_init ==
    [fat |-> [b \in Blocks |-> Memset(FreeBlock)],
     path |-> [i \in Slots |-> IF i \in 0..2 THEN Path(NoPid, i) ELSE Unused],
     size |-> [i \in Slots |-> 0],
     file_count |-> 3]

\* The file is created if it is missing.  What the kernel writes fits into one
\* block, size counts such writes; the chain of blocks is left out, see above.
fs_write(f, path) ==
    LET g == fs_create(f, path)
        block == find_free_block(g)
    IN  IF find_file(g, path) = {} \/ block = {} THEN g
        ELSE [g EXCEPT !.fat[Min(block)] = -1, !.size[Min(find_file(g, path))] = @ + 1]

\* Mutant of fs_cleanup_process: the count stays.
CleanupUncounted(f, p) ==
    [f EXCEPT !.path = [i \in Slots |-> IF @[i][1] = p THEN Unused ELSE @[i]]]

fs_cleanup_process(f, p) ==
    LET gone == {i \in Used(f) : f.path[i][1] = p}
    IN  [f EXCEPT !.path = [i \in Slots |-> IF i \in gone THEN Unused ELSE @[i]],
                  !.file_count = @ - Cardinality(gone)]

-----------------------------------------------------------------------------
(* Properties *)

\* The file count, which fs_create trusts, counts the used entries, and no path
\* is in the table twice.
TableIsConsistent ==
    /\ fs.file_count = Cardinality(Used(fs))
    /\ \A i, j \in Used(fs) : fs.path[i] = fs.path[j] => i = j
=============================================================================
