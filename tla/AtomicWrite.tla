---------------------------- MODULE AtomicWrite -----------------------------
(***************************************************************************)
(* How cmafly-index publishes an .idx (crates/indexer/src/main.rs:         *)
(* write_atomic, sync_parent_dir, tmp_sibling), over a file system that    *)
(* may lose what was not synced when the power fails.                      *)
(*                                                                         *)
(* The file system is modelled from what the code asks of it.  A directory *)
(* maps two names, the output and its .tmp sibling, to inodes.  Besides    *)
(* the state the processes see, there is the set of states that may be on  *)
(* the disk: every state since the last fsync of the directory, and of     *)
(* each file.  Directory operations reach the disk in order.               *)
(***************************************************************************)
EXTENDS Integers, Sequences, FiniteSets

CONSTANTS Writers,     \* invocations of cmafly-index with one --output
          Inodes,      \* inodes of the file system
          NoInode,     \* a name that is not in the directory
          Chunks,      \* Chunks[w]: how many writes write_all needs for w's bytes
          Concurrent   \* whether two invocations may run at a time

ASSUME WritersAssumption ==
  /\ Chunks \in [Writers -> Nat \ {0}]
  /\ Concurrent \in BOOLEAN
  /\ NoInode \notin Inodes
  /\ "old" \notin Writers /\ "hole" \notin Writers

VARIABLES
  dir,      \* dir.dst, dir.tmp: the inodes the names stand for
  data,     \* data[n]: the contents of inode n, a sequence of chunks
  diskDir,  \* the directories that may be on the disk
  diskData, \* diskData[n]: the contents of n that may be on the disk
  pc,       \* where each invocation is in write_atomic
  fd,       \* the inode each invocation has open
  pos,      \* chunks each invocation has written
  first,    \* history: the directory the system started with
  renames   \* history: the invocations that renamed, in that order

fsVars == <<dir, data, diskDir, diskData>>
vars == <<dir, data, diskDir, diskData, pc, fd, pos, first, renames>>

Dirs == [dst : Inodes \cup {NoInode}, tmp : Inodes \cup {NoInode}]

OldImage == <<"old">>
Image(w) == [k \in 1 .. Chunks[w] |-> w]
Images == {OldImage} \cup {Image(w) : w \in Writers}

Running == {w \in Writers : pc[w] \in {"write", "rename", "syncDir"}}

\* Write chunk k of w: a write behind the end of the file leaves a hole.
Overwrite(s, k, w) ==
  [j \in 1 .. (IF Len(s) < k THEN k ELSE Len(s)) |->
     IF j = k THEN w ELSE IF j <= Len(s) THEN s[j] ELSE "hole"]

\* An inode that no name, open file or state on the disk stands for.
Unused(n) ==
  /\ \A d \in diskDir \cup {dir} : n \notin {d.dst, d.tmp}
  /\ \A w \in Writers : fd[w] # n

-----------------------------------------------------------------------------
\* The output is missing or holds an older index; a .tmp may be left over from
\* an earlier run.
Init ==
  /\ dir \in {d \in Dirs : d.dst # d.tmp \/ d.dst = NoInode}
  /\ data = [n \in Inodes |-> IF n = dir.dst THEN OldImage ELSE <<>>]
  /\ diskDir = {dir}
  /\ diskData = [n \in Inodes |-> {data[n]}]
  /\ pc = [w \in Writers |-> "idle"]
  /\ fd = [w \in Writers |-> NoInode]
  /\ pos = [w \in Writers |-> 0]
  /\ first = dir
  /\ renames = <<>>

\* OpenOptions: create the sibling, or truncate the one that is there.
OpenTmp(w) ==
  /\ pc[w] = "idle"
  /\ Concurrent \/ Running = {}
  /\ \/ /\ dir.tmp = NoInode
        /\ \E n \in Inodes :
             /\ Unused(n)
             /\ dir' = [dir EXCEPT !.tmp = n]
             /\ data' = [data EXCEPT ![n] = <<>>]
             /\ diskData' = [diskData EXCEPT ![n] = {<<>>}]
             /\ fd' = [fd EXCEPT ![w] = n]
        /\ diskDir' = diskDir \cup {dir'}
     \/ /\ dir.tmp # NoInode
        /\ data' = [data EXCEPT ![dir.tmp] = <<>>]
        /\ diskData' = [diskData EXCEPT ![dir.tmp] = @ \cup {<<>>}]
        /\ fd' = [fd EXCEPT ![w] = dir.tmp]
        /\ UNCHANGED <<dir, diskDir>>
  /\ pc' = [pc EXCEPT ![w] = "write"]
  /\ UNCHANGED <<pos, first, renames>>

\* One write(2) of write_all.
WriteChunk(w) ==
  /\ pc[w] = "write"
  /\ pos[w] < Chunks[w]
  /\ LET c == Overwrite(data[fd[w]], pos[w] + 1, w)
     IN  /\ data' = [data EXCEPT ![fd[w]] = c]
         /\ diskData' = [diskData EXCEPT ![fd[w]] = @ \cup {c}]
  /\ pos' = [pos EXCEPT ![w] = pos[w] + 1]
  /\ UNCHANGED <<dir, diskDir, pc, fd, first, renames>>

\* Faulty variant for DstWhole: the file is not synced before the rename.
CloseUnsynced(w) ==
  /\ pc[w] = "write"
  /\ pos[w] = Chunks[w]
  /\ fd' = [fd EXCEPT ![w] = NoInode]
  /\ pc' = [pc EXCEPT ![w] = "rename"]
  /\ UNCHANGED <<fsVars, pos, first, renames>>

\* sync_all, and the file is closed.
SyncTmp(w) ==
  /\ pc[w] = "write"
  /\ pos[w] = Chunks[w]
  /\ diskData' = [diskData EXCEPT ![fd[w]] = {data[fd[w]]}]
  /\ fd' = [fd EXCEPT ![w] = NoInode]
  /\ pc' = [pc EXCEPT ![w] = "rename"]
  /\ UNCHANGED <<dir, data, diskDir, pos, first, renames>>

\* Faulty variant for OldUntilRename: the old index is removed first.
RemoveThenRename(w) ==
  /\ pc[w] = "rename"
  /\ dir.tmp # NoInode
  /\ dir' = [dst |-> dir.tmp, tmp |-> NoInode]
  /\ diskDir' = diskDir \cup {[dir EXCEPT !.dst = NoInode], dir'}
  /\ renames' = Append(renames, w)
  /\ pc' = [pc EXCEPT ![w] = "syncDir"]
  /\ UNCHANGED <<data, diskData, fd, pos, first>>

\* Faulty variant for PublishedUnchanged: the sibling is copied into the output
\* that is there.
CopyOverOutput(w) ==
  /\ pc[w] = "rename"
  /\ dir.tmp # NoInode
  /\ IF dir.dst = NoInode
       THEN /\ dir' = [dst |-> dir.tmp, tmp |-> NoInode]
            /\ UNCHANGED <<data, diskData>>
       ELSE /\ dir' = [dir EXCEPT !.tmp = NoInode]
            /\ data' = [data EXCEPT ![dir.dst] = data[dir.tmp]]
            /\ diskData' = [diskData EXCEPT ![dir.dst] = {data[dir.tmp]}]
  /\ diskDir' = diskDir \cup {dir'}
  /\ renames' = Append(renames, w)
  /\ pc' = [pc EXCEPT ![w] = "syncDir"]
  /\ UNCHANGED <<fd, pos, first>>

\* rename(2) over the output.  It fails if another invocation was faster.
RenameTmp(w) ==
  /\ pc[w] = "rename"
  /\ dir.tmp # NoInode
  /\ dir' = [dst |-> dir.tmp, tmp |-> NoInode]
  /\ diskDir' = diskDir \cup {dir'}
  /\ renames' = Append(renames, w)
  /\ pc' = [pc EXCEPT ![w] = "syncDir"]
  /\ UNCHANGED <<data, diskData, fd, pos, first>>

\* Faulty variant for AckedSurvives: the parent directory is not synced.
ReturnUnsynced(w) ==
  /\ pc[w] = "syncDir"
  /\ pc' = [pc EXCEPT ![w] = "Ok"]
  /\ UNCHANGED <<fsVars, fd, pos, first, renames>>

SyncParentDir(w) ==
  /\ pc[w] = "syncDir"
  /\ diskDir' = {dir}
  /\ pc' = [pc EXCEPT ![w] = "Ok"]
  /\ UNCHANGED <<dir, data, diskData, fd, pos, first, renames>>

\* Any system call fails, or the process is killed: what it did so far stays.
Abort(w) ==
  /\ w \in Running
  /\ pc' = [pc EXCEPT ![w] = "Err"]
  /\ fd' = [fd EXCEPT ![w] = NoInode]
  /\ UNCHANGED <<fsVars, pos, first, renames>>

\* Power failure: every process is gone, and the disk is what there is.
PowerLoss ==
  /\ dir' \in diskDir
  /\ data' \in {f \in [Inodes -> UNION {diskData[n] : n \in Inodes}] :
                  \A n \in Inodes : f[n] \in diskData[n]}
  /\ diskDir' = {dir'}
  /\ diskData' = [n \in Inodes |-> {data'[n]}]
  /\ pc' = [w \in Writers |-> IF w \in Running THEN "Err" ELSE pc[w]]
  /\ fd' = [w \in Writers |-> NoInode]
  /\ UNCHANGED <<pos, first, renames>>

Next ==
  \/ \E w \in Writers :
       \/ OpenTmp(w) \/ WriteChunk(w) \/ SyncTmp(w)
       \/ RenameTmp(w) \/ SyncParentDir(w) \/ Abort(w)
  \/ PowerLoss

Spec == Init /\ [][Next]_vars

-----------------------------------------------------------------------------
\* Whoever opens the output finds a complete index: never a part of one, nor a
\* mix of two, whatever was killed or failed and whenever the power was lost.
DstWhole == dir.dst # NoInode => data[dir.dst] \in Images

\* The index of an invocation that returned success is not lost any more: the
\* output holds it, or one that was renamed over it later.
AckedSurvives ==
  \A w \in Writers : pc[w] = "Ok" =>
    \E k, m \in DOMAIN renames :
      /\ renames[k] = w
      /\ k <= m
      /\ dir.dst # NoInode /\ data[dir.dst] = Image(renames[m])

\* Until an invocation renames, the original output (or its absence) stays; and
\* an output that was there is never missing afterwards.
OldUntilRename ==
  /\ renames = <<>> =>
       dir.dst = first.dst /\ (first.dst # NoInode => data[first.dst] = OldImage)
  /\ first.dst # NoInode => dir.dst # NoInode

\* A published index is never changed in place, so that a server may keep it
\* mapped: the contents of an inode stay while the output stands for it.
PublishedUnchanged ==
  [][dir.dst # NoInode /\ dir'.dst = dir.dst => data'[dir.dst] = data[dir.dst]]_vars

=============================================================================
