------------------------- MODULE AtomicWriteProofs --------------------------
(***************************************************************************)
(* Proofs about AtomicWrite, for invocations that run one after the other: *)
(* any number of them, any number of writes each, any failures and power   *)
(* losses.  Two invocations at a time do break the output (see the run     *)
(* atomic_concurrent), so that each theorem has ~Concurrent as hypothesis. *)
(***************************************************************************)
EXTENDS AtomicWrite, SequenceTheorems, TLAPS

Contents == Seq(Writers \cup {"old", "hole"})

TypeOK ==
  /\ dir \in Dirs /\ first \in Dirs
  /\ diskDir \subseteq Dirs
  /\ data \in [Inodes -> Contents]
  /\ diskData \in [Inodes -> SUBSET Contents]
  /\ pc \in [Writers -> {"idle", "write", "rename", "syncDir", "Ok", "Err"}]
  /\ fd \in [Writers -> Inodes \cup {NoInode}]
  /\ pos \in [Writers -> Nat]
  /\ renames \in Seq(Writers)

\* Invocations run one after the other, and the one that writes has the .tmp
\* sibling open.
Sequential ==
  /\ \A v, w \in Running : v = w
  /\ \A w \in Writers : pc[w] = "idle" => pos[w] = 0
  /\ \A w \in Writers : fd[w] # NoInode => pc[w] = "write"
  /\ \A w \in Writers : pc[w] = "write" => fd[w] = dir.tmp
  /\ \A w \in Writers : pc[w] \in {"write", "rename"} => dir.tmp # NoInode

\* Whichever directory the disk holds, its output is whole and synced, and no
\* such output is the file that is being written.
Published ==
  /\ dir \in diskDir
  /\ \A d \in diskDir : d.dst # NoInode =>
       /\ d.dst # d.tmp
       /\ d.dst # dir.tmp
       /\ data[d.dst] \in Images
       /\ diskData[d.dst] = {data[d.dst]}

\* What the file holds that is being written, or that is ready to be renamed.
Written ==
  \A w \in Writers :
    /\ pc[w] = "write" => /\ pos[w] <= Chunks[w]
                          /\ data[dir.tmp] = [j \in 1 .. pos[w] |-> w]
    /\ pc[w] = "rename" => /\ data[dir.tmp] = Image(w)
                           /\ diskData[dir.tmp] = {Image(w)}

\* What of the original output is on the disk.
Original ==
  /\ renames = <<>> =>
       /\ \A d \in diskDir : d.dst = first.dst
       /\ first.dst # NoInode => data[first.dst] = OldImage
  /\ first.dst # NoInode => \A d \in diskDir : d.dst # NoInode

\* The output d.dst holds the index of w, or one that was renamed later.
Holds(d, w) ==
  \E a, m \in DOMAIN renames :
    /\ renames[a] = w
    /\ a <= m
    /\ d.dst # NoInode /\ data[d.dst] = Image(renames[m])

\* Who has renamed is the last to have done so until it has synced the
\* directory; from then on no directory on the disk is older.
Acked ==
  \A w \in Writers :
    /\ pc[w] = "syncDir" => Holds(dir, w)
    /\ pc[w] = "Ok" => \A d \in diskDir : Holds(d, w)

\* The inductive invariant of sequential invocations.
IInv == TypeOK /\ Sequential /\ Published /\ Written /\ Original /\ Acked

-----------------------------------------------------------------------------
\* Initially.
LEMMA InitIInv == Init => IInv
<1> SUFFICES ASSUME Init PROVE IInv
  OBVIOUS
<1>1. dir \in Dirs /\ (dir.dst # dir.tmp \/ dir.dst = NoInode)
  BY DEF Init
<1>2. dir.dst \in Inodes \cup {NoInode} /\ dir.tmp \in Inodes \cup {NoInode}
  BY <1>1 DEF Dirs
<1>3. OldImage \in Contents /\ <<>> \in Contents
  BY DEF OldImage, Contents
<1>4. TypeOK
  <2>1. data \in [Inodes -> Contents] /\ diskData \in [Inodes -> SUBSET Contents]
    BY <1>3 DEF Init
  <2> QED
    BY <1>1, <2>1 DEF Init, TypeOK
<1>5. Running = {}
  BY DEF Init, Running
<1>6. Sequential
  BY <1>5 DEF Init, Sequential
<1>7. Published
  BY <1>1, <1>2 DEF Init, Published, Images
<1>8. Written /\ Acked
  BY DEF Init, Written, Acked
<1>9. Original
  BY <1>1, <1>2 DEF Init, Original
<1> QED
  BY <1>4, <1>6, <1>7, <1>8, <1>9 DEF IInv

\* The parts of a directory.
LEMMA DirParts ==
  ASSUME NEW d \in Dirs
  PROVE  d.dst \in Inodes \cup {NoInode} /\ d.tmp \in Inodes \cup {NoInode}
  BY DEF Dirs

\* The history of the output survives a step that publishes nothing: the disk
\* holds no output that it did not hold before, and none of them changes.
LEMMA NothingPublished ==
  ASSUME TypeOK, Published, Original, Acked,
         UNCHANGED <<first, renames>>,
         \A d \in diskDir' : \E e \in diskDir : e.dst = d.dst,
         \A d \in diskDir : d.dst # NoInode => data'[d.dst] = data[d.dst],
         \A w \in Writers : pc'[w] = "syncDir" => pc[w] = "syncDir" /\ dir'.dst = dir.dst,
         \A w \in Writers : pc'[w] = "Ok" => pc[w] = "Ok"
  PROVE  Original' /\ Acked'
<1>1. Original'
  <2>1. ASSUME renames' = <<>>
        PROVE  /\ \A d \in diskDir' : d.dst = first'.dst
               /\ first'.dst # NoInode => data'[first'.dst] = OldImage
    BY <2>1 DEF Original, Published
  <2>2. first'.dst # NoInode => \A d \in diskDir' : d.dst # NoInode
    BY DEF Original
  <2> QED
    BY <2>1, <2>2 DEF Original
<1>2. ASSUME NEW d, NEW e \in diskDir, e.dst = d.dst, NEW w \in Writers, Holds(e, w)
      PROVE  Holds(d, w)'
  BY <1>2 DEF Holds
<1>3. Acked'
  <2> SUFFICES ASSUME NEW w \in Writers
               PROVE  /\ pc'[w] = "syncDir" => Holds(dir, w)'
                      /\ pc'[w] = "Ok" => \A d \in diskDir' : Holds(d, w)'
    BY DEF Acked
  <2>1. pc'[w] = "syncDir" => Holds(dir, w)'
    BY DEF Acked, Published, Holds
  <2>2. pc'[w] = "Ok" => \A d \in diskDir' : Holds(d, w)'
    BY <1>2 DEF Acked
  <2> QED
    BY <2>1, <2>2
<1> QED
  BY <1>1, <1>3

\* If the file that is being written is all that changes, no output does.
LEMMA OnlyTmpChanges ==
  ASSUME TypeOK, Published,
         UNCHANGED <<dir, diskDir>>,
         \A n \in Inodes : n # dir.tmp => data'[n] = data[n] /\ diskData'[n] = diskData[n]
  PROVE  /\ Published'
         /\ \A d \in diskDir : d.dst # NoInode => data'[d.dst] = data[d.dst]
<1>1. ASSUME NEW d \in diskDir, d.dst # NoInode
      PROVE  d.dst # dir.tmp /\ data'[d.dst] = data[d.dst] /\ diskData'[d.dst] = diskData[d.dst]
  <2>1. d.dst \in Inodes
    BY <1>1, DirParts DEF TypeOK
  <2> QED
    BY <1>1, <2>1 DEF Published
<1> QED
  BY <1>1 DEF Published

\* A new invocation creates or truncates the sibling.
LEMMA OpenTmpIInv ==
  ASSUME IInv, ~Concurrent, NEW w \in Writers, OpenTmp(w)
  PROVE  IInv'
<1> USE DEF IInv
<1>1. /\ pc[w] = "idle" /\ Running = {} /\ pos[w] = 0
      /\ pc' = [pc EXCEPT ![w] = "write"]
      /\ UNCHANGED <<pos, first, renames>>
  BY DEF OpenTmp, Sequential
<1>2. \A v \in Writers : pc[v] \notin {"write", "rename", "syncDir"} /\ fd[v] = NoInode
  BY <1>1 DEF Running, Sequential
<1>3. dir.dst \in Inodes \cup {NoInode} /\ dir.tmp \in Inodes \cup {NoInode}
  BY DirParts DEF TypeOK
<1>4. <<>> \in Contents
  BY DEF Contents
<1>5. PICK n \in Inodes :
        /\ dir' = [dir EXCEPT !.tmp = n]
        /\ data' = [data EXCEPT ![n] = <<>>]
        /\ fd' = [fd EXCEPT ![w] = n]
        /\ diskDir' = diskDir \cup {dir'}
        /\ \A d \in diskDir : d.dst # n
        /\ \/ diskData' = [diskData EXCEPT ![n] = {<<>>}]
           \/ diskData' = [diskData EXCEPT ![n] = @ \cup {<<>>}]
  <2>1. CASE dir.tmp = NoInode
    BY <2>1 DEF OpenTmp, Unused
  <2>2. CASE dir.tmp # NoInode
    <3>1. dir.tmp \in Inodes /\ dir = [dir EXCEPT !.tmp = dir.tmp] /\ diskDir = diskDir \cup {dir}
      BY <1>3, <2>2 DEF TypeOK, Dirs, Published
    <3>2. \A d \in diskDir : d.dst # dir.tmp
      BY <2>2 DEF Published
    <3> QED
      BY <2>2, <3>1, <3>2 DEF OpenTmp
  <2> QED
    BY <2>1, <2>2
<1>6. dir'.tmp = n /\ dir'.dst = dir.dst /\ dir' \in Dirs /\ n # NoInode /\ dir.dst # n
  BY <1>5, WritersAssumption DEF TypeOK, Dirs, Published
<1>7. TypeOK'
  <2>1. data' \in [Inodes -> Contents] /\ diskData' \in [Inodes -> SUBSET Contents]
    <3>1. data' \in [Inodes -> Contents]
      BY <1>4, <1>5 DEF TypeOK
    <3>2. {<<>>} \in SUBSET Contents /\ diskData[n] \cup {<<>>} \in SUBSET Contents
      BY <1>4 DEF TypeOK
    <3>3. diskData' \in [Inodes -> SUBSET Contents]
      BY <1>5, <3>2 DEF TypeOK
    <3> QED
      BY <3>1, <3>3
  <2>2. fd' \in [Writers -> Inodes \cup {NoInode}]
    BY <1>5 DEF TypeOK
  <2> QED
    BY <1>1, <1>5, <1>6, <2>1, <2>2 DEF TypeOK
<1>8. Sequential'
  BY <1>1, <1>2, <1>5, <1>6 DEF TypeOK, Sequential, Running
<1>9. \A d \in diskDir : d.dst # NoInode => data'[d.dst] = data[d.dst] /\ diskData'[d.dst] = diskData[d.dst]
  <2> SUFFICES ASSUME NEW d \in diskDir, d.dst # NoInode
               PROVE  data'[d.dst] = data[d.dst] /\ diskData'[d.dst] = diskData[d.dst]
    OBVIOUS
  <2>1. d.dst \in Inodes /\ d.dst # n
    BY <1>5, DirParts DEF TypeOK
  <2> QED
    BY <1>5, <2>1 DEF TypeOK
<1>10. Published'
  <2> SUFFICES ASSUME NEW d \in diskDir', d.dst # NoInode
               PROVE  /\ d.dst # d.tmp /\ d.dst # dir'.tmp
                      /\ data'[d.dst] \in Images /\ diskData'[d.dst] = {data'[d.dst]}
    BY <1>5 DEF Published
  <2>1. CASE d \in diskDir
    BY <1>5, <1>6, <1>9, <2>1 DEF Published
  <2>2. CASE d = dir'
    BY <1>6, <1>9, <2>2 DEF Published
  <2> QED
    BY <1>5, <2>1, <2>2
<1>11. Written'
  <2> SUFFICES ASSUME NEW v \in Writers, pc'[v] \in {"write", "rename"}
               PROVE  /\ v = w
                      /\ pos'[v] <= Chunks[v]
                      /\ data'[dir'.tmp] = [j \in 1 .. pos'[v] |-> v]
    BY <1>1 DEF Written, TypeOK
  <2>1. v = w
    BY <1>1, <1>2 DEF TypeOK
  <2>2. pos'[w] = 0 /\ Chunks[w] \in Nat
    BY <1>1, WritersAssumption
  <2>3. data'[dir'.tmp] = <<>>
    BY <1>5, <1>6 DEF TypeOK
  <2>4. <<>> = [j \in 1 .. 0 |-> w]
    OBVIOUS
  <2> QED
    BY <2>1, <2>2, <2>3, <2>4
<1>12. Original' /\ Acked'
  <2>1. \A d \in diskDir' : \E e \in diskDir : e.dst = d.dst
    BY <1>5, <1>6 DEF Published
  <2>2. \A v \in Writers : pc'[v] # "syncDir" /\ (pc'[v] = "Ok" => pc[v] = "Ok")
    BY <1>1, <1>2 DEF TypeOK
  <2> QED
    BY <1>1, <1>9, <2>1, <2>2, NothingPublished
<1> QED
  BY <1>7, <1>8, <1>10, <1>11, <1>12

\* A write of chunk m behind m - 1 chunks appends it.
LEMMA OverwriteAppends ==
  ASSUME NEW w, NEW m \in Nat
  PROVE  Overwrite([j \in 1 .. m |-> w], m + 1, w) = [j \in 1 .. m + 1 |-> w]
<1>1. Len([j \in 1 .. m |-> w]) = m
  OBVIOUS
<1> QED
  BY <1>1 DEF Overwrite

\* The invocation that runs writes the next chunk.
LEMMA WriteChunkIInv ==
  ASSUME IInv, NEW w \in Writers, WriteChunk(w)
  PROVE  IInv'
<1> USE DEF IInv
<1>1. /\ pc[w] = "write" /\ pos[w] < Chunks[w]
      /\ UNCHANGED <<dir, diskDir, pc, fd, first, renames>>
      /\ pos' = [pos EXCEPT ![w] = pos[w] + 1]
  BY DEF WriteChunk
<1>2. pos[w] \in Nat /\ pos'[w] = pos[w] + 1 /\ Chunks[w] \in Nat
  BY <1>1, WritersAssumption DEF TypeOK
<1>3. fd[w] = dir.tmp /\ dir.tmp # NoInode /\ dir.tmp \in Inodes
  BY <1>1, DirParts DEF Sequential, TypeOK
<1> DEFINE c == [j \in 1 .. pos[w] + 1 |-> w]
<1>4. /\ data' = [data EXCEPT ![dir.tmp] = c]
      /\ diskData' = [diskData EXCEPT ![dir.tmp] = @ \cup {c}]
  <2>1. Overwrite(data[fd[w]], pos[w] + 1, w) = c
    <3>1. data[fd[w]] = [j \in 1 .. pos[w] |-> w]
      BY <1>1, <1>3 DEF Written
    <3>2. Overwrite([j \in 1 .. pos[w] |-> w], pos[w] + 1, w) = c
      BY <1>2, OverwriteAppends
    <3> QED
      BY <3>1, <3>2
  <2> QED
    BY <1>3, <2>1 DEF WriteChunk
<1>5. c \in Contents
  BY <1>2 DEF Contents
<1> HIDE DEF c
<1>6. TypeOK'
  <2>1. data' \in [Inodes -> Contents]
    BY <1>4, <1>5 DEF TypeOK
  <2>2. diskData[dir.tmp] \cup {c} \in SUBSET Contents
    BY <1>3, <1>5 DEF TypeOK
  <2>3. diskData' \in [Inodes -> SUBSET Contents]
    BY <1>4, <2>2 DEF TypeOK
  <2>4. pos' \in [Writers -> Nat]
    BY <1>1, <1>2 DEF TypeOK
  <2> QED
    BY <1>1, <2>1, <2>3, <2>4 DEF TypeOK
<1>7. Sequential'
  BY <1>1 DEF Sequential, Running, TypeOK
<1>8. \A n \in Inodes : n # dir.tmp => data'[n] = data[n] /\ diskData'[n] = diskData[n]
  BY <1>4 DEF TypeOK
<1>9. /\ Published'
      /\ \A d \in diskDir : d.dst # NoInode => data'[d.dst] = data[d.dst]
  BY <1>1, <1>8, OnlyTmpChanges
<1>10. Written'
  <2> SUFFICES ASSUME NEW v \in Writers, pc'[v] \in {"write", "rename"}
               PROVE  /\ v = w
                      /\ pos'[v] <= Chunks[v]
                      /\ data'[dir'.tmp] = [j \in 1 .. pos'[v] |-> v]
    BY <1>1 DEF Written, TypeOK
  <2>1. v = w
    BY <1>1 DEF Sequential, Running
  <2>2. data'[dir'.tmp] = c
    BY <1>1, <1>3, <1>4 DEF TypeOK
  <2> QED
    BY <1>1, <1>2, <2>1, <2>2 DEF c
<1>11. Original' /\ Acked'
  BY <1>1, <1>9, NothingPublished
<1> QED
  BY <1>6, <1>7, <1>9, <1>10, <1>11

\* All chunks are written: the file is synced.
LEMMA SyncTmpIInv ==
  ASSUME IInv, NEW w \in Writers, SyncTmp(w)
  PROVE  IInv'
<1> USE DEF IInv
<1>1. /\ pc[w] = "write" /\ pos[w] = Chunks[w]
      /\ UNCHANGED <<dir, data, diskDir, pos, first, renames>>
      /\ diskData' = [diskData EXCEPT ![fd[w]] = {data[fd[w]]}]
      /\ fd' = [fd EXCEPT ![w] = NoInode]
      /\ pc' = [pc EXCEPT ![w] = "rename"]
  BY DEF SyncTmp
<1>2. fd[w] = dir.tmp /\ dir.tmp # NoInode /\ dir.tmp \in Inodes
  BY <1>1, DirParts DEF Sequential, TypeOK
<1>3. data[dir.tmp] = Image(w) /\ data[dir.tmp] \in Contents
  BY <1>1, <1>2 DEF Written, Image, TypeOK
<1>4. TypeOK'
  <2>1. diskData' \in [Inodes -> SUBSET Contents]
    BY <1>1, <1>2, <1>3 DEF TypeOK
  <2>2. fd' \in [Writers -> Inodes \cup {NoInode}]
    BY <1>1 DEF TypeOK
  <2> QED
    BY <1>1, <2>1, <2>2 DEF TypeOK
<1>5. Sequential'
  BY <1>1, <1>2 DEF Sequential, Running, TypeOK
<1>6. \A n \in Inodes : n # dir.tmp => diskData'[n] = diskData[n]
  BY <1>1, <1>2 DEF TypeOK
<1>7. Published'
  BY <1>1, <1>6, OnlyTmpChanges
<1>8. Written'
  <2> SUFFICES ASSUME NEW v \in Writers, pc'[v] \in {"write", "rename"}
               PROVE  /\ v = w /\ pc'[v] = "rename"
                      /\ data'[dir'.tmp] = Image(v)
                      /\ diskData'[dir'.tmp] = {Image(v)}
    BY DEF Written
  <2>1. v = w /\ pc'[w] = "rename"
    BY <1>1 DEF Sequential, Running, TypeOK
  <2>2. diskData'[dir.tmp] = {data[dir.tmp]}
    BY <1>1, <1>2 DEF TypeOK
  <2> QED
    BY <1>1, <1>3, <2>1, <2>2
<1>9. Original' /\ Acked'
  <2>1. \A v \in Writers : pc'[v] \in {"syncDir", "Ok"} => pc'[v] = pc[v]
    BY <1>1 DEF TypeOK
  <2> QED
    BY <1>1, <2>1, NothingPublished
<1> QED
  BY <1>4, <1>5, <1>7, <1>8, <1>9

\* The synced file becomes the output.
LEMMA RenameTmpIInv ==
  ASSUME IInv, NEW w \in Writers, RenameTmp(w)
  PROVE  IInv'
<1> USE DEF IInv
<1>1. /\ pc[w] = "rename" /\ dir.tmp # NoInode
      /\ UNCHANGED <<data, diskData, fd, pos, first>>
      /\ dir' = [dst |-> dir.tmp, tmp |-> NoInode]
      /\ diskDir' = diskDir \cup {dir'}
      /\ renames' = Append(renames, w)
      /\ pc' = [pc EXCEPT ![w] = "syncDir"]
  BY DEF RenameTmp
<1>2. dir' \in Dirs /\ dir'.dst = dir.tmp /\ dir'.tmp = NoInode /\ dir.tmp \in Inodes
  BY <1>1, DirParts DEF TypeOK, Dirs
<1>3. data[dir.tmp] = Image(w) /\ diskData[dir.tmp] = {Image(w)} /\ Image(w) \in Images
  BY <1>1 DEF Written, Images
<1>4. /\ renames' \in Seq(Writers) /\ Len(renames') = Len(renames) + 1
      /\ \A a \in DOMAIN renames : a \in DOMAIN renames' /\ renames'[a] = renames[a]
      /\ Len(renames') \in DOMAIN renames' /\ renames'[Len(renames')] = w
      /\ \A a \in DOMAIN renames : a <= Len(renames')
  BY <1>1 DEF TypeOK
<1>5. TypeOK'
  BY <1>1, <1>2, <1>4 DEF TypeOK
<1>6. \A v \in Writers : pc'[v] \notin {"write", "rename"} /\ fd[v] = NoInode
  BY <1>1 DEF Sequential, Running, TypeOK
<1>7. Sequential'
  BY <1>1, <1>6 DEF Sequential, Running, TypeOK
<1>8. Published'
  <2> SUFFICES ASSUME NEW d \in diskDir', d.dst # NoInode
               PROVE  /\ d.dst # d.tmp /\ d.dst # dir'.tmp
                      /\ data'[d.dst] \in Images /\ diskData'[d.dst] = {data'[d.dst]}
    BY <1>1 DEF Published
  <2>1. CASE d \in diskDir
    BY <1>1, <1>2, <2>1 DEF Published
  <2>2. CASE d = dir'
    BY <1>1, <1>2, <1>3, <2>2
  <2> QED
    BY <1>1, <2>1, <2>2
<1>9. Written'
  BY <1>6 DEF Written
<1>10. Original'
  <2>1. renames' # <<>>
    BY <1>4 DEF TypeOK
  <2>2. first'.dst # NoInode => \A d \in diskDir' : d.dst # NoInode
    BY <1>1, <1>2 DEF Original
  <2> QED
    BY <2>1, <2>2 DEF Original
<1>11. Acked'
  <2>1. Holds(dir, w)'
    BY <1>1, <1>2, <1>3, <1>4 DEF Holds
  <2>2. ASSUME NEW v \in Writers, pc'[v] = "syncDir"
        PROVE  v = w
    BY <1>1, <2>2 DEF Sequential, Running, TypeOK
  <2>3. ASSUME NEW v \in Writers, pc'[v] = "Ok", NEW d \in diskDir'
        PROVE  Holds(d, v)'
    <3>1. pc[v] = "Ok"
      BY <1>1, <2>3 DEF TypeOK
    <3>2. CASE d \in diskDir
      <4>1. Holds(d, v)
        BY <3>1, <3>2 DEF Acked
      <4> QED
        BY <1>1, <1>4, <4>1 DEF Holds
    <3>3. CASE d = dir'
      <4>1. PICK a \in DOMAIN renames : renames[a] = v
        BY <3>1 DEF Acked, Published, Holds
      <4>2. dir'.dst # NoInode /\ data'[dir'.dst] = Image(renames'[Len(renames')])
        BY <1>1, <1>2, <1>3, <1>4
      <4> QED
        BY <1>4, <3>3, <4>1, <4>2 DEF Holds
    <3> QED
      BY <1>1, <2>3, <3>2, <3>3
  <2> QED
    BY <2>1, <2>2, <2>3 DEF Acked
<1> QED
  BY <1>5, <1>7, <1>8, <1>9, <1>10, <1>11

\* The directory is synced, and the invocation returns success.
LEMMA SyncParentDirIInv ==
  ASSUME IInv, NEW w \in Writers, SyncParentDir(w)
  PROVE  IInv'
<1> USE DEF IInv
<1>1. /\ pc[w] = "syncDir" /\ diskDir' = {dir}
      /\ UNCHANGED <<dir, data, diskData, fd, pos, first, renames>>
      /\ pc' = [pc EXCEPT ![w] = "Ok"]
  BY DEF SyncParentDir
<1>2. TypeOK'
  BY <1>1 DEF TypeOK
<1>3. \A v \in Writers : pc'[v] \in {"write", "rename", "syncDir", "idle"} => pc'[v] = pc[v]
  BY <1>1 DEF TypeOK
<1>4. Sequential'
  BY <1>1, <1>3 DEF Sequential, Running, TypeOK
<1>5. Published'
  BY <1>1 DEF Published
<1>6. Written'
  BY <1>1, <1>3 DEF Written
<1>7. Original'
  BY <1>1 DEF Original, Published
<1>8. Acked'
  <2> SUFFICES ASSUME NEW v \in Writers, pc'[v] \in {"syncDir", "Ok"}
               PROVE  Holds(dir, v)'
    BY <1>1 DEF Acked
  <2>1. Holds(dir, v)
    BY <1>1 DEF Acked, Published, TypeOK
  <2> QED
    BY <1>1, <2>1 DEF Holds
<1> QED
  BY <1>2, <1>4, <1>5, <1>6, <1>7, <1>8

\* An invocation fails or is killed.
LEMMA AbortIInv ==
  ASSUME IInv, NEW w \in Writers, Abort(w)
  PROVE  IInv'
<1> USE DEF IInv
<1>1. /\ pc' = [pc EXCEPT ![w] = "Err"]
      /\ fd' = [fd EXCEPT ![w] = NoInode]
      /\ UNCHANGED <<dir, data, diskDir, diskData, pos, first, renames>>
  BY DEF Abort, fsVars
<1>2. TypeOK'
  BY <1>1 DEF TypeOK
<1>3. \A v \in Writers : pc'[v] # "Err" => pc'[v] = pc[v] /\ fd'[v] = fd[v]
  BY <1>1 DEF TypeOK
<1>4. Sequential'
  BY <1>1, <1>3 DEF Sequential, Running, TypeOK
<1>5. Published'
  BY <1>1 DEF Published
<1>6. Written'
  BY <1>1, <1>3 DEF Written
<1>7. Original' /\ Acked'
  BY <1>1, <1>3, NothingPublished
<1> QED
  BY <1>2, <1>4, <1>5, <1>6, <1>7

\* The power fails.
LEMMA PowerLossIInv == ASSUME IInv, PowerLoss PROVE IInv'
<1> USE DEF IInv
<1>1. /\ dir' \in diskDir /\ diskDir' = {dir'}
      /\ data' \in [Inodes -> UNION {diskData[n] : n \in Inodes}]
      /\ \A n \in Inodes : data'[n] \in diskData[n]
      /\ diskData' = [n \in Inodes |-> {data'[n]}]
      /\ pc' = [w \in Writers |-> IF w \in Running THEN "Err" ELSE pc[w]]
      /\ fd' = [w \in Writers |-> NoInode]
      /\ UNCHANGED <<pos, first, renames>>
  BY DEF PowerLoss
<1>2. \A w \in Writers : /\ pc'[w] \notin {"write", "rename", "syncDir"}
                         /\ pc'[w] # "Err" => pc'[w] = pc[w]
  BY <1>1 DEF Running, TypeOK
<1>3. TypeOK'
  <2>1. data' \in [Inodes -> Contents]
    BY <1>1 DEF TypeOK
  <2>2. diskData' \in [Inodes -> SUBSET Contents]
    BY <1>1, <2>1
  <2>3. pc' \in [Writers -> {"idle", "write", "rename", "syncDir", "Ok", "Err"}]
    BY <1>1 DEF TypeOK
  <2>4. dir' \in Dirs /\ diskDir' \subseteq Dirs
    BY <1>1 DEF TypeOK
  <2> QED
    BY <1>1, <2>1, <2>2, <2>3, <2>4 DEF TypeOK
<1>4. Sequential'
  BY <1>1, <1>2 DEF Sequential, Running
<1>5. \A d \in diskDir : d.dst # NoInode => d.dst \in Inodes /\ data'[d.dst] = data[d.dst]
  <2> SUFFICES ASSUME NEW d \in diskDir, d.dst # NoInode
               PROVE  d.dst \in Inodes /\ data'[d.dst] = data[d.dst]
    OBVIOUS
  <2>1. d.dst \in Inodes
    BY DirParts DEF TypeOK
  <2>2. diskData[d.dst] = {data[d.dst]}
    BY DEF Published
  <2> QED
    BY <1>1, <2>1, <2>2
<1>6. Published'
  BY <1>1, <1>5 DEF Published
<1>7. Written'
  BY <1>2 DEF Written
<1>8. Original' /\ Acked'
  BY <1>1, <1>2, <1>5, NothingPublished
<1> QED
  BY <1>3, <1>4, <1>6, <1>7, <1>8

\* Every step.
LEMMA NextIInv == ~Concurrent /\ IInv /\ [Next]_vars => IInv'
<1> SUFFICES ASSUME ~Concurrent, IInv, [Next]_vars PROVE IInv'
  OBVIOUS
<1>1. ASSUME NEW w \in Writers,
             OpenTmp(w) \/ WriteChunk(w) \/ SyncTmp(w)
               \/ RenameTmp(w) \/ SyncParentDir(w) \/ Abort(w)
      PROVE  IInv'
  BY <1>1, OpenTmpIInv, WriteChunkIInv, SyncTmpIInv, RenameTmpIInv, SyncParentDirIInv, AbortIInv
<1>2. CASE UNCHANGED vars
  <2>1. UNCHANGED <<dir, data, diskDir, diskData, pc, fd, pos, first, renames>>
    BY <1>2 DEF vars
  <2>2. TypeOK' /\ Published' /\ Written'
    BY <2>1 DEF IInv, TypeOK, Published, Written
  <2>3. Sequential'
    BY <2>1 DEF IInv, Sequential, Running
  <2>4. Original' /\ Acked'
    BY <2>1 DEF IInv, Original, Acked, Holds
  <2> QED
    BY <2>2, <2>3, <2>4 DEF IInv
<1> QED
  BY <1>1, <1>2, PowerLossIInv DEF Next

\* Of sequential invocations the invariant always holds.
LEMMA InductiveInvariant == ~Concurrent => (Spec => []IInv)
<1> SUFFICES ASSUME ~Concurrent PROVE Spec => []IInv
  OBVIOUS
<1>1. IInv /\ [Next]_vars => IInv'
  BY NextIInv
<1> QED
  BY <1>1, InitIInv, PTL DEF Spec

-----------------------------------------------------------------------------
\* Whoever opens the output finds a complete index (write_atomic's promise), after
\* any failures and power losses of any number of sequential invocations.
THEOREM OutputAlwaysWhole == ~Concurrent => (Spec => []DstWhole)
<1>1. IInv => DstWhole
  BY DEF IInv, Published, DstWhole
<1> QED
  BY <1>1, InductiveInvariant, PTL

\* An index whose invocation returned success is not lost by a power failure
\* (sync_parent_dir): the output holds it or a later one.
THEOREM AckedAlwaysSurvives == ~Concurrent => (Spec => []AckedSurvives)
<1>1. IInv => AckedSurvives
  BY DEF IInv, Published, Acked, Holds, AckedSurvives
<1> QED
  BY <1>1, InductiveInvariant, PTL

\* The original output stays until an invocation renames, and an output that was
\* there never disappears (rename over it instead of removing it).
THEOREM OriginalUntilRename == ~Concurrent => (Spec => []OldUntilRename)
<1>1. IInv => OldUntilRename
  BY DEF IInv, Published, Original, OldUntilRename
<1> QED
  BY <1>1, InductiveInvariant, PTL

\* No step changes the bytes of a published index in place, so that the server may
\* keep it mapped: every write goes to the .tmp sibling.
THEOREM PublishedNeverChanges == ~Concurrent => (Spec => PublishedUnchanged)
<1> DEFINE Kept == dir.dst # NoInode /\ dir'.dst = dir.dst => data'[dir.dst] = data[dir.dst]
<1>1. ASSUME IInv, IInv', [Next]_vars PROVE [Kept]_vars
  <2> SUFFICES ASSUME Next, dir.dst # NoInode, dir'.dst = dir.dst
               PROVE  data'[dir.dst] = data[dir.dst]
    BY <1>1
  <2>1. dir.dst \in Inodes /\ dir.dst # dir.tmp /\ diskData[dir.dst] = {data[dir.dst]}
    BY <1>1, DirParts DEF IInv, TypeOK, Published
  <2>2. dir.dst # dir'.tmp
    BY <1>1 DEF IInv, Published
  <2>3. ASSUME NEW w \in Writers, OpenTmp(w) PROVE data'[dir.dst] = data[dir.dst]
    <3>1. CASE dir.tmp = NoInode
      <4>1. PICK n \in Inodes : dir' = [dir EXCEPT !.tmp = n] /\ data' = [data EXCEPT ![n] = <<>>]
        BY <2>3, <3>1 DEF OpenTmp
      <4>2. dir'.tmp = n
        BY <1>1, <4>1 DEF IInv, TypeOK, Dirs
      <4> QED
        BY <1>1, <2>1, <2>2, <4>1, <4>2 DEF IInv, TypeOK
    <3>2. CASE dir.tmp # NoInode
      BY <1>1, <2>1, <2>3, <3>2 DEF OpenTmp, IInv, TypeOK
    <3> QED
      BY <3>1, <3>2
  <2>4. ASSUME NEW w \in Writers, WriteChunk(w) PROVE data'[dir.dst] = data[dir.dst]
    <3>1. fd[w] = dir.tmp
      BY <1>1, <2>4 DEF WriteChunk, IInv, Sequential
    <3> QED
      BY <1>1, <2>1, <2>4, <3>1 DEF WriteChunk, IInv, TypeOK
  <2>5. ASSUME NEW w \in Writers, SyncTmp(w) \/ RenameTmp(w) \/ SyncParentDir(w) \/ Abort(w)
        PROVE  data'[dir.dst] = data[dir.dst]
    BY <2>5 DEF SyncTmp, RenameTmp, SyncParentDir, Abort, fsVars
  <2>6. CASE PowerLoss
    BY <2>1, <2>6 DEF PowerLoss
  <2> QED
    BY <2>3, <2>4, <2>5, <2>6 DEF Next
<1> QED
  BY <1>1, InductiveInvariant, PTL DEF Spec, PublishedUnchanged

=============================================================================
