---------------------------- MODULE SampleTable -----------------------------
(***************************************************************************)
(* The sample-table walk (crates/packager/src/demux/sample_table.rs): the  *)
(* tables stsz, stts, stsc, stco / co64, stss and ctts of a track become   *)
(* one row per sample.                                                     *)
(*                                                                         *)
(* A table is a full box as the file holds it: its version, the number of  *)
(* entries it declares and the entries its body has room for.  Entries are *)
(* numbers or tuples of them; a u32 counts modulo U32, a u64 ends at       *)
(* U64Max.  A stsz box also has the size that all samples share, or 0.     *)
(***************************************************************************)
EXTENDS Integers, Sequences

CONSTANTS Tables,   \* the sample tables a track may have
          Absent,   \* an optional table that is not there
          U32,      \* 2^32
          U64Max    \* u64::MAX

ASSUME WidthAssumption == U32 \in Nat \ {0} /\ U64Max \in Nat

\* All numbers are unsigned; parse_stbl refuses a track without one of the tables
\* that are required.
ASSUME TablesAssumption ==
  \A x \in Tables :
    /\ x.stsz.size \in Nat /\ x.stsz.count \in Nat /\ x.stsz.body \in Seq(Nat)
    /\ x.stts # Absent /\ x.stts.body \in Seq(Nat \X Nat)
    /\ x.stsc.body \in Seq(Nat \X Nat \X Nat)
    /\ x.stco.body \in Seq(Nat)
    /\ x.stss # Absent => x.stss.body \in Seq(Nat)
    /\ x.ctts # Absent => x.ctts.body \in Seq(Nat \X (0 .. U32 - 1))

VARIABLES
  t,        \* the tables of the track
  pc,       \* where walk is
  sizes,    \* what read_stsz returns
  out,      \* what expand_run_table made of stts and of ctts so far
  sync,     \* the samples marked as sync
  perChunk, \* samples_per_chunk
  k,        \* entries (or chunks) done
  j,        \* samples of the current chunk done
  off,      \* the offset of the next sample in the current chunk
  samples   \* the rows

vars == <<t, pc, sizes, out, sync, perChunk, k, j, off, samples>>

n == Len(sizes)

Copies(m, v) == [i \in 1 .. m |-> v]

\* read_full_box_table: a version that is allowed, and a body of the length
\* that entry_count asks for.
Framed(box, versions) == box.version \in versions /\ Len(box.body) = box.count

\* read_stsz: one size for all samples and no entries, or one entry for each.
StszOK(box) ==
  /\ box.version = 0
  /\ Len(box.body) = IF box.size # 0 THEN 0 ELSE box.count

StszSizes(box) == IF box.size # 0 THEN Copies(box.count, box.size) ELSE box.body

\* The value of a run: a delta, or an offset that is an i32 in version 1.
RunValue(atom, run) ==
  IF atom = "ctts" /\ t.ctts.version = 1 /\ run[2] >= U32 \div 2
    THEN run[2] - U32 ELSE run[2]

\* read_ctts: an unsigned offset has to fit into an i32.
CttsOK(box) ==
  /\ Framed(box, {0, 1})
  /\ box.version = 0 => \A i \in DOMAIN box.body : box.body[i][2] < U32 \div 2

\* read_stsc: sample_description_index, the third number, has to be 1.
StscOK(box) == Framed(box, {0}) /\ \A i \in DOMAIN box.body : box.body[i][3] = 1

Readable ==
  /\ StszOK(t.stsz) /\ Framed(t.stts, {0}) /\ StscOK(t.stsc) /\ Framed(t.stco, {0})
  /\ t.stss # Absent => Framed(t.stss, {0})
  /\ t.ctts # Absent => CttsOK(t.ctts)

-----------------------------------------------------------------------------
Init ==
  /\ t \in Tables
  /\ pc = "read"
  /\ sizes = <<>>
  /\ out = [stts |-> <<>>, ctts |-> <<>>]
  /\ sync = {}
  /\ perChunk = <<>>
  /\ k = 0 /\ j = 0 /\ off = 0
  /\ samples = <<>>

Fail ==
  /\ pc' = "Err"
  /\ UNCHANGED <<t, sizes, out, sync, perChunk, k, j, off, samples>>

\* walk loads all tables in full before it expands any.
ReadTables ==
  /\ pc = "read"
  /\ IF Readable
       THEN /\ sizes' = StszSizes(t.stsz)
            /\ pc' = "stts"
            /\ UNCHANGED <<t, out, sync, perChunk, k, j, off, samples>>
       ELSE Fail

\* One run of expand_run_table.
ExpandRun ==
  /\ pc \in {"stts", "ctts"}
  /\ t[pc] # Absent
  /\ k < Len(t[pc].body)
  /\ LET run == t[pc].body[k + 1]
     IN  IF Len(out[pc]) + run[1] > n
           THEN Fail
           ELSE /\ out' = [out EXCEPT ![pc] = @ \o Copies(run[1], RunValue(pc, run))]
                /\ k' = k + 1
                /\ UNCHANGED <<t, pc, sizes, sync, perChunk, j, off, samples>>

\* The end of expand_run_table, or the zeros that stand for a missing ctts.
FinishRuns ==
  /\ pc \in {"stts", "ctts"}
  /\ t[pc] # Absent => k = Len(t[pc].body)
  /\ IF t[pc] # Absent /\ Len(out[pc]) # n
       THEN Fail
       ELSE /\ out' = IF t[pc] = Absent THEN [out EXCEPT ![pc] = Copies(n, 0)] ELSE out
            /\ k' = 0
            /\ pc' = IF pc = "stts" THEN "ctts" ELSE "stss"
            /\ UNCHANGED <<t, sizes, sync, perChunk, j, off, samples>>

\* Without stss every sample is a sync sample.
MarkSync ==
  /\ pc = "stss"
  /\ IF t.stss # Absent /\ \E i \in DOMAIN t.stss.body : t.stss.body[i] \notin 1 .. n
       THEN Fail
       ELSE /\ sync' = IF t.stss = Absent THEN 1 .. n
                       ELSE {t.stss.body[i] : i \in DOMAIN t.stss.body}
            /\ perChunk' = Copies(Len(t.stco.body), 0)
            /\ pc' = "stsc"
            /\ UNCHANGED <<t, sizes, out, k, j, off, samples>>

\* expand_stsc before its loop, and after it.
StscEnds ==
  /\ pc = "stsc"
  /\ k = Len(t.stsc.body)
  /\ IF k = 0 /\ Len(perChunk) # 0
       THEN Fail
       ELSE /\ k' = 0
            /\ pc' = "chunk"
            /\ UNCHANGED <<t, sizes, out, sync, perChunk, j, off, samples>>

\* Faulty variant for AcceptsExactly: entries may start behind the last chunk.
StscEntryOKLoose(i) ==
  LET body == t.stsc.body
      next == IF i < Len(body) THEN body[i + 1][1] ELSE Len(perChunk) + 1
  IN  /\ body[1][1] = 1
      /\ body[i][1] # 0
      /\ i < Len(body) => next > body[i][1]

\* What expand_stsc asks of entry i.
StscEntryOK(i) ==
  LET body == t.stsc.body
      next == IF i < Len(body) THEN body[i + 1][1] ELSE Len(perChunk) + 1
  IN  /\ body[1][1] = 1
      /\ body[i][1] # 0
      /\ i < Len(body) => next > body[i][1]
      /\ body[i][1] <= Len(perChunk)
      /\ next - 1 <= Len(perChunk)

\* One entry of stsc fills the chunks up to the next one's first.
ExpandStsc ==
  /\ pc = "stsc"
  /\ k < Len(t.stsc.body)
  /\ IF ~StscEntryOK(k + 1)
       THEN Fail
       ELSE LET body == t.stsc.body
                next == IF k + 1 < Len(body) THEN body[k + 2][1] ELSE Len(perChunk) + 1
            IN  /\ perChunk' = [c \in DOMAIN perChunk |->
                     IF c \in body[k + 1][1] .. next - 1 THEN body[k + 1][2] ELSE perChunk[c]]
                /\ k' = k + 1
                /\ UNCHANGED <<t, pc, sizes, out, sync, j, off, samples>>

\* Faulty variant for RowsExact: chunks are taken to be contiguous.
StartChunkContiguous ==
  /\ pc = "chunk"
  /\ k < Len(perChunk)
  /\ off' = IF k = 0 THEN t.stco.body[1] ELSE off
  /\ j' = 0
  /\ pc' = "sample"
  /\ UNCHANGED <<t, sizes, out, sync, perChunk, k, samples>>

\* The samples of a chunk start at its offset.
StartChunk ==
  /\ pc = "chunk"
  /\ k < Len(perChunk)
  /\ off' = t.stco.body[k + 1]
  /\ j' = 0
  /\ pc' = "sample"
  /\ UNCHANGED <<t, sizes, out, sync, perChunk, k, samples>>

PushSample ==
  /\ pc = "sample"
  /\ j < perChunk[k + 1]
  /\ LET i == Len(samples) + 1
     IN  IF i > n THEN Fail
         ELSE IF off + sizes[i] > U64Max THEN Fail
         ELSE /\ samples' = Append(samples,
                   [offset |-> off, size |-> sizes[i], dtsDelta |-> out.stts[i],
                    ctsOffset |-> out.ctts[i], isSync |-> i \in sync])
              /\ off' = off + sizes[i]
              /\ j' = j + 1
              /\ UNCHANGED <<t, pc, sizes, out, sync, perChunk, k>>

EndChunk ==
  /\ pc = "sample"
  /\ j = perChunk[k + 1]
  /\ k' = k + 1
  /\ pc' = "chunk"
  /\ UNCHANGED <<t, sizes, out, sync, perChunk, j, off, samples>>

Return ==
  /\ pc = "chunk"
  /\ k = Len(perChunk)
  /\ IF Len(samples) # n
       THEN Fail
       ELSE pc' = "Ok" /\ UNCHANGED <<t, sizes, out, sync, perChunk, k, j, off, samples>>

Next ==
  \/ ReadTables
  \/ ExpandRun
  \/ FinishRuns
  \/ MarkSync
  \/ ExpandStsc
  \/ StscEnds
  \/ StartChunk
  \/ PushSample
  \/ EndChunk
  \/ Return

Spec == Init /\ [][Next]_vars

-----------------------------------------------------------------------------
(***************************************************************************)
(* What the tables mean, without expanding them.                           *)
(***************************************************************************)
\* f[1] + ... + f[m].
Total(f, m) == LET s[x \in 0 .. m] == IF x = 0 THEN 0 ELSE s[x - 1] + f[x] IN s[m]

Counts(body) == [r \in DOMAIN body |-> body[r][1]]

\* The entry of a table of counts that item i falls into.
EntryOf(c, i) == CHOOSE r \in DOMAIN c : Total(c, r - 1) < i /\ i <= Total(c, r)

\* Samples in chunk c: the last entry of stsc that starts at or before it.
SamplesIn(c) ==
  LET body == t.stsc.body
      e == CHOOSE e \in DOMAIN body :
             body[e][1] <= c /\ (e = Len(body) \/ c < body[e + 1][1])
  IN  body[e][2]

ChunkCounts == [c \in DOMAIN t.stco.body |-> SamplesIn(c)]

Samples == t.stsz.count
Sizes == [i \in 1 .. Samples |-> IF t.stsz.size # 0 THEN t.stsz.size ELSE t.stsz.body[i]]

\* A chunk's samples lie one after the other from its offset.
OffsetOf(i) ==
  LET c == EntryOf(ChunkCounts, i)
  IN  t.stco.body[c] + Total(Sizes, i - 1) - Total(Sizes, Total(ChunkCounts, c - 1))

Signed(raw) == IF raw < U32 \div 2 THEN raw ELSE raw - U32

RunsCover(box) == Total(Counts(box.body), Len(box.body)) = Samples

ChunksCovered ==
  LET body == t.stsc.body
  IN  /\ (body = <<>>) <=> (t.stco.body = <<>>)
      /\ body # <<>> => body[1][1] = 1 /\ body[Len(body)][1] <= Len(t.stco.body)
      /\ \A e \in 1 .. Len(body) - 1 : body[e][1] < body[e + 1][1]

\* The tables are well formed and agree with each other.
Consistent ==
  /\ Readable
  /\ RunsCover(t.stts)
  /\ t.ctts # Absent => RunsCover(t.ctts)
  /\ t.stss # Absent => \A i \in DOMAIN t.stss.body : t.stss.body[i] \in 1 .. Samples
  /\ ChunksCovered
  /\ Total(ChunkCounts, Len(t.stco.body)) = Samples
  /\ \A i \in 1 .. Samples : OffsetOf(i) + Sizes[i] <= U64Max

-----------------------------------------------------------------------------
\* Every row the walk emits is what the tables say of that sample: its place in
\* its chunk, its size, its run of stts and ctts, and its mark in stss.
RowsExact ==
  \A i \in DOMAIN samples :
    samples[i] =
      [offset |-> OffsetOf(i), size |-> Sizes[i],
       dtsDelta |-> t.stts.body[EntryOf(Counts(t.stts.body), i)][2],
       ctsOffset |->
         IF t.ctts = Absent THEN 0
         ELSE Signed(t.ctts.body[EntryOf(Counts(t.ctts.body), i)][2]),
       isSync |-> t.stss # Absent => \E m \in DOMAIN t.stss.body : t.stss.body[m] = i]

\* walk succeeds with one row per sample exactly if the tables are consistent:
\* no inconsistency slips through, and no consistent track is refused.
AcceptsExactly ==
  /\ pc = "Ok" => Consistent /\ Len(samples) = Samples
  /\ pc = "Err" => ~Consistent

=============================================================================
