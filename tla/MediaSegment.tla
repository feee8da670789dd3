---------------------------- MODULE MediaSegment ----------------------------
(***************************************************************************)
(* The media segment writer (crates/packager/src/fmp4/media.rs), with the  *)
(* positional reads of its source (read_at.rs) and the two sinks it writes *)
(* to: the server's buffer and the index builder's CountingSink.           *)
(*                                                                         *)
(* A byte of the source is the number 1 + its offset there, so that a copy *)
(* tells where it comes from.                                              *)
(***************************************************************************)
EXTENDS BoxTree

CONSTANTS U32Max,  \* u32::MAX
          I32Max,  \* i32::MAX
          CopyBuf  \* COPY_BUF_SIZE

ASSUME MediaAssumption == CopyBuf \in Nat \ {0} /\ I32Max \in Nat /\ U32Max \in Nat

VARIABLES
  index,  \* the samples of both tracks and the segments, as IndexView has them
  job,    \* the segment being written and how far it is
  sink    \* where it is written to

Idle == [pc |-> "idle"]

\* A sink has a position, the bytes written, and whether it only counts them.
Fresh(counting) == [pos |-> 0, counting |-> counting, bytes |-> Empty]

Larger(m, n) == IF n > m THEN n ELSE m

\* Write at the position: what lies behind the end extends the length.
Put(s, b) ==
  LET len == Larger(s.bytes.len, s.pos + b.len)
  IN  [s EXCEPT !.pos = @ + b.len,
         !.bytes = IF s.counting THEN Zeros(len)
                   ELSE [len |-> len,
                         num |-> @.num @@ Moved(b.num, s.pos),
                         code |-> @.code @@ Moved(b.code, s.pos)]]

\* Seek to each offset of values, write the number (of four bytes) there, seek back.
Patch(s, values) ==
  [s EXCEPT !.bytes = [len |-> CHOOSE m \in {@.len} \cup {o + 4 : o \in DOMAIN values} :
                                 m >= @.len /\ \A o \in DOMAIN values : m >= o + 4,
                       num |-> IF s.counting THEN <<>> ELSE values @@ @.num,
                       code |-> @.code]]

\* read_at_bytes: how many of the wanted bytes there are at an offset.
ReadAt(offset, want) ==
  IF offset >= index.sourceLen THEN 0
  ELSE IF want < index.sourceLen - offset THEN want ELSE index.sourceLen - offset

SourceBytes(offset, m) == [len |-> m, num |-> [o \in 0 .. m - 1 |-> offset + o + 1], code |-> <<>>]

-----------------------------------------------------------------------------
(***************************************************************************)
(* The boxes of a segment.                                                 *)
(***************************************************************************)
SumSizes(samples) == FoldLeft(+, 0, [i \in DOMAIN samples |-> samples[i].size])

\* slice_segment_samples.
VideoInTable(g) == g.videoStart + g.videoCount <= Len(index.video)
AudioInTable(g) == g.audioStart + g.audioCount <= Len(index.audio)
VideoSamples(g) == SubSeq(index.video, g.videoStart + 1, g.videoStart + g.videoCount)
AudioSamples(g) == SubSeq(index.audio, g.audioStart + 1, g.audioStart + g.audioCount)

\* Scans the whole track, not the segment.
VideoHasCtts == \E i \in DOMAIN index.video : index.video[i].cts # 0

Styp == BoxWriter("styp", <<FourCC("msdh"), Number(4, 0), FourCC("msdh"), FourCC("cmfc")>>)

Mfhd(idx) ==
  BoxWriter("mfhd", <<FullBoxHeader(0, 0), Number(4, IF idx < U32Max THEN idx + 1 ELSE U32Max)>>)

Tfhd(id) == BoxWriter("tfhd", <<FullBoxHeader(0, 131072), Number(4, id)>>)
Tfdt(base) == BoxWriter("tfdt", <<FullBoxHeader(1, 0), Number(8, base)>>)

\* A row of trun: the duration, the size and, with ctts, the composition offset.
TrunRow(x, ctts) ==
  [len |-> IF ctts THEN 12 ELSE 8, code |-> <<>>,
   num |-> (0 :> x.delta) @@ (4 :> x.size) @@ IF ctts THEN 8 :> x.cts ELSE <<>>]

\* The flags of trun: data offset 1, first sample flags 4, duration and size 768,
\* composition offset 2048.  The data offset is patched when mdat is written.
VideoTrun(samples, ctts) ==
  BoxWriter("trun",
    <<IF ctts THEN FullBoxHeader(1, 773 + 2048) ELSE FullBoxHeader(0, 773),
      Number(4, Len(samples)), Number(4, 0), Number(4, 33554432)>>
    \o [i \in DOMAIN samples |-> TrunRow(samples[i], ctts)])

AudioTrun(samples) ==
  BoxWriter("trun",
    <<FullBoxHeader(0, 769), Number(4, Len(samples)), Number(4, 0)>>
    \o [i \in DOMAIN samples |-> TrunRow(samples[i], FALSE)])

Traf(id, base, trun) == BoxWriter("traf", <<Tfhd(id), Tfdt(base), trun>>)

VideoTraf(g) == Traf(1, g.videoBase, VideoTrun(VideoSamples(g), VideoHasCtts))
AudioTraf(g) == Traf(2, g.audioBase, AudioTrun(AudioSamples(g)))

Moof(idx, g) == BoxWriter("moof", <<Mfhd(idx), VideoTraf(g), AudioTraf(g)>>)

\* Where the data offsets are in moof: behind tfhd, tfdt, and eight bytes of trun.
InTraf == 8 + Tfhd(0).len + Tfdt(0).len + 8 + 8
VideoOffsetPos == 8 + Mfhd(0).len + InTraf
AudioOffsetPos(g) == VideoOffsetPos + VideoTraf(g).len

-----------------------------------------------------------------------------
StopWrite(pc) == job' = [job EXCEPT !.pc = pc] /\ UNCHANGED sink

\* write_media_segment up to the header of mdat.
StartWrite(idx, counting) ==
  LET g == index.segments[idx + 1]
      payload == SumSizes(VideoSamples(g)) + SumSizes(AudioSamples(g))
      styp == Styp.len
      moof == Moof(idx, g).len
  IN  IF \/ idx >= Len(index.segments)
         \/ ~VideoInTable(g) \/ ~AudioInTable(g)
         \/ g.videoCount = 0 \/ g.audioCount = 0
         \/ moof > U32Max
         \/ payload + 8 > U32Max
        THEN job' = [pc |-> "Err"] /\ UNCHANGED sink
        ELSE /\ job' = [pc |-> "stream", idx |-> idx,
                        todo |-> VideoSamples(g) \o AudioSamples(g), copied |-> 0,
                        moofStart |-> styp, mdatStart |-> styp + moof,
                        videoOffset |-> styp + VideoOffsetPos,
                        audioOffset |-> styp + AudioOffsetPos(g)]
             /\ sink' = Put(Fresh(counting),
                            Flatten(<<Styp, Moof(idx, g), Number(4, 0), FourCC("mdat")>>))

\* Faulty variant for RefusedOnlyByBuilder: reads before it looks whether anything is left.
OutOfSourceEager(left, n) == n = 0

\* Bytes are left, and the source has no more.
OutOfSource(left, n) == left # 0 /\ n = 0

\* stream_sample: one read and write, or the next sample.
StreamChunk ==
  /\ job.pc = "stream"
  /\ job.todo # <<>>
  /\ LET s == Head(job.todo)
         left == s.size - job.copied
         n == ReadAt(s.offset + job.copied, IF left < CopyBuf THEN left ELSE CopyBuf)
     IN  IF OutOfSource(left, n) THEN StopWrite("Err")
         ELSE IF left = 0
           THEN job' = [job EXCEPT !.todo = Tail(@), !.copied = 0] /\ UNCHANGED sink
           ELSE /\ job' = [job EXCEPT !.copied = @ + n]
                /\ sink' = Put(sink, SourceBytes(s.offset + job.copied, n))
  /\ UNCHANGED index

\* Faulty variant for PlaybackExact: an offset in the segment, not from moof.
ComputeDataOffsetAbsolute(payloadStart, moofStart, trailing) == payloadStart + trailing

\* compute_data_offset: tfhd says that the base is moof.
ComputeDataOffset(payloadStart, moofStart, trailing) == payloadStart - moofStart + trailing

\* mdat.finish_expecting, then the data offsets relative to moof.
FinishWrite ==
  /\ job.pc = "stream"
  /\ job.todo = <<>>
  /\ LET g == index.segments[job.idx + 1]
         video == SumSizes(VideoSamples(g))
         total == sink.pos - job.mdatStart
         first == ComputeDataOffset(job.mdatStart + 8, job.moofStart, 0)
         second == ComputeDataOffset(job.mdatStart + 8, job.moofStart, video)
     IN  IF total # video + SumSizes(AudioSamples(g)) + 8 THEN StopWrite("panic")
         ELSE IF first > I32Max \/ second > I32Max THEN StopWrite("Err")
         ELSE /\ job' = [job EXCEPT !.pc = "Ok"]
              /\ sink' = Patch(sink, [o \in {job.mdatStart, job.videoOffset, job.audioOffset} |->
                                       IF o = job.mdatStart THEN total
                                       ELSE IF o = job.videoOffset THEN first ELSE second])
  /\ UNCHANGED index

Write == StreamChunk \/ FinishWrite
=============================================================================
