------------------------------ MODULE Splitter ------------------------------
(***************************************************************************)
(* The segment splitter (crates/packager/src/segment/splitter.rs): one     *)
(* pass over the video samples that cuts the archive into segments, each   *)
(* starting at a sync sample and lasting at least the nominal duration,    *)
(* and assigns the audio samples to them.                                  *)
(*                                                                         *)
(* A track of n samples is given by the start times 0 .. n of its samples  *)
(* (in ticks of its timescale; entry n is the end of the last sample), of  *)
(* which dts_delta is the difference of two neighbours.  Samples are       *)
(* numbered from 0, as in the code; segments from 1.                       *)
(***************************************************************************)
EXTENDS Integers, Sequences

CONSTANTS Videos,      \* video tracks: records of start times and sync flags
          Audios,      \* audio tracks: start times
          Timescales,  \* pairs of a video_timescale and an audio_timescale
          Nominals,    \* values of nominal_secs, as fractions
          MaxTick      \* u64::MAX

\* The start times of the n samples of a track.
StartTimes(t, n) ==
  /\ n \in Nat
  /\ t \in [0 .. n -> Nat]
  /\ t[0] = 0
  /\ \A j \in 1 .. n : t[j - 1] <= t[j]

ASSUME TracksAssumption ==
  /\ \A v \in Videos :
       /\ StartTimes(v.dts, v.count)
       /\ v.sync \in [0 .. v.count - 1 -> BOOLEAN]
  /\ \A a \in Audios : StartTimes(a.dts, a.count)

ASSUME NumbersAssumption ==
  /\ Timescales \subseteq Nat \X Nat
  /\ Nominals \subseteq [num : Int, den : Nat \ {0}]
  /\ MaxTick \in Nat

VARIABLES
  video, audio, vTimescale, aTimescale, nominal,   \* the arguments of split
  pc,          \* "check", "walk", "advance", "push", "Ok" or "Err"
  i,           \* the video sample under the loop head
  v_start, v_base_dts, v_dts,
  a_start, a_base_dts, a_cursor, a_dts,
  segments

input == <<video, audio, vTimescale, aTimescale, nominal>>
active == <<v_start, v_base_dts, a_start, a_base_dts>>
vars == <<input, pc, i, active, v_dts, a_cursor, a_dts, segments>>

CeilDiv(n, d) == (n + d - 1) \div d

\* nominal_secs in video ticks, rounded up, at least 1.
NominalTicks ==
  LET t == CeilDiv(nominal.num * vTimescale, nominal.den)
  IN  IF t < 1 THEN 1 ELSE t

\* Faulty variant for AudioAligned: the boundary is rounded down.
ScaleDtsFloor(dts) == (dts * aTimescale) \div vTimescale

\* scale_dts_ceil: the first audio tick at or after a video time.
ScaleDtsCeil(dts) == CeilDiv(dts * aTimescale, vTimescale)

-----------------------------------------------------------------------------
Init ==
  /\ video \in Videos
  /\ audio \in Audios
  /\ \E t \in Timescales : vTimescale = t[1] /\ aTimescale = t[2]
  /\ nominal \in Nominals
  /\ pc = "check"
  /\ i = 0
  /\ v_start = 0 /\ v_base_dts = 0 /\ v_dts = 0
  /\ a_start = 0 /\ a_base_dts = 0 /\ a_cursor = 0 /\ a_dts = 0
  /\ segments = <<>>

\* What split refuses before it starts.
Acceptable ==
  /\ video.count > 0
  /\ audio.count > 0
  /\ video.sync[0]
  /\ vTimescale > 0
  /\ aTimescale > 0
  /\ nominal.num > 0

\* Faulty variant for StartsAtSync: the first sample is not looked at.
AcceptsAnyStart ==
  /\ pc = "check"
  /\ pc' = IF video.count > 0 /\ audio.count > 0 /\ vTimescale > 0
                /\ aTimescale > 0 /\ nominal.num > 0
             THEN "walk" ELSE "Err"
  /\ UNCHANGED <<input, i, active, v_dts, a_cursor, a_dts, segments>>

CheckInputs ==
  /\ pc = "check"
  /\ pc' = IF Acceptable THEN "walk" ELSE "Err"
  /\ UNCHANGED <<input, i, active, v_dts, a_cursor, a_dts, segments>>

\* Faulty variant for CutInTime: the duration has to exceed nominal.
CutsHereLate ==
  /\ i > v_start
  /\ video.sync[i]
  /\ v_dts - v_base_dts > NominalTicks

\* The active segment ends before sample i.
CutsHere ==
  /\ i > v_start
  /\ video.sync[i]
  /\ v_dts - v_base_dts >= NominalTicks

\* Faulty variant for TypeOK: the sum is not checked.
AccumulateUnchecked ==
  /\ v_dts' = v_dts + (video.dts[i + 1] - video.dts[i])
  /\ i' = i + 1
  /\ pc' = "walk"

\* The rest of the loop body: add the sample's duration, with overflow check.
Accumulate ==
  LET sum == v_dts + (video.dts[i + 1] - video.dts[i])
  IN  \/ /\ sum <= MaxTick
         /\ v_dts' = sum
         /\ i' = i + 1
         /\ pc' = "walk"
      \/ /\ sum > MaxTick
         /\ pc' = "Err"
         /\ UNCHANGED <<v_dts, i>>

\* A sample that does not end the active segment.
WalkSample ==
  /\ pc = "walk"
  /\ i < video.count
  /\ ~CutsHere
  /\ Accumulate
  /\ UNCHANGED <<input, active, a_cursor, a_dts, segments>>

\* A sample that does: project its time onto the audio track.
BeginCut ==
  /\ pc = "walk"
  /\ i < video.count
  /\ CutsHere
  /\ pc' = IF ScaleDtsCeil(v_dts) > MaxTick THEN "Err" ELSE "advance"
  /\ UNCHANGED <<input, i, active, v_dts, a_cursor, a_dts, segments>>

\* One turn of advance_audio_to.
AdvanceAudio ==
  /\ pc = "advance"
  /\ a_cursor < audio.count
  /\ a_dts < ScaleDtsCeil(v_dts)
  /\ LET sum == a_dts + (audio.dts[a_cursor + 1] - audio.dts[a_cursor])
     IN  \/ /\ sum <= MaxTick
            /\ a_dts' = sum
            /\ a_cursor' = a_cursor + 1
            /\ UNCHANGED pc
         \/ /\ sum > MaxTick
            /\ pc' = "Err"
            /\ UNCHANGED <<a_dts, a_cursor>>
  /\ UNCHANGED <<input, i, active, v_dts, segments>>

AdvanceDone ==
  /\ pc = "advance"
  /\ ~(a_cursor < audio.count /\ a_dts < ScaleDtsCeil(v_dts))
  /\ pc' = "push"
  /\ UNCHANGED <<input, i, active, v_dts, a_cursor, a_dts, segments>>

\* The active segment, ending before video sample v and audio sample a.
SegmentEntry(v, a) ==
  [video_sample_start |-> v_start, video_sample_count |-> v - v_start,
   audio_sample_start |-> a_start, audio_sample_count |-> a - a_start,
   video_base_dts |-> v_base_dts, audio_base_dts |-> a_base_dts]


\* push_segment refuses a segment without samples.
Pushable(e) == e.video_sample_count # 0 /\ e.audio_sample_count # 0

\* Faulty variant for BaseDtsExact: the audio base time is the boundary's.
PushSegmentScaledBase ==
  /\ pc = "push"
  /\ Pushable(SegmentEntry(i, a_cursor))
  /\ segments' = Append(segments, SegmentEntry(i, a_cursor))
  /\ v_start' = i
  /\ v_base_dts' = v_dts
  /\ a_start' = a_cursor
  /\ a_base_dts' = ScaleDtsCeil(v_dts)
  /\ Accumulate
  /\ UNCHANGED <<input, a_cursor, a_dts>>

\* Close the active segment, open the next one at sample i, and go on.
PushSegment ==
  /\ pc = "push"
  /\ Pushable(SegmentEntry(i, a_cursor))
  /\ segments' = Append(segments, SegmentEntry(i, a_cursor))
  /\ v_start' = i
  /\ v_base_dts' = v_dts
  /\ a_start' = a_cursor
  /\ a_base_dts' = a_dts
  /\ Accumulate
  /\ UNCHANGED <<input, a_cursor, a_dts>>

\* Faulty variant for Partitions: the tail ends at the audio cursor.
TailStopsAtCursor ==
  /\ pc = "walk"
  /\ i = video.count
  /\ segments' = Append(segments, SegmentEntry(video.count, a_cursor))
  /\ pc' = "Ok"
  /\ UNCHANGED <<input, i, active, v_dts, a_cursor, a_dts>>

\* The tail: everything that is left of both tracks.
PushTail ==
  /\ pc = "walk"
  /\ i = video.count
  /\ Pushable(SegmentEntry(video.count, audio.count))
  /\ segments' = Append(segments, SegmentEntry(video.count, audio.count))
  /\ pc' = "Ok"
  /\ UNCHANGED <<input, i, active, v_dts, a_cursor, a_dts>>

\* push_segment's error ends split.
PushEmpty ==
  /\ \/ pc = "push" /\ ~Pushable(SegmentEntry(i, a_cursor))
     \/ /\ pc = "walk"
        /\ i = video.count
        /\ ~Pushable(SegmentEntry(video.count, audio.count))
  /\ pc' = "Err"
  /\ UNCHANGED <<input, i, active, v_dts, a_cursor, a_dts, segments>>

Next ==
  \/ CheckInputs \/ WalkSample \/ BeginCut \/ AdvanceAudio \/ AdvanceDone
  \/ PushSegment \/ PushTail \/ PushEmpty

Spec == Init /\ [][Next]_vars

-----------------------------------------------------------------------------
Entries ==
  [video_sample_start : Nat, video_sample_count : Nat,
   audio_sample_start : Nat, audio_sample_count : Nat,
   video_base_dts : Nat, audio_base_dts : Nat]

\* Every variable of the walk has its type: no cursor leaves its track, and no
\* time exceeds u64.
TypeOK ==
  /\ pc \in {"check", "walk", "advance", "push", "Ok", "Err"}
  /\ i \in 0 .. video.count
  /\ v_start \in 0 .. i
  /\ v_base_dts \in 0 .. MaxTick /\ v_dts \in 0 .. MaxTick
  /\ a_cursor \in 0 .. audio.count
  /\ a_start \in 0 .. a_cursor
  /\ a_base_dts \in 0 .. MaxTick /\ a_dts \in 0 .. MaxTick
  /\ segments \in Seq(Entries)

VideoEnd(e) == e.video_sample_start + e.video_sample_count
AudioEnd(e) == e.audio_sample_start + e.audio_sample_count

\* No sample is lost or served twice: every segment starts where the one before
\* it ends, in both tracks, and the table that split returns covers all of both.
Partitions ==
  /\ \A k \in DOMAIN segments :
       LET p == [v |-> IF k = 1 THEN 0 ELSE VideoEnd(segments[k - 1]),
                 a |-> IF k = 1 THEN 0 ELSE AudioEnd(segments[k - 1])]
       IN  /\ segments[k].video_sample_start = p.v
           /\ segments[k].audio_sample_start = p.a
  /\ pc = "Ok" =>
       /\ Len(segments) > 0
       /\ VideoEnd(segments[Len(segments)]) = video.count
       /\ AudioEnd(segments[Len(segments)]) = audio.count

\* Every segment starts at a sync sample, so that a player can start there, and
\* has samples of both tracks.
StartsAtSync ==
  \A k \in DOMAIN segments :
    /\ segments[k].video_sample_count > 0
    /\ segments[k].audio_sample_count > 0
    /\ video.sync[segments[k].video_sample_start]

\* The decode time a segment announces in its tfdt is the exact start time of
\* its first sample, in both tracks: seeking lands where playing would.
BaseDtsExact ==
  \A k \in DOMAIN segments :
    /\ segments[k].video_base_dts = video.dts[segments[k].video_sample_start]
    /\ segments[k].audio_base_dts = audio.dts[segments[k].audio_sample_start]

\* The duration of segment k, in video ticks.
DurationTicks(k) == video.dts[VideoEnd(segments[k])] - segments[k].video_base_dts

\* A segment that is cut lasts at least the nominal duration, and it is cut at
\* the first sync sample that allows it.  The tail is not cut and may be shorter,
\* although SPEC.md:325 says "Never < nominal" of all segments.
CutInTime ==
  \A k \in DOMAIN segments :
    LET e == segments[k]
    IN  /\ k < Len(segments) => DurationTicks(k) >= NominalTicks
        /\ \A j \in e.video_sample_start + 1 .. VideoEnd(e) - 1 :
             video.sync[j] => video.dts[j] - e.video_base_dts < NominalTicks

\* Audio follows the video boundary in real time: in a table that split returns,
\* the audio of a segment starts with the first sample whose start is not before
\* the segment's first video sample (times compared as fractions of a second).
AudioAligned ==
  pc = "Ok" =>
    \A k \in DOMAIN segments :
      LET v == segments[k].video_base_dts
          a == segments[k].audio_sample_start
      IN  /\ audio.dts[a] * vTimescale >= v * aTimescale
          /\ a > 0 => audio.dts[a - 1] * vTimescale < v * aTimescale

=============================================================================
