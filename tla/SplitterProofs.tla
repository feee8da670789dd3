--------------------------- MODULE SplitterProofs ---------------------------
(***************************************************************************)
(* Proofs about Splitter, for all tracks, timescales and durations.        *)
(***************************************************************************)
EXTENDS Splitter, SequenceTheorems, TLAPS

\* The arguments of split are among those considered.
InputOK ==
  /\ video \in Videos /\ audio \in Audios
  /\ <<vTimescale, aTimescale>> \in Timescales
  /\ nominal \in Nominals

Running == pc \in {"walk", "advance", "push"}

\* The sums the loop keeps are the start times of the samples it is at.
CursorInv ==
  /\ v_dts = video.dts[i] /\ v_base_dts = video.dts[v_start]
  /\ a_dts = audio.dts[a_cursor] /\ a_base_dts = audio.dts[a_start]

\* The active segment [v_start, i): it starts at a sync sample, and no sync
\* sample inside it could have ended it.
ActiveInv ==
  /\ pc = "check" => i = 0 /\ v_start = 0
  /\ pc \notin {"check", "Err"} => Acceptable
  /\ Running => video.sync[v_start]
  /\ Running => \A j \in v_start + 1 .. i - 1 :
                  video.sync[j] => video.dts[j] - v_base_dts < NominalTicks
  /\ pc \in {"advance", "push"} => i < video.count /\ CutsHere
  /\ Running /\ i = video.count => v_start < i

\* What holds of every entry of the table.
Good(e) ==
  /\ e \in Entries
  /\ e.video_sample_count > 0 /\ e.audio_sample_count > 0
  /\ VideoEnd(e) <= video.count /\ AudioEnd(e) <= audio.count
  /\ video.sync[e.video_sample_start]
  /\ e.video_base_dts = video.dts[e.video_sample_start]
  /\ e.audio_base_dts = audio.dts[e.audio_sample_start]
  /\ \A j \in e.video_sample_start + 1 .. VideoEnd(e) - 1 :
       video.sync[j] => video.dts[j] - e.video_base_dts < NominalTicks

LongEnough(e) == video.dts[VideoEnd(e)] - e.video_base_dts >= NominalTicks

\* The first samples a segment after the table s has to start with.
NextVideo(s) == IF Len(s) = 0 THEN 0 ELSE VideoEnd(s[Len(s)])
NextAudio(s) == IF Len(s) = 0 THEN 0 ELSE AudioEnd(s[Len(s)])

Chained(s) ==
  \A k \in DOMAIN s :
    /\ s[k].video_sample_start = IF k = 1 THEN 0 ELSE VideoEnd(s[k - 1])
    /\ s[k].audio_sample_start = IF k = 1 THEN 0 ELSE AudioEnd(s[k - 1])

TableInv ==
  /\ segments \in Seq(Entries)
  /\ \A k \in DOMAIN segments : Good(segments[k])
  /\ \A k \in DOMAIN segments : k < Len(segments) \/ pc # "Ok" => LongEnough(segments[k])
  /\ Chained(segments)
  /\ pc # "Ok" => NextVideo(segments) = v_start /\ NextAudio(segments) = a_start
  /\ pc = "Ok" => /\ Len(segments) > 0
                  /\ NextVideo(segments) = video.count
                  /\ NextAudio(segments) = audio.count

\* The inductive invariant of the splitter.
IInv == InputOK /\ TypeOK /\ CursorInv /\ ActiveInv /\ TableInv

-----------------------------------------------------------------------------
\* What the assumptions say of the tracks and numbers of one call.
LEMMA InputFacts ==
  ASSUME InputOK
  PROVE  /\ video.count \in Nat /\ audio.count \in Nat
         /\ video.dts \in [0 .. video.count -> Nat] /\ video.dts[0] = 0
         /\ audio.dts \in [0 .. audio.count -> Nat] /\ audio.dts[0] = 0
         /\ \A j \in 1 .. video.count : video.dts[j - 1] <= video.dts[j]
         /\ \A j \in 1 .. audio.count : audio.dts[j - 1] <= audio.dts[j]
         /\ video.sync \in [0 .. video.count - 1 -> BOOLEAN]
         /\ vTimescale \in Nat /\ aTimescale \in Nat
         /\ nominal.num \in Int /\ nominal.den \in Nat \ {0}
         /\ MaxTick \in Nat
  BY TracksAssumption, NumbersAssumption DEF InputOK, StartTimes

\* Start times are natural numbers, up to the end of the last sample.
LEMMA StartTimeType ==
  ASSUME InputOK
  PROVE  /\ \A j \in 0 .. video.count : video.dts[j] \in Nat
         /\ \A j \in 0 .. audio.count : audio.dts[j] \in Nat
<1>1. /\ video.dts \in [0 .. video.count -> Nat]
      /\ audio.dts \in [0 .. audio.count -> Nat]
  BY InputFacts
<1> QED
  BY <1>1

\* A quotient rounded up is an integer.
LEMMA CeilDivType == ASSUME NEW n \in Int, NEW d \in Nat \ {0} PROVE CeilDiv(n, d) \in Int
  BY DEF CeilDiv

\* The nominal duration in ticks is a positive integer.
LEMMA NominalType == ASSUME InputOK PROVE NominalTicks \in Nat \ {0}
<1>1. nominal.num * vTimescale \in Int /\ nominal.den \in Nat \ {0}
  BY InputFacts
<1>2. CeilDiv(nominal.num * vTimescale, nominal.den) \in Int
  BY <1>1, CeilDivType
<1> QED
  BY <1>2 DEF NominalTicks

\* Appending an entry to a table.
LEMMA AppendTable ==
  ASSUME NEW s \in Seq(Entries), NEW e \in Entries
  PROVE  /\ Len(s) \in Nat /\ DOMAIN s = 1 .. Len(s)
         /\ Append(s, e) \in Seq(Entries) /\ Len(Append(s, e)) = Len(s) + 1
         /\ DOMAIN Append(s, e) = 1 .. Len(s) + 1
         /\ \A k \in 1 .. Len(s) : Append(s, e)[k] = s[k]
         /\ Append(s, e)[Len(s) + 1] = e
         /\ \A k \in DOMAIN s : s[k] \in Entries
  BY LenProperties, AppendProperties, ElementOfSeq

\* A chained table stays chained if the new entry starts where the table ends.
LEMMA AppendChained ==
  ASSUME NEW s \in Seq(Entries), NEW e \in Entries, Chained(s),
         e.video_sample_start = NextVideo(s), e.audio_sample_start = NextAudio(s)
  PROVE  /\ Chained(Append(s, e))
         /\ NextVideo(Append(s, e)) = VideoEnd(e) /\ NextAudio(Append(s, e)) = AudioEnd(e)
<1>1. /\ Len(s) \in Nat /\ DOMAIN s = 1 .. Len(s)
      /\ Len(Append(s, e)) = Len(s) + 1 /\ DOMAIN Append(s, e) = 1 .. Len(s) + 1
      /\ \A k \in 1 .. Len(s) : Append(s, e)[k] = s[k]
      /\ Append(s, e)[Len(s) + 1] = e
  BY AppendTable
<1> DEFINE t == Append(s, e)
<1> HIDE DEF t
<1>2. /\ Len(t) = Len(s) + 1 /\ DOMAIN t = 1 .. Len(s) + 1
      /\ \A k \in 1 .. Len(s) : t[k] = s[k]
      /\ t[Len(s) + 1] = e
  BY <1>1 DEF t
<1>3. ASSUME NEW k \in DOMAIN t
      PROVE  /\ t[k].video_sample_start = IF k = 1 THEN 0 ELSE VideoEnd(t[k - 1])
             /\ t[k].audio_sample_start = IF k = 1 THEN 0 ELSE AudioEnd(t[k - 1])
  <2>1. CASE k = Len(s) + 1 /\ k = 1
    BY <1>1, <1>2, <2>1 DEF NextVideo, NextAudio
  <2>2. CASE k = Len(s) + 1 /\ k # 1
    <3>1. t[k] = e /\ t[k - 1] = s[Len(s)] /\ Len(s) # 0
      BY <1>1, <1>2, <2>2
    <3> QED
      BY <2>2, <3>1 DEF NextVideo, NextAudio
  <2>3. CASE k # Len(s) + 1
    <3>1. k \in DOMAIN s /\ t[k] = s[k] /\ (k # 1 => t[k - 1] = s[k - 1])
      BY <1>1, <1>2, <2>3
    <3> QED
      BY <3>1 DEF Chained
  <2> QED
    BY <2>1, <2>2, <2>3
<1>4. Chained(t)
  BY <1>3 DEF Chained
<1>5. NextVideo(t) = VideoEnd(e) /\ NextAudio(t) = AudioEnd(e)
  BY <1>1, <1>2 DEF NextVideo, NextAudio
<1> QED
  BY <1>4, <1>5 DEF t

\* The initial state satisfies the inductive invariant.
LEMMA InitIInv == Init => IInv
<1> SUFFICES ASSUME Init PROVE IInv
  OBVIOUS
<1>1. InputOK
  BY NumbersAssumption DEF Init, InputOK
<1>2. segments \in Seq(Entries) /\ DOMAIN segments = {} /\ Len(segments) = 0
  BY EmptySeq DEF Init
<1>3. TypeOK /\ CursorInv
  BY <1>1, <1>2, InputFacts DEF Init, TypeOK, CursorInv
<1>4. ActiveInv
  BY DEF Init, ActiveInv, Running
<1>5. TableInv
  BY <1>2 DEF Init, TableInv, Chained, NextVideo, NextAudio
<1> QED
  BY <1>1, <1>3, <1>4, <1>5 DEF IInv

-----------------------------------------------------------------------------
\* What an entry is worth depends on the arguments only, and they never change.
LEMMA EntryStable ==
  ASSUME UNCHANGED input, NEW e
  PROVE  (Good(e)' <=> Good(e)) /\ (LongEnough(e)' <=> LongEnough(e))
         /\ NominalTicks' = NominalTicks /\ (Acceptable' <=> Acceptable)
         /\ (InputOK => InputOK')
  BY DEF input, Good, LongEnough, NominalTicks, Acceptable, InputOK

\* The table is untouched by a step that appends nothing.
LEMMA TableUntouched ==
  ASSUME IInv, UNCHANGED <<input, active, segments>>, pc # "Ok", pc' # "Ok"
  PROVE  TableInv'
<1>1. \A e : (Good(e)' <=> Good(e)) /\ (LongEnough(e)' <=> LongEnough(e))
  BY EntryStable
<1>2. /\ segments' \in Seq(Entries)
      /\ \A k \in DOMAIN segments' : Good(segments[k])'
      /\ \A k \in DOMAIN segments' : LongEnough(segments[k])'
  BY <1>1 DEF IInv, TableInv
<1>3. segments' = segments /\ v_start' = v_start /\ a_start' = a_start
  BY DEF active
<1> QED
  BY <1>2, <1>3 DEF IInv, TableInv, Good, LongEnough, NominalTicks, input, Chained, NextVideo, NextAudio

\* Adding a sample's duration leads to the start time of the next sample.
LEMMA AccumulateStep ==
  ASSUME InputOK, i \in Nat, i < video.count, v_dts = video.dts[i], Accumulate
  PROVE  \/ /\ i' = i + 1 /\ pc' = "walk" /\ v_dts' = video.dts[i + 1]
            /\ v_dts' \in 0 .. MaxTick
         \/ i' = i /\ pc' = "Err" /\ v_dts' = v_dts
<1>1. video.count \in Nat /\ MaxTick \in Nat
  BY InputFacts
<1>2. i \in 0 .. video.count /\ i + 1 \in 0 .. video.count
  BY <1>1
<1>3. video.dts[i] \in Nat /\ video.dts[i + 1] \in Nat
  BY <1>2, StartTimeType
<1> QED
  BY <1>1, <1>3 DEF Accumulate

\* A sample that ends nothing.
LEMMA WalkSampleIInv == ASSUME IInv, WalkSample PROVE IInv'
<1>0. InputOK /\ TypeOK /\ CursorInv /\ ActiveInv /\ TableInv
  BY DEF IInv
<1>1. /\ pc = "walk" /\ i < video.count /\ ~CutsHere /\ Accumulate
      /\ UNCHANGED <<input, active, a_cursor, a_dts, segments>>
  BY DEF WalkSample
<1>2. video.count \in Nat /\ i \in Nat /\ v_start \in Nat /\ v_start <= i
  BY <1>0, InputFacts DEF TypeOK
<1>3. \/ /\ i' = i + 1 /\ pc' = "walk" /\ v_dts' = video.dts[i + 1]
         /\ v_dts' \in 0 .. MaxTick
      \/ i' = i /\ pc' = "Err" /\ v_dts' = v_dts
  BY <1>0, <1>1, <1>2, AccumulateStep DEF CursorInv
<1>4. InputOK' /\ NominalTicks' = NominalTicks /\ (Acceptable' <=> Acceptable)
  BY <1>0, <1>1, EntryStable
<1>5. TypeOK'
  BY <1>0, <1>1, <1>2, <1>3 DEF TypeOK, input, active
<1>6. CursorInv'
  BY <1>0, <1>1, <1>3 DEF CursorInv, input, active
<1>7. ASSUME pc' = "walk", NEW j \in v_start + 1 .. i, video.sync[j]
      PROVE  video.dts[j] - v_base_dts < NominalTicks
  <2>1. CASE j < i
    BY <1>0, <1>1, <1>2, <1>7, <2>1 DEF ActiveInv, Running
  <2>2. CASE j = i
    <3>0. i \in 0 .. video.count /\ v_base_dts \in 0 .. MaxTick
      BY <1>0 DEF TypeOK
    <3>1. video.dts[i] \in Nat /\ v_base_dts \in Nat /\ NominalTicks \in Nat
      BY <1>0, <3>0, StartTimeType, NominalType, NumbersAssumption
    <3>2. i > v_start /\ video.sync[i]
      BY <1>2, <1>7, <2>2
    <3>3. ~(video.dts[i] - v_base_dts >= NominalTicks)
      BY <1>0, <1>1, <3>2 DEF CutsHere, CursorInv
    <3> QED
      BY <2>2, <3>1, <3>3
  <2> QED
    BY <1>2, <2>1, <2>2
<1>8. /\ pc' \notin {"check", "Err"} => Acceptable'
      /\ Running' => (video.sync[v_start])'
      /\ pc' \in {"advance", "push"} => (i < video.count /\ CutsHere)'
      /\ Running' /\ i' = video'.count => v_start' < i'
      /\ pc' = "check" => i' = 0 /\ v_start' = 0
  BY <1>0, <1>1, <1>2, <1>3, <1>4 DEF ActiveInv, Running, input, active
<1>9. Running' => \A j \in v_start' + 1 .. i' - 1 :
                    video'.sync[j] => video'.dts[j] - v_base_dts' < NominalTicks'
  <2> SUFFICES ASSUME Running', NEW j \in v_start' + 1 .. i' - 1, video'.sync[j]
               PROVE  video'.dts[j] - v_base_dts' < NominalTicks'
    OBVIOUS
  <2>1. pc' = "walk" /\ i' = i + 1
    BY <1>3 DEF Running
  <2>2. j \in v_start + 1 .. i /\ video.sync[j]
    BY <1>1, <1>2, <2>1 DEF input, active
  <2> QED
    BY <1>1, <1>4, <1>7, <2>1, <2>2 DEF input, active
<1>10. ActiveInv'
  BY <1>8, <1>9 DEF ActiveInv
<1>11. TableInv'
  BY <1>1, <1>3, TableUntouched
<1> QED
  BY <1>4, <1>5, <1>6, <1>10, <1>11 DEF IInv

\* The steps before, between and after the walk that append nothing.
LEMMA QuietStepsIInv ==
  ASSUME IInv, CheckInputs \/ BeginCut \/ AdvanceDone \/ PushEmpty
  PROVE  IInv'
<1>0. InputOK /\ TypeOK /\ CursorInv /\ ActiveInv /\ TableInv
  BY DEF IInv
<1>1. UNCHANGED <<input, i, active, v_dts, a_cursor, a_dts, segments>>
      /\ pc # "Ok" /\ pc' \in {"walk", "advance", "push", "Err"}
  BY DEF CheckInputs, BeginCut, AdvanceDone, PushEmpty
<1>2. InputOK' /\ NominalTicks' = NominalTicks /\ (Acceptable' <=> Acceptable)
  BY <1>0, <1>1, EntryStable
<1>3. TypeOK' /\ CursorInv'
  BY <1>0, <1>1 DEF TypeOK, CursorInv, input, active
<1>4. TableInv'
  BY <1>1, TableUntouched
<1>5. video.count \in Nat /\ i \in Nat
  BY <1>0, InputFacts DEF TypeOK
<1>6. CutsHere' <=> CutsHere
  BY <1>1, <1>2 DEF CutsHere, input, active
<1>7. CASE CheckInputs
  <2>1. pc = "check" /\ i = 0 /\ v_start = 0 /\ pc' = IF Acceptable THEN "walk" ELSE "Err"
    BY <1>0, <1>7 DEF CheckInputs, ActiveInv
  <2>2. i' = 0 /\ v_start' = 0 /\ video' = video
    BY <1>1, <2>1 DEF input, active
  <2>3. pc' = "walk" => video.sync[0] /\ video.count > 0
    BY <2>1 DEF Acceptable
  <2>4. \A j \in 0 + 1 .. 0 - 1 : FALSE
    OBVIOUS
  <2> QED
    BY <1>2, <1>3, <1>4, <1>5, <2>1, <2>2, <2>3, <2>4 DEF IInv, ActiveInv, Running
<1>8. CASE BeginCut \/ AdvanceDone \/ PushEmpty
  <2>1. \/ pc' = "Err"
        \/ /\ Running /\ pc' \in {"advance", "push"}
           /\ i < video.count /\ CutsHere
    BY <1>0, <1>8 DEF BeginCut, AdvanceDone, PushEmpty, ActiveInv, Running
  <2>2. video' = video /\ i' = i /\ v_start' = v_start /\ v_base_dts' = v_base_dts
    BY <1>1 DEF input, active
  <2>3. ActiveInv'
    BY <1>0, <1>2, <1>5, <1>6, <2>1, <2>2 DEF ActiveInv, Running
  <2> QED
    BY <1>2, <1>3, <1>4, <2>3 DEF IInv
<1> QED
  BY <1>7, <1>8

\* One turn of the audio cursor.
LEMMA AdvanceAudioIInv == ASSUME IInv, AdvanceAudio PROVE IInv'
<1>0. InputOK /\ TypeOK /\ CursorInv /\ ActiveInv /\ TableInv
  BY DEF IInv
<1>1. /\ pc = "advance" /\ a_cursor < audio.count
      /\ UNCHANGED <<input, i, active, v_dts, segments>>
  BY DEF AdvanceAudio
<1>2. /\ audio.count \in Nat /\ a_cursor \in 0 .. audio.count /\ a_cursor + 1 \in 0 .. audio.count
      /\ a_start \in 0 .. a_cursor /\ MaxTick \in Nat
  BY <1>0, <1>1, InputFacts DEF TypeOK
<1>3. audio.dts[a_cursor] \in Nat /\ audio.dts[a_cursor + 1] \in Nat
  BY <1>0, <1>2, StartTimeType
<1>4. a_dts = audio.dts[a_cursor]
  BY <1>0 DEF CursorInv
<1>5. \/ /\ a_cursor' = a_cursor + 1 /\ pc' = "advance" /\ a_dts' = audio.dts[a_cursor + 1]
         /\ a_dts' \in 0 .. MaxTick
      \/ a_cursor' = a_cursor /\ pc' = "Err" /\ a_dts' = a_dts
  BY <1>1, <1>2, <1>3, <1>4 DEF AdvanceAudio
<1>6. InputOK' /\ NominalTicks' = NominalTicks /\ (Acceptable' <=> Acceptable)
  BY <1>0, <1>1, EntryStable
<1>7. TypeOK'
  BY <1>0, <1>1, <1>2, <1>5 DEF TypeOK, input, active
<1>8. CursorInv'
  BY <1>0, <1>1, <1>5 DEF CursorInv, input, active
<1>9. CutsHere' <=> CutsHere
  BY <1>1, <1>6 DEF CutsHere, input, active
<1>10. ActiveInv'
  BY <1>0, <1>1, <1>5, <1>6, <1>9 DEF ActiveInv, Running, input, active
<1>11. TableInv'
  BY <1>1, <1>5, TableUntouched
<1> QED
  BY <1>6, <1>7, <1>8, <1>10, <1>11 DEF IInv

\* The active segment, cut before video sample v and audio sample a, is a good
\* entry if it has samples of both tracks.
LEMMA ActiveEntryGood ==
  ASSUME IInv, Running, NEW v \in i .. video.count, NEW a \in a_cursor .. audio.count, v = i,
         Pushable(SegmentEntry(v, a))
  PROVE  /\ Good(SegmentEntry(v, a))
         /\ SegmentEntry(v, a).video_sample_start = v_start
         /\ SegmentEntry(v, a).audio_sample_start = a_start
         /\ SegmentEntry(v, a).video_base_dts = v_base_dts
         /\ VideoEnd(SegmentEntry(v, a)) = v /\ AudioEnd(SegmentEntry(v, a)) = a
<1> DEFINE e == SegmentEntry(v, a)
<1>0. InputOK /\ TypeOK /\ CursorInv /\ ActiveInv
  BY DEF IInv
<1>1. /\ video.count \in Nat /\ audio.count \in Nat /\ i \in 0 .. video.count
      /\ v_start \in 0 .. i /\ a_cursor \in 0 .. audio.count /\ a_start \in 0 .. a_cursor
      /\ v_base_dts \in Nat /\ a_base_dts \in Nat
  BY <1>0, InputFacts DEF TypeOK
<1>2. v \in Nat /\ a \in Nat /\ v - v_start \in Nat /\ a - a_start \in Nat /\ v <= video.count
      /\ a <= audio.count
  BY <1>1
<1>3. /\ e \in Entries
      /\ e.video_sample_start = v_start /\ e.video_sample_count = v - v_start
      /\ e.audio_sample_start = a_start /\ e.audio_sample_count = a - a_start
      /\ e.video_base_dts = v_base_dts /\ e.audio_base_dts = a_base_dts
  BY <1>1, <1>2 DEF SegmentEntry, Entries
<1>4. e.video_sample_count # 0 /\ e.audio_sample_count # 0
  BY DEF Pushable
<1> HIDE DEF e
<1>5. VideoEnd(e) = v /\ AudioEnd(e) = a
  BY <1>1, <1>2, <1>3 DEF VideoEnd, AudioEnd
<1>6. e.video_sample_count > 0 /\ e.audio_sample_count > 0
  BY <1>2, <1>3, <1>4
<1>7. /\ video.sync[e.video_sample_start]
      /\ e.video_base_dts = video.dts[e.video_sample_start]
      /\ e.audio_base_dts = audio.dts[e.audio_sample_start]
  BY <1>0, <1>3 DEF ActiveInv, CursorInv
<1>8. \A j \in e.video_sample_start + 1 .. VideoEnd(e) - 1 :
        video.sync[j] => video.dts[j] - e.video_base_dts < NominalTicks
  BY <1>0, <1>3, <1>5 DEF ActiveInv
<1>9. Good(e)
  BY <1>2, <1>3, <1>5, <1>6, <1>7, <1>8 DEF Good
<1> QED
  BY <1>3, <1>5, <1>9 DEF e

\* Appending a good entry that starts where the table ends.
LEMMA TableAppend ==
  ASSUME IInv, pc # "Ok", UNCHANGED input, NEW e, Good(e),
         e.video_sample_start = v_start, e.audio_sample_start = a_start,
         segments' = Append(segments, e)
  PROVE  /\ segments' \in Seq(Entries) /\ Len(segments') = Len(segments) + 1
         /\ Len(segments) \in Nat
         /\ \A k \in DOMAIN segments' : Good(segments'[k])
         /\ \A k \in DOMAIN segments' : k < Len(segments') => LongEnough(segments'[k])
         /\ segments'[Len(segments')] = e
         /\ Chained(segments')
         /\ NextVideo(segments') = VideoEnd(e) /\ NextAudio(segments') = AudioEnd(e)
<1>1. /\ segments \in Seq(Entries) /\ e \in Entries /\ Chained(segments)
      /\ NextVideo(segments) = v_start /\ NextAudio(segments) = a_start
      /\ \A k \in DOMAIN segments : Good(segments[k]) /\ LongEnough(segments[k])
  BY DEF IInv, TableInv, Good
<1>2. /\ Len(segments) \in Nat /\ DOMAIN segments = 1 .. Len(segments)
      /\ segments' \in Seq(Entries) /\ Len(segments') = Len(segments) + 1
      /\ DOMAIN segments' = 1 .. Len(segments) + 1
      /\ \A k \in 1 .. Len(segments) : segments'[k] = segments[k]
      /\ segments'[Len(segments) + 1] = e
  BY <1>1, AppendTable
<1>3. /\ Chained(Append(segments, e))
      /\ NextVideo(Append(segments, e)) = VideoEnd(e)
      /\ NextAudio(Append(segments, e)) = AudioEnd(e)
  BY <1>1, AppendChained
<1>4. \A k \in DOMAIN segments' :
        (k \in DOMAIN segments /\ segments'[k] = segments[k])
        \/ (k = Len(segments) + 1 /\ segments'[k] = e)
  BY <1>2
<1>5. \A k \in DOMAIN segments' : Good(segments'[k])
  BY <1>1, <1>4
<1>6. \A k \in DOMAIN segments' : k < Len(segments') => LongEnough(segments'[k])
  <2> SUFFICES ASSUME NEW k \in DOMAIN segments', k < Len(segments')
               PROVE  LongEnough(segments'[k])
    OBVIOUS
  <2>1. k \in DOMAIN segments /\ segments'[k] = segments[k]
    BY <1>2
  <2> QED
    BY <1>1, <2>1
<1> QED
  BY <1>2, <1>3, <1>5, <1>6
\* The table after a good entry was appended, in the next state's terms.
LEMMA TablePrime ==
  ASSUME UNCHANGED input,
         segments' \in Seq(Entries),
         \A k \in DOMAIN segments' : Good(segments'[k]),
         \A k \in DOMAIN segments' : k < Len(segments') \/ pc' # "Ok" => LongEnough(segments'[k]),
         Chained(segments'),
         pc' # "Ok" => NextVideo(segments') = v_start' /\ NextAudio(segments') = a_start',
         pc' = "Ok" => /\ Len(segments') > 0
                       /\ NextVideo(segments') = video.count
                       /\ NextAudio(segments') = audio.count
  PROVE  TableInv'
<1>1. video' = video /\ audio' = audio /\ NominalTicks' = NominalTicks
  BY DEF input, NominalTicks
<1>2. \A k \in DOMAIN segments' : Good(segments[k])'
  BY <1>1 DEF Good, VideoEnd, AudioEnd
<1>3. \A k \in DOMAIN segments' :
        k < Len(segments') \/ pc' # "Ok" => LongEnough(segments[k])'
  BY <1>1 DEF LongEnough, VideoEnd
<1> QED
  BY <1>1, <1>2, <1>3 DEF TableInv, Chained, NextVideo, NextAudio, VideoEnd, AudioEnd

\* Closing the active segment and opening the next.
LEMMA PushSegmentIInv == ASSUME IInv, PushSegment PROVE IInv'
<1> DEFINE e == SegmentEntry(i, a_cursor)
<1>0. InputOK /\ TypeOK /\ CursorInv /\ ActiveInv /\ TableInv
  BY DEF IInv
<1>1. /\ pc = "push" /\ Pushable(e) /\ segments' = Append(segments, e)
      /\ v_start' = i /\ v_base_dts' = v_dts /\ a_start' = a_cursor /\ a_base_dts' = a_dts
      /\ Accumulate /\ UNCHANGED <<input, a_cursor, a_dts>>
  BY DEF PushSegment
<1>2. /\ video.count \in Nat /\ audio.count \in Nat /\ i \in 0 .. video.count /\ i < video.count
      /\ a_cursor \in 0 .. audio.count /\ CutsHere /\ Acceptable
  BY <1>0, <1>1, InputFacts DEF TypeOK, ActiveInv
<1>3. \/ /\ i' = i + 1 /\ pc' = "walk" /\ v_dts' = video.dts[i + 1]
         /\ v_dts' \in 0 .. MaxTick
      \/ i' = i /\ pc' = "Err" /\ v_dts' = v_dts
  BY <1>0, <1>1, <1>2, AccumulateStep DEF CursorInv
<1>4. InputOK' /\ NominalTicks' = NominalTicks /\ (Acceptable' <=> Acceptable)
      /\ video' = video /\ audio' = audio
  BY <1>0, <1>1, EntryStable DEF input
<1>5. /\ Good(e)
      /\ e.video_sample_start = v_start /\ e.audio_sample_start = a_start
      /\ e.video_base_dts = v_base_dts
      /\ VideoEnd(e) = i /\ AudioEnd(e) = a_cursor
  <2>1. Running /\ i \in i .. video.count /\ a_cursor \in a_cursor .. audio.count
    BY <1>1, <1>2 DEF Running
  <2> QED
    BY <1>1, <2>1, ActiveEntryGood
<1>6. LongEnough(e)
  BY <1>0, <1>2, <1>5 DEF LongEnough, CutsHere, CursorInv
<1> HIDE DEF e
<1>7. /\ segments' \in Seq(Entries) /\ Len(segments') = Len(segments) + 1
      /\ Len(segments) \in Nat
      /\ \A k \in DOMAIN segments' : Good(segments'[k])
      /\ \A k \in DOMAIN segments' : k < Len(segments') => LongEnough(segments'[k])
      /\ segments'[Len(segments')] = e
      /\ Chained(segments')
      /\ NextVideo(segments') = VideoEnd(e) /\ NextAudio(segments') = AudioEnd(e)
  BY <1>1, <1>5, TableAppend
<1>8. \A k \in DOMAIN segments' : LongEnough(segments'[k])
  <2>1. DOMAIN segments' = 1 .. Len(segments')
    BY <1>7, LenProperties
  <2>2. \A k \in DOMAIN segments' : k < Len(segments') \/ k = Len(segments')
    BY <1>7, <2>1
  <2> QED
    BY <1>6, <1>7, <2>2
<1>9. TableInv'
  BY <1>1, <1>3, <1>5, <1>7, <1>8, TablePrime
<1>10. TypeOK'
  BY <1>0, <1>1, <1>2, <1>3, <1>4, <1>7 DEF TypeOK
<1>11. CursorInv'
  BY <1>0, <1>1, <1>3, <1>4 DEF CursorInv
<1>12. ActiveInv'
  <2>1. \A j \in i + 1 .. (i + 1) - 1 : FALSE
    BY <1>2
  <2>2. video.sync[i]
    BY <1>2 DEF CutsHere
  <2>3. CASE pc' = "walk"
    BY <1>1, <1>2, <1>3, <1>4, <2>1, <2>2, <2>3 DEF ActiveInv, Running
  <2>4. CASE pc' = "Err"
    BY <2>4 DEF ActiveInv, Running
  <2> QED
    BY <1>3, <2>3, <2>4
<1> QED
  BY <1>4, <1>9, <1>10, <1>11, <1>12 DEF IInv

\* The tail.
LEMMA PushTailIInv == ASSUME IInv, PushTail PROVE IInv'
<1> DEFINE e == SegmentEntry(video.count, audio.count)
<1>0. InputOK /\ TypeOK /\ CursorInv /\ ActiveInv /\ TableInv
  BY DEF IInv
<1>1. /\ pc = "walk" /\ i = video.count /\ Pushable(e)
      /\ segments' = Append(segments, e) /\ pc' = "Ok"
      /\ UNCHANGED <<input, i, active, v_dts, a_cursor, a_dts>>
  BY DEF PushTail
<1>2. /\ video.count \in Nat /\ audio.count \in Nat /\ a_cursor \in 0 .. audio.count /\ Acceptable
  BY <1>0, <1>1, InputFacts DEF TypeOK, ActiveInv
<1>3. InputOK' /\ NominalTicks' = NominalTicks /\ (Acceptable' <=> Acceptable)
  BY <1>0, <1>1, EntryStable
<1>4. /\ Good(e)
      /\ e.video_sample_start = v_start /\ e.audio_sample_start = a_start
      /\ VideoEnd(e) = video.count /\ AudioEnd(e) = audio.count
  <2>1. Running /\ video.count \in i .. video.count /\ audio.count \in a_cursor .. audio.count
    BY <1>1, <1>2 DEF Running
  <2> QED
    BY <1>1, <2>1, ActiveEntryGood
<1> HIDE DEF e
<1>5. /\ segments' \in Seq(Entries) /\ Len(segments') = Len(segments) + 1
      /\ Len(segments) \in Nat
      /\ \A k \in DOMAIN segments' : Good(segments'[k])
      /\ \A k \in DOMAIN segments' : k < Len(segments') => LongEnough(segments'[k])
      /\ Chained(segments')
      /\ NextVideo(segments') = VideoEnd(e) /\ NextAudio(segments') = AudioEnd(e)
  BY <1>1, <1>4, TableAppend
<1>6. TableInv'
  <2>1. Len(segments') > 0
    BY <1>5
  <2> QED
    BY <1>1, <1>4, <1>5, <2>1, TablePrime
<1>7. TypeOK' /\ CursorInv'
  BY <1>0, <1>1, <1>5 DEF TypeOK, CursorInv, input, active
<1>8. ActiveInv'
  BY <1>1, <1>2, <1>3 DEF ActiveInv, Running
<1> QED
  BY <1>3, <1>6, <1>7, <1>8 DEF IInv

\* Every step keeps the inductive invariant.
LEMMA NextIInv == IInv /\ [Next]_vars => IInv'
<1>1. ASSUME IInv, UNCHANGED vars PROVE IInv'
  BY <1>1 DEF vars, input, active, IInv, InputOK, TypeOK, CursorInv, ActiveInv, TableInv, Running,
     Acceptable, CutsHere, NominalTicks, Good, LongEnough, Chained, NextVideo, NextAudio
<1> QED
  BY <1>1, WalkSampleIInv, QuietStepsIInv, AdvanceAudioIInv, PushSegmentIInv, PushTailIInv
     DEF Next

\* The inductive invariant holds in every reachable state.
LEMMA InductiveInvariant == Spec => []IInv
  BY InitIInv, NextIInv, PTL DEF Spec

-----------------------------------------------------------------------------
\* No cursor leaves its track and no time exceeds u64, for any tracks.
THEOREM TypeCorrect == Spec => []TypeOK
  BY InductiveInvariant, PTL DEF IInv

\* The segments partition both tracks.
THEOREM AlwaysPartitions == Spec => []Partitions
<1>1. IInv => Partitions
  <2> SUFFICES ASSUME IInv PROVE Partitions
    OBVIOUS
  <2>1. TableInv
    BY DEF IInv
  <2>2. pc = "Ok" => /\ Len(segments) > 0
                     /\ VideoEnd(segments[Len(segments)]) = video.count
                     /\ AudioEnd(segments[Len(segments)]) = audio.count
    <3>1. segments \in Seq(Entries) /\ Len(segments) \in Nat
      BY <2>1, LenProperties DEF TableInv
    <3> QED
      BY <2>1, <3>1 DEF TableInv, NextVideo, NextAudio
  <2> QED
    BY <2>1, <2>2 DEF Partitions, TableInv, Chained
<1> QED
  BY <1>1, InductiveInvariant, PTL

\* Every segment starts at a sync sample and has samples of both tracks.
THEOREM AlwaysStartsAtSync == Spec => []StartsAtSync
<1>1. IInv => StartsAtSync
  BY DEF IInv, TableInv, Good, StartsAtSync
<1> QED
  BY <1>1, InductiveInvariant, PTL

\* The decode times in the table are those of the samples.
THEOREM AlwaysBaseDtsExact == Spec => []BaseDtsExact
<1>1. IInv => BaseDtsExact
  BY DEF IInv, TableInv, Good, BaseDtsExact
<1> QED
  BY <1>1, InductiveInvariant, PTL

\* Segments are cut at the first sync sample after the nominal duration.
THEOREM AlwaysCutInTime == Spec => []CutInTime
<1>1. IInv => CutInTime
  BY DEF IInv, TableInv, Good, LongEnough, DurationTicks, CutInTime
<1> QED
  BY <1>1, InductiveInvariant, PTL

-----------------------------------------------------------------------------
\* Comparing with a quotient rounded up is comparing the products.
LEMMA BelowCeilDiv ==
  ASSUME NEW x \in Nat, NEW n \in Nat, NEW d \in Nat \ {0}
  PROVE  x < CeilDiv(n, d) <=> x * d < n
<1> DEFINE q == (n + d - 1) \div d
           m == (n + d - 1) % d
<1>1. q \in Int /\ m \in 0 .. d - 1 /\ n + d - 1 = d * q + m
  OBVIOUS
<1>2. CeilDiv(n, d) = q
  BY DEF CeilDiv
<1> HIDE DEF q, m
<1>3. ASSUME x < q PROVE x * d < n
  <2>1. x + 1 <= q /\ q - (x + 1) \in Nat
    BY <1>1, <1>3
  <2>2. d * (q - (x + 1)) >= 0 /\ d * (q - (x + 1)) = d * q - d * x - d
    BY <1>1, <2>1
  <2> QED
    BY <1>1, <2>2
<1>4. ASSUME ~(x < q) PROVE ~(x * d < n)
  <2>1. x - q \in Nat
    BY <1>1, <1>4
  <2>2. d * (x - q) >= 0 /\ d * (x - q) = d * x - d * q
    BY <1>1, <2>1
  <2> QED
    BY <1>1, <2>2
<1> QED
  BY <1>2, <1>3, <1>4

\* Sample a is the first of the audio track that does not start before the
\* video time v; behind the end of the track there is nothing to compare.
AlignedAt(a, v) ==
  /\ a > 0 => audio.dts[a - 1] * vTimescale < v * aTimescale
  /\ a < audio.count => audio.dts[a] * vTimescale >= v * aTimescale

\* The audio cursor: it moves only during a cut, over samples that start before
\* the boundary, and stops at the first that does not.
AudioInv ==
  /\ pc = "check" => a_start = 0 /\ v_base_dts = 0
  /\ pc \in {"check", "walk"} => a_cursor = a_start
  /\ Running => AlignedAt(a_start, v_base_dts)
  /\ pc \in {"advance", "push"} /\ a_cursor > a_start =>
       audio.dts[a_cursor - 1] * vTimescale < v_dts * aTimescale
  /\ pc = "push" /\ a_cursor < audio.count =>
       audio.dts[a_cursor] * vTimescale >= v_dts * aTimescale
  /\ \A k \in DOMAIN segments :
       AlignedAt(segments[k].audio_sample_start, segments[k].video_base_dts)

\* advance_audio_to compares times as fractions of a second.
LEMMA BeforeBoundary ==
  ASSUME InputOK, Acceptable, NEW x \in Nat, NEW v \in Nat
  PROVE  x < ScaleDtsCeil(v) <=> x * vTimescale < v * aTimescale
<1>1. vTimescale \in Nat \ {0} /\ aTimescale \in Nat /\ v * aTimescale \in Nat
  BY InputFacts DEF Acceptable
<1> QED
  BY <1>1, BelowCeilDiv DEF ScaleDtsCeil

\* Every step keeps the invariant of the audio cursor.
LEMMA NextAudioInv == IInv /\ AudioInv /\ [Next]_vars => AudioInv'
<1> SUFFICES ASSUME IInv, AudioInv, [Next]_vars PROVE AudioInv'
  OBVIOUS
<1>0. InputOK /\ TypeOK /\ CursorInv /\ ActiveInv /\ TableInv
  BY DEF IInv
<1>t. /\ audio.count \in Nat /\ a_cursor \in 0 .. audio.count /\ a_start \in 0 .. a_cursor
      /\ v_dts \in Nat /\ a_dts \in Nat /\ vTimescale \in Nat /\ aTimescale \in Nat
  BY <1>0, InputFacts DEF TypeOK
<1>u. UNCHANGED input => \A a, v : AlignedAt(a, v)' <=> AlignedAt(a, v)
  BY DEF input, AlignedAt
<1>1. CASE CheckInputs
  <2>1. /\ pc = "check" /\ pc' \in {"walk", "Err"} /\ a_start = 0 /\ v_base_dts = 0
        /\ UNCHANGED <<input, active, a_cursor, a_dts, v_dts, segments>>
    BY <1>1 DEF CheckInputs, AudioInv
  <2>2. audio.dts[0] = 0
    BY <1>0, InputFacts
  <2>3. AlignedAt(0, 0)
    BY <1>t, <2>2 DEF AlignedAt
  <2> QED
    BY <1>u, <2>1, <2>3 DEF AudioInv, Running, active, AlignedAt, input
<1>2. CASE WalkSample
  <2>1. /\ pc = "walk" /\ pc' \in {"walk", "Err"}
        /\ UNCHANGED <<input, active, a_cursor, segments>>
    BY <1>2 DEF WalkSample, Accumulate
  <2> QED
    BY <2>1 DEF AudioInv, Running, active, AlignedAt, input
<1>3. CASE BeginCut
  <2>1. /\ pc = "walk" /\ pc' \in {"advance", "Err"}
        /\ UNCHANGED <<input, active, a_cursor, segments, v_dts>>
    BY <1>3 DEF BeginCut
  <2>2. ~(a_cursor' > a_start')
    BY <1>t, <2>1 DEF AudioInv, active
  <2> QED
    BY <2>1, <2>2 DEF AudioInv, Running, active, AlignedAt, input
<1>4. CASE AdvanceAudio
  <2>1. /\ pc = "advance" /\ pc' \in {"advance", "Err"}
        /\ UNCHANGED <<input, active, segments, v_dts>>
        /\ a_dts < ScaleDtsCeil(v_dts) /\ a_dts = audio.dts[a_cursor] /\ Acceptable
    BY <1>0, <1>4 DEF AdvanceAudio, CursorInv, ActiveInv
  <2>2. pc' = "advance" => a_cursor' = a_cursor + 1
    BY <1>4, <2>1 DEF AdvanceAudio
  <2>3. audio.dts[a_cursor] * vTimescale < v_dts * aTimescale
    BY <1>0, <1>t, <2>1, BeforeBoundary
  <2>4. pc' = "advance" => audio.dts[a_cursor' - 1] * vTimescale < v_dts * aTimescale
    BY <1>t, <2>2, <2>3
  <2> QED
    BY <2>1, <2>4 DEF AudioInv, Running, active, AlignedAt, input
<1>5. CASE AdvanceDone
  <2>1. /\ pc = "advance" /\ pc' = "push" /\ a_dts = audio.dts[a_cursor] /\ Acceptable
        /\ UNCHANGED <<input, active, a_cursor, segments, v_dts>>
        /\ a_cursor < audio.count => ~(a_dts < ScaleDtsCeil(v_dts))
    BY <1>0, <1>5 DEF AdvanceDone, CursorInv, ActiveInv
  <2>2. a_cursor < audio.count => ~(audio.dts[a_cursor] * vTimescale < v_dts * aTimescale)
    BY <1>0, <1>t, <2>1, BeforeBoundary
  <2>3. a_cursor < audio.count => audio.dts[a_cursor] * vTimescale >= v_dts * aTimescale
    BY <1>t, <2>1, <2>2
  <2> QED
    BY <2>1, <2>3 DEF AudioInv, Running, active, AlignedAt, input
<1>6. CASE PushEmpty
  <2>1. pc' = "Err" /\ UNCHANGED <<input, active, a_cursor, segments, v_dts>>
    BY <1>6 DEF PushEmpty
  <2> QED
    BY <2>1 DEF AudioInv, Running, active, AlignedAt, input
<1>7. ASSUME NEW e, e.audio_sample_start = a_start, e.video_base_dts = v_base_dts, Running,
             segments' = Append(segments, e), segments \in Seq(Entries), e \in Entries,
             UNCHANGED input
      PROVE  \A k \in DOMAIN segments' :
               AlignedAt(segments'[k].audio_sample_start, segments'[k].video_base_dts)
  <2>1. \A k \in DOMAIN segments' :
          (k \in DOMAIN segments /\ segments'[k] = segments[k]) \/ segments'[k] = e
    <3>1. /\ Len(segments) \in Nat /\ DOMAIN segments = 1 .. Len(segments)
          /\ DOMAIN segments' = 1 .. Len(segments) + 1
          /\ \A k \in 1 .. Len(segments) : segments'[k] = segments[k]
          /\ segments'[Len(segments) + 1] = e
      BY <1>7, AppendTable
    <3> QED
      BY <3>1
  <2>2. AlignedAt(e.audio_sample_start, e.video_base_dts)
    BY <1>7 DEF AudioInv
  <2> QED
    BY <2>1, <2>2 DEF AudioInv
<1>8. CASE PushSegment
  <2> DEFINE e == SegmentEntry(i, a_cursor)
  <2>1. /\ pc = "push" /\ Pushable(e) /\ segments' = Append(segments, e)
        /\ pc' \in {"walk", "Err"} /\ a_cursor' = a_cursor
        /\ v_base_dts' = v_dts /\ a_start' = a_cursor /\ UNCHANGED input
    BY <1>8 DEF PushSegment, Accumulate
  <2>2. /\ Good(e) /\ e.audio_sample_start = a_start /\ e.video_base_dts = v_base_dts
        /\ e.audio_sample_count = a_cursor - a_start
    <3>1. /\ Running /\ i \in i .. video.count /\ a_cursor \in a_cursor .. audio.count
      BY <1>0, <1>t, <2>1, InputFacts, SMTT(30) DEF Running, TypeOK
    <3>2. e.audio_sample_count = a_cursor - a_start
      BY DEF SegmentEntry
    <3> QED
      BY <2>1, <3>1, <3>2, ActiveEntryGood
  <2>3. a_cursor > a_start
    BY <1>t, <2>2 DEF Good
  <2> HIDE DEF e
  <2>4. AlignedAt(a_cursor, v_dts)
    BY <1>t, <2>1, <2>3 DEF AudioInv, AlignedAt
  <2>5. \A k \in DOMAIN segments' :
          AlignedAt(segments'[k].audio_sample_start, segments'[k].video_base_dts)
    BY <1>0, <1>7, <2>1, <2>2 DEF Running, TableInv, Good
  <2> QED
    BY <2>1, <2>4, <2>5 DEF AudioInv, Running, AlignedAt, input
<1>9. CASE PushTail
  <2> DEFINE e == SegmentEntry(video.count, audio.count)
  <2>1. /\ pc = "walk" /\ pc' = "Ok" /\ segments' = Append(segments, e) /\ UNCHANGED input
        /\ i = video.count /\ Pushable(e)
    BY <1>9 DEF PushTail
  <2>2. /\ Good(e) /\ e.audio_sample_start = a_start /\ e.video_base_dts = v_base_dts
    <3>1. /\ Running /\ video.count \in i .. video.count /\ audio.count \in a_cursor .. audio.count
      BY <1>0, <1>t, <2>1, InputFacts DEF Running
    <3> QED
      BY <2>1, <3>1, ActiveEntryGood
  <2> HIDE DEF e
  <2>3. \A k \in DOMAIN segments' :
          AlignedAt(segments'[k].audio_sample_start, segments'[k].video_base_dts)
    BY <1>0, <1>7, <2>1, <2>2 DEF Running, TableInv, Good
  <2> QED
    BY <2>1, <2>3 DEF AudioInv, Running, AlignedAt, input
<1>10. CASE UNCHANGED vars
  BY <1>10 DEF vars, input, active, AudioInv, Running, AlignedAt
<1> QED
  BY <1>1, <1>2, <1>3, <1>4, <1>5, <1>6, <1>8, <1>9, <1>10 DEF Next

\* The audio of every segment starts with the first sample that does not start
\* before the segment's first video sample.
THEOREM AlwaysAudioAligned == Spec => []AudioAligned
<1>1. Init => AudioInv
  <2> SUFFICES ASSUME Init PROVE AudioInv
    OBVIOUS
  <2>1. DOMAIN segments = {}
    BY EmptySeq DEF Init
  <2> QED
    BY <2>1 DEF Init, AudioInv, Running
<1>2. IInv /\ AudioInv => AudioAligned
  <2> SUFFICES ASSUME IInv, AudioInv, NEW k \in DOMAIN segments
               PROVE  LET v == segments[k].video_base_dts
                          a == segments[k].audio_sample_start
                      IN  /\ audio.dts[a] * vTimescale >= v * aTimescale
                          /\ a > 0 => audio.dts[a - 1] * vTimescale < v * aTimescale
    BY DEF AudioAligned
  <2> DEFINE e == segments[k]
  <2>1. Good(e) /\ AlignedAt(e.audio_sample_start, e.video_base_dts)
    BY DEF IInv, TableInv, AudioInv
  <2>2. audio.count \in Nat
    BY InputFacts DEF IInv
  <2>3. e.audio_sample_start < audio.count
    BY <2>1, <2>2 DEF Good, AudioEnd, Entries
  <2> QED
    BY <2>1, <2>3 DEF AlignedAt
<1> QED
  BY <1>1, <1>2, InductiveInvariant, NextAudioInv, PTL DEF Spec

=============================================================================
