----------------------------- MODULE MCSplitter -----------------------------
(***************************************************************************)
(* Instances of Splitter for TLC: every track of up to MaxVideo video and  *)
(* MaxAudio audio samples with the given durations.                        *)
(***************************************************************************)
EXTENDS Splitter

CONSTANTS MaxVideo, MaxAudio, VideoDeltas, AudioDeltas

\* The start times of samples with durations d[1], d[2], ...
MCPrefixSums(d) ==
  LET t[n \in 0 .. Len(d)] == IF n = 0 THEN 0 ELSE t[n - 1] + d[n] IN t

\* Tracks of the given lengths, without sync flags.
MCTracks(lens, deltas) ==
  {t \in UNION {{[count |-> n, dts |-> MCPrefixSums(d)] : d \in [1 .. n -> deltas]} : n \in lens} :
     StartTimes(t.dts, t.count)}

MCAudios == MCTracks(0 .. MaxAudio, AudioDeltas)

\* Every choice of sync samples; a first sample that is none is enough once.
MCVideos ==
  {v \in UNION {{[count |-> t.count, dts |-> t.dts, sync |-> s] :
                   s \in [0 .. t.count - 1 -> BOOLEAN]} :
                t \in MCTracks(0 .. MaxVideo, VideoDeltas)} :
     v.count > 1 => v.sync[0]}

\* Neither timescale divides the other; and one that split refuses.
MCTimescales == {<<2, 3>>, <<3, 2>>, <<1, 0>>}

\* Not positive; a fraction of a tick's multiple; longer than a sample.
MCNominals == {[num |-> 0, den |-> 1], [num |-> 1, den |-> 4], [num |-> 3, den |-> 2]}
=============================================================================
