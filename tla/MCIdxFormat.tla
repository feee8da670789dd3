---------------------------- MODULE MCIdxFormat -----------------------------
(***************************************************************************)
(* Instances of IdxFormat for TLC.                                         *)
(***************************************************************************)
EXTENDS IdxFormat

CONSTANTS EntryLens, ElstLens, SampleCounts, PlaylistLens, InitLens

MCInputs ==
  [videoEntry : EntryLens, videoElst : ElstLens, audioEntry : EntryLens, audioElst : {0},
   videoSamples : SampleCounts, audioSamples : {1},
   segments : 1 .. 2,
   playlist : PlaylistLens, init : InitLens]

\* Off by one, by half a word and by a word; nothing; and as much as possible.
MCValues(v) == {0, U32Max} \cup {x \in {v - 8, v - 1, v + 1, v + 4, v + 8, v + 24} : x \in 0 .. U32Max}
=============================================================================
