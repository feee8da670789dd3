------------------------------ MODULE Playlist ------------------------------
(***************************************************************************)
(* The media playlist (crates/packager/src/playlist/m3u8.rs) and how the   *)
(* server reads the names in it (parse_segment_idx in                      *)
(* crates/server/src/handlers.rs).                                         *)
(*                                                                         *)
(* A file name is whether it has the prefix seg_ and the suffix .m4s, and  *)
(* what is between: digits of the base, or NonDigit.                       *)
(***************************************************************************)
EXTENDS Integers, Sequences, SequencesExt

CONSTANTS Base,          \* 10
          MinDigits,     \* SEG_MIN_DIGITS, and the width of the format {n:04}
          NumberMax,     \* u32::MAX
          Decimals       \* 10^6: EXTINF has 6 decimal places

ASSUME PlaylistAssumption ==
  Base \in Nat \ {0, 1} /\ MinDigits \in Nat \ {0} /\ NumberMax \in Nat /\ Decimals \in Nat

NonDigit == -1
NoSegment == -1

\* What a name has between prefix and suffix.
Characters == (0 .. Base - 1) \cup {NonDigit}

-----------------------------------------------------------------------------
\* segment_video_ticks: what the segment's video samples add up to.
SegmentTicks(samples) == FoldLeft(+, 0, [i \in DOMAIN samples |-> samples[i].delta])

Longest(ticks) == Max({0} \cup Range(ticks))

\* Faulty variant for PlaylistHonest: rounded down.
TargetDurationFloor(ticks, timescale) == Longest(ticks) \div timescale

\* EXT-X-TARGETDURATION: the longest segment, in seconds, rounded up.
TargetDuration(ticks, timescale) ==
  (Longest(ticks) + timescale - 1) \div timescale

\* The decimals printed for ticks / timescale: the nearest number; the quotient of
\* two f64 may be on either side of a tie.
Extinf(ticks, timescale) ==
  LET floor == (ticks * Decimals) \div timescale
  IN  {m \in {floor, floor + 1} :
         /\ 2 * (m * timescale - ticks * Decimals) <= timescale
         /\ 2 * (ticks * Decimals - m * timescale) <= timescale}

\* The powers of Base.
Power[w \in Nat] == IF w = 0 THEN 1 ELSE Base * Power[w - 1]

\* seg_{n:04}.m4s: at least MinDigits digits.
SegmentName(n) ==
  LET width == CHOOSE w \in MinDigits .. MinDigits + n :
                 Power[w] > n /\ (w = MinDigits \/ Power[w - 1] <= n)
  IN  [prefix |-> TRUE, suffix |-> TRUE,
       body |-> [i \in 1 .. width |-> (n \div Power[width - i]) % Base]]

\* The number that digits stand for.
ValueOf(body) == FoldLeft(LAMBDA n, d : Base * n + d, 0, body)

\* Faulty variant for NamesResolve: any number of digits will do.
IsSegmentNameShort(name) ==
  /\ name.prefix /\ name.suffix
  /\ Len(name.body) >= 1
  /\ \A i \in DOMAIN name.body : name.body[i] # NonDigit
  /\ ValueOf(name.body) <= NumberMax

\* seg_, at least MinDigits digits of a number that is not too large, .m4s.
IsSegmentName(name) ==
  /\ name.prefix /\ name.suffix
  /\ Len(name.body) >= MinDigits
  /\ \A i \in DOMAIN name.body : name.body[i] # NonDigit
  /\ ValueOf(name.body) <= NumberMax

\* parse_segment_idx: numbers in names start at 1.
ParseSegmentIdx(name) ==
  IF IsSegmentName(name) /\ ValueOf(name.body) >= 1 THEN ValueOf(name.body) - 1 ELSE NoSegment
=============================================================================
