------------------------------ MODULE MCServe -------------------------------
(***************************************************************************)
(* Archives and names for TLC.                                             *)
(***************************************************************************)
EXTENDS Serve

\* Samples with the given sizes, one after the other from an offset; c says which have
\* composition offsets.
Samples(from, sizes, c) ==
  LET at[i \in 1 .. Len(sizes)] == IF i = 1 THEN from ELSE at[i - 1] + sizes[i - 1]
  IN  [i \in DOMAIN sizes |->
        [offset |-> at[i], size |-> sizes[i], delta |-> 1 + (i % 2), cts |-> IF c THEN 2 - i ELSE 0]]

Ticks(track, m) ==
  LET sum[i \in 0 .. m] == IF i = 0 THEN 0 ELSE sum[i - 1] + track[i].delta IN sum[m]

\* Segments that start with the given samples of each track.
Segments(v, a, starts) ==
  [i \in DOMAIN starts |->
    LET Upto(t, all) == IF i < Len(starts) THEN starts[i + 1][t] ELSE all + 1
    IN  [videoStart |-> starts[i][1] - 1, videoCount |-> Upto(1, Len(v)) - starts[i][1],
         audioStart |-> starts[i][2] - 1, audioCount |-> Upto(2, Len(a)) - starts[i][2],
         videoBase |-> Ticks(v, starts[i][1] - 1), audioBase |-> Ticks(a, starts[i][2] - 1)]]

\* c: which tracks have composition offsets.
Archive(vs, as, c, starts, timescale, len) ==
  LET v == Samples(3, vs, "video" \in c)
      a == Samples(40, as, "audio" \in c)
  IN  [video |-> v, audio |-> a, segments |-> Segments(v, a, starts),
       timescale |-> timescale, sourceLen |-> len]

Ones(m) == [i \in 1 .. m |-> 1]
Each(m) == [i \in 1 .. m |-> <<i, i>>]

MCIndexes ==
  \* Samples of all sizes around the copy buffer, with and without composition offsets.
  {Archive(vs, <<2, 4>>, c, starts, ts, 50) :
     vs \in {<<0, 1, 3>>, <<5, 0, 2>>, <<4, 9, 0>>}, ts \in {3, 128},
     c \in {{}, {"video"}, {"audio"}, {"video", "audio"}},
     starts \in {<<<<1, 1>>>>, <<<<1, 1>>, <<2, 2>>>>, <<<<1, 1>>, <<3, 2>>>>}}
  \* So many segments that names get wider.
  \cup {Archive(Ones(m), Ones(m), {}, Each(m), 3, 50) : m \in 4 .. 5}
  \* At the ends of the source, of the numbers and of the sample tables.
  \cup {Archive(<<1, 1>>, <<2, 4>>, {}, <<<<1, 1>>>>, 3, len) : len \in 45 .. 46}
  \cup {Archive(<<1, m>>, <<2>>, {}, <<<<1, 1>>>>, 3, 60) : m \in 56 .. 57}
  \cup {Archive(<<1>>, <<m>>, {}, <<<<1, 1>>>>, 3, 1000) : m \in {302, 303, 510}}
  \cup {[Archive(<<1, 1>>, <<1>>, {}, <<<<1, 1>>>>, 3, 50) EXCEPT !.segments[1] = g @@ @] :
          g \in {"videoCount" :> 0, "audioCount" :> 0, "videoCount" :> 3, "audioStart" :> 1}}
  \cup {Archive(<<1, 1>>, <<1>>, {}, <<<<1, 1>>>>, 0, 50)}

Name(body) == [prefix |-> TRUE, suffix |-> TRUE, body |-> body]

MCStrays ==
  {Name(body) : body \in UNION {[1 .. w -> {0, 1}] : w \in 0 .. 4}}
    \cup {Name(<<0, NonDigit>>), Name(<<0, 1, NonDigit>>),
          [Name(<<0, 1>>) EXCEPT !.prefix = FALSE], [Name(<<0, 1>>) EXCEPT !.suffix = FALSE]}
=============================================================================
