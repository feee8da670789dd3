--------------------------- MODULE MCSampleTable ----------------------------
(***************************************************************************)
(* Instances of SampleTable for TLC: around consistent tracks, families of *)
(* tables in which every way to disagree occurs.                           *)
(***************************************************************************)
EXTENDS SampleTable, TLC

CONSTANT MaxSamples

Box(body) == [version |-> 0, count |-> Len(body), body |-> body]
SeqsUpTo(S, m) == UNION {[1 .. l -> S] : l \in 0 .. m}

\* stsz with entries, and with one size.
MCStsz ==
  {[version |-> 0, size |-> 0, count |-> Len(b), body |-> b] : b \in SeqsUpTo({1, 3}, MaxSamples)}
    \cup {[version |-> 0, size |-> 2, count |-> m, body |-> <<>>] : m \in 0 .. MaxSamples}

\* A consistent track of one chunk.
MCPlain(z) ==
  [stsz |-> z, stts |-> Box(<<<<z.count, 1>>>>), ctts |-> Absent, stss |-> Absent,
   stsc |-> Box(<<<<1, z.count, 1>>>>), stco |-> Box(<<4>>)]

\* Runs that add up to the number of samples and runs that do not; zero runs.
MCRuns == {Box([i \in DOMAIN c |-> <<c[i], i>>]) : c \in SeqsUpTo(0 .. MaxSamples, 2)}

MCCtts == {[version |-> v, count |-> b.count,
            body |-> [i \in DOMAIN b.body |-> <<b.body[i][1], IF i = 1 THEN 7 ELSE 3>>]] :
           b \in MCRuns, v \in 0 .. 2}

\* Ascending, descending, zero and too large chunk numbers.
MCStsc == {Box([i \in DOMAIN e |-> <<e[i][1], e[i][2], 1>>]) :
             e \in SeqsUpTo((0 .. 3) \X (0 .. 2), 2)}
          \cup {Box(<<<<1, a, 1>>, <<2, b, 1>>, <<3, c, 1>>>>) : a, b, c \in 0 .. 2}

\* Up to three chunks; the last offset is at the end of u64.
MCStco == {Box(c) : c \in SeqsUpTo({0, 5}, 2)} \cup {Box(<<0, 5, U64Max - 2>>), Box(<<U64Max>>)}

MCMalformed ==
  {[stsz |-> [version |-> 1, size |-> 1, count |-> 1, body |-> <<>>]],
   [stsz |-> [version |-> 0, size |-> 1, count |-> 1, body |-> <<1>>]],
   [stsz |-> [version |-> 0, size |-> 0, count |-> 2, body |-> <<1>>]],
   [stts |-> [version |-> 1, count |-> 1, body |-> <<<<1, 1>>>>]],
   [stco |-> [version |-> 0, count |-> 2, body |-> <<4>>]],
   [stsc |-> Box(<<<<1, 1, 2>>>>)],
   [stss |-> [version |-> 0, count |-> 0, body |-> <<1>>]]}

\* What replaces the tables of a plain track.
MCDeviations ==
  {[stts |-> r, ctts |-> c] : r \in MCRuns, c \in MCCtts}
    \cup {[stsc |-> c, stco |-> o] : c \in MCStsc, o \in MCStco}
    \cup {[stss |-> Box(s), stts |-> r] : s \in SeqsUpTo(0 .. MaxSamples + 1, 2), r \in MCRuns}
    \cup MCMalformed

MCTables == {d @@ MCPlain(z) : z \in MCStsz, d \in MCDeviations}
=============================================================================
