------------------------- MODULE SampleTableProofs --------------------------
(***************************************************************************)
(* Proofs about SampleTable, for every set of tables.                      *)
(***************************************************************************)
EXTENDS SampleTable, NaturalsInduction, WellFoundedInduction, TLAPS

\* walk has left the given state behind.
After(p) ==
  \/ p = "read" /\ pc \in {"stts", "ctts", "stss", "stsc", "chunk", "sample", "Ok"}
  \/ p = "stts" /\ pc \in {"ctts", "stss", "stsc", "chunk", "sample", "Ok"}
  \/ p = "ctts" /\ pc \in {"stss", "stsc", "chunk", "sample", "Ok"}
  \/ p = "stss" /\ pc \in {"stsc", "chunk", "sample", "Ok"}
  \/ p = "stsc" /\ pc \in {"chunk", "sample", "Ok"}

Row == [offset : Nat, size : Nat, dtsDelta : Int, ctsOffset : Int, isSync : BOOLEAN]

TypeOK ==
  /\ t \in Tables
  /\ pc \in {"read", "stts", "ctts", "stss", "stsc", "chunk", "sample", "Ok", "Err"}
  /\ sizes \in Seq(Nat)
  /\ out \in [{"stts", "ctts"} -> Seq(Int)]
  /\ perChunk \in Seq(Nat)
  /\ k \in Nat /\ j \in Nat /\ off \in Nat
  /\ samples \in Seq(Row)

ReadInv == After("read") => Readable /\ sizes = Sizes

Body(atom) == t[atom].body
RunTotal(atom, m) == Total(Counts(Body(atom)), m)

\* The first m runs of a table are expanded.
Expanded(atom, m) ==
  /\ m <= Len(Body(atom))
  /\ Len(out[atom]) = RunTotal(atom, m)
  /\ \A r \in 1 .. m : \A i \in Nat :
       RunTotal(atom, r - 1) < i /\ i <= RunTotal(atom, r) =>
         out[atom][i] = RunValue(atom, Body(atom)[r])

\* Every sample has its value.
Complete(atom) == Expanded(atom, Len(Body(atom))) /\ Len(out[atom]) = Samples

RunsInv ==
  /\ pc = "read" => out["stts"] = <<>>
  /\ pc = "stts" => Expanded("stts", k)
  /\ pc \in {"read", "stts"} => out["ctts"] = <<>>
  /\ After("stts") => Complete("stts")
  /\ pc = "ctts" /\ t.ctts # Absent => Expanded("ctts", k)
  /\ After("ctts") => IF t.ctts = Absent THEN out["ctts"] = Copies(Samples, 0)
                      ELSE Complete("ctts")

IsSync(i) == t.stss # Absent => \E m \in DOMAIN t.stss.body : t.stss.body[m] = i

SyncInv ==
  After("stss") =>
    /\ t.stss # Absent => \A i \in DOMAIN t.stss.body : t.stss.body[i] \in 1 .. Samples
    /\ \A i \in 1 .. Samples : i \in sync <=> IsSync(i)

First(e) == t.stsc.body[e][1]
NextFirst(e) == IF e < Len(t.stsc.body) THEN First(e + 1) ELSE Len(t.stco.body) + 1

\* The chunks of the first k entries of stsc have their number of samples.
ChunkInv ==
  /\ pc = "stsc" =>
       /\ k <= Len(t.stsc.body) /\ Len(perChunk) = Len(t.stco.body)
       /\ \A e \in 1 .. k : /\ StscEntryOK(e) /\ NextFirst(e) <= NextFirst(k)
                            /\ \A c \in First(e) .. NextFirst(e) - 1 :
                                 c \in DOMAIN perChunk => perChunk[c] = t.stsc.body[e][2]
  /\ After("stsc") => ChunksCovered /\ perChunk = ChunkCounts

\* Where the walk over the chunks is.
WalkInv ==
  /\ pc \in {"read", "stts", "ctts", "stss", "stsc"} => samples = <<>>
  /\ pc \in {"chunk", "sample"} => k <= Len(t.stco.body)
  /\ pc = "chunk" => Len(samples) = Total(ChunkCounts, k)
  /\ pc = "sample" =>
       /\ k < Len(t.stco.body) /\ j <= ChunkCounts[k + 1]
       /\ Len(samples) = Total(ChunkCounts, k) + j
       /\ off = t.stco.body[k + 1] + Total(Sizes, Len(samples)) - Total(Sizes, Total(ChunkCounts, k))
  /\ pc \in {"chunk", "sample"} => Len(samples) <= Samples
  /\ pc = "Ok" => Len(samples) = Samples /\ Total(ChunkCounts, Len(t.stco.body)) = Samples
  /\ \A i \in DOMAIN samples : samples[i].offset + samples[i].size <= U64Max

ErrInv == pc = "Err" => ~Consistent

KInv == pc \in {"read", "stss"} => k = 0

IInv == /\ TypeOK /\ ReadInv /\ RunsInv /\ SyncInv /\ ChunkInv /\ WalkInv
        /\ RowsExact /\ ErrInv /\ KInv

-----------------------------------------------------------------------------
\* Every nonempty set of natural numbers has a least element.
LEMMA LeastElement ==
  ASSUME NEW S \in SUBSET Nat, S # {}
  PROVE  \E x \in S : \A y \in S : x <= y
<1> DEFINE R == {ss \in Nat \X Nat : ss[1] < ss[2]}
<1>1. IsWellFoundedOn(R, Nat)
  BY NatLessThanWellFounded DEF OpToRel
<1>2. ASSUME NEW x \in S, NEW y \in S
      PROVE  <<y, x>> \in R <=> y < x
  OBVIOUS
<1> HIDE DEF R
<1>3. PICK x \in S : \A y \in S : ~(<<y, x>> \in R)
  BY <1>1, WFMin
<1>4. \A y \in S : ~(y < x)
  BY <1>2, <1>3
<1> QED
  BY <1>4

\* Induction: a set of natural numbers is empty if it has no number that is zero
\* or whose predecessor is not in it.
LEMMA NoneIn ==
  ASSUME NEW S \in SUBSET Nat, 0 \notin S, \A x \in Nat : x \notin S => x + 1 \notin S
  PROVE  S = {}
<1> SUFFICES ASSUME S # {} PROVE FALSE
  OBVIOUS
<1>1. PICK x \in S : \A y \in S : x <= y
  BY LeastElement
<1>2. x \in Nat /\ x # 0 /\ x - 1 \in Nat
  OBVIOUS
<1>3. x - 1 \notin S
  BY <1>1, <1>2
<1>4. x - 1 + 1 = x
  BY <1>2
<1> QED
  BY <1>1, <1>2, <1>3, <1>4

-----------------------------------------------------------------------------
(***************************************************************************)
(* Total, the sum that the meaning of the tables is stated with.           *)
(***************************************************************************)
SumsUpTo(s, f, m) == s = [x \in 0 .. m |-> IF x = 0 THEN 0 ELSE s[x - 1] + f[x]]

\* A total is the last of the sums that a recursive function gives.
LEMMA TotalIs ==
  ASSUME NEW f, NEW m
  PROVE  Total(f, m) = (CHOOSE s : SumsUpTo(s, f, m))[m]
  BY DEF Total, SumsUpTo

\* Each sum adds one number to the one before,
LEMMA SumsStep ==
  ASSUME NEW s, NEW f, NEW m \in Nat, SumsUpTo(s, f, m)
  PROVE  /\ s[0] = 0
         /\ \A x \in 1 .. m : s[x] = s[x - 1] + f[x]
<1>1. \A x \in 0 .. m : s[x] = IF x = 0 THEN 0 ELSE s[x - 1] + f[x]
  BY DEF SumsUpTo
<1>2. 0 \in 0 .. m /\ \A x \in 1 .. m : x \in 0 .. m /\ x # 0
  OBVIOUS
<1> QED
  BY <1>1, <1>2

\* and the sums exist.
LEMMA SumsExist ==
  ASSUME NEW f, NEW m \in Nat
  PROVE  \E s : SumsUpTo(s, f, m)
<1> DEFINE S == {x \in Nat : ~\E s : SumsUpTo(s, f, x)}
<1>1. 0 \notin S
  <2> DEFINE s == [x \in 0 .. 0 |-> 0]
  <2>1. \A x \in 0 .. 0 : x = 0
    OBVIOUS
  <2>2. s = [x \in 0 .. 0 |-> IF x = 0 THEN 0 ELSE s[x - 1] + f[x]]
    BY <2>1
  <2>3. SumsUpTo(s, f, 0)
    BY <2>2 DEF SumsUpTo
  <2> QED
    BY <2>3
<1>2. ASSUME NEW x \in Nat, x \notin S PROVE x + 1 \notin S
  <2>1. PICK s : SumsUpTo(s, f, x)
    BY <1>2
  <2> DEFINE u == [y \in 0 .. x + 1 |-> IF y = 0 THEN 0 ELSE s[y - 1] + f[y]]
  <2>2. ASSUME NEW y \in 0 .. x PROVE u[y] = s[y]
    <3>1. s[y] = IF y = 0 THEN 0 ELSE s[y - 1] + f[y]
      BY <2>1 DEF SumsUpTo
    <3>2. y \in 0 .. x + 1
      OBVIOUS
    <3> QED
      BY <3>1, <3>2
  <2>3. ASSUME NEW y \in 0 .. x + 1, y # 0 PROVE s[y - 1] = u[y - 1]
    <3>1. y - 1 \in 0 .. x
      BY <2>3
    <3> HIDE DEF u
    <3> QED
      BY <2>2, <3>1
  <2>4. u = [y \in 0 .. x + 1 |-> IF y = 0 THEN 0 ELSE u[y - 1] + f[y]]
    BY <2>3
  <2>5. SumsUpTo(u, f, x + 1)
    <3> HIDE DEF u
    <3> QED
      BY <2>4 DEF SumsUpTo
  <2> QED
    BY <2>5
<1>3. S \in SUBSET Nat
  OBVIOUS
<1>4. S = {}
  <2> HIDE DEF S
  <2> QED
    BY <1>1, <1>2, <1>3, NoneIn
<1> QED
  BY <1>4

\* Sums up to different limits agree.
LEMMA SumsAgree ==
  ASSUME NEW f, NEW a \in Nat, NEW s, SumsUpTo(s, f, a), NEW u, SumsUpTo(u, f, a + 1)
  PROVE  s[a] = u[a]
<1> DEFINE S == {x \in Nat : x <= a /\ s[x] # u[x]}
<1>1. s[0] = 0 /\ \A x \in 1 .. a : s[x] = s[x - 1] + f[x]
  BY SumsStep
<1>2. u[0] = 0 /\ \A x \in 1 .. a + 1 : u[x] = u[x - 1] + f[x]
  <2>1. a + 1 \in Nat
    OBVIOUS
  <2> QED
    BY <2>1, SumsStep
<1>3. 0 \notin S
  BY <1>1, <1>2
<1>4. ASSUME NEW x \in Nat, x \notin S PROVE x + 1 \notin S
  <2> SUFFICES ASSUME x + 1 <= a PROVE s[x + 1] = u[x + 1]
    OBVIOUS
  <2>1. s[x] = u[x]
    BY <1>4
  <2>2. x + 1 \in 1 .. a /\ x + 1 \in 1 .. a + 1 /\ x + 1 - 1 = x
    OBVIOUS
  <2>3. s[x + 1] = s[x] + f[x + 1]
    BY <1>1, <2>2
  <2>4. u[x + 1] = u[x] + f[x + 1]
    BY <1>2, <2>2
  <2> QED
    BY <2>1, <2>3, <2>4
<1>5. S \in SUBSET Nat
  OBVIOUS
<1>6. S = {}
  <2> HIDE DEF S
  <2> QED
    BY <1>3, <1>4, <1>5, NoneIn
<1> QED
  BY <1>6

\* Total adds up one by one.
LEMMA TotalStep ==
  ASSUME NEW f, NEW m \in Nat
  PROVE  Total(f, 0) = 0 /\ Total(f, m + 1) = Total(f, m) + f[m + 1]
<1> DEFINE s(x) == CHOOSE s : SumsUpTo(s, f, x)
<1>1. \A x \in Nat : SumsUpTo(s(x), f, x)
  BY SumsExist
<1>2. \A x : Total(f, x) = s(x)[x]
  BY TotalIs
<1> HIDE DEF s
<1>3. 0 \in Nat /\ m + 1 \in Nat /\ m + 1 \in 1 .. m + 1 /\ m + 1 - 1 = m
  OBVIOUS
<1>4. s(0)[0] = 0
  BY <1>1, <1>3, SumsStep
<1>5. s(m + 1)[m + 1] = s(m + 1)[m] + f[m + 1]
  <2>1. SumsUpTo(s(m + 1), f, m + 1)
    BY <1>1, <1>3
  <2>2. \A x \in 1 .. m + 1 : s(m + 1)[x] = s(m + 1)[x - 1] + f[x]
    BY <1>3, <2>1, SumsStep
  <2> QED
    BY <1>3, <2>2
<1>6. s(m)[m] = s(m + 1)[m]
  <2>1. SumsUpTo(s(m), f, m) /\ SumsUpTo(s(m + 1), f, m + 1)
    BY <1>1, <1>3
  <2> QED
    BY <2>1, SumsAgree
<1> QED
  BY <1>2, <1>4, <1>5, <1>6

\* f counts something for each of 1 .. l.
CountsUpTo(f, l) == l \in Nat /\ DOMAIN f = 1 .. l /\ \A x \in 1 .. l : f[x] \in Nat

\* Totals of natural numbers are natural numbers,
LEMMA TotalNat ==
  ASSUME NEW f, NEW l, CountsUpTo(f, l)
  PROVE  \A m \in 0 .. l : Total(f, m) \in Nat
<1> DEFINE S == {x \in Nat : x <= l /\ Total(f, x) \notin Nat}
<1>0. l \in Nat /\ \A x \in 1 .. l : f[x] \in Nat
  BY DEF CountsUpTo
<1>1. 0 \notin S
  BY TotalStep
<1>2. ASSUME NEW x \in Nat, x \notin S PROVE x + 1 \notin S
  <2> SUFFICES ASSUME x + 1 <= l PROVE Total(f, x + 1) \in Nat
    OBVIOUS
  <2>1. Total(f, x) \in Nat
    BY <1>0, <1>2
  <2>2. x + 1 \in 1 .. l
    BY <1>0
  <2>3. f[x + 1] \in Nat
    BY <1>0, <2>2
  <2>4. Total(f, x + 1) = Total(f, x) + f[x + 1]
    BY TotalStep
  <2> QED
    BY <2>1, <2>3, <2>4
<1>3. S \in SUBSET Nat
  OBVIOUS
<1>4. S = {}
  <2> HIDE DEF S
  <2> QED
    BY <1>1, <1>2, <1>3, NoneIn
<1> QED
  BY <1>0, <1>4

\* and grow with the number of summands.
LEMMA TotalGrows ==
  ASSUME NEW f, NEW l, CountsUpTo(f, l), NEW a \in 0 .. l, NEW b \in 0 .. l, a <= b
  PROVE  Total(f, a) <= Total(f, b)
<1> DEFINE S == {x \in Nat : a + x <= l /\ ~(Total(f, a) <= Total(f, a + x))}
<1>0. /\ l \in Nat /\ a \in Nat /\ \A x \in 1 .. l : f[x] \in Nat
      /\ \A m \in 0 .. l : Total(f, m) \in Nat
  <2>1. l \in Nat /\ \A x \in 1 .. l : f[x] \in Nat
    BY DEF CountsUpTo
  <2>2. \A m \in 0 .. l : Total(f, m) \in Nat
    BY TotalNat
  <2> QED
    BY <2>1, <2>2
<1>1. 0 \notin S
  <2>1. a + 0 = a /\ Total(f, a) \in Nat
    BY <1>0
  <2> QED
    BY <2>1
<1>2. ASSUME NEW x \in Nat, x \notin S PROVE x + 1 \notin S
  <2> SUFFICES ASSUME a + (x + 1) <= l PROVE Total(f, a) <= Total(f, a + (x + 1))
    OBVIOUS
  <2>1. a + x \in 0 .. l /\ a + x + 1 \in 1 .. l /\ a + x \in Nat /\ a + (x + 1) = a + x + 1
    BY <1>0
  <2>2. Total(f, a) <= Total(f, a + x)
    BY <1>0, <1>2, <2>1
  <2>3. Total(f, a + x + 1) = Total(f, a + x) + f[a + x + 1]
    BY <2>1, TotalStep
  <2>4. f[a + x + 1] \in Nat /\ Total(f, a + x) \in Nat /\ Total(f, a) \in Nat
    BY <1>0, <2>1
  <2> QED
    BY <2>1, <2>2, <2>3, <2>4
<1>3. S \in SUBSET Nat
  OBVIOUS
<1>4. S = {}
  <2> HIDE DEF S
  <2> QED
    BY <1>1, <1>2, <1>3, NoneIn
<1>5. b - a \in Nat /\ a + (b - a) = b /\ b <= l
  BY <1>0
<1>6. b - a \notin S
  BY <1>4
<1> QED
  BY <1>5, <1>6

\* An item falls into one entry only.
LEMMA EntryIs ==
  ASSUME NEW f, NEW l, CountsUpTo(f, l), NEW r \in 1 .. l, NEW i \in Nat,
         Total(f, r - 1) < i, i <= Total(f, r)
  PROVE  EntryOf(f, i) = r
<1>0. l \in Nat /\ DOMAIN f = 1 .. l
  BY DEF CountsUpTo
<1>1. \A m \in 0 .. l : Total(f, m) \in Nat
  BY TotalNat
<1>2. ASSUME NEW q \in 1 .. l, Total(f, q - 1) < i, i <= Total(f, q) PROVE q = r
  <2>1. q \in 0 .. l /\ q - 1 \in 0 .. l /\ r \in 0 .. l /\ r - 1 \in 0 .. l
    BY <1>0
  <2>2. /\ Total(f, q) \in Nat /\ Total(f, q - 1) \in Nat
        /\ Total(f, r) \in Nat /\ Total(f, r - 1) \in Nat
    BY <1>1, <2>1
  <2>3. CASE q < r
    <3>1. q <= r - 1
      BY <1>0, <2>3
    <3>2. Total(f, q) <= Total(f, r - 1)
      BY <2>1, <3>1, TotalGrows
    <3> QED
      BY <1>2, <2>2, <3>2
  <2>4. CASE r < q
    <3>1. r <= q - 1
      BY <1>0, <2>4
    <3>2. Total(f, r) <= Total(f, q - 1)
      BY <2>1, <3>1, TotalGrows
    <3> QED
      BY <1>2, <2>2, <3>2
  <2> QED
    BY <1>0, <2>3, <2>4
<1> QED
  BY <1>0, <1>2 DEF EntryOf

\* An item that is counted falls into an entry.
LEMMA EntryExists ==
  ASSUME NEW f, NEW l, CountsUpTo(f, l), NEW i \in Nat \ {0}, i <= Total(f, l)
  PROVE  \E r \in 1 .. l : Total(f, r - 1) < i /\ i <= Total(f, r)
<1> DEFINE S == {x \in Nat : x <= l /\ i <= Total(f, x)}
<1>0. l \in Nat /\ \A m \in 0 .. l : Total(f, m) \in Nat
  BY TotalNat DEF CountsUpTo
<1>1. l \in S /\ S \in SUBSET Nat
  BY <1>0
<1>2. PICK r \in S : \A y \in S : r <= y
  <2> HIDE DEF S
  <2> QED
    BY <1>1, LeastElement
<1>3. r # 0
  BY TotalStep
<1>4. r \in 1 .. l /\ r - 1 \in Nat /\ r - 1 \in 0 .. l /\ i <= Total(f, r)
  BY <1>0, <1>3
<1>5. r - 1 \notin S
  <2> HIDE DEF S
  <2> QED
    BY <1>2, <1>4
<1>6. Total(f, r - 1) < i
  BY <1>0, <1>4, <1>5
<1> QED
  BY <1>4, <1>6

-----------------------------------------------------------------------------
(***************************************************************************)
(* The tables of a track.                                                  *)
(***************************************************************************)
LEMMA Fields == t["stts"] = t.stts /\ t["ctts"] = t.ctts
  OBVIOUS

\* What the sequences of the tables are made of.
LEMMA TableTypes ==
  ASSUME t \in Tables
  PROVE  /\ t.stsz.size \in Nat /\ Samples \in Nat /\ t.stsz.body \in Seq(Nat)
         /\ t.stts # Absent /\ Body("stts") \in Seq(Nat \X Nat)
         /\ t.ctts # Absent => Body("ctts") \in Seq(Nat \X (0 .. U32 - 1))
         /\ t.stsc.body \in Seq(Nat \X Nat \X Nat)
         /\ t.stco.body \in Seq(Nat)
         /\ t.stss # Absent => t.stss.body \in Seq(Nat)
  BY TablesAssumption, Fields DEF Samples, Body

\* A run has a count, and a value that is a number.
LEMMA RunTypes ==
  ASSUME t \in Tables, NEW atom \in {"stts", "ctts"}, t[atom] # Absent
  PROVE  /\ CountsUpTo(Counts(Body(atom)), Len(Body(atom)))
         /\ DOMAIN Body(atom) = 1 .. Len(Body(atom))
         /\ \A r \in 1 .. Len(Body(atom)) :
              /\ Counts(Body(atom))[r] = Body(atom)[r][1] /\ Body(atom)[r][1] \in Nat
              /\ Body(atom)[r][2] \in Nat /\ RunValue(atom, Body(atom)[r]) \in Int
<1> DEFINE b == Body(atom)
<1>1. b \in Seq(Nat \X Nat)
  <2>1. CASE atom = "stts"
    BY <2>1, TableTypes
  <2>2. CASE atom = "ctts"
    <3>1. b \in Seq(Nat \X (0 .. U32 - 1))
      BY <2>2, TableTypes, Fields
    <3>2. Nat \X (0 .. U32 - 1) \subseteq Nat \X Nat
      BY WidthAssumption
    <3> HIDE DEF b
    <3> QED
      BY <3>1, <3>2
  <2> QED
    BY <2>1, <2>2
<1> HIDE DEF b
<1>2. Len(b) \in Nat /\ DOMAIN b = 1 .. Len(b) /\ \A r \in 1 .. Len(b) : b[r] \in Nat \X Nat
  BY <1>1
<1>3. \A r \in 1 .. Len(b) : b[r][1] \in Nat /\ b[r][2] \in Nat
  BY <1>2
<1>4. /\ DOMAIN Counts(b) = 1 .. Len(b)
      /\ \A r \in 1 .. Len(b) : Counts(b)[r] = b[r][1]
  BY <1>2 DEF Counts
<1>5. CountsUpTo(Counts(b), Len(b))
  BY <1>2, <1>3, <1>4 DEF CountsUpTo
<1>6. \A r \in 1 .. Len(b) : RunValue(atom, b[r]) \in Int
  BY <1>3, WidthAssumption DEF RunValue
<1> QED
  BY <1>2, <1>3, <1>4, <1>5, <1>6 DEF b

\* The totals of the runs.
LEMMA RunTotals ==
  ASSUME t \in Tables, NEW atom \in {"stts", "ctts"}, t[atom] # Absent
  PROVE  /\ RunTotal(atom, 0) = 0
         /\ \A m \in 0 .. Len(Body(atom)) :
              RunTotal(atom, m) \in Nat /\ RunTotal(atom, m) <= RunTotal(atom, Len(Body(atom)))
         /\ \A m \in Nat : m + 1 \in 1 .. Len(Body(atom)) =>
              RunTotal(atom, m + 1) = RunTotal(atom, m) + Body(atom)[m + 1][1]
<1> DEFINE f == Counts(Body(atom))
           l == Len(Body(atom))
<1>1. CountsUpTo(f, l) /\ \A r \in 1 .. l : f[r] = Body(atom)[r][1]
  BY RunTypes
<1>2. l \in Nat
  BY <1>1 DEF CountsUpTo
<1> HIDE DEF f, l
<1>3. \A m \in 0 .. l : Total(f, m) \in Nat
  BY <1>1, TotalNat
<1>4. ASSUME NEW m \in 0 .. l PROVE Total(f, m) <= Total(f, l)
  <2>1. l \in 0 .. l /\ m <= l
    BY <1>2
  <2> QED
    BY <1>1, <2>1, TotalGrows
<1>5. \A m \in Nat : Total(f, m + 1) = Total(f, m) + f[m + 1]
  BY TotalStep
<1>6. Total(f, 0) = 0
  BY TotalStep
<1> QED
  BY <1>1, <1>3, <1>4, <1>5, <1>6 DEF RunTotal, f, l

\* Sizes has a size for each sample.
LEMMA SizesType ==
  ASSUME t \in Tables, Readable
  PROVE  /\ CountsUpTo(Sizes, Samples)
         /\ StszSizes(t.stsz) = Sizes /\ Sizes \in Seq(Nat) /\ Len(Sizes) = Samples
<1>0. /\ t.stsz.size \in Nat /\ Samples \in Nat /\ t.stsz.body \in Seq(Nat)
      /\ Len(t.stsz.body) = IF t.stsz.size # 0 THEN 0 ELSE Samples
  BY TableTypes DEF Readable, StszOK, Samples
<1>1. CASE t.stsz.size # 0
  <2>1. Sizes = [i \in 1 .. Samples |-> t.stsz.size]
    BY <1>1 DEF Sizes
  <2>2. StszSizes(t.stsz) = [i \in 1 .. Samples |-> t.stsz.size]
    BY <1>1 DEF StszSizes, Copies, Samples
  <2> QED
    BY <1>0, <2>1, <2>2 DEF CountsUpTo
<1>2. CASE t.stsz.size = 0
  <2> DEFINE b == t.stsz.body
  <2>1. b \in Seq(Nat) /\ Len(b) = Samples /\ StszSizes(t.stsz) = b
    BY <1>0, <1>2 DEF StszSizes
  <2>2. Sizes = [i \in 1 .. Samples |-> b[i]]
    BY <1>2 DEF Sizes
  <2> HIDE DEF b
  <2>3. b = [i \in 1 .. Samples |-> b[i]]
    BY <2>1
  <2> QED
    <3>1. Sizes = b
      BY <2>2, <2>3
    <3>2. CountsUpTo(b, Samples)
      BY <1>0, <2>1 DEF CountsUpTo
    <3> QED
      BY <2>1, <3>1, <3>2
<1> QED
  BY <1>0, <1>1, <1>2

\* Firsts and counts of stsc are numbers.
LEMMA StscTypes ==
  ASSUME t \in Tables
  PROVE  /\ Len(t.stsc.body) \in Nat /\ DOMAIN t.stsc.body = 1 .. Len(t.stsc.body)
         /\ Len(t.stco.body) \in Nat /\ DOMAIN t.stco.body = 1 .. Len(t.stco.body)
         /\ \A e \in 1 .. Len(t.stsc.body) :
              First(e) \in Nat /\ NextFirst(e) \in Nat /\ t.stsc.body[e][2] \in Nat
         /\ \A c \in 1 .. Len(t.stco.body) : t.stco.body[c] \in Nat
<1> DEFINE l == Len(t.stsc.body)
<1>1. t.stsc.body \in Seq(Nat \X Nat \X Nat) /\ t.stco.body \in Seq(Nat)
  BY TableTypes
<1>2. l \in Nat /\ DOMAIN t.stsc.body = 1 .. l /\ \A e \in 1 .. l : t.stsc.body[e] \in Nat \X Nat \X Nat
  BY <1>1
<1>3. /\ Len(t.stco.body) \in Nat /\ DOMAIN t.stco.body = 1 .. Len(t.stco.body)
      /\ \A c \in 1 .. Len(t.stco.body) : t.stco.body[c] \in Nat
  BY <1>1
<1>4. \A e \in 1 .. l : First(e) \in Nat /\ t.stsc.body[e][2] \in Nat
  BY <1>2 DEF First
<1>5. ASSUME NEW e \in 1 .. l PROVE NextFirst(e) \in Nat
  <2>1. CASE e < l
    <3>1. e + 1 \in 1 .. l
      BY <1>2, <2>1
    <3> QED
      BY <1>4, <2>1, <3>1 DEF NextFirst
  <2>2. CASE ~(e < l)
    BY <1>3, <2>2 DEF NextFirst
  <2> QED
    BY <2>1, <2>2
<1> QED
  BY <1>2, <1>3, <1>4, <1>5

\* The entries of stsc that expand_stsc accepts are in order.
LEMMA FirstsGrow ==
  ASSUME t \in Tables, \A e \in 1 .. Len(t.stsc.body) - 1 : First(e) < First(e + 1),
         NEW a \in 1 .. Len(t.stsc.body), NEW b \in 1 .. Len(t.stsc.body), a <= b
  PROVE  First(a) <= First(b)
<1> DEFINE l == Len(t.stsc.body)
           S == {x \in Nat : a + x <= l /\ ~(First(a) <= First(a + x))}
<1>0. l \in Nat /\ \A e \in 1 .. l : First(e) \in Nat
  BY StscTypes
<1> HIDE DEF l
<1>1. 0 \notin S
  <2>1. a + 0 = a /\ First(a) \in Nat
    BY <1>0 DEF l
  <2> QED
    BY <2>1
<1>2. ASSUME NEW x \in Nat, x \notin S PROVE x + 1 \notin S
  <2> SUFFICES ASSUME a + (x + 1) <= l PROVE First(a) <= First(a + (x + 1))
    OBVIOUS
  <2>0. a \in Nat /\ a >= 1
    BY <1>0 DEF l
  <2>1. a + x \in 1 .. l /\ a + x \in 1 .. l - 1 /\ a + x + 1 \in 1 .. l /\ a + (x + 1) = a + x + 1
    BY <1>0, <2>0
  <2>2. First(a) <= First(a + x)
    BY <1>0, <1>2, <2>0, <2>1
  <2>3. First(a + x) < First(a + x + 1)
    BY <2>1 DEF l
  <2>4. First(a) \in Nat /\ First(a + x) \in Nat /\ First(a + x + 1) \in Nat
    BY <1>0, <2>1 DEF l
  <2> QED
    BY <2>1, <2>2, <2>3, <2>4
<1>3. S \in SUBSET Nat
  OBVIOUS
<1>4. S = {}
  <2> HIDE DEF S
  <2> QED
    BY <1>1, <1>2, <1>3, NoneIn
<1>5. b - a \in Nat /\ a + (b - a) = b /\ b <= l
  BY <1>0 DEF l
<1>6. b - a \notin S
  BY <1>4
<1> QED
  BY <1>5, <1>6

\* expand_stsc refuses no entry of a table that covers the chunks.
LEMMA CoveredEntries ==
  ASSUME t \in Tables, ChunksCovered, Len(perChunk) = Len(t.stco.body),
         NEW e \in 1 .. Len(t.stsc.body)
  PROVE  StscEntryOK(e)
<1> DEFINE l == Len(t.stsc.body)
           m == Len(t.stco.body)
<1>1. l \in Nat /\ m \in Nat /\ \A x \in 1 .. l : First(x) \in Nat /\ NextFirst(x) \in Nat
  BY StscTypes
<1>2. l >= 1 /\ 1 \in 1 .. l /\ l \in 1 .. l /\ 1 <= e /\ e <= l
  BY <1>1
<1>3. t.stsc.body # <<>>
  BY <1>2
<1>4. First(1) = 1 /\ First(l) <= m /\ \A x \in 1 .. l - 1 : First(x) < First(x + 1)
  BY <1>3 DEF ChunksCovered, First
<1>5. First(1) <= First(e) /\ First(e) <= First(l)
  BY <1>2, <1>4, FirstsGrow
<1> HIDE DEF l, m
<1>6. First(e) # 0 /\ First(e) <= m
  <2>1. First(e) \in Nat /\ First(l) \in Nat
    BY <1>1, <1>2 DEF l
  <2> QED
    BY <1>1, <1>4, <1>5, <2>1
<1>7. CASE e < l
  <2>1. e + 1 \in 1 .. l /\ e \in 1 .. l - 1
    BY <1>1, <1>2, <1>7
  <2>2. First(e + 1) <= First(l) /\ First(e) < First(e + 1)
    BY <1>1, <1>2, <1>4, <2>1, FirstsGrow, SMTT(30) DEF l
  <2>3. First(e + 1) - 1 <= m
    BY <1>1, <1>2, <1>4, <2>1, <2>2
  <2> QED
    BY <1>4, <1>6, <1>7, <2>2, <2>3 DEF StscEntryOK, First, l, m
<1>8. CASE ~(e < l)
  <2>1. m + 1 - 1 <= m
    BY <1>1
  <2> QED
    BY <1>4, <1>6, <1>8, <2>1 DEF StscEntryOK, First, l, m
<1> QED
  BY <1>7, <1>8

\* What expand_stsc has checked and filled in at its end is what the tables mean.
LEMMA AllChunks ==
  ASSUME t \in Tables, perChunk \in Seq(Nat), Len(perChunk) = Len(t.stco.body),
         Len(t.stsc.body) = 0 => Len(t.stco.body) = 0,
         \A e \in 1 .. Len(t.stsc.body) :
            /\ StscEntryOK(e)
            /\ \A c \in First(e) .. NextFirst(e) - 1 :
                 c \in DOMAIN perChunk => perChunk[c] = t.stsc.body[e][2]
  PROVE  ChunksCovered /\ perChunk = ChunkCounts
<1> DEFINE l == Len(t.stsc.body)
           m == Len(t.stco.body)
<1>1. /\ l \in Nat /\ m \in Nat /\ \A x \in 1 .. l : First(x) \in Nat /\ NextFirst(x) \in Nat
      /\ DOMAIN t.stsc.body = 1 .. l /\ DOMAIN t.stco.body = 1 .. m
  BY StscTypes
<1>2. \A e \in 1 .. l : /\ First(1) = 1 /\ First(e) <= m
                        /\ e < l => First(e) < First(e + 1)
  BY <1>1 DEF StscEntryOK, First
<1>3. ChunksCovered
  <2>1. \A e \in 1 .. l - 1 : First(e) < First(e + 1)
    <3>1. \A e \in 1 .. l - 1 : e \in 1 .. l /\ e < l
      BY <1>1
    <3> QED
      BY <1>2, <3>1
  <2>2. CASE l = 0
    <3>1. t.stsc.body = <<>> /\ t.stco.body = <<>>
      <4>1. t.stsc.body \in Seq(Nat \X Nat \X Nat) /\ t.stco.body \in Seq(Nat)
        BY TableTypes
      <4> QED
        BY <2>2, <4>1
    <3> QED
      BY <2>1, <3>1 DEF ChunksCovered, First
  <2>3. CASE l # 0
    <3>1. 1 \in 1 .. l /\ l \in 1 .. l
      BY <1>1, <2>3
    <3>2. First(1) = 1 /\ First(1) <= m /\ First(l) <= m
      BY <1>2, <3>1
    <3>3. t.stsc.body # <<>> /\ t.stco.body # <<>>
      BY <1>1, <2>3, <3>2
    <3> QED
      BY <2>1, <3>2, <3>3 DEF ChunksCovered, First
  <2> QED
    BY <2>2, <2>3
<1>4. ASSUME NEW c \in 1 .. m
      PROVE  perChunk[c] = SamplesIn(c)
  <2> DEFINE In(e) == First(e) <= c /\ (e = l \/ c < First(e + 1))
             S == {x \in Nat : x \in 1 .. l /\ (x = l \/ c < First(x + 1))}
  <2>1. l \in S /\ S \in SUBSET Nat /\ l >= 1
    BY <1>1, <1>4
  <2>2. PICK e \in S : \A y \in S : e <= y
    <3> HIDE DEF S
    <3> QED
      BY <2>1, LeastElement
  <2>3. e \in 1 .. l /\ (e = l \/ c < First(e + 1))
    OBVIOUS
  <2>4. First(e) <= c
    <3>1. CASE e = 1
      <4>1. First(1) = 1
        BY <1>2, <2>3, <3>1
      <4> QED
        BY <1>1, <1>4, <3>1, <4>1
    <3>2. CASE e # 1
      <4>1. e - 1 \in 1 .. l /\ e - 1 # l /\ e - 1 \in Nat /\ e - 1 + 1 = e
        BY <1>1, <2>3, <3>2
      <4>2. e - 1 \notin S
        <5> HIDE DEF S
        <5> QED
          BY <2>2, <2>3, <1>1
      <4>3. ~(c < First(e))
        BY <4>1, <4>2
      <4>4. First(e) \in Nat
        BY <1>1, <2>3
      <4> QED
        BY <1>1, <1>4, <4>3, <4>4
    <3> QED
      BY <3>1, <3>2
  <2>5. \E x \in DOMAIN t.stsc.body : In(x)
    BY <1>1, <2>3, <2>4
  <2> DEFINE d == CHOOSE x \in DOMAIN t.stsc.body : In(x)
  <2>6. d \in 1 .. l /\ In(d)
    BY <1>1, <2>5
  <2>7. SamplesIn(c) = t.stsc.body[d][2]
    BY DEF SamplesIn, First
  <2> HIDE DEF d
  <2>8. c \in First(d) .. NextFirst(d) - 1 /\ c \in DOMAIN perChunk
    <3>1. First(d) \in Nat /\ NextFirst(d) \in Nat /\ c \in Nat /\ c <= m
      BY <1>1, <1>4, <2>6
    <3>2. c < NextFirst(d)
      BY <1>1, <2>6, <3>1 DEF NextFirst
    <3>3. c \in DOMAIN perChunk
      BY <1>4
    <3> QED
      BY <2>6, <3>1, <3>2, <3>3
  <2> QED
    BY <2>6, <2>7, <2>8
<1>5. perChunk = [c \in 1 .. m |-> perChunk[c]]
  OBVIOUS
<1>6. ChunkCounts = [c \in 1 .. m |-> SamplesIn(c)]
  BY <1>1 DEF ChunkCounts
<1>7. perChunk = ChunkCounts
  BY <1>4, <1>5, <1>6
<1> QED
  BY <1>3, <1>7

\* A longer prefix of the runs has a larger total.
LEMMA RunTotalsGrow ==
  ASSUME t \in Tables, NEW atom \in {"stts", "ctts"}, t[atom] # Absent,
         NEW a \in 0 .. Len(Body(atom)), NEW b \in 0 .. Len(Body(atom)), a <= b
  PROVE  RunTotal(atom, a) <= RunTotal(atom, b)
<1>1. CountsUpTo(Counts(Body(atom)), Len(Body(atom)))
  BY RunTypes
<1> QED
  BY <1>1, TotalGrows DEF RunTotal

\* Every chunk has a number of samples once expand_stsc is through.
LEMMA ChunkTypes ==
  ASSUME t \in Tables, perChunk \in Seq(Nat), perChunk = ChunkCounts
  PROVE  CountsUpTo(ChunkCounts, Len(t.stco.body)) /\ Len(perChunk) = Len(t.stco.body)
<1>1. Len(t.stco.body) \in Nat /\ DOMAIN t.stco.body = 1 .. Len(t.stco.body)
  BY StscTypes
<1>2. DOMAIN ChunkCounts = 1 .. Len(t.stco.body)
  BY <1>1 DEF ChunkCounts
<1>3. DOMAIN perChunk = 1 .. Len(perChunk) /\ Len(perChunk) \in Nat
  OBVIOUS
<1>4. Len(perChunk) = Len(t.stco.body)
  BY <1>1, <1>2, <1>3
<1>5. \A c \in 1 .. Len(t.stco.body) : ChunkCounts[c] \in Nat
  BY <1>3, <1>4
<1> QED
  BY <1>1, <1>2, <1>4, <1>5 DEF CountsUpTo

-----------------------------------------------------------------------------
(***************************************************************************)
(* Steps that do not disturb a part of the invariant.                      *)
(***************************************************************************)
\* The meaning of the tables depends on the tables only.
LEMMA SameTables ==
  ASSUME t' = t
  PROVE  /\ Readable' = Readable /\ Samples' = Samples /\ Sizes' = Sizes
         /\ ChunksCovered' = ChunksCovered /\ ChunkCounts' = ChunkCounts
         /\ \A i : OffsetOf(i)' = OffsetOf(i)
         /\ Consistent' = Consistent
<1>1. Readable' = Readable /\ Samples' = Samples /\ Sizes' = Sizes
  BY DEF Readable, Samples, Sizes
<1>2. ChunksCovered' = ChunksCovered
  BY DEF ChunksCovered
<1>3. ChunkCounts' = ChunkCounts
  BY DEF ChunkCounts, SamplesIn
<1>4. \A i : OffsetOf(i)' = OffsetOf(i)
  BY <1>1, <1>3 DEF OffsetOf
<1>5. RunsCover(t.stts)' = RunsCover(t.stts) /\ RunsCover(t.ctts)' = RunsCover(t.ctts)
  BY <1>1 DEF RunsCover
<1>6. Consistent' = Consistent
  BY <1>1, <1>2, <1>3, <1>4, <1>5 DEF Consistent
<1> QED
  BY <1>1, <1>2, <1>3, <1>4, <1>6

\* What depends on the tables only stays the same while the tables do:
LEMMA SameRuns ==
  ASSUME t' = t
  PROVE  \A atom, m : /\ Body(atom)' = Body(atom) /\ RunTotal(atom, m)' = RunTotal(atom, m)
                      /\ RunValue(atom, m)' = RunValue(atom, m)
  BY DEF Body, RunTotal, RunValue

\* what is expanded,
LEMMA SameExpanded ==
  ASSUME t' = t, NEW atom \in {"stts", "ctts"}, NEW m, out'[atom] = out[atom]
  PROVE  /\ Expanded(atom, m) => Expanded(atom, m)'
         /\ Complete(atom) => Complete(atom)'
  BY SameRuns, SameTables DEF Expanded, Complete

\* the rows,
LEMMA SameRows ==
  ASSUME t' = t, samples' = samples, RowsExact
  PROVE  RowsExact'
  BY SameTables DEF RowsExact

\* the sync marks,
LEMMA SameSync ==
  ASSUME t' = t, sync' = sync, After("stss")' => After("stss"), SyncInv
  PROVE  SyncInv'
  BY SameTables DEF SyncInv, IsSync

\* and the sizes.
LEMMA SameRead ==
  ASSUME t' = t, sizes' = sizes, After("read")' => After("read"), ReadInv
  PROVE  ReadInv'
  BY SameTables DEF ReadInv

\* The runs stay as they are behind the expansion of stts and ctts.
LEMMA SameRunsInv ==
  ASSUME t' = t, out' = out, After("ctts")' => After("ctts"),
         pc' \notin {"read", "stts", "ctts"}, After("ctts"), RunsInv
  PROVE  RunsInv'
<1>1. After("stts")
  BY DEF After
<1>2. Complete("stts") /\ Complete("stts")'
  BY <1>1, SameExpanded DEF RunsInv
<1>3. IF t.ctts = Absent THEN out["ctts"] = Copies(Samples, 0) ELSE Complete("ctts")
  BY DEF RunsInv
<1>4. (IF t.ctts = Absent THEN out["ctts"] = Copies(Samples, 0) ELSE Complete("ctts"))'
  BY <1>3, SameExpanded, SameTables
<1> QED
  BY <1>2, <1>4 DEF RunsInv

-----------------------------------------------------------------------------
\* The initial states.
LEMMA InitIInv == Init => IInv
<1> SUFFICES ASSUME Init PROVE IInv
  OBVIOUS
<1> USE DEF Init
<1>1. TypeOK
  <2>1. out["stts"] = <<>> /\ out["ctts"] = <<>> /\ DOMAIN out = {"stts", "ctts"}
    OBVIOUS
  <2>2. out = [atom \in {"stts", "ctts"} |-> <<>>]
    BY <2>1
  <2>3. out \in [{"stts", "ctts"} -> Seq(Int)]
    <3>1. <<>> \in Seq(Int)
      OBVIOUS
    <3> HIDE DEF Init
    <3> QED
      BY <2>2, <3>1
  <2> QED
    BY <2>3 DEF TypeOK
<1>2. ReadInv /\ SyncInv /\ ChunkInv
  BY DEF ReadInv, SyncInv, ChunkInv, After
<1>3. RunsInv
  BY DEF RunsInv, After
<1>4. WalkInv /\ RowsExact /\ ErrInv /\ KInv
  BY DEF WalkInv, RowsExact, ErrInv, KInv
<1> QED
  BY <1>1, <1>2, <1>3, <1>4 DEF IInv

\* An error leaves what is done so far, so it has to be deserved.
LEMMA FailIInv ==
  ASSUME IInv, Fail, ~Consistent
  PROVE  IInv'
<1>0. /\ TypeOK /\ RowsExact /\ WalkInv
      /\ pc' = "Err" /\ UNCHANGED <<t, sizes, out, sync, perChunk, k, j, off, samples>>
  BY DEF IInv, Fail
<1>1. TypeOK'
  BY <1>0 DEF TypeOK
<1>2. ReadInv' /\ SyncInv' /\ ChunkInv' /\ RunsInv'
  BY <1>0 DEF ReadInv, SyncInv, ChunkInv, RunsInv, After
<1>3. WalkInv'
  BY <1>0 DEF WalkInv
<1>4. RowsExact'
  BY <1>0, SameRows
<1>5. ErrInv' /\ KInv'
  BY <1>0, SameTables DEF ErrInv, KInv
<1> QED
  BY <1>1, <1>2, <1>3, <1>4, <1>5 DEF IInv

\* No run is expanded of an empty vector.
LEMMA NothingExpanded ==
  ASSUME t \in Tables, NEW atom \in {"stts", "ctts"}, t[atom] # Absent, out[atom] = <<>>
  PROVE  Expanded(atom, 0)
<1>1. RunTotal(atom, 0) = 0
  BY RunTotals
<1>2. Len(Body(atom)) \in Nat
  BY RunTypes DEF CountsUpTo
<1>3. Len(out[atom]) = 0
  OBVIOUS
<1>4. 0 <= Len(Body(atom)) /\ 1 .. 0 = {}
  BY <1>2
<1> QED
  BY <1>1, <1>3, <1>4 DEF Expanded

\* Reading and framing the tables.
LEMMA ReadTablesIInv ==
  ASSUME IInv, ReadTables
  PROVE  IInv'
<1>0. /\ TypeOK /\ RunsInv /\ WalkInv /\ RowsExact /\ KInv /\ pc = "read" /\ t \in Tables
  BY DEF IInv, ReadTables, TypeOK
<1>1. CASE ~Readable
  <2>1. Fail /\ ~Consistent
    BY <1>1 DEF ReadTables, Consistent
  <2> QED
    BY <2>1, FailIInv
<1>2. CASE Readable
  <2>0. /\ pc' = "stts" /\ sizes' = StszSizes(t.stsz)
        /\ t' = t /\ out' = out /\ sync' = sync /\ perChunk' = perChunk
        /\ k' = k /\ j' = j /\ off' = off /\ samples' = samples
    BY <1>2 DEF ReadTables
  <2>1. sizes' = Sizes /\ Sizes \in Seq(Nat)
    BY <1>0, <1>2, <2>0, SizesType
  <2>2. TypeOK'
    BY <1>0, <2>0, <2>1 DEF TypeOK
  <2>3. ReadInv'
    BY <1>2, <2>0, <2>1, SameTables DEF ReadInv
  <2>4. RunsInv'
    <3>1. out["stts"] = <<>> /\ out["ctts"] = <<>> /\ k = 0
      BY <1>0 DEF RunsInv, KInv
    <3>2. t["stts"] # Absent
      BY <1>0, TableTypes, Fields
    <3>3. Expanded("stts", 0)
      BY <1>0, <3>1, <3>2, NothingExpanded
    <3>4. Expanded("stts", 0)'
      BY <2>0, <3>3, SameExpanded
    <3>5. Expanded("stts", k)'
      BY <2>0, <3>1, <3>4
    <3> QED
      BY <2>0, <3>1, <3>5 DEF RunsInv, After
  <2>5. SyncInv' /\ ChunkInv'
    BY <2>0 DEF SyncInv, ChunkInv, After
  <2>6. WalkInv'
    BY <1>0, <2>0 DEF WalkInv
  <2>7. RowsExact' /\ ErrInv' /\ KInv'
    BY <1>0, <2>0, SameRows DEF ErrInv, KInv
  <2> QED
    BY <2>2, <2>3, <2>4, <2>5, <2>6, <2>7 DEF IInv
<1> QED
  BY <1>1, <1>2

\* One run more is expanded.
LEMMA OneMoreRun ==
  ASSUME TypeOK, NEW atom \in {"stts", "ctts"}, t[atom] # Absent, t' = t,
         NEW q \in Nat, q < Len(Body(atom)), Expanded(atom, q),
         out' = [out EXCEPT ![atom] = @ \o Copies(Body(atom)[q + 1][1],
                                                  RunValue(atom, Body(atom)[q + 1]))]
  PROVE  Expanded(atom, q + 1)' /\ out'[atom] \in Seq(Int)
<1> DEFINE b == Body(atom)
           l == Len(b)
           c == b[q + 1][1]
           v == RunValue(atom, b[q + 1])
           o == out[atom]
<1>1. l \in Nat /\ q + 1 \in 1 .. l /\ q \in 0 .. l /\ q + 1 \in 0 .. l
  <2>1. l \in Nat
    BY RunTypes DEF TypeOK, CountsUpTo
  <2> QED
    BY <2>1
<1>2. c \in Nat /\ v \in Int
  BY <1>1, RunTypes DEF TypeOK
<1>3. /\ RunTotal(atom, q + 1) = RunTotal(atom, q) + c
      /\ RunTotal(atom, q) \in Nat
  BY <1>1, RunTotals DEF TypeOK
<1>4. o \in Seq(Int) /\ Len(o) = RunTotal(atom, q)
  BY DEF TypeOK, Expanded
<1>5. out'[atom] = o \o Copies(c, v)
  BY DEF TypeOK
<1> DEFINE p == Copies(c, v)
<1>6. p \in Seq(Int) /\ Len(p) = c /\ \A i \in 1 .. c : p[i] = v
  <2>1. p = [i \in 1 .. c |-> v]
    BY DEF Copies
  <2> HIDE DEF p, c, v
  <2> QED
    BY <1>2, <2>1
<1>7. \A r \in 1 .. q : \A i \in Nat :
        RunTotal(atom, r - 1) < i /\ i <= RunTotal(atom, r) => o[i] = RunValue(atom, b[r])
  BY DEF Expanded
<1> HIDE DEF b, l, c, v, o, p
<1>8. o \o p \in Seq(Int) /\ Len(o \o p) = RunTotal(atom, q + 1)
  BY <1>2, <1>3, <1>4, <1>6, SMTT(30)
<1>9. ASSUME NEW r \in 1 .. q + 1, NEW i \in Nat,
             RunTotal(atom, r - 1) < i, i <= RunTotal(atom, r)
      PROVE  (o \o p)[i] = RunValue(atom, b[r])
  <2>0. r \in 0 .. l /\ r - 1 \in 0 .. l
    BY <1>1
  <2>1. RunTotal(atom, r) \in Nat /\ RunTotal(atom, r - 1) \in Nat
    BY <2>0, RunTotals DEF TypeOK, b, l
  <2>2. CASE r = q + 1
    <3>1. i > Len(o) /\ i <= Len(o) + c
      BY <1>3, <1>4, <1>9, <2>2
    <3>2. i - Len(o) \in 1 .. c /\ i \in 1 .. Len(o) + Len(p)
      BY <1>2, <1>4, <1>6, <3>1
    <3>3. (o \o p)[i] = p[i - Len(o)]
      BY <1>4, <1>6, <3>1, <3>2
    <3> QED
      BY <1>6, <2>2, <3>2, <3>3 DEF v
  <2>3. CASE r # q + 1
    <3>1. r \in 1 .. q /\ r <= q
      BY <2>3
    <3>2. RunTotal(atom, r) <= RunTotal(atom, q)
      BY <1>1, <2>0, <3>1, RunTotalsGrow DEF TypeOK, b, l
    <3>3. i \in 1 .. Len(o)
      BY <1>3, <1>4, <1>9, <2>1, <3>2
    <3>4. (o \o p)[i] = o[i]
      BY <1>4, <1>6, <3>3
    <3> QED
      BY <1>7, <1>9, <3>1, <3>4
  <2> QED
    BY <2>2, <2>3
<1>10. Body(atom)' = b /\ (\A m : RunTotal(atom, m)' = RunTotal(atom, m))
       /\ \A x : RunValue(atom, x)' = RunValue(atom, x)
  BY SameRuns DEF b
<1>11. out'[atom] = o \o p
  BY <1>5 DEF p
<1>12. q + 1 <= l
  BY <1>1
<1> QED
  BY <1>8, <1>9, <1>10, <1>11, <1>12, ZenonT(40) DEF Expanded, l

\* Where expand_run_table is.
LEMMA AtRun ==
  ASSUME IInv, pc \in {"stts", "ctts"}, t[pc] # Absent
  PROVE  Expanded(pc, k) /\ n = Samples /\ t \in Tables /\ t[pc].body = Body(pc)
<1>1. TypeOK /\ ReadInv /\ RunsInv
  BY DEF IInv
<1>2. Expanded(pc, k)
  BY <1>1, Fields DEF RunsInv
<1>3. t \in Tables /\ sizes = Sizes /\ Readable
  BY <1>1 DEF TypeOK, ReadInv, After
<1>4. n = Samples
  BY <1>3, SizesType DEF n
<1> QED
  BY <1>2, <1>3, <1>4 DEF Body

\* A table whose runs do not add up to the samples.
LEMMA WrongRuns ==
  ASSUME t \in Tables, NEW atom \in {"stts", "ctts"}, t[atom] # Absent,
         RunTotal(atom, Len(Body(atom))) # Samples
  PROVE  ~Consistent
<1>1. ~RunsCover(t[atom])
  BY DEF RunsCover, RunTotal, Body
<1> QED
  BY <1>1, Fields DEF Consistent

\* One run of stts or ctts,
LEMMA ExpandRunIInv ==
  ASSUME IInv, ExpandRun
  PROVE  IInv'
<1>0. /\ TypeOK /\ ReadInv /\ RunsInv /\ WalkInv /\ RowsExact /\ t \in Tables
      /\ pc \in {"stts", "ctts"} /\ t[pc] # Absent
  BY DEF IInv, ExpandRun, TypeOK
<1>1. PICK atom \in {"stts", "ctts"} : atom = pc
  BY <1>0
<1>2. PICK q \in Nat : q = k
  BY <1>0 DEF TypeOK
<1>3. /\ Expanded(atom, q) /\ n = Samples /\ t[atom].body = Body(atom) /\ t[atom] # Absent
      /\ q < Len(Body(atom))
  BY <1>0, <1>1, <1>2, AtRun DEF ExpandRun
<1> DEFINE run == Body(atom)[q + 1]
<1>4. Len(Body(atom)) \in Nat /\ q + 1 \in 1 .. Len(Body(atom)) /\ q + 1 \in 0 .. Len(Body(atom))
  <2>1. Len(Body(atom)) \in Nat
    BY <1>0, <1>3, RunTypes DEF CountsUpTo
  <2> QED
    BY <1>3, <2>1
<1>5. CASE Len(out[atom]) + run[1] > n
  <2>1. Fail
    BY <1>1, <1>2, <1>3, <1>5 DEF ExpandRun
  <2>2. RunTotal(atom, q + 1) = RunTotal(atom, q) + run[1]
    BY <1>0, <1>3, <1>4, RunTotals
  <2>3. RunTotal(atom, q) = Len(out[atom])
    BY <1>3 DEF Expanded
  <2>4. /\ RunTotal(atom, q + 1) \in Nat /\ RunTotal(atom, Len(Body(atom))) \in Nat
        /\ RunTotal(atom, q + 1) <= RunTotal(atom, Len(Body(atom)))
    <3>1. Len(Body(atom)) \in 0 .. Len(Body(atom))
      BY <1>4
    <3> QED
      BY <1>0, <1>3, <1>4, <3>1, RunTotals
  <2>5. RunTotal(atom, q + 1) > Samples /\ Samples \in Nat
    BY <1>0, <1>3, <1>5, <2>2, <2>3, TableTypes
  <2>6. RunTotal(atom, Len(Body(atom))) # Samples
    <3> HIDE DEF run
    <3> QED
      BY <2>4, <2>5
  <2> QED
    BY <1>0, <1>3, <2>1, <2>6, WrongRuns, FailIInv
<1>6. CASE ~(Len(out[atom]) + run[1] > n)
  <2>0. /\ out' = [out EXCEPT ![atom] = @ \o Copies(run[1], RunValue(atom, run))]
        /\ k' = q + 1
        /\ t' = t /\ pc' = pc /\ sizes' = sizes /\ sync' = sync /\ perChunk' = perChunk
        /\ j' = j /\ off' = off /\ samples' = samples
    BY <1>1, <1>2, <1>3, <1>6 DEF ExpandRun
  <2>1. Expanded(atom, q + 1)' /\ out'[atom] \in Seq(Int)
    BY <1>0, <1>3, <2>0, OneMoreRun
  <2> HIDE DEF run
  <2>2. out' \in [{"stts", "ctts"} -> Seq(Int)]
    <3>1. out \in [{"stts", "ctts"} -> Seq(Int)]
      BY <1>0 DEF TypeOK
    <3> QED
      BY <2>0, <2>1, <3>1
  <2>3. TypeOK'
    <3>1. q + 1 \in Nat
      OBVIOUS
    <3> QED
      BY <1>0, <2>0, <2>2, <3>1 DEF TypeOK
  <2>4. ReadInv'
    BY <1>0, <2>0, SameRead DEF After
  <2>5. RunsInv'
    <3>0. \A a \in {"stts", "ctts"} : a # atom => out'[a] = out[a]
      BY <1>0, <2>0 DEF TypeOK
    <3>1. CASE atom = "stts"
      <4>1. out'["ctts"] = <<>>
        BY <1>0, <1>1, <3>0, <3>1 DEF RunsInv
      <4>2. Expanded("stts", k)'
        BY <2>0, <2>1, <3>1
      <4>3. pc' = "stts"
        BY <1>1, <2>0, <3>1
      <4> QED
        BY <4>1, <4>2, <4>3 DEF RunsInv, After
    <3>2. CASE atom = "ctts"
      <4>1. Complete("stts")
        BY <1>0, <1>1, <3>2 DEF RunsInv, After
      <4>2. Complete("stts")'
        BY <2>0, <3>0, <3>2, <4>1, SameExpanded
      <4>3. Expanded("ctts", k)'
        BY <2>0, <2>1, <3>2
      <4>4. pc' = "ctts"
        BY <1>1, <2>0, <3>2
      <4> QED
        BY <4>2, <4>3, <4>4 DEF RunsInv, After
    <3> QED
      BY <3>1, <3>2
  <2>6. SyncInv' /\ ChunkInv'
    BY <1>0, <2>0 DEF SyncInv, ChunkInv, After
  <2>7. WalkInv'
    BY <1>0, <2>0 DEF WalkInv
  <2>8. RowsExact' /\ ErrInv' /\ KInv'
    BY <1>0, <2>0, SameRows DEF ErrInv, KInv
  <2> QED
    BY <2>3, <2>4, <2>5, <2>6, <2>7, <2>8 DEF IInv
<1> QED
  BY <1>5, <1>6

\* and the end of its runs.
LEMMA FinishRunsIInv ==
  ASSUME IInv, FinishRuns
  PROVE  IInv'
<1>0. /\ TypeOK /\ ReadInv /\ RunsInv /\ WalkInv /\ RowsExact /\ t \in Tables
      /\ pc \in {"stts", "ctts"}
  BY DEF IInv, FinishRuns, TypeOK
<1>1. PICK atom \in {"stts", "ctts"} : atom = pc
  BY <1>0
<1>2. n = Samples /\ Readable
  <2>1. sizes = Sizes /\ Readable
    BY <1>0 DEF ReadInv, After
  <2> QED
    BY <1>0, <2>1, SizesType DEF n
<1>3. t[atom] # Absent => /\ Expanded(atom, Len(Body(atom)))
                          /\ Len(out[atom]) = RunTotal(atom, Len(Body(atom)))
  <2>1. t[atom] # Absent => Expanded(atom, k) /\ k = Len(Body(atom))
    BY <1>0, <1>1, AtRun DEF FinishRuns, Body
  <2> QED
    BY <2>1 DEF Expanded
<1>4. CASE t[atom] # Absent /\ Len(out[atom]) # n
  <2>1. Fail
    BY <1>1, <1>4 DEF FinishRuns
  <2> QED
    BY <1>0, <1>2, <1>3, <1>4, <2>1, WrongRuns, FailIInv
<1>5. CASE ~(t[atom] # Absent /\ Len(out[atom]) # n)
  <2>0. /\ out' = IF t[atom] = Absent THEN [out EXCEPT ![atom] = Copies(n, 0)] ELSE out
        /\ k' = 0 /\ pc' = IF atom = "stts" THEN "ctts" ELSE "stss"
        /\ t' = t /\ sizes' = sizes /\ sync' = sync /\ perChunk' = perChunk
        /\ j' = j /\ off' = off /\ samples' = samples
    BY <1>1, <1>5 DEF FinishRuns
  <2>1. t[atom] # Absent => Complete(atom)
    BY <1>2, <1>3, <1>5 DEF Complete
  <2>2. Copies(n, 0) \in Seq(Int)
    <3>1. Samples \in Nat
      BY <1>0, TableTypes
    <3> QED
      BY <1>2, <3>1 DEF Copies
  <2>3. out' \in [{"stts", "ctts"} -> Seq(Int)]
    <3>1. out \in [{"stts", "ctts"} -> Seq(Int)]
      BY <1>0 DEF TypeOK
    <3> QED
      BY <2>0, <2>2, <3>1
  <2>4. TypeOK'
    BY <1>0, <2>0, <2>3 DEF TypeOK
  <2>5. ReadInv'
    BY <1>0, <2>0, SameRead DEF After
  <2>6. RunsInv'
    <3>1. CASE atom = "stts"
      <4>1. t["stts"] # Absent /\ out' = out /\ pc' = "ctts" /\ pc = "stts"
        BY <1>0, <1>1, <2>0, <3>1, TableTypes, Fields
      <4>2. Complete("stts")'
        BY <2>0, <2>1, <3>1, <4>1, SameExpanded
      <4>3. out["ctts"] = <<>>
        BY <1>0, <4>1 DEF RunsInv
      <4>4. ASSUME t["ctts"] # Absent PROVE Expanded("ctts", 0)'
        <5>1. Expanded("ctts", 0)
          BY <1>0, <4>3, <4>4, NothingExpanded
        <5> QED
          BY <2>0, <4>1, <5>1, SameExpanded
      <4>5. t.ctts # Absent => Expanded("ctts", k)'
        BY <2>0, <4>4, Fields
      <4> QED
        BY <2>0, <4>1, <4>2, <4>5 DEF RunsInv, After
    <3>2. CASE atom = "ctts"
      <4>1. pc' = "stss" /\ pc = "ctts"
        BY <1>1, <2>0, <3>2
      <4>2. out'["stts"] = out["stts"] /\ Complete("stts")
        BY <1>0, <2>0, <3>2, <4>1 DEF TypeOK, RunsInv, After
      <4>3. Complete("stts")'
        BY <2>0, <4>2, SameExpanded
      <4>4. CASE t.ctts = Absent
        <5>1. out'["ctts"] = Copies(Samples, 0)
          BY <1>0, <1>2, <2>0, <3>2, <4>4, Fields DEF TypeOK
        <5>2. out'["ctts"] = Copies(Samples, 0)'
          BY <2>0, <5>1, SameTables DEF Copies
        <5> QED
          BY <2>0, <4>1, <4>3, <4>4, <5>2 DEF RunsInv, After
      <4>5. CASE t.ctts # Absent
        <5>1. Complete("ctts")'
          BY <2>0, <2>1, <3>2, <4>5, Fields, SameExpanded
        <5> QED
          BY <2>0, <4>1, <4>3, <4>5, <5>1 DEF RunsInv, After
      <4> QED
        BY <4>4, <4>5
    <3> QED
      BY <3>1, <3>2
  <2>7. pc' \in {"ctts", "stss"}
    BY <2>0
  <2>8. SyncInv' /\ ChunkInv'
    BY <2>7 DEF SyncInv, ChunkInv, After
  <2>9. WalkInv'
    BY <1>0, <2>0, <2>7 DEF WalkInv
  <2>10. RowsExact' /\ ErrInv' /\ KInv'
    BY <1>0, <2>0, <2>7, SameRows DEF ErrInv, KInv
  <2> QED
    BY <2>4, <2>5, <2>6, <2>8, <2>9, <2>10 DEF IInv
<1> QED
  BY <1>4, <1>5

\* Behind read, walk knows the number of samples and holds their sizes.
LEMMA SizesKnown ==
  ASSUME TypeOK, ReadInv, After("read")
  PROVE  /\ n = Samples /\ Readable /\ sizes = Sizes /\ t \in Tables /\ Samples \in Nat
         /\ CountsUpTo(Sizes, Samples)
<1>1. sizes = Sizes /\ Readable /\ t \in Tables
  BY DEF ReadInv, TypeOK
<1> QED
  BY <1>1, SizesType, TableTypes DEF n

\* One entry of stss.
LEMMA MarkSyncIInv ==
  ASSUME IInv, MarkSync
  PROVE  IInv'
<1>0. /\ TypeOK /\ ReadInv /\ RunsInv /\ WalkInv /\ RowsExact /\ KInv
      /\ pc = "stss" /\ After("read") /\ After("ctts")
  BY DEF IInv, MarkSync, After
<1>1. n = Samples /\ t \in Tables
  BY <1>0, SizesKnown
<1> DEFINE Bad == t.stss # Absent /\ \E i \in DOMAIN t.stss.body : t.stss.body[i] \notin 1 .. n
<1>2. CASE Bad
  <2>1. Fail
    BY <1>2 DEF MarkSync
  <2>2. ~Consistent
    BY <1>1, <1>2 DEF Consistent
  <2> QED
    BY <2>1, <2>2, FailIInv
<1>3. CASE ~Bad
  <2>0. /\ sync' = IF t.stss = Absent THEN 1 .. n
                   ELSE {t.stss.body[i] : i \in DOMAIN t.stss.body}
        /\ perChunk' = Copies(Len(t.stco.body), 0)
        /\ pc' = "stsc"
        /\ t' = t /\ sizes' = sizes /\ out' = out /\ k' = k /\ j' = j /\ off' = off
        /\ samples' = samples
    BY <1>3 DEF MarkSync
  <2>1. perChunk' \in Seq(Nat) /\ Len(perChunk') = Len(t.stco.body)
    <3>1. Len(t.stco.body) \in Nat
      BY <1>1, StscTypes
    <3>2. perChunk' = [i \in 1 .. Len(t.stco.body) |-> 0]
      BY <2>0 DEF Copies
    <3> QED
      BY <3>1, <3>2
  <2>2. TypeOK'
    BY <1>0, <2>0, <2>1 DEF TypeOK
  <2>3. ReadInv'
    BY <1>0, <2>0, SameRead
  <2>4. RunsInv'
    BY <1>0, <2>0, SameRunsInv DEF After
  <2>5. SyncInv'
    <3>1. t.stss # Absent => \A i \in DOMAIN t.stss.body : t.stss.body[i] \in 1 .. Samples
      BY <1>1, <1>3
    <3>2. \A i \in 1 .. Samples : i \in sync' <=> IsSync(i)
      BY <1>1, <2>0 DEF IsSync
    <3>3. \A i : IsSync(i)' = IsSync(i)
      BY <2>0 DEF IsSync
    <3> QED
      BY <2>0, <3>1, <3>2, <3>3, SameTables DEF SyncInv
  <2>6. ChunkInv'
    <3>1. k' = 0 /\ Len(t.stsc.body) \in Nat
      BY <1>0, <1>1, <2>0, StscTypes DEF KInv
    <3>2. k' <= Len(t'.stsc.body) /\ Len(perChunk') = Len(t'.stco.body) /\ 1 .. k' = {}
      BY <2>0, <2>1, <3>1
    <3> QED
      BY <2>0, <3>2 DEF ChunkInv, After
  <2>7. WalkInv'
    BY <1>0, <2>0 DEF WalkInv
  <2>8. RowsExact' /\ ErrInv' /\ KInv'
    BY <1>0, <2>0, SameRows DEF ErrInv, KInv
  <2> QED
    BY <2>2, <2>3, <2>4, <2>5, <2>6, <2>7, <2>8 DEF IInv
<1> QED
  BY <1>2, <1>3

\* What is asked of an entry of stsc depends on the tables and the number of chunks.
LEMMA SameStsc ==
  ASSUME t' = t
  PROVE  /\ \A e : First(e)' = First(e) /\ NextFirst(e)' = NextFirst(e)
         /\ Len(perChunk') = Len(perChunk) => \A e : StscEntryOK(e) => StscEntryOK(e)'
<1>1. \A e : First(e)' = First(e)
  BY DEF First
<1>2. \A e : NextFirst(e)' = NextFirst(e)
  BY <1>1 DEF NextFirst
<1>3. ASSUME Len(perChunk') = Len(perChunk), NEW e, StscEntryOK(e)
      PROVE  StscEntryOK(e)'
  BY <1>3 DEF StscEntryOK
<1> QED
  BY <1>1, <1>2, <1>3

\* One entry of stsc,
LEMMA ExpandStscIInv ==
  ASSUME IInv, ExpandStsc
  PROVE  IInv'
<1>0. /\ TypeOK /\ ReadInv /\ RunsInv /\ SyncInv /\ ChunkInv /\ WalkInv /\ RowsExact
      /\ t \in Tables /\ pc = "stsc" /\ k \in Nat /\ k < Len(t.stsc.body)
      /\ After("ctts")
  BY DEF IInv, ExpandStsc, TypeOK, After
<1>1. PICK q \in Nat : q = k
  BY <1>0
<1> DEFINE l == Len(t.stsc.body)
           m == Len(t.stco.body)
<1>2. /\ l \in Nat /\ m \in Nat
      /\ \A e \in 1 .. l : First(e) \in Nat /\ NextFirst(e) \in Nat /\ t.stsc.body[e][2] \in Nat
  BY <1>0, StscTypes
<1>3. Len(perChunk) = m /\ perChunk \in Seq(Nat)
  BY <1>0 DEF ChunkInv, TypeOK
<1>4. q < l /\ q + 1 \in 1 .. l /\ (q + 1 < l => q + 2 \in 1 .. l) /\ q + 1 + 1 = q + 2
  BY <1>0, <1>1, <1>2
<1>5. CASE ~StscEntryOK(q + 1)
  <2>1. Fail
    BY <1>1, <1>5 DEF ExpandStsc
  <2>2. ~ChunksCovered
    BY <1>0, <1>3, <1>4, <1>5, CoveredEntries
  <2> QED
    BY <2>1, <2>2, FailIInv DEF Consistent
<1>6. CASE StscEntryOK(q + 1)
  <2> DEFINE v == t.stsc.body[q + 1][2]
             R == First(q + 1) .. NextFirst(q + 1) - 1
  <2>0. /\ perChunk' = [c \in DOMAIN perChunk |-> IF c \in R THEN v ELSE perChunk[c]]
        /\ k' = q + 1
        /\ t' = t /\ pc' = pc /\ sizes' = sizes /\ out' = out /\ sync' = sync
        /\ j' = j /\ off' = off /\ samples' = samples
    BY <1>1, <1>3, <1>4, <1>6 DEF ExpandStsc, First, NextFirst
  <2>1. v \in Nat
    BY <1>2, <1>4
  <2>2. DOMAIN perChunk = 1 .. m /\ \A c \in 1 .. m : perChunk[c] \in Nat
    BY <1>3
  <2> HIDE DEF v, R
  <2>3. perChunk' \in Seq(Nat) /\ Len(perChunk') = m /\ DOMAIN perChunk' = 1 .. m
    <3> HIDE DEF m
    <3>1. perChunk' \in [1 .. m -> Nat]
      BY <2>0, <2>1, <2>2
    <3> QED
      BY <1>2, <3>1
  <2>4. TypeOK'
    <3>1. k' \in Nat
      BY <2>0
    <3> QED
      BY <1>0, <2>0, <2>3, <3>1 DEF TypeOK
  <2>5. ReadInv' /\ SyncInv'
    BY <1>0, <2>0, SameRead, SameSync DEF After
  <2>6. RunsInv'
    BY <1>0, <2>0, SameRunsInv DEF After
  <2>7. \A e \in 1 .. q : /\ StscEntryOK(e) /\ NextFirst(e) <= NextFirst(q)
                          /\ \A c \in First(e) .. NextFirst(e) - 1 :
                               c \in DOMAIN perChunk => perChunk[c] = t.stsc.body[e][2]
    BY <1>0, <1>1 DEF ChunkInv
  <2>8. First(q + 1) < NextFirst(q + 1)
    <3>1. CASE q + 1 < l
      BY <1>4, <1>6, <3>1 DEF StscEntryOK, First, NextFirst
    <3>2. CASE ~(q + 1 < l)
      <4>1. First(q + 1) <= m /\ NextFirst(q + 1) = m + 1 /\ First(q + 1) \in Nat
        BY <1>2, <1>3, <1>4, <1>6, <3>2 DEF StscEntryOK, First, NextFirst
      <4> HIDE DEF m
      <4> QED
        BY <1>2, <4>1
    <3> QED
      BY <3>1, <3>2
  <2>9. ASSUME NEW e \in 1 .. q + 1
        PROVE  /\ StscEntryOK(e) /\ NextFirst(e) <= NextFirst(q + 1)
               /\ \A c \in First(e) .. NextFirst(e) - 1 :
                    c \in 1 .. m => perChunk'[c] = t.stsc.body[e][2]
    <3>0. e \in 1 .. l
      BY <1>2, <1>4
    <3>1. CASE e = q + 1
      <4>1. NextFirst(q + 1) <= NextFirst(q + 1)
        BY <1>2, <1>4
      <4>2. \A c \in R : c \in 1 .. m => perChunk'[c] = v
        BY <2>0, <2>2
      <4> QED
        BY <1>6, <3>1, <4>1, <4>2 DEF R, v
    <3>2. CASE e # q + 1
      <4>1. e \in 1 .. q /\ q \in 1 .. l
        BY <1>2, <1>4, <3>2
      <4>2. NextFirst(q) = First(q + 1)
        BY <1>4 DEF NextFirst
      <4>3. /\ NextFirst(e) \in Nat /\ First(q + 1) \in Nat /\ NextFirst(q + 1) \in Nat
            /\ First(e) \in Nat /\ NextFirst(e) <= First(q + 1)
        BY <1>2, <1>4, <2>7, <3>0, <4>1, <4>2
      <4>4. NextFirst(e) <= NextFirst(q + 1)
        BY <2>8, <4>3
      <4>5. ASSUME NEW c \in First(e) .. NextFirst(e) - 1, c \in 1 .. m
            PROVE  perChunk'[c] = t.stsc.body[e][2]
        <5>1. c \notin R
          BY <4>3 DEF R
        <5>2. perChunk'[c] = perChunk[c]
          BY <2>0, <2>2, <4>5, <5>1
        <5> QED
          BY <2>2, <2>7, <4>1, <4>5, <5>2
      <4> QED
        BY <2>7, <4>1, <4>4, <4>5
    <3> QED
      BY <3>1, <3>2
  <2>10. ChunkInv'
    <3>1. pc' = "stsc" /\ t' = t /\ k' = q + 1
      BY <1>0, <2>0
    <3>2. k' <= Len(t'.stsc.body) /\ Len(perChunk') = Len(t'.stco.body)
      BY <1>2, <1>4, <2>3, <3>1
    <3>3. ASSUME NEW e \in 1 .. q + 1
          PROVE  /\ StscEntryOK(e)' /\ NextFirst(e)' <= NextFirst(q + 1)'
                 /\ \A c \in First(e)' .. NextFirst(e)' - 1 :
                      c \in DOMAIN perChunk' => perChunk'[c] = t'.stsc.body[e][2]
      BY <1>3, <2>3, <2>9, <3>1, SameStsc
    <3>4. NextFirst(k)' = NextFirst(q + 1)'
      BY <3>1 DEF NextFirst, First
    <3> QED
      BY <3>1, <3>2, <3>3, <3>4 DEF ChunkInv, After
  <2>11. WalkInv'
    BY <1>0, <2>0 DEF WalkInv
  <2>12. RowsExact' /\ ErrInv' /\ KInv'
    BY <1>0, <2>0, SameRows DEF ErrInv, KInv
  <2> QED
    BY <2>4, <2>5, <2>6, <2>10, <2>11, <2>12 DEF IInv
<1> QED
  BY <1>5, <1>6

\* and the end of it.
LEMMA StscEndsIInv ==
  ASSUME IInv, StscEnds
  PROVE  IInv'
<1>0. /\ TypeOK /\ ReadInv /\ RunsInv /\ SyncInv /\ ChunkInv /\ WalkInv /\ RowsExact
      /\ t \in Tables /\ pc = "stsc" /\ k = Len(t.stsc.body)
      /\ perChunk \in Seq(Nat) /\ Len(perChunk) = Len(t.stco.body)
  BY DEF IInv, StscEnds, TypeOK, ChunkInv
<1>1. t.stsc.body \in Seq(Nat \X Nat \X Nat) /\ t.stco.body \in Seq(Nat)
  BY <1>0, TableTypes
<1>2. CASE k = 0 /\ Len(perChunk) # 0
  <2>1. Fail
    BY <1>2 DEF StscEnds
  <2>2. Len(t.stsc.body) = 0 /\ Len(t.stco.body) # 0
    BY <1>0, <1>2
  <2>3. t.stsc.body = <<>>
    BY <1>1, <2>2
  <2>4. t.stco.body # <<>>
    BY <1>1, <2>2
  <2> QED
    BY <2>1, <2>3, <2>4, FailIInv DEF Consistent, ChunksCovered
<1>3. CASE ~(k = 0 /\ Len(perChunk) # 0)
  <2>0. /\ k' = 0 /\ pc' = "chunk"
        /\ t' = t /\ sizes' = sizes /\ out' = out /\ sync' = sync /\ perChunk' = perChunk
        /\ j' = j /\ off' = off /\ samples' = samples
    BY <1>3 DEF StscEnds
  <2>1. \A e \in 1 .. Len(t.stsc.body) :
            /\ StscEntryOK(e)
            /\ \A c \in First(e) .. NextFirst(e) - 1 :
                 c \in DOMAIN perChunk => perChunk[c] = t.stsc.body[e][2]
    BY <1>0 DEF ChunkInv
  <2>2. Len(t.stsc.body) = 0 => Len(t.stco.body) = 0
    BY <1>0, <1>3
  <2>3. ChunksCovered /\ perChunk = ChunkCounts
    BY <1>0, <2>1, <2>2, AllChunks
  <2>4. ChunkInv'
    BY <2>0, <2>3, SameTables DEF ChunkInv, After
  <2>5. TypeOK'
    BY <1>0, <2>0 DEF TypeOK
  <2>6. ReadInv' /\ SyncInv'
    BY <1>0, <2>0, SameRead, SameSync DEF After
  <2>7. RunsInv'
    BY <1>0, <2>0, SameRunsInv DEF After
  <2>8. WalkInv'
    <3>1. samples = <<>> /\ Len(samples) = 0
      BY <1>0 DEF WalkInv
    <3>2. Total(ChunkCounts, 0) = 0 /\ Samples \in Nat /\ Len(t.stco.body) \in Nat
      BY <1>0, TotalStep, TableTypes, StscTypes
    <3>3. /\ Total(ChunkCounts', 0) = 0 /\ Samples' \in Nat /\ Len(t'.stco.body) \in Nat
          /\ samples' = <<>> /\ Len(samples') = 0
      BY <2>0, <3>1, <3>2, SameTables
    <3>4. Total(ChunkCounts, k)' = 0
      BY <2>0, <3>3
    <3> QED
      BY <2>0, <3>3, <3>4 DEF WalkInv
  <2>9. RowsExact' /\ ErrInv' /\ KInv'
    BY <1>0, <2>0, SameRows DEF ErrInv, KInv
  <2> QED
    BY <2>4, <2>5, <2>6, <2>7, <2>8, <2>9 DEF IInv
<1> QED
  BY <1>2, <1>3

\* Where the walk over the chunks is, and how the samples of the chunks add up.
LEMMA AtChunk ==
  ASSUME IInv, pc \in {"chunk", "sample"}
  PROVE  /\ TypeOK /\ ReadInv /\ RunsInv /\ SyncInv /\ ChunkInv /\ WalkInv /\ RowsExact
         /\ t \in Tables /\ n = Samples /\ Samples \in Nat /\ sizes = Sizes
         /\ CountsUpTo(Sizes, Samples)
         /\ ChunksCovered /\ perChunk = ChunkCounts
         /\ CountsUpTo(ChunkCounts, Len(t.stco.body))
         /\ Len(perChunk) = Len(t.stco.body) /\ Len(t.stco.body) \in Nat
<1>1. TypeOK /\ ReadInv /\ RunsInv /\ SyncInv /\ ChunkInv /\ WalkInv /\ RowsExact
  BY DEF IInv
<1>2. After("read") /\ After("stsc")
  BY DEF After
<1>3. /\ t \in Tables /\ n = Samples /\ Samples \in Nat /\ sizes = Sizes
      /\ CountsUpTo(Sizes, Samples)
  BY <1>1, <1>2, SizesKnown
<1>4. ChunksCovered /\ perChunk = ChunkCounts
  BY <1>1, <1>2 DEF ChunkInv
<1>5. CountsUpTo(ChunkCounts, Len(t.stco.body)) /\ Len(perChunk) = Len(t.stco.body)
  BY <1>1, <1>3, <1>4, ChunkTypes DEF TypeOK
<1> QED
  BY <1>1, <1>3, <1>4, <1>5, StscTypes

\* A chunk begins,
LEMMA StartChunkIInv ==
  ASSUME IInv, StartChunk
  PROVE  IInv'
<1>0. /\ TypeOK /\ ReadInv /\ RunsInv /\ SyncInv /\ ChunkInv /\ WalkInv /\ RowsExact
      /\ t \in Tables /\ Samples \in Nat /\ CountsUpTo(Sizes, Samples)
      /\ CountsUpTo(ChunkCounts, Len(t.stco.body))
      /\ Len(perChunk) = Len(t.stco.body) /\ Len(t.stco.body) \in Nat /\ pc = "chunk"
  BY AtChunk DEF StartChunk
<1>1. /\ pc' = "sample" /\ off' = t.stco.body[k + 1] /\ j' = 0
      /\ t' = t /\ sizes' = sizes /\ out' = out /\ sync' = sync /\ perChunk' = perChunk
      /\ k' = k /\ samples' = samples /\ k < Len(t.stco.body)
  BY <1>0 DEF StartChunk
<1>2. k \in Nat /\ k + 1 \in 1 .. Len(t.stco.body)
  BY <1>0, <1>1 DEF TypeOK
<1>3. off' \in Nat
  BY <1>0, <1>1, <1>2, StscTypes
<1>4. TypeOK'
  BY <1>0, <1>1, <1>3 DEF TypeOK
<1>5. ReadInv' /\ SyncInv'
  BY <1>0, <1>1, SameRead, SameSync DEF After
<1>6. RunsInv'
  BY <1>0, <1>1, SameRunsInv DEF After
<1>7. ChunkInv'
  BY <1>0, <1>1, SameTables DEF ChunkInv, After
<1>8. WalkInv'
  <2>1. Len(samples) = Total(ChunkCounts, k) /\ Len(samples) <= Samples /\ Len(samples) \in Nat
    BY <1>0 DEF WalkInv, TypeOK
  <2>2. Len(samples) \in 0 .. Samples
    BY <1>0, <2>1
  <2>3. Total(Sizes, Len(samples)) \in Nat
    BY <1>0, <2>2, TotalNat
  <2>4. off' = t.stco.body[k + 1] + Total(Sizes, Len(samples)) - Total(Sizes, Total(ChunkCounts, k))
    <3>1. Total(Sizes, Total(ChunkCounts, k)) = Total(Sizes, Len(samples))
      BY <2>1
    <3>2. off' = off' + Total(Sizes, Len(samples)) - Total(Sizes, Len(samples))
      BY <1>3, <2>3
    <3> QED
      BY <1>1, <3>1, <3>2
  <2>5. 0 <= ChunkCounts[k + 1]
    BY <1>0, <1>2 DEF CountsUpTo
  <2>6. Len(samples) = Total(ChunkCounts, k) + 0
    BY <2>1
  <2>7. /\ ChunkCounts' = ChunkCounts /\ Sizes' = Sizes /\ Samples' = Samples
        /\ Total(ChunkCounts, k)' = Total(ChunkCounts, k)
        /\ Total(Sizes, Len(samples))' = Total(Sizes, Len(samples))
        /\ Total(Sizes, Total(ChunkCounts, k))' = Total(Sizes, Total(ChunkCounts, k))
        /\ ChunkCounts[k + 1]' = ChunkCounts[k + 1]
    BY <1>1, SameTables
  <2>8. k <= Len(t.stco.body)
    BY <1>0, <1>1, <1>2
  <2>9. \A i \in DOMAIN samples : samples[i].offset + samples[i].size <= U64Max
    BY <1>0 DEF WalkInv
  <2> QED
    BY <1>1, <2>1, <2>4, <2>5, <2>6, <2>7, <2>8, <2>9 DEF WalkInv
<1>9. RowsExact' /\ ErrInv' /\ KInv'
  BY <1>0, <1>1, SameRows DEF ErrInv, KInv
<1> QED
  BY <1>4, <1>5, <1>6, <1>7, <1>8, <1>9 DEF IInv

\* and ends.
LEMMA EndChunkIInv ==
  ASSUME IInv, EndChunk
  PROVE  IInv'
<1>0. /\ TypeOK /\ ReadInv /\ RunsInv /\ SyncInv /\ ChunkInv /\ WalkInv /\ RowsExact
      /\ t \in Tables /\ perChunk = ChunkCounts
      /\ Len(t.stco.body) \in Nat /\ pc = "sample"
  BY AtChunk DEF EndChunk
<1>1. PICK q \in Nat : q = k
  BY <1>0 DEF TypeOK
<1>2. /\ pc' = "chunk" /\ k' = q + 1 /\ j = ChunkCounts[q + 1]
      /\ t' = t /\ sizes' = sizes /\ out' = out /\ sync' = sync /\ perChunk' = perChunk
      /\ j' = j /\ off' = off /\ samples' = samples
  BY <1>0, <1>1 DEF EndChunk
<1>3. TypeOK'
  <2>1. q + 1 \in Nat
    OBVIOUS
  <2> QED
    BY <1>0, <1>2, <2>1 DEF TypeOK
<1>4. ReadInv' /\ SyncInv'
  BY <1>0, <1>2, SameRead, SameSync DEF After
<1>5. RunsInv'
  BY <1>0, <1>2, SameRunsInv DEF After
<1>6. ChunkInv'
  BY <1>0, <1>2, SameTables DEF ChunkInv, After
<1>7. WalkInv'
  <2>1. /\ q < Len(t.stco.body) /\ Len(samples) = Total(ChunkCounts, q) + ChunkCounts[q + 1]
        /\ Len(samples) <= Samples
    BY <1>0, <1>1, <1>2 DEF WalkInv
  <2>2. Len(samples) = Total(ChunkCounts, q + 1)
    BY <2>1, TotalStep
  <2>3. Total(ChunkCounts, k)' = Total(ChunkCounts, q + 1) /\ Samples' = Samples
    BY <1>2, SameTables
  <2>4. q + 1 <= Len(t.stco.body)
    BY <1>0, <2>1
  <2>5. \A i \in DOMAIN samples : samples[i].offset + samples[i].size <= U64Max
    BY <1>0 DEF WalkInv
  <2> QED
    BY <1>2, <2>1, <2>2, <2>3, <2>4, <2>5 DEF WalkInv
<1>8. RowsExact' /\ ErrInv' /\ KInv'
  BY <1>0, <1>2, SameRows DEF ErrInv, KInv
<1> QED
  BY <1>3, <1>4, <1>5, <1>6, <1>7, <1>8 DEF IInv

\* The walk returns its rows.
LEMMA ReturnIInv ==
  ASSUME IInv, Return
  PROVE  IInv'
<1>0. /\ TypeOK /\ ReadInv /\ RunsInv /\ SyncInv /\ ChunkInv /\ WalkInv /\ RowsExact
      /\ t \in Tables /\ perChunk = ChunkCounts /\ n = Samples
      /\ Len(perChunk) = Len(t.stco.body) /\ pc = "chunk"
  BY AtChunk DEF Return
<1>1. Len(samples) = Total(ChunkCounts, Len(t.stco.body))
  BY <1>0 DEF WalkInv, Return
<1>2. CASE Len(samples) # n
  <2>1. Fail
    BY <1>2 DEF Return
  <2> QED
    BY <1>0, <1>1, <1>2, <2>1, FailIInv DEF Consistent
<1>3. CASE Len(samples) = n
  <2>0. /\ pc' = "Ok"
        /\ t' = t /\ sizes' = sizes /\ out' = out /\ sync' = sync /\ perChunk' = perChunk
        /\ k' = k /\ j' = j /\ off' = off /\ samples' = samples
    BY <1>3 DEF Return
  <2>1. TypeOK'
    BY <1>0, <2>0 DEF TypeOK
  <2>2. ReadInv' /\ SyncInv'
    BY <1>0, <2>0, SameRead, SameSync DEF After
  <2>3. RunsInv'
    BY <1>0, <2>0, SameRunsInv DEF After
  <2>4. ChunkInv'
    BY <1>0, <2>0, SameTables DEF ChunkInv, After
  <2>5. WalkInv'
    <3>1. \A i \in DOMAIN samples : samples[i].offset + samples[i].size <= U64Max
      BY <1>0 DEF WalkInv
    <3>2. (Total(ChunkCounts, Len(t.stco.body)) = Samples)'
      BY <1>0, <1>1, <1>3, <2>0, SameTables
    <3>3. Len(samples)' = Samples'
      BY <1>0, <1>3, <2>0, SameTables
    <3> QED
      BY <2>0, <3>1, <3>2, <3>3 DEF WalkInv
  <2>6. RowsExact' /\ ErrInv' /\ KInv'
    BY <1>0, <2>0, SameRows DEF ErrInv, KInv
  <2> QED
    BY <2>1, <2>2, <2>3, <2>4, <2>5, <2>6 DEF IInv
<1> QED
  BY <1>2, <1>3

\* A table that is expanded in full holds for every sample the value of its run.
LEMMA RunOfSample ==
  ASSUME t \in Tables, NEW atom \in {"stts", "ctts"}, t[atom] # Absent, Complete(atom),
         NEW i \in 1 .. Samples
  PROVE  /\ EntryOf(Counts(Body(atom)), i) \in 1 .. Len(Body(atom))
         /\ out[atom][i] = RunValue(atom, Body(atom)[EntryOf(Counts(Body(atom)), i)])
<1> DEFINE f == Counts(Body(atom))
           l == Len(Body(atom))
<1>0. Samples \in Nat
  BY TableTypes
<1>1. CountsUpTo(f, l)
  BY RunTypes
<1>2. i \in Nat \ {0} /\ i \in Nat /\ i <= Total(f, l)
  BY <1>0 DEF Complete, Expanded, RunTotal
<1> HIDE DEF f, l
<1>3. PICK r \in 1 .. l : Total(f, r - 1) < i /\ i <= Total(f, r)
  BY <1>1, <1>2, EntryExists
<1>4. EntryOf(f, i) = r
  BY <1>1, <1>2, <1>3, EntryIs
<1>5. out[atom][i] = RunValue(atom, Body(atom)[r])
  BY <1>2, <1>3 DEF Complete, Expanded, RunTotal, f, l
<1> QED
  BY <1>3, <1>4, <1>5 DEF f, l

\* The offset of the next sample is its place in its chunk.
LEMMA NextOffset ==
  ASSUME IInv, pc = "sample", j < perChunk[k + 1], NEW i, i = Len(samples) + 1
  PROVE  /\ off = OffsetOf(i) /\ i \in Nat /\ i >= 1
         /\ i <= Total(ChunkCounts, k + 1)
<1>0. /\ WalkInv /\ TypeOK /\ t \in Tables /\ Samples \in Nat /\ perChunk = ChunkCounts
      /\ CountsUpTo(ChunkCounts, Len(t.stco.body)) /\ Len(t.stco.body) \in Nat
  BY AtChunk
<1> DEFINE m == Len(t.stco.body)
           base == Total(ChunkCounts, k)
<1>1. /\ k < m /\ j <= ChunkCounts[k + 1] /\ Len(samples) = base + j
      /\ off = t.stco.body[k + 1] + Total(Sizes, Len(samples)) - Total(Sizes, base)
      /\ k \in Nat /\ j \in Nat /\ Len(samples) \in Nat
  BY <1>0 DEF WalkInv, TypeOK
<1>2. k \in 0 .. m /\ k + 1 \in 1 .. m /\ k + 1 \in 0 .. m /\ (k + 1) - 1 = k
  BY <1>0, <1>1
<1>3. base \in Nat /\ Total(ChunkCounts, k + 1) \in Nat
  BY <1>0, <1>2, TotalNat
<1>4. Total(ChunkCounts, k + 1) = base + ChunkCounts[k + 1] /\ ChunkCounts[k + 1] \in Nat
  <2>1. ChunkCounts[k + 1] \in Nat
    BY <1>0, <1>2 DEF CountsUpTo
  <2> QED
    BY <1>1, <2>1, TotalStep
<1>5. j < ChunkCounts[k + 1]
  BY <1>0
<1>6. i \in Nat /\ i >= 1 /\ i - 1 = Len(samples)
  BY <1>1
<1>7. base < i /\ i <= Total(ChunkCounts, k + 1)
  <2> HIDE DEF base, m
  <2> QED
    BY <1>1, <1>3, <1>4, <1>5, <1>6
<1>8. EntryOf(ChunkCounts, i) = k + 1
  BY <1>0, <1>2, <1>6, <1>7, EntryIs
<1>9. OffsetOf(i) = t.stco.body[k + 1] + Total(Sizes, i - 1) - Total(Sizes, Total(ChunkCounts, (k + 1) - 1))
  BY <1>8 DEF OffsetOf
<1>10. off = OffsetOf(i)
  <2>1. off = t.stco.body[k + 1] + Total(Sizes, i - 1) - Total(Sizes, Total(ChunkCounts, (k + 1) - 1))
    BY <1>1, <1>2, <1>6
  <2> QED
    BY <1>9, <2>1
<1> QED
  BY <1>6, <1>7, <1>10

\* What the walk would write down of sample i.
RowOf(i) ==
  [offset |-> OffsetOf(i), size |-> Sizes[i],
   dtsDelta |-> t.stts.body[EntryOf(Counts(t.stts.body), i)][2],
   ctsOffset |->
     IF t.ctts = Absent THEN 0
     ELSE Signed(t.ctts.body[EntryOf(Counts(t.ctts.body), i)][2]),
   isSync |-> IsSync(i)]

\* RowsExact, row by row.
LEMMA RowsAre == RowsExact <=> \A i \in DOMAIN samples : samples[i] = RowOf(i)
  BY DEF RowsExact, RowOf, IsSync

\* The values of the runs are the deltas and the signed offsets.
LEMMA RowValues ==
  ASSUME IInv, pc = "sample", NEW i \in 1 .. Samples
  PROVE  /\ out.stts[i] = t.stts.body[EntryOf(Counts(t.stts.body), i)][2]
         /\ out.ctts[i] = IF t.ctts = Absent THEN 0
                          ELSE Signed(t.ctts.body[EntryOf(Counts(t.ctts.body), i)][2])
         /\ (i \in sync) = IsSync(i)
         /\ out.stts[i] \in Int /\ out.ctts[i] \in Int
<1>0. /\ t \in Tables /\ RunsInv /\ SyncInv /\ TypeOK /\ Readable
      /\ After("stts") /\ After("ctts") /\ After("stss")
  BY AtChunk DEF After, IInv, ReadInv
<1>1. /\ out.stts[i] = t.stts.body[EntryOf(Counts(t.stts.body), i)][2]
      /\ out.stts[i] \in Int
  <2> DEFINE r == EntryOf(Counts(Body("stts")), i)
  <2>1. t["stts"] # Absent /\ Complete("stts") /\ Body("stts") = t.stts.body
    BY <1>0, TableTypes, Fields DEF RunsInv, Body
  <2>2. r \in 1 .. Len(Body("stts")) /\ out["stts"][i] = RunValue("stts", Body("stts")[r])
    BY <1>0, <2>1, RunOfSample
  <2>3. RunValue("stts", Body("stts")[r]) \in Int
    BY <1>0, <2>1, <2>2, RunTypes
  <2>4. RunValue("stts", Body("stts")[r]) = Body("stts")[r][2]
    BY DEF RunValue
  <2> QED
    BY <2>1, <2>2, <2>3, <2>4
<1>2. CASE t.ctts = Absent
  <2>1. out["ctts"] = Copies(Samples, 0)
    BY <1>0, <1>2 DEF RunsInv
  <2>2. out["ctts"][i] = 0
    BY <2>1 DEF Copies
  <2>3. (i \in sync) = IsSync(i)
    BY <1>0 DEF SyncInv, IsSync
  <2> QED
    BY <1>1, <1>2, <2>2, <2>3
<1>3. CASE t.ctts # Absent
  <2> DEFINE r == EntryOf(Counts(Body("ctts")), i)
             raw == Body("ctts")[r][2]
  <2>1. t["ctts"] # Absent /\ Complete("ctts") /\ Body("ctts") = t.ctts.body
    BY <1>0, <1>3, Fields DEF RunsInv, Body
  <2>2. r \in 1 .. Len(Body("ctts")) /\ out["ctts"][i] = RunValue("ctts", Body("ctts")[r])
    BY <1>0, <2>1, RunOfSample
  <2>3. RunValue("ctts", Body("ctts")[r]) \in Int /\ raw \in Nat /\ DOMAIN Body("ctts") = 1 .. Len(Body("ctts"))
    BY <1>0, <2>1, <2>2, RunTypes
  <2>4. t.ctts.version \in {0, 1}
    BY <1>0, <1>3 DEF Readable, CttsOK, Framed
  <2>5. t.ctts.version = 0 => raw < U32 \div 2
    BY <1>0, <1>3, <2>1, <2>2, <2>3 DEF Readable, CttsOK
  <2>6. RunValue("ctts", Body("ctts")[r]) =
          IF t.ctts.version = 1 /\ raw >= U32 \div 2 THEN raw - U32 ELSE raw
    BY DEF RunValue
  <2>7. U32 \div 2 \in Nat
    BY WidthAssumption
  <2> HIDE DEF raw
  <2>8. RunValue("ctts", Body("ctts")[r]) = Signed(raw)
    BY <2>3, <2>4, <2>5, <2>6, <2>7 DEF Signed
  <2>9. (i \in sync) = IsSync(i)
    BY <1>0 DEF SyncInv, IsSync
  <2> QED
    BY <1>1, <1>3, <2>1, <2>2, <2>3, <2>8, <2>9 DEF raw
<1> QED
  BY <1>2, <1>3

\* One sample of a chunk.
LEMMA PushSampleIInv ==
  ASSUME IInv, PushSample
  PROVE  IInv'
<1>0. /\ TypeOK /\ ReadInv /\ RunsInv /\ SyncInv /\ ChunkInv /\ WalkInv /\ RowsExact
      /\ t \in Tables /\ n = Samples /\ Samples \in Nat /\ sizes = Sizes
      /\ CountsUpTo(Sizes, Samples) /\ perChunk = ChunkCounts
      /\ CountsUpTo(ChunkCounts, Len(t.stco.body)) /\ Len(t.stco.body) \in Nat
      /\ pc = "sample" /\ j < perChunk[k + 1]
  BY AtChunk DEF PushSample
<1>1. Len(samples) \in Nat /\ k \in Nat /\ j \in Nat /\ off \in Nat
  BY <1>0 DEF TypeOK
<1>2. PICK i \in Nat : i = Len(samples) + 1
  BY <1>1
<1>3. off = OffsetOf(i) /\ i >= 1 /\ i <= Total(ChunkCounts, k + 1)
  BY <1>0, <1>2, NextOffset
<1>4. CASE i > n
  <2>1. Fail
    BY <1>2, <1>4 DEF PushSample
  <2>2. k + 1 \in 0 .. Len(t.stco.body) /\ Len(t.stco.body) \in 0 .. Len(t.stco.body)
        /\ k + 1 <= Len(t.stco.body)
    BY <1>0, <1>1 DEF WalkInv
  <2>3. Total(ChunkCounts, k + 1) <= Total(ChunkCounts, Len(t.stco.body))
    BY <1>0, <2>2, TotalGrows
  <2>4. Total(ChunkCounts, k + 1) \in Nat /\ Total(ChunkCounts, Len(t.stco.body)) \in Nat
    BY <1>0, <2>2, TotalNat
  <2>5. Total(ChunkCounts, Len(t.stco.body)) # Samples
    BY <1>0, <1>3, <1>4, <2>3, <2>4
  <2> QED
    BY <2>1, <2>5, FailIInv DEF Consistent
<1>5. CASE ~(i > n) /\ off + sizes[i] > U64Max
  <2>1. Fail
    BY <1>2, <1>5 DEF PushSample
  <2>2. i \in 1 .. Samples
    BY <1>0, <1>3, <1>5
  <2>3. ~(OffsetOf(i) + Sizes[i] <= U64Max)
    <3>1. Sizes[i] \in Nat /\ off + Sizes[i] > U64Max
      BY <1>0, <1>5, <2>2 DEF CountsUpTo
    <3> QED
      BY <1>1, <1>3, <3>1, WidthAssumption
  <2> QED
    BY <2>1, <2>2, <2>3, FailIInv DEF Consistent
<1>6. CASE ~(i > n) /\ ~(off + sizes[i] > U64Max)
  <2> DEFINE row == [offset |-> off, size |-> sizes[i], dtsDelta |-> out.stts[i],
                     ctsOffset |-> out.ctts[i], isSync |-> i \in sync]
  <2>0. /\ samples' = Append(samples, row)
        /\ off' = off + sizes[i] /\ j' = j + 1
        /\ t' = t /\ pc' = pc /\ sizes' = sizes /\ out' = out /\ sync' = sync
        /\ perChunk' = perChunk /\ k' = k
    BY <1>2, <1>6 DEF PushSample
  <2>1. i \in 1 .. Samples /\ sizes[i] \in Nat
    <3>1. i \in 1 .. Samples
      BY <1>0, <1>3, <1>6
    <3> QED
      BY <1>0, <3>1 DEF CountsUpTo
  <2>2. row = RowOf(i)
    BY <1>0, <1>3, <2>1, RowValues DEF RowOf
  <2>3. row \in Row
    <3>1. out.stts[i] \in Int /\ out.ctts[i] \in Int
      BY <1>0, <2>1, RowValues
    <3> QED
      BY <1>1, <2>1, <3>1 DEF Row
  <2>4. row.offset + row.size <= U64Max
    BY <1>1, <1>6, <2>1, WidthAssumption
  <2> HIDE DEF row
  <2>5. samples \in Seq(Row)
    BY <1>0 DEF TypeOK
  <2>6. /\ samples' \in Seq(Row) /\ Len(samples') = i /\ DOMAIN samples' = 1 .. i
        /\ samples'[i] = row /\ \A x \in DOMAIN samples : samples'[x] = samples[x]
        /\ \A x \in 1 .. i : x = i \/ x \in DOMAIN samples
    BY <1>2, <2>0, <2>3, <2>5
  <2>7. TypeOK'
    <3>1. off' \in Nat /\ j' \in Nat
      BY <1>1, <2>0, <2>1
    <3> QED
      BY <1>0, <2>0, <2>6, <3>1 DEF TypeOK
  <2>8. ReadInv' /\ SyncInv'
    BY <1>0, <2>0, SameRead, SameSync DEF After
  <2>9. RunsInv'
    BY <1>0, <2>0, SameRunsInv DEF After
  <2>10. ChunkInv'
    BY <1>0, <2>0, SameTables DEF ChunkInv, After
  <2>11. RowsExact'
    <3>1. \A x \in DOMAIN samples : samples[x] = RowOf(x)
      BY <1>0, RowsAre
    <3>2. \A x \in DOMAIN samples' : samples'[x] = RowOf(x)
      BY <2>2, <2>6, <3>1
    <3>3. \A x : RowOf(x)' = RowOf(x)
      BY <2>0, SameTables DEF RowOf, IsSync
    <3>4. \A x \in DOMAIN samples' : samples'[x] = RowOf(x)'
      BY <3>2, <3>3
    <3>5. RowsExact' <=> \A x \in DOMAIN samples' : samples'[x] = RowOf(x)'
      BY DEF RowsExact, RowOf, IsSync
    <3> QED
      BY <3>4, <3>5
  <2>12. WalkInv'
    <3>1. /\ k < Len(t.stco.body) /\ Len(samples) = Total(ChunkCounts, k) + j
          /\ off = t.stco.body[k + 1] + Total(Sizes, Len(samples))
                                      - Total(Sizes, Total(ChunkCounts, k))
      BY <1>0 DEF WalkInv
    <3>2. /\ k + 1 \in 1 .. Len(t.stco.body) /\ k \in 0 .. Len(t.stco.body)
          /\ k <= Len(t.stco.body)
      BY <1>0, <1>1, <3>1
    <3>3. /\ Total(ChunkCounts, k) \in Nat /\ ChunkCounts[k + 1] \in Nat
          /\ t.stco.body[k + 1] \in Nat
      <4>1. Total(ChunkCounts, k) \in Nat
        BY <1>0, <3>2, TotalNat
      <4> QED
        BY <1>0, <3>2, <4>1, StscTypes DEF CountsUpTo
    <3>4. Total(Sizes, i) = Total(Sizes, Len(samples)) + Sizes[i]
      BY <1>1, <1>2, TotalStep
    <3>5. /\ Total(Sizes, Len(samples)) \in Nat /\ Total(Sizes, Total(ChunkCounts, k)) \in Nat
      <4>1. Len(samples) \in 0 .. Samples /\ Total(ChunkCounts, k) \in 0 .. Samples
        BY <1>0, <1>1, <1>2, <2>1, <3>1, <3>3
      <4> QED
        BY <1>0, <4>1, TotalNat
    <3>6. off' = t.stco.body[k + 1] + Total(Sizes, i) - Total(Sizes, Total(ChunkCounts, k))
      <4> DEFINE a == t.stco.body[k + 1]
                 b == Total(Sizes, Len(samples))
                 c == Total(Sizes, Total(ChunkCounts, k))
                 d == Sizes[i]
                 e == Total(Sizes, i)
      <4>1. off' = off + d /\ d \in Nat
        BY <1>0, <2>0, <2>1
      <4>2. off = a + b - c /\ a \in Nat /\ b \in Nat /\ c \in Nat /\ e = b + d
        BY <3>1, <3>3, <3>4, <3>5
      <4>3. off' = a + e - c
        <5> HIDE DEF a, b, c, d, e
        <5> QED
          BY <4>1, <4>2
      <4> QED
        BY <4>3
    <3>7. i = Total(ChunkCounts, k) + j' /\ j' <= ChunkCounts[k + 1]
      BY <1>0, <1>1, <1>2, <2>0, <3>1, <3>3, SMTT(30)
    <3>8. \A x \in DOMAIN samples' : samples'[x].offset + samples'[x].size <= U64Max
      <4>1. \A x \in DOMAIN samples : samples[x].offset + samples[x].size <= U64Max
        BY <1>0 DEF WalkInv
      <4> QED
        BY <2>4, <2>6, <4>1
    <3>9. /\ Samples' = Samples /\ pc' = "sample"
          /\ Total(ChunkCounts, k)' = Total(ChunkCounts, k)
          /\ Total(Sizes, Len(samples))' = Total(Sizes, i)
          /\ Total(Sizes, Total(ChunkCounts, k))' = Total(Sizes, Total(ChunkCounts, k))
          /\ ChunkCounts[k + 1]' = ChunkCounts[k + 1]
          /\ t' = t /\ k' = k
      BY <1>0, <2>0, <2>6, SameTables
    <3>10. i <= Samples
      BY <1>0, <2>1
    <3> QED
      BY <2>6, <3>1, <3>2, <3>6, <3>7, <3>8, <3>9, <3>10 DEF WalkInv
  <2>13. ErrInv' /\ KInv'
    BY <1>0, <2>0 DEF ErrInv, KInv
  <2> QED
    BY <2>7, <2>8, <2>9, <2>10, <2>11, <2>12, <2>13 DEF IInv
<1> QED
  BY <1>4, <1>5, <1>6

-----------------------------------------------------------------------------
\* Every step.
LEMMA NextIInv ==
  ASSUME IInv, [Next]_vars
  PROVE  IInv'
<1>1. CASE UNCHANGED vars
  <2>0. /\ t' = t /\ pc' = pc /\ sizes' = sizes /\ out' = out /\ sync' = sync
        /\ perChunk' = perChunk /\ k' = k /\ j' = j /\ off' = off /\ samples' = samples
    BY <1>1 DEF vars
  <2>1. ChunkInv'
    <3>1. NextFirst(k)' = NextFirst(k)
      BY <2>0 DEF NextFirst, First
    <3>2. \A e : /\ First(e)' = First(e) /\ NextFirst(e)' = NextFirst(e)
                 /\ StscEntryOK(e) => StscEntryOK(e)'
      BY <2>0, SameStsc
    <3> QED
      BY <2>0, <3>1, <3>2, SameTables DEF IInv, ChunkInv, After
  <2>2. TypeOK' /\ KInv'
    BY <2>0 DEF IInv, TypeOK, KInv
  <2>3. ReadInv' /\ SyncInv' /\ RowsExact'
    BY <2>0, SameRead, SameSync, SameRows DEF IInv, After
  <2>4. RunsInv'
    <3>1. Expanded("stts", k)' = Expanded("stts", k) /\ Expanded("ctts", k)' = Expanded("ctts", k)
      BY <2>0, SameRuns, SMTT(30) DEF Expanded
    <3>2. Complete("stts")' = Complete("stts") /\ Complete("ctts")' = Complete("ctts")
      BY <2>0, SameRuns, SameTables, SMTT(30) DEF Complete, Expanded
    <3> QED
      BY <2>0, <3>1, <3>2, SameTables DEF IInv, RunsInv, After, Copies
  <2>5. WalkInv'
    BY <2>0, SameTables DEF IInv, WalkInv
  <2>6. ErrInv'
    BY <2>0, SameTables DEF IInv, ErrInv
  <2> QED
    BY <2>1, <2>2, <2>3, <2>4, <2>5, <2>6 DEF IInv
<1>2. CASE Next
  BY <1>2, ReadTablesIInv, ExpandRunIInv, FinishRunsIInv, MarkSyncIInv, ExpandStscIInv,
     StscEndsIInv, StartChunkIInv, PushSampleIInv, EndChunkIInv, ReturnIInv DEF Next
<1> QED
  BY <1>1, <1>2

\* What is returned has passed every check that consistency asks for.
LEMMA IInvAccepts == IInv => AcceptsExactly
<1> SUFFICES ASSUME IInv PROVE AcceptsExactly
  OBVIOUS
<1>0. TypeOK /\ ReadInv /\ RunsInv /\ SyncInv /\ ChunkInv /\ WalkInv /\ RowsExact /\ ErrInv
  BY DEF IInv
<1>1. ASSUME pc = "Ok" PROVE Consistent /\ Len(samples) = Samples
  <2>0. /\ After("read") /\ After("stts") /\ After("ctts") /\ After("stss") /\ After("stsc")
    BY <1>1 DEF After
  <2>1. Readable /\ t \in Tables /\ Samples \in Nat
    BY <1>0, <2>0, SizesKnown
  <2>2. Complete("stts") /\ (t.ctts # Absent => Complete("ctts"))
    BY <1>0, <2>0 DEF RunsInv
  <2>3. RunsCover(t.stts) /\ (t.ctts # Absent => RunsCover(t.ctts))
    BY <2>2, Fields DEF Complete, Expanded, RunsCover, RunTotal, Body
  <2>4. t.stss # Absent => \A i \in DOMAIN t.stss.body : t.stss.body[i] \in 1 .. Samples
    BY <1>0, <2>0 DEF SyncInv
  <2>5. ChunksCovered /\ Len(samples) = Samples
        /\ Total(ChunkCounts, Len(t.stco.body)) = Samples
    BY <1>0, <1>1, <2>0 DEF ChunkInv, WalkInv
  <2>6. ASSUME NEW i \in 1 .. Samples PROVE OffsetOf(i) + Sizes[i] <= U64Max
    <3>1. i \in DOMAIN samples
      BY <1>0, <2>5 DEF TypeOK
    <3>2. samples[i] = RowOf(i)
      BY <1>0, <3>1, RowsAre
    <3>3. samples[i].offset + samples[i].size <= U64Max
      BY <1>0, <3>1 DEF WalkInv
    <3>4. RowOf(i).offset = OffsetOf(i) /\ RowOf(i).size = Sizes[i]
      BY DEF RowOf
    <3> QED
      BY <3>2, <3>3, <3>4
  <2> QED
    BY <2>1, <2>3, <2>4, <2>5, <2>6 DEF Consistent
<1>2. pc = "Err" => ~Consistent
  BY <1>0 DEF ErrInv
<1> QED
  BY <1>1, <1>2 DEF AcceptsExactly

\* Every row that walk emits, for every set of tables, is what the tables say of that
\* sample: its place in its chunk, its size, its runs of stts and ctts, its mark in stss.
THEOREM RowsAlwaysExact == Spec => []RowsExact
<1>1. IInv => RowsExact
  BY DEF IInv
<1>2. IInv /\ [Next]_vars => IInv'
  BY NextIInv
<1> QED
  BY <1>1, <1>2, InitIInv, PTL DEF Spec

\* walk returns Ok only for tables that agree with each other, with one row per sample,
\* and an error only for tables that do not.
THEOREM AcceptsExactlyConsistent == Spec => []AcceptsExactly
<1>1. IInv /\ [Next]_vars => IInv'
  BY NextIInv
<1> QED
  BY <1>1, InitIInv, IInvAccepts, PTL DEF Spec
=============================================================================
