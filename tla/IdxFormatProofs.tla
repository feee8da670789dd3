-------------------------- MODULE IdxFormatProofs ---------------------------
(***************************************************************************)
(* Proofs about IdxFormat, for every build and every damage to its file.   *)
(***************************************************************************)
EXTENDS IdxFormat, NaturalsInduction, WellFoundedInduction, TLAPS

Sections == Len(Kinds)

DirEntry == [kind : KindSet \cup {Unknown}, pad : 0 .. 1, off : Nat]

TypeOK ==
  /\ input \in Inputs
  /\ pc \in {"serialise", "stored", "parse", "Ok", "Err"}
  /\ k \in 0 .. Sections
  /\ img = [len |-> img.len, magic |-> img.magic, reserved |-> img.reserved,
            dir |-> img.dir, word |-> img.word, dirty |-> img.dirty]
  /\ img.len \in Nat
  /\ img.dir \in Seq(DirEntry)
  /\ \A p \in DOMAIN img.word : p \in Nat /\ img.word[p] \in Nat
  /\ placed = [kind \in KindSet |-> placed[kind]]
  /\ view = [kind \in KindSet |-> view[kind]]
  /\ damage \in {"none", "cut", "other"}

Off(i) == img.dir[i].off

\* Where the content of section i ends, before any padding.
ContentEnd(i) == Off(i) + Encode(Kinds[i]).len

\* Section i is what encode made of the input, where its directory entry says.
Laid(i) ==
  /\ img.dir[i].kind = Kinds[i] /\ img.dir[i].pad = 0
  /\ Off(i) % 8 = 0
  /\ \A p \in DOMAIN Encode(Kinds[i]).word :
       /\ Off(i) + p \in DOMAIN img.word
       /\ img.word[Off(i) + p] = Encode(Kinds[i]).word[p]
  /\ placed[Kinds[i]] = [m \in DOMAIN Encode(Kinds[i]).items |->
                           Shift(Encode(Kinds[i]).items[m], Off(i))]

\* Unless the file was damaged, its sections are laid out one after the other.
LayoutInv ==
  damage \in {"none", "cut"} =>
    /\ img.magic /\ img.reserved = 0 /\ img.dirty = {}
    /\ Len(img.dir) \in 0 .. Sections
    /\ \A i \in 1 .. Len(img.dir) : Laid(i)
    /\ Len(img.dir) > 0 => Off(1) = HeaderEnd(Sections)
    /\ \A i \in 1 .. Len(img.dir) - 1 : Off(i + 1) = Pad8(ContentEnd(i))

\* A whole file ends where its last section does; build still pads.
LengthInv ==
  damage = "none" =>
    img.len = LET m == Len(img.dir)
              IN  IF m = 0 THEN HeaderEnd(Sections)
                  ELSE IF m < Sections THEN Pad8(ContentEnd(m)) ELSE ContentEnd(m)

PhaseInv ==
  /\ pc = "serialise" => /\ damage = "none" /\ k = Len(img.dir)
                         /\ \A p \in DOMAIN img.word : p < img.len
  /\ pc \in {"stored", "parse", "Ok"} /\ damage \in {"none", "cut"} => Len(img.dir) = Sections
  /\ pc \in {"serialise", "stored"} => \A kind \in KindSet : view[kind] = <<>>
  /\ pc \in {"parse", "Ok"} => k <= 5 /\ DirectoryOK /\ \A kind \in Required : Has(kind)
  /\ pc = "Ok" => k = 5

\* Ranges r stand one behind the other in the section of a kind.
Inside(r, kind) ==
  /\ Has(kind)
  /\ \A x \in DOMAIN r : /\ r[x][1] \in Nat /\ r[x][2] \in Nat
                         /\ Payload(kind)[1] <= r[x][1] /\ r[x][1] <= r[x][2]
                         /\ r[x][2] <= Payload(kind)[2]
  /\ \A x, y \in DOMAIN r : x # y => r[x][2] <= r[y][1] \/ r[y][2] <= r[x][1]

\* The view of a section stays inside it, and the rows of a table are aligned.
ViewInv ==
  pc \in {"parse", "Ok"} =>
    /\ \A kind \in KindSet : view[kind] # <<>> => Inside(view[kind], kind)
    /\ \A i \in 3 .. 5 : i <= k => view[Kinds[i]][1][1] % 8 = 0

\* What open has read of an undamaged file is what build wrote.
SeenInv ==
  pc \in {"parse", "Ok"} /\ damage \in {"none", "cut"} =>
    /\ \A i \in 1 .. 5 : i <= k => view[Kinds[i]] = placed[Kinds[i]]
    /\ view["PlaylistBytes"] = placed["PlaylistBytes"]
    /\ damage = "none" => view["InitSegmentBytes"] = placed["InitSegmentBytes"]

ErrInv == damage = "none" /\ pc = "Err" => \E kind \in KindSet : ~Encodable(kind)

IInv == TypeOK /\ LayoutInv /\ LengthInv /\ PhaseInv /\ ViewInv /\ SeenInv /\ ErrInv

-----------------------------------------------------------------------------
\* What the constants of the format are.
LEMMA KindsAre ==
  /\ Sections = 7 /\ Len(Kinds) = 7
  /\ KindSet = {"VideoTrackMeta", "AudioTrackMeta", "VideoSampleTable", "AudioSampleTable",
                "SegmentTable", "PlaylistBytes", "InitSegmentBytes"}
  /\ Kinds[1] = "VideoTrackMeta" /\ Kinds[2] = "AudioTrackMeta"
  /\ Kinds[3] = "VideoSampleTable" /\ Kinds[4] = "AudioSampleTable"
  /\ Kinds[5] = "SegmentTable" /\ Kinds[6] = "PlaylistBytes" /\ Kinds[7] = "InitSegmentBytes"
  /\ HeaderEnd(7) = 168
<1>1. Len(Kinds) = 7 /\ DOMAIN Kinds = 1 .. 7
  BY DEF Kinds
<1>2. /\ Kinds[1] = "VideoTrackMeta" /\ Kinds[2] = "AudioTrackMeta"
      /\ Kinds[3] = "VideoSampleTable" /\ Kinds[4] = "AudioSampleTable"
      /\ Kinds[5] = "SegmentTable" /\ Kinds[6] = "PlaylistBytes" /\ Kinds[7] = "InitSegmentBytes"
  BY DEF Kinds
<1>3. KindSet = {Kinds[1], Kinds[2], Kinds[3], Kinds[4], Kinds[5], Kinds[6], Kinds[7]}
  BY <1>1 DEF KindSet
<1> QED
  BY <1>1, <1>2, <1>3 DEF Sections, HeaderEnd, HEADER_FIXED_LEN, SECTION_DIR_ENTRY_LEN

\* Pad8 rounds up to a multiple of 8.
LEMMA Pad8Is ==
  ASSUME NEW x \in Nat
  PROVE  /\ Pad8(x) \in Nat /\ Pad8(x) % 8 = 0
         /\ x <= Pad8(x) /\ Pad8(x) < x + 8
         /\ x % 8 = 0 => Pad8(x) = x
  BY DEF Pad8

\* A multiple of 8 plus something: Pad8 only rounds the rest.
LEMMA Pad8Sum ==
  ASSUME NEW x \in Nat, NEW y \in Nat, x % 8 = 0, y % 8 = 0
  PROVE  (x + y) % 8 = 0 /\ Pad8(x + y) = x + y
  BY DEF Pad8

\* An update of a function on the kinds is a function on the kinds.
LEMMA KindFunction ==
  ASSUME NEW f, f = [kind \in KindSet |-> f[kind]], NEW x, NEW v
  PROVE  LET g == [f EXCEPT ![x] = v] IN g = [kind \in KindSet |-> g[kind]]
<1> DEFINE g == [f EXCEPT ![x] = v]
<1>1. DOMAIN f = KindSet
  OBVIOUS
<1>2. g = [kind \in KindSet |-> IF kind = x THEN v ELSE f[kind]]
  BY <1>1
<1>3. \A kind \in KindSet : g[kind] = IF kind = x THEN v ELSE f[kind]
  BY <1>2
<1> HIDE DEF g
<1>4. g = [kind \in KindSet |-> g[kind]]
  BY <1>2, <1>3
<1> QED
  BY <1>4 DEF g

\* Every nonempty set of natural numbers has a least element.
LEMMA LeastElement ==
  ASSUME NEW S \in SUBSET Nat, S # {}
  PROVE  \E x \in S : \A y \in S : x <= y
<1> DEFINE R == {ss \in Nat \X Nat : ss[1] < ss[2]}
<1>1. IsWellFoundedOn(R, Nat)
  BY NatLessThanWellFounded DEF OpToRel
<1>2. ASSUME NEW x \in S, NEW y \in S
      PROVE  <<y, x>> \in R <=> y < x
  OBVIOUS
<1> HIDE DEF R
<1>3. PICK x \in S : \A y \in S : ~(<<y, x>> \in R)
  BY <1>1, WFMin
<1>4. \A y \in S : ~(y < x)
  BY <1>2, <1>3
<1> QED
  BY <1>4

-----------------------------------------------------------------------------
\* Directory entries have numbers as offsets.
LEMMA DirType ==
  ASSUME TypeOK
  PROVE  /\ Len(img.dir) \in Nat /\ DOMAIN img.dir = 1 .. Len(img.dir)
         /\ \A i \in 1 .. Len(img.dir) : Off(i) \in Nat /\ img.dir[i] \in DirEntry
<1>1. img.dir \in Seq(DirEntry)
  BY DEF TypeOK
<1>2. /\ Len(img.dir) \in Nat /\ DOMAIN img.dir = 1 .. Len(img.dir)
      /\ \A i \in 1 .. Len(img.dir) : img.dir[i] \in DirEntry
  BY <1>1
<1> QED
  BY <1>2 DEF Off, DirEntry

\* The check of neighbours in check_directory orders all sections.
LEMMA OffsetsGrow ==
  ASSUME TypeOK, DirectoryOK, NEW i \in 1 .. Len(img.dir), NEW l \in 1 .. Len(img.dir), i <= l
  PROVE  Off(i) <= Off(l)
<1> DEFINE m == Len(img.dir)
           S == {j \in Nat : j \in i .. m /\ Off(j) < Off(i)}
<1>1. /\ m \in Nat /\ \A j \in 1 .. m : Off(j) \in Nat
      /\ \A j \in 1 .. m - 1 : Off(j) < Off(j + 1)
  BY DirType DEF DirectoryOK, Off
<1>2. S = {}
  <2> SUFFICES ASSUME S # {} PROVE FALSE
    OBVIOUS
  <2>1. PICK x \in S : \A y \in S : x <= y
    BY LeastElement
  <2>2. x # i /\ x \in i .. m /\ Off(x) < Off(i)
    BY <1>1
  <2>3. x - 1 \in i .. m - 1 /\ x - 1 \in Nat
    BY <1>1, <2>2
  <2>4. Off(x - 1) >= Off(i)
    BY <1>1, <2>1, <2>3
  <2>5. Off(x - 1) < Off(x - 1 + 1) /\ x - 1 + 1 = x
    BY <1>1, <2>2, <2>3
  <2> QED
    BY <1>1, <2>2, <2>3, <2>4, <2>5, SMTT(30)
<1> QED
  BY <1>1, <1>2

\* Which bytes section_payload returns.
LEMMA PayloadIs ==
  ASSUME TypeOK, DirectoryOK, NEW i \in 1 .. Len(img.dir)
  PROVE  /\ Payload(img.dir[i].kind) = <<Off(i), IF i < Len(img.dir) THEN Off(i + 1) ELSE img.len>>
         /\ Has(img.dir[i].kind)
<1>1. \A l \in DOMAIN img.dir : img.dir[l].kind = img.dir[i].kind => l = i
  BY DirType DEF DirectoryOK
<1>2. i \in DOMAIN img.dir
  BY DirType
<1> DEFINE K == img.dir[i].kind
           n == CHOOSE l \in DOMAIN img.dir : img.dir[l].kind = K
<1>3. n = i
  BY <1>1, <1>2
<1>4. Payload(K) = <<Off(n), IF n < Len(img.dir) THEN Off(n + 1) ELSE img.len>>
  BY DEF Payload, Off
<1> HIDE DEF n
<1>5. Payload(K) = <<Off(i), IF i < Len(img.dir) THEN Off(i + 1) ELSE img.len>>
  BY <1>3, <1>4
<1> QED
  BY <1>2, <1>5 DEF Has

\* A section begins at a multiple of 8 and is inside of the file.
LEMMA PayloadIn ==
  ASSUME TypeOK, DirectoryOK, NEW kind, Has(kind)
  PROVE  /\ Payload(kind)[1] \in Nat /\ Payload(kind)[2] \in Nat
         /\ HeaderEnd(Len(img.dir)) \in Nat
         /\ HeaderEnd(Len(img.dir)) <= Payload(kind)[1]
         /\ Payload(kind)[1] <= Payload(kind)[2] /\ Payload(kind)[2] <= img.len
         /\ Payload(kind)[1] % 8 = 0
<1> DEFINE m == Len(img.dir)
<1>1. m \in Nat /\ DOMAIN img.dir = 1 .. m /\ \A j \in 1 .. m : Off(j) \in Nat
  BY DirType
<1>2. PICK i \in 1 .. m : img.dir[i].kind = kind
  BY <1>1 DEF Has
<1>3. /\ Payload(kind)[1] = Off(i)
      /\ Payload(kind)[2] = IF i < m THEN Off(i + 1) ELSE img.len
  BY <1>2, PayloadIs
<1>4. /\ Off(1) = HeaderEnd(m) /\ Off(m) <= img.len /\ Off(i) % 8 = 0
      /\ 1 <= m /\ img.len \in Nat
  BY <1>1, <1>2 DEF DirectoryOK, LastStarts, Off, TypeOK
<1>5. Off(1) <= Off(i) /\ Off(i) <= Off(m)
  BY <1>1, <1>2, <1>4, OffsetsGrow
<1>6. CASE i < m
  <2>1. i + 1 \in 1 .. m
    BY <1>1, <1>2, <1>6
  <2>2. Off(i) <= Off(i + 1) /\ Off(i + 1) <= Off(m)
    BY <1>1, <1>2, <1>4, <2>1, OffsetsGrow
  <2> QED
    BY <1>1, <1>2, <1>3, <1>4, <1>5, <1>6, <2>1, <2>2, SMTT(30)
<1>7. CASE ~(i < m)
  BY <1>1, <1>2, <1>3, <1>4, <1>5, <1>7
<1> QED
  BY <1>6, <1>7

\* Two sections have no byte in common.
LEMMA PayloadsApart ==
  ASSUME TypeOK, DirectoryOK, NEW a, NEW b, Has(a), Has(b), a # b
  PROVE  Payload(a)[2] <= Payload(b)[1] \/ Payload(b)[2] <= Payload(a)[1]
<1> DEFINE m == Len(img.dir)
<1>1. m \in Nat /\ DOMAIN img.dir = 1 .. m /\ \A j \in 1 .. m : Off(j) \in Nat
  BY DirType
<1>2. PICK i \in 1 .. m : img.dir[i].kind = a
  BY <1>1 DEF Has
<1>3. PICK l \in 1 .. m : img.dir[l].kind = b
  BY <1>1 DEF Has
<1>4. /\ Payload(a)[1] = Off(i) /\ Payload(b)[1] = Off(l)
      /\ i < m => Payload(a)[2] = Off(i + 1)
      /\ l < m => Payload(b)[2] = Off(l + 1)
  BY <1>2, <1>3, PayloadIs
<1>5. CASE i < l
  <2>1. i + 1 \in 1 .. m /\ i + 1 <= l /\ i < m
    BY <1>1, <1>2, <1>3, <1>5
  <2>2. Off(i + 1) <= Off(l)
    BY <1>1, <1>3, <2>1, OffsetsGrow
  <2> QED
    BY <1>4, <2>1, <2>2
<1>6. CASE l < i
  <2>1. l + 1 \in 1 .. m /\ l + 1 <= i /\ l < m
    BY <1>1, <1>2, <1>3, <1>6
  <2>2. Off(l + 1) <= Off(i)
    BY <1>1, <1>2, <2>1, OffsetsGrow
  <2> QED
    BY <1>4, <2>1, <2>2
<1> QED
  BY <1>2, <1>3, <1>5, <1>6

\* A view that stays inside its sections is one of distinct parts of the file.
LEMMA ViewInBounds ==
  ASSUME IInv
  PROVE  InBounds
<1> SUFFICES ASSUME pc = "Ok" PROVE InBounds
  BY DEF InBounds
<1>1. /\ TypeOK /\ DirectoryOK /\ k = 5
      /\ \A kind \in KindSet : view[kind] # <<>> => Inside(view[kind], kind)
      /\ \A i \in 3 .. 5 : i <= k => view[Kinds[i]][1][1] % 8 = 0
  BY DEF IInv, PhaseInv, ViewInv
<1>2. ASSUME NEW r \in Ranges
      PROVE  r[1] \in KindSet /\ r[2] \in DOMAIN view[r[1]] /\ r = <<r[1], r[2]>>
             /\ view[r[1]] # <<>>
  BY DEF Ranges
<1>3. ASSUME NEW r \in Ranges
      PROVE  /\ Inside(view[r[1]], r[1]) /\ Has(r[1])
             /\ From(r) \in Nat /\ To(r) \in Nat /\ From(r) <= To(r)
             /\ Payload(r[1])[1] <= From(r) /\ To(r) <= Payload(r[1])[2]
  BY <1>1, <1>2 DEF Inside, From, To
<1>4. ASSUME NEW r \in Ranges
      PROVE  HeaderEnd(Len(img.dir)) <= From(r) /\ From(r) <= To(r) /\ To(r) <= img.len
  <2>1. img.len \in Nat
    BY <1>1 DEF TypeOK
  <2> QED
    BY <1>1, <1>3, <2>1, PayloadIn
<1>5. ASSUME NEW kind \in Tables
      PROVE  view[kind][1][1] % 8 = 0
  BY <1>1, KindsAre DEF Tables
<1>6. ASSUME NEW r \in Ranges, NEW s \in Ranges, r # s
      PROVE  To(r) <= From(s) \/ To(s) <= From(r)
  <2>1. CASE r[1] = s[1]
    <3>1. r[2] # s[2]
      BY <1>2, <1>6, <2>1
    <3> QED
      BY <1>2, <1>3, <2>1, <3>1 DEF Inside, From, To
  <2>2. CASE r[1] # s[1]
    <3>1. /\ Payload(r[1])[1] \in Nat /\ Payload(r[1])[2] \in Nat
          /\ Payload(s[1])[1] \in Nat /\ Payload(s[1])[2] \in Nat
      BY <1>1, <1>3, PayloadIn
    <3>2. Payload(r[1])[2] <= Payload(s[1])[1] \/ Payload(s[1])[2] <= Payload(r[1])[1]
      BY <1>1, <1>3, <2>2, PayloadsApart
    <3> QED
      BY <1>3, <3>1, <3>2
  <2> QED
    BY <2>1, <2>2
<1> QED
  BY <1>4, <1>5, <1>6 DEF InBounds

-----------------------------------------------------------------------------
\* What a table has per row.
RowLen(kind) == IF kind = "SegmentTable" THEN SegmentEntryLen ELSE SampleEntryLen

\* The contents of the sections are two blobs, rows, or plain bytes.
LEMMA EncodeForms ==
  ASSUME TypeOK
  PROVE  /\ \A i \in {1, 2} : \E entry, elst \in Nat : Encode(Kinds[i]) = EncodeMeta(entry, elst)
         /\ \A i \in {3, 4, 5} : \E rows \in Nat : Encode(Kinds[i]) = EncodeTable(rows, RowLen(Kinds[i]))
         /\ \E n \in Nat \ {0} : Encode(Kinds[6]) = EncodeBytes(Pad8(n))
         /\ \E n \in Nat : Encode(Kinds[7]) = EncodeBytes(n)
<1>1. /\ input.videoEntry \in Nat /\ input.videoElst \in Nat
      /\ input.audioEntry \in Nat /\ input.audioElst \in Nat
      /\ input.videoSamples \in Nat /\ input.audioSamples \in Nat /\ input.segments \in Nat
      /\ input.playlist \in Nat \ {0} /\ input.init \in Nat
  BY InputsAssumption DEF TypeOK
<1>2. Encode(Kinds[1]) = EncodeMeta(input.videoEntry, input.videoElst)
  BY KindsAre DEF Encode
<1>3. Encode(Kinds[2]) = EncodeMeta(input.audioEntry, input.audioElst)
  BY KindsAre DEF Encode
<1>4. Encode(Kinds[3]) = EncodeTable(input.videoSamples, RowLen(Kinds[3]))
  BY KindsAre DEF Encode, RowLen
<1>5. Encode(Kinds[4]) = EncodeTable(input.audioSamples, RowLen(Kinds[4]))
  BY KindsAre DEF Encode, RowLen
<1>6. Encode(Kinds[5]) = EncodeTable(input.segments, RowLen(Kinds[5]))
  BY KindsAre DEF Encode, RowLen
<1>7. Encode(Kinds[6]) = EncodeBytes(Pad8(input.playlist))
  BY KindsAre DEF Encode, RenderPlaylist
<1>8. Encode(Kinds[7]) = EncodeBytes(input.init)
  BY KindsAre DEF Encode
<1> QED
  BY <1>1, <1>2, <1>3, <1>4, <1>5, <1>6, <1>7, <1>8

\* Rows of the tables have 24 or 32 bytes.
LEMMA RowLens == \A kind : RowLen(kind) \in {24, 32}
  BY DEF RowLen, SegmentEntryLen, SampleEntryLen

\* The numbers in a content lie inside it, and only an init segment may be empty.
LEMMA EncodeType ==
  ASSUME TypeOK, NEW i \in 1 .. 7
  PROVE  /\ Encode(Kinds[i]).len \in Nat
         /\ i < 7 => Encode(Kinds[i]).len > 0
         /\ \A p \in DOMAIN Encode(Kinds[i]).word :
              p \in Nat /\ p < Encode(Kinds[i]).len /\ Encode(Kinds[i]).word[p] \in Nat
<1>1. CASE i \in {1, 2}
  <2>1. PICK entry, elst \in Nat : Encode(Kinds[i]) = EncodeMeta(entry, elst)
    BY <1>1, EncodeForms
  <2> QED
    BY <2>1 DEF EncodeMeta
<1>2. CASE i \in {3, 4, 5}
  <2>1. PICK rows \in Nat : Encode(Kinds[i]) = EncodeTable(rows, RowLen(Kinds[i]))
    BY <1>2, EncodeForms
  <2>2. rows * RowLen(Kinds[i]) \in Nat
    BY RowLens
  <2> HIDE DEF RowLen
  <2> QED
    BY <2>1, <2>2 DEF EncodeTable
<1>3. CASE i = 6
  <2>1. PICK n \in Nat \ {0} : Encode(Kinds[i]) = EncodeBytes(Pad8(n))
    BY <1>3, EncodeForms
  <2>2. Pad8(n) \in Nat /\ Pad8(n) > 0
    BY Pad8Is
  <2> QED
    BY <2>1, <2>2 DEF EncodeBytes
<1>4. CASE i = 7
  <2>1. PICK n \in Nat : Encode(Kinds[i]) = EncodeBytes(n)
    BY <1>4, EncodeForms
  <2> QED
    BY <1>4, <2>1 DEF EncodeBytes
<1> QED
  BY <1>1, <1>2, <1>3, <1>4

-----------------------------------------------------------------------------
\* A build starts with nothing written and nothing read.
LEMMA InitIInv == Init => IInv
<1> SUFFICES ASSUME Init PROVE IInv
  OBVIOUS
<1>1. /\ img.len = 168 /\ img.dir = <<>> /\ img.word = <<>> /\ img.dirty = {}
      /\ img.magic /\ img.reserved = 0
      /\ img = [len |-> img.len, magic |-> img.magic, reserved |-> img.reserved,
                dir |-> img.dir, word |-> img.word, dirty |-> img.dirty]
  BY KindsAre DEF Init
<1>2. Len(img.dir) = 0 /\ img.dir \in Seq(DirEntry) /\ DOMAIN img.word = {}
  BY <1>1
<1>3. TypeOK
  BY <1>1, <1>2, KindsAre DEF Init, TypeOK
<1>4. LayoutInv /\ LengthInv
  BY <1>1, <1>2, KindsAre DEF Init, LayoutInv, LengthInv
<1>5. PhaseInv /\ ViewInv /\ SeenInv /\ ErrInv
  BY <1>2 DEF Init, PhaseInv, ViewInv, SeenInv, ErrInv
<1> QED
  BY <1>3, <1>4, <1>5 DEF IInv

\* What is kept when neither the build nor its file changes.
LEMMA SameFile ==
  ASSUME IInv, UNCHANGED <<input, img, placed, damage>>
  PROVE  /\ LayoutInv' /\ LengthInv'
         /\ DirectoryOK' <=> DirectoryOK
         /\ \A kind : (Has(kind)' <=> Has(kind)) /\ Payload(kind)' = Payload(kind)
         /\ \A r, kind : Inside(r, kind)' <=> Inside(r, kind)
<1>1. \A kind : Encode(kind)' = Encode(kind)
  BY DEF Encode
<1>2. \A i : Off(i)' = Off(i) /\ ContentEnd(i)' = ContentEnd(i)
  BY <1>1 DEF Off, ContentEnd
<1>3. \A i : Laid(i)' <=> Laid(i)
  BY <1>1, <1>2 DEF Laid
<1>4. LayoutInv' /\ LengthInv'
  BY <1>2, <1>3 DEF IInv, LayoutInv, LengthInv
<1>5. DirectoryOK' <=> DirectoryOK
  BY DEF DirectoryOK, LastStarts
<1>6. \A kind : (Has(kind)' <=> Has(kind)) /\ Payload(kind)' = Payload(kind)
  BY DEF Has, Payload
<1>7. \A r, kind : Inside(r, kind)' <=> Inside(r, kind)
  BY <1>6 DEF Inside
<1> QED
  BY <1>4, <1>5, <1>6, <1>7

\* An error ends the build or the open.
LEMMA FailIInv ==
  ASSUME IInv, Fail, damage = "none" => \E kind \in KindSet : ~Encodable(kind)
  PROVE  IInv'
<1>1. UNCHANGED <<input, k, img, placed, damage, view>> /\ pc' = "Err"
  BY DEF Fail
<1>2. LayoutInv' /\ LengthInv'
  BY <1>1, SameFile
<1>3. TypeOK' /\ PhaseInv' /\ ViewInv' /\ SeenInv'
  BY <1>1 DEF IInv, TypeOK, PhaseInv, ViewInv, SeenInv
<1>4. \A kind : Encodable(kind)' <=> Encodable(kind)
  BY <1>1 DEF Encodable, Encode
<1>5. ErrInv'
  BY <1>1, <1>4 DEF ErrInv
<1> QED
  BY <1>2, <1>3, <1>5 DEF IInv

\* Before a section is written, the image ends at a multiple of 8.
LEMMA ImageAligned ==
  ASSUME IInv, pc = "serialise", k < 7
  PROVE  /\ k = Len(img.dir) /\ k \in 0 .. 6 /\ img.len \in Nat /\ img.len % 8 = 0
         /\ k = 0 => img.len = 168
         /\ k > 0 => img.len = Pad8(ContentEnd(k))
<1>1. k = Len(img.dir) /\ k \in 0 .. 6 /\ img.len \in Nat /\ damage = "none" /\ TypeOK
  BY KindsAre DEF IInv, TypeOK, PhaseInv
<1>2. CASE k = 0
  BY <1>1, <1>2, KindsAre DEF IInv, LengthInv
<1>3. CASE k > 0
  <2>1. img.len = Pad8(ContentEnd(k))
    BY <1>1, <1>3, KindsAre DEF IInv, LengthInv
  <2>3. k \in 1 .. 7 /\ k \in 1 .. Len(img.dir)
    BY <1>1, <1>3
  <2>4. Encode(Kinds[k]).len \in Nat
    BY <1>1, <2>3, EncodeType
  <2>5. Off(k) \in Nat
    BY <1>1, <2>3, DirType
  <2>2. ContentEnd(k) \in Nat
    BY <2>4, <2>5 DEF ContentEnd
  <2>6. Pad8(ContentEnd(k)) % 8 = 0
    BY <2>2, Pad8Is
  <2> QED
    BY <1>1, <1>3, <2>1, <2>6
<1> QED
  BY <1>1, <1>2, <1>3
\* The section kinds differ.
LEMMA KindsDiffer ==
  \A i, j \in 1 .. 7 : Kinds[i] \in KindSet /\ (i # j => Kinds[i] # Kinds[j])
<1>1. \A i \in 1 .. 7 : i = 1 \/ i = 2 \/ i = 3 \/ i = 4 \/ i = 5 \/ i = 6 \/ i = 7
  OBVIOUS
<1> QED
  BY <1>1, KindsAre

\* A section is appended; those before it stay as they are.
LEMMA WriteSectionIInv ==
  ASSUME IInv, WriteSection
  PROVE  IInv'
<1> DEFINE kind == Kinds[k + 1]
           c == Encode(kind)
           end == img.len + c.len
           here == {img.len + p : p \in DOMAIN c.word}
           entry == [kind |-> kind, pad |-> 0, off |-> img.len]
<1>1. pc = "serialise" /\ k < 7 /\ TypeOK /\ damage = "none"
  BY KindsAre DEF WriteSection, IInv, PhaseInv
<1>2. /\ img.len \in Nat /\ img.len % 8 = 0
      /\ k = 0 => img.len = 168
      /\ k > 0 => img.len = Pad8(ContentEnd(k))
  BY <1>1, ImageAligned
<1>7. k = Len(img.dir) /\ k \in 0 .. 6
  BY <1>1, ImageAligned
<1> HIDE DEF entry, here, end, c, kind
<1>8. PICK n \in 1 .. 7 : n = k + 1
  <2>0. k \in 0 .. 6
    BY <1>7
  <2>1. k + 1 \in 1 .. 7
    BY <2>0
  <2> QED
    BY <2>1
<1>0. n = k + 1 /\ k = n - 1 /\ k \in Nat /\ k = Len(img.dir) /\ \A i \in 1 .. k : i \in 1 .. 7 /\ i # n
  BY <1>7, <1>8
<1>9. kind = Kinds[n]
  BY <1>0 DEF kind
<1>3. kind \in KindSet /\ \A i \in 1 .. k : Kinds[i] # kind
  BY <1>0, <1>9, KindsDiffer
<1>4. /\ c.len \in Nat
      /\ \A p \in DOMAIN c.word : p \in Nat /\ p < c.len /\ c.word[p] \in Nat
  BY <1>1, <1>9, EncodeType DEF c
<1>5. CASE ~Encodable(kind)
  BY <1>3, <1>5, FailIInv DEF WriteSection, kind
<1>6. CASE Encodable(kind)
  <2>1. /\ img' = [img EXCEPT
                     !.len = IF k + 1 < Len(Kinds) THEN Pad8(end) ELSE end,
                     !.dir = Append(@, entry),
                     !.word = [p \in here \cup DOMAIN img.word |->
                                 IF p \in here THEN c.word[p - img.len] ELSE img.word[p]]]
        /\ placed' = [placed EXCEPT ![kind] =
                     [m \in DOMAIN c.items |-> Shift(c.items[m], img.len)]]
        /\ k' = k + 1
        /\ UNCHANGED <<input, pc, damage, view>>
    BY <1>6 DEF WriteSection, entry, here, end, c, kind
  <2>2. img = [len |-> img.len, magic |-> img.magic, reserved |-> img.reserved,
               dir |-> img.dir, word |-> img.word, dirty |-> img.dirty]
        /\ img.magic /\ img.reserved = 0 /\ img.dirty = {}
    BY <1>1 DEF TypeOK, IInv, LayoutInv
  <2>3. /\ img'.len = IF n < 7 THEN Pad8(end) ELSE end
        /\ img'.dir = Append(img.dir, entry)
        /\ img'.word = [p \in here \cup DOMAIN img.word |->
                          IF p \in here THEN c.word[p - img.len] ELSE img.word[p]]
        /\ img'.magic /\ img'.reserved = 0 /\ img'.dirty = {}
        /\ img' = [len |-> img'.len, magic |-> img'.magic, reserved |-> img'.reserved,
                   dir |-> img'.dir, word |-> img'.word, dirty |-> img'.dirty]
    BY <1>0, <2>1, <2>2, KindsAre, ZenonT(40)
  <2>a. k' = n /\ UNCHANGED <<input, pc, damage, view>>
    BY <1>0, <2>1
  <2>4. end \in Nat /\ img.len <= end /\ end <= img'.len /\ img'.len \in Nat
    <3>1. end \in Nat /\ img.len <= end
      BY <1>2, <1>4 DEF end
    <3>2. Pad8(end) \in Nat /\ end <= Pad8(end)
      BY <3>1, Pad8Is
    <3>3. img'.len = Pad8(end) \/ img'.len = end
      BY <2>3
    <3> QED
      BY <3>1, <3>2, <3>3
  <2>5. entry \in DirEntry /\ entry.kind = kind /\ entry.pad = 0 /\ entry.off = img.len
    BY <1>2, <1>3 DEF entry, DirEntry
  <2>6. img.dir \in Seq(DirEntry)
    BY <1>1 DEF TypeOK
  <2>7. /\ img'.dir \in Seq(DirEntry) /\ Len(img'.dir) = n
        /\ \A i \in 1 .. k : img'.dir[i] = img.dir[i]
        /\ img'.dir[n] = entry
    <3>1. img'.dir = Append(img.dir, entry)
      BY <2>3
    <3> QED
      BY <1>0, <2>5, <2>6, <3>1
  <2>8. \A p \in here : p - img.len \in DOMAIN c.word /\ p \in Nat /\ img.len <= p /\ p < end
    BY <1>2, <1>4 DEF here, end
  <2>9. \A p \in DOMAIN img.word : p \in Nat /\ p < img.len /\ img.word[p] \in Nat
    BY <1>1 DEF IInv, PhaseInv, TypeOK
  <2>10. /\ DOMAIN img'.word = here \cup DOMAIN img.word
         /\ \A p \in here : img'.word[p] = c.word[p - img.len]
         /\ \A p \in DOMAIN img.word : p \notin here => img'.word[p] = img.word[p]
    BY <2>3
  <2>11. TypeOK'
    <3>1. \A p \in DOMAIN img'.word : p \in Nat /\ img'.word[p] \in Nat
      BY <1>4, <2>8, <2>9, <2>10
    <3>2. k' \in 0 .. Sections
      BY <1>0, <2>a, KindsAre
    <3>3. placed' = [x \in KindSet |-> placed'[x]]
      BY <1>1, <2>1, KindFunction DEF TypeOK
    <3> QED
      BY <1>1, <2>a, <2>3, <2>4, <2>7, <3>1, <3>2, <3>3 DEF TypeOK
  <2>12. \A x : Encode(x)' = Encode(x)
    BY <2>a DEF Encode
  <2>13. /\ \A i \in 1 .. k : Off(i)' = Off(i) /\ ContentEnd(i)' = ContentEnd(i)
         /\ Off(n)' = img.len
         /\ ContentEnd(n)' = end
    <3>1. \A i \in 1 .. k : img'.dir[i].off = img.dir[i].off
      BY <2>7
    <3>2. img'.dir[n].off = img.len
      BY <2>5, <2>7
    <3>3. \A i \in 1 .. k : img'.dir[i].off + Encode(Kinds[i])'.len = img.dir[i].off + Encode(Kinds[i]).len
      BY <2>12, <3>1
    <3>4. img'.dir[n].off + Encode(Kinds[n])'.len = end
      BY <1>9, <2>12, <3>2 DEF end, c
    <3> QED
      BY <3>1, <3>2, <3>3, <3>4 DEF Off, ContentEnd
  <2>14. /\ \A i \in 1 .. k : placed'[Kinds[i]] = placed[Kinds[i]]
         /\ placed'[kind] = [m \in DOMAIN c.items |-> Shift(c.items[m], img.len)]
    <3>1. DOMAIN placed = KindSet
      BY <1>1 DEF TypeOK
    <3>2. \A i \in 1 .. k : Kinds[i] \in KindSet
      BY <1>0, KindsDiffer
    <3> QED
      BY <1>3, <2>1, <3>1, <3>2
  <2>15. ASSUME NEW i \in 1 .. k
         PROVE  Laid(i)'
    <3>0. i \in 1 .. Len(img.dir) /\ i \in 1 .. 7
      BY <1>0, <2>15
    <3>1. Laid(i)
      BY <1>1, <3>0 DEF IInv, LayoutInv
    <3>2. \A p \in DOMAIN Encode(Kinds[i]).word :
            Off(i) + p \in DOMAIN img.word /\ Off(i) + p \notin here
      <4> SUFFICES ASSUME NEW p \in DOMAIN Encode(Kinds[i]).word
                   PROVE  Off(i) + p \in DOMAIN img.word /\ Off(i) + p \notin here
        OBVIOUS
      <4>1. Off(i) + p \in DOMAIN img.word
        BY <3>1 DEF Laid
      <4>2. Off(i) \in Nat
        BY <1>1, <3>0, DirType
      <4>3. p \in Nat
        BY <1>1, <3>0, EncodeType
      <4>4. Off(i) + p < img.len /\ Off(i) + p \in Nat
        BY <2>9, <4>1, <4>2, <4>3
      <4> QED
        BY <1>2, <2>8, <4>1, <4>4
    <3>3. \A p \in DOMAIN Encode(Kinds[i]).word :
            /\ Off(i) + p \in DOMAIN img'.word
            /\ img'.word[Off(i) + p] = Encode(Kinds[i]).word[p]
      BY <2>10, <3>1, <3>2 DEF Laid
    <3> QED
      BY <2>7, <2>12, <2>13, <2>14, <3>1, <3>3 DEF Laid
  <2>16. Laid(n)'
    <3>2. \A p \in DOMAIN c.word :
            /\ img.len + p \in DOMAIN img'.word
            /\ img'.word[img.len + p] = c.word[p]
      <4> SUFFICES ASSUME NEW p \in DOMAIN c.word, NEW q, q = img.len + p
                   PROVE  q \in DOMAIN img'.word /\ img'.word[q] = c.word[p]
        OBVIOUS
      <4>0. p \in Nat /\ img.len \in Nat
        BY <1>2, <1>4
      <4>1. q \in here /\ q - img.len = p
        BY <4>0 DEF here
      <4>2. img'.word[q] = c.word[q - img.len]
        BY <2>10, <4>1
      <4> QED
        BY <2>10, <4>1, <4>2
    <3>3. Encode(Kinds[n])' = c /\ Kinds[n] = kind
      BY <1>9, <2>12 DEF c
    <3>4. /\ img'.dir[n].kind = kind /\ img'.dir[n].pad = 0
      BY <2>5, <2>7
    <3> QED
      BY <1>2, <2>13, <2>14, <3>2, <3>3, <3>4 DEF Laid
  <2>17. LayoutInv'
    <3>1. \A i \in 1 .. Len(img'.dir) : Laid(i)'
      <4>1. \A i \in 1 .. Len(img'.dir) : i \in 1 .. k \/ i = n
        BY <1>0, <2>7
      <4> QED
        BY <2>15, <2>16, <4>1
    <3>2. Off(1)' = HeaderEnd(Sections)
      <4>1. CASE k = 0
        <5>1. n = 1
          BY <1>0, <4>1
        <5> QED
          BY <1>2, <2>13, <4>1, <5>1, KindsAre
      <4>2. CASE k > 0
        <5>1. Off(1) = HeaderEnd(Sections)
          BY <1>0, <1>1, <4>2 DEF IInv, LayoutInv
        <5>2. 1 \in 1 .. k
          BY <1>0, <4>2
        <5> QED
          BY <2>13, <5>1, <5>2
      <4> QED
        BY <1>0, <4>1, <4>2
    <3>3. ASSUME NEW i \in 1 .. Len(img'.dir) - 1
          PROVE  Off(i + 1)' = Pad8(ContentEnd(i)')
      <4>0. i \in 1 .. k
        BY <1>0, <2>7
      <4>1. CASE i = k
        <5>1. k > 0
          BY <1>0, <4>0
        <5>2. img.len = Pad8(ContentEnd(k))
          BY <1>2, <5>1
        <5> QED
          BY <1>0, <2>13, <4>0, <4>1, <5>2
      <4>2. CASE i # k
        <5>1. i \in 1 .. Len(img.dir) - 1 /\ i + 1 \in 1 .. k
          BY <1>0, <4>0, <4>2
        <5>2. Off(i + 1) = Pad8(ContentEnd(i))
          BY <1>1, <5>1 DEF IInv, LayoutInv
        <5> QED
          BY <2>13, <4>0, <5>1, <5>2
      <4> QED
        BY <4>1, <4>2
    <3>4. Len(img'.dir) \in 0 .. Sections
      BY <1>0, <2>7, KindsAre
    <3> QED
      BY <2>3, <3>1, <3>2, <3>3, <3>4 DEF LayoutInv
  <2>18. LengthInv'
    <3>1. Len(img'.dir) = n /\ n # 0 /\ Sections = 7
      BY <1>0, <2>7, KindsAre
    <3>2. img'.len = IF n < 7 THEN Pad8(ContentEnd(n)') ELSE ContentEnd(n)'
      BY <2>3, <2>13
    <3> QED
      BY <3>1, <3>2 DEF LengthInv
  <2>19. PhaseInv'
    <3>1. \A p \in DOMAIN img'.word : p < img'.len
      <4> SUFFICES ASSUME NEW p \in DOMAIN img'.word PROVE p < img'.len
        OBVIOUS
      <4>1. CASE p \in here
        BY <2>4, <2>8, <4>1
      <4>2. CASE p \notin here
        <5>1. p \in DOMAIN img.word
          BY <2>10, <4>2
        <5> QED
          BY <1>2, <2>4, <2>9, <5>1
      <4> QED
        BY <4>1, <4>2
    <3> QED
      BY <1>0, <1>1, <2>a, <2>7, <3>1 DEF IInv, PhaseInv
  <2>20. ViewInv' /\ SeenInv' /\ ErrInv'
    BY <1>1, <2>a DEF ViewInv, SeenInv, ErrInv
  <2> QED
    BY <2>11, <2>17, <2>18, <2>19, <2>20 DEF IInv
<1> QED
  BY <1>5, <1>6

\* The built image is stored.
LEMMA BuiltIInv ==
  ASSUME IInv, Built
  PROVE  IInv'
<1>1. pc = "serialise" /\ pc' = "stored" /\ k = Len(Kinds)
      /\ UNCHANGED <<input, k, img, placed, damage, view>>
  BY DEF Built
<1>2. LayoutInv' /\ LengthInv'
  BY <1>1, SameFile
<1>3. Len(img.dir) = Sections
  BY <1>1 DEF IInv, PhaseInv, Sections
<1>4. TypeOK' /\ PhaseInv' /\ ViewInv' /\ SeenInv' /\ ErrInv'
  BY <1>1, <1>3 DEF IInv, TypeOK, PhaseInv, ViewInv, SeenInv, ErrInv
<1> QED
  BY <1>2, <1>4 DEF IInv

\* A cut changes the length of a file only.
LEMMA CutShortIInv ==
  ASSUME IInv, CutShort
  PROVE  IInv'
<1>1. pc = "stored" /\ damage' = "cut" /\ damage = "none" /\ TypeOK
      /\ UNCHANGED <<input, pc, k, placed, view>>
  BY DEF CutShort, IInv
<1>2. PICK len \in 0 .. img.len - 1 : img' = [img EXCEPT !.len = len]
  BY DEF CutShort
<1>3. /\ img'.len = len /\ img'.dir = img.dir /\ img'.word = img.word /\ img'.dirty = img.dirty
      /\ img'.magic = img.magic /\ img'.reserved = img.reserved
      /\ img' = [len |-> img'.len, magic |-> img'.magic, reserved |-> img'.reserved,
                 dir |-> img'.dir, word |-> img'.word, dirty |-> img'.dirty]
  <2>1. img = [len |-> img.len, magic |-> img.magic, reserved |-> img.reserved,
               dir |-> img.dir, word |-> img.word, dirty |-> img.dirty]
    BY <1>1 DEF TypeOK
  <2> QED
    BY <1>2, <2>1
<1>4. len \in Nat
  BY <1>1 DEF TypeOK
<1>5. TypeOK'
  BY <1>1, <1>3, <1>4 DEF TypeOK
<1>6. \A kind : Encode(kind)' = Encode(kind)
  BY <1>1 DEF Encode
<1>7. \A i : Off(i)' = Off(i) /\ ContentEnd(i)' = ContentEnd(i)
  BY <1>3, <1>6 DEF Off, ContentEnd
<1>8. \A i : Laid(i)' <=> Laid(i)
  BY <1>1, <1>3, <1>6, <1>7 DEF Laid
<1>9. LayoutInv'
  BY <1>1, <1>3, <1>7, <1>8 DEF IInv, LayoutInv
<1>10. LengthInv' /\ PhaseInv' /\ ViewInv' /\ SeenInv' /\ ErrInv'
  BY <1>1, <1>3 DEF IInv, LengthInv, PhaseInv, ViewInv, SeenInv, ErrInv
<1> QED
  BY <1>5, <1>9, <1>10 DEF IInv

\* Damage leaves a file that still has numbers where numbers are.
LEMMA DamageIInv ==
  ASSUME IInv, Damage
  PROVE  IInv'
<1>1. pc = "stored" /\ damage' = "other" /\ TypeOK /\ UNCHANGED <<input, pc, k, placed, view>>
  BY DEF Damage, IInv
<1> DEFINE Fields(i) == i = [len |-> i.len, magic |-> i.magic, reserved |-> i.reserved,
                             dir |-> i.dir, word |-> i.word, dirty |-> i.dirty]
           Good(i) == /\ Fields(i) /\ i.len \in Nat /\ i.dir \in Seq(DirEntry)
                      /\ \A p \in DOMAIN i.word : p \in Nat /\ i.word[p] \in Nat
<1>2. Good(img)
  BY <1>1 DEF TypeOK
<1> SUFFICES Good(img')
  <2>1. LayoutInv' /\ LengthInv' /\ PhaseInv' /\ ViewInv' /\ SeenInv' /\ ErrInv'
    BY <1>1 DEF IInv, LayoutInv, LengthInv, PhaseInv, ViewInv, SeenInv, ErrInv
  <2>2. ASSUME Good(img') PROVE TypeOK'
    BY <1>1, <2>2 DEF TypeOK
  <2> QED
    BY <2>1, <2>2 DEF IInv
<1>3. CASE \/ img' = [img EXCEPT !.magic = FALSE]
           \/ img' = [img EXCEPT !.reserved = 1]
           \/ \E zeros \in {"VideoTrackMeta", "AudioTrackMeta", "channels"} :
                img' = [img EXCEPT !.dirty = {zeros}]
  BY <1>2, <1>3
<1>4. CASE \E p \in DOMAIN img.word : \E v \in Values(img.word[p]) :
             v \in 0 .. U32Max /\ img' = [img EXCEPT !.word[p] = v]
  <2>1. PICK p \in DOMAIN img.word, v \in 0 .. U32Max : img' = [img EXCEPT !.word[p] = v]
    BY <1>4
  <2>2. Fields(img') /\ img'.len = img.len /\ img'.dir = img.dir
        /\ img'.word = [img.word EXCEPT ![p] = v]
    BY <1>2, <2>1
  <2>3. v \in Nat
    BY U32Assumption
  <2>4. \A q \in DOMAIN img'.word : q \in Nat /\ img'.word[q] \in Nat
    BY <1>2, <2>2, <2>3
  <2> QED
    BY <1>2, <2>2, <2>4
<1>5. CASE \E i \in DOMAIN img.dir :
             \/ img' = [img EXCEPT !.dir[i].pad = 1]
             \/ \E kind \in KindSet \cup {Unknown} : img' = [img EXCEPT !.dir[i].kind = kind]
             \/ \E v \in Values(img.dir[i].off) : v \in Nat /\ img' = [img EXCEPT !.dir[i].off = v]
  <2>1. PICK i \in DOMAIN img.dir, e \in DirEntry : img' = [img EXCEPT !.dir[i] = e]
    <3>1. PICK i \in DOMAIN img.dir :
             \/ img' = [img EXCEPT !.dir[i].pad = 1]
             \/ \E kind \in KindSet \cup {Unknown} : img' = [img EXCEPT !.dir[i].kind = kind]
             \/ \E v \in Values(img.dir[i].off) : v \in Nat /\ img' = [img EXCEPT !.dir[i].off = v]
      BY <1>5
    <3>2. img.dir[i] \in DirEntry
      BY <1>2
    <3>3. [img.dir[i] EXCEPT !.pad = 1] \in DirEntry
      BY <3>2 DEF DirEntry
    <3>4. \A kind \in KindSet \cup {Unknown} : [img.dir[i] EXCEPT !.kind = kind] \in DirEntry
      BY <3>2 DEF DirEntry
    <3>5. \A v \in Nat : [img.dir[i] EXCEPT !.off = v] \in DirEntry
      BY <3>2 DEF DirEntry
    <3>6. CASE img' = [img EXCEPT !.dir[i].pad = 1]
      BY <3>3, <3>6
    <3>7. CASE \E kind \in KindSet \cup {Unknown} : img' = [img EXCEPT !.dir[i].kind = kind]
      BY <3>4, <3>7
    <3>8. CASE \E v \in Values(img.dir[i].off) : v \in Nat /\ img' = [img EXCEPT !.dir[i].off = v]
      BY <3>5, <3>8
    <3> QED
      BY <3>1, <3>6, <3>7, <3>8
  <2>2. Fields(img') /\ img'.len = img.len /\ img'.word = img.word
        /\ img'.dir = [img.dir EXCEPT ![i] = e]
    BY <1>2, <2>1
  <2>3. img'.dir \in Seq(DirEntry)
    <3>1. img.dir \in Seq(DirEntry)
      BY <1>2
    <3> QED
      BY <2>2, <3>1
  <2> QED
    BY <1>2, <2>2, <2>3
<1>6. CASE \E m \in 0 .. Len(img.dir) - 1 : img' = [img EXCEPT !.dir = SubSeq(@, 1, m)]
  <2>1. PICK m \in 0 .. Len(img.dir) - 1 : img' = [img EXCEPT !.dir = SubSeq(@, 1, m)]
    BY <1>6
  <2>2. Fields(img') /\ img'.len = img.len /\ img'.word = img.word
        /\ img'.dir = SubSeq(img.dir, 1, m)
    BY <1>2, <2>1
  <2>3. img'.dir \in Seq(DirEntry)
    <3>1. img.dir \in Seq(DirEntry)
      BY <1>2
    <3> QED
      BY <2>2, <3>1
  <2> QED
    BY <1>2, <2>2, <2>3
<1> QED
  BY <1>3, <1>4, <1>5, <1>6 DEF Damage

-----------------------------------------------------------------------------
\* The sections of an undamaged file follow one another; each of them but the
\* last ends less than 8 bytes before the next.
LEMMA CleanOffsets ==
  ASSUME IInv, damage \in {"none", "cut"}, pc \in {"stored", "parse", "Ok"}
  PROVE  /\ Len(img.dir) = 7 /\ Off(1) = 168
         /\ \A i \in 1 .. 7 : Laid(i) /\ Off(i) \in Nat /\ Encode(Kinds[i]).len \in Nat
         /\ \A i \in 1 .. 6 : /\ Off(i + 1) = Pad8(Off(i) + Encode(Kinds[i]).len)
                              /\ Off(i) < Off(i + 1)
                              /\ Off(i) + Encode(Kinds[i]).len <= Off(i + 1)
                              /\ Off(i + 1) < Off(i) + Encode(Kinds[i]).len + 8
<1>1. TypeOK /\ Len(img.dir) = 7
  BY KindsAre DEF IInv, PhaseInv
<1>2. Off(1) = 168 /\ \A i \in 1 .. 7 : Laid(i)
  BY <1>1, KindsAre DEF IInv, LayoutInv
<1>3. \A i \in 1 .. 7 : Off(i) \in Nat
  BY <1>1, DirType
<1>4. \A i \in 1 .. 7 : Encode(Kinds[i]).len \in Nat /\ (i < 7 => Encode(Kinds[i]).len > 0)
  BY <1>1, EncodeType
<1>5. ASSUME NEW i \in 1 .. 6
      PROVE  /\ Off(i + 1) = Pad8(Off(i) + Encode(Kinds[i]).len)
             /\ Off(i) < Off(i + 1)
             /\ Off(i) + Encode(Kinds[i]).len <= Off(i + 1)
             /\ Off(i + 1) < Off(i) + Encode(Kinds[i]).len + 8
  <2>1. i \in 1 .. Len(img.dir) - 1 /\ i \in 1 .. 7 /\ i < 7
    BY <1>1
  <2>2. Off(i + 1) = Pad8(Off(i) + Encode(Kinds[i]).len)
    BY <2>1 DEF IInv, LayoutInv, ContentEnd
  <2> DEFINE x == Off(i) + Encode(Kinds[i]).len
  <2>3. x \in Nat /\ Off(i) < x /\ Off(i) \in Nat
    <3>1. Off(i) \in Nat
      BY <1>3, <2>1
    <3>2. Encode(Kinds[i]).len \in Nat /\ Encode(Kinds[i]).len > 0
      BY <1>4, <2>1
    <3> QED
      BY <3>1, <3>2
  <2> HIDE DEF x
  <2>4. Pad8(x) \in Nat /\ x <= Pad8(x) /\ Pad8(x) < x + 8
    BY <2>3, Pad8Is
  <2>5. Off(i + 1) = Pad8(x)
    BY <2>2 DEF x
  <2>6. Off(i) < Pad8(x)
    BY <2>3, <2>4
  <2> QED
    BY <2>2, <2>4, <2>5, <2>6 DEF x
<1> QED
  BY <1>1, <1>2, <1>3, <1>4, <1>5

\* open finds no fault in the header and the directory of a file that is whole.
LEMMA WholeFileOpens ==
  ASSUME IInv, damage = "none", pc = "stored"
  PROVE  DirectoryOK /\ \A kind \in Required : Has(kind)
<1>1. /\ Len(img.dir) = 7 /\ Off(1) = 168 /\ TypeOK /\ img.len \in Nat
      /\ \A i \in 1 .. 7 : Laid(i) /\ Off(i) \in Nat /\ Encode(Kinds[i]).len \in Nat
      /\ \A i \in 1 .. 6 : Off(i) < Off(i + 1)
  BY CleanOffsets DEF IInv, TypeOK
<1>2. \A i \in 1 .. 7 : img.dir[i].kind = Kinds[i] /\ img.dir[i].pad = 0 /\ Off(i) % 8 = 0
  BY <1>1 DEF Laid
<1>3. Off(7) <= img.len
  <2>1. img.len = Off(7) + Encode(Kinds[7]).len
    BY <1>1, KindsAre DEF IInv, LengthInv, ContentEnd
  <2> QED
    BY <1>1, <2>1
<1>4. 168 <= Off(7)
  <2>1. /\ Off(1) < Off(2) /\ Off(2) < Off(3) /\ Off(3) < Off(4)
        /\ Off(4) < Off(5) /\ Off(5) < Off(6) /\ Off(6) < Off(7)
    BY <1>1
  <2>2. /\ Off(1) \in Nat /\ Off(2) \in Nat /\ Off(3) \in Nat /\ Off(4) \in Nat
        /\ Off(5) \in Nat /\ Off(6) \in Nat /\ Off(7) \in Nat /\ Off(1) = 168
    BY <1>1
  <2> QED
    BY <2>1, <2>2
<1>5. img.magic /\ img.reserved = 0
  BY DEF IInv, LayoutInv
<1>6. \A i, l \in 1 .. 7 : img.dir[i].kind = img.dir[l].kind => i = l
  BY <1>2, KindsDiffer
<1>7. DirectoryOK
  <2>1. img.len >= 168 /\ img.len >= HEADER_FIXED_LEN
    BY <1>1, <1>3, <1>4 DEF HEADER_FIXED_LEN
  <2>2. Len(img.dir) \in 1 .. MAX_SECTIONS
    BY <1>1 DEF MAX_SECTIONS
  <2>3. \A i \in 1 .. 7 : img.dir[i].pad = 0 /\ img.dir[i].off % 8 = 0
    BY <1>2 DEF Off
  <2>4. img.dir[1].off = 168 /\ img.dir[7].off <= img.len
        /\ \A i \in 1 .. 6 : img.dir[i].off < img.dir[i + 1].off
    BY <1>1, <1>3 DEF Off
  <2>5. HeaderEnd(Len(img.dir)) = 168 /\ 1 .. Len(img.dir) - 1 = 1 .. 6
    BY <1>1, KindsAre
  <2> QED
    BY <1>1, <1>5, <1>6, <2>1, <2>2, <2>3, <2>4, <2>5 DEF DirectoryOK, LastStarts
<1>8. \A i \in 1 .. 7 : Has(Kinds[i])
  <2>1. DOMAIN img.dir = 1 .. 7
    BY <1>1, DirType
  <2> QED
    BY <1>2, <2>1 DEF Has
<1>9. \A kind \in KindSet : Has(kind)
  <2>1. 1 \in 1 .. 7 /\ 2 \in 1 .. 7 /\ 3 \in 1 .. 7 /\ 4 \in 1 .. 7
        /\ 5 \in 1 .. 7 /\ 6 \in 1 .. 7 /\ 7 \in 1 .. 7
    OBVIOUS
  <2> QED
    BY <1>8, <2>1, KindsAre
<1> QED
  BY <1>7, <1>9 DEF Required

\* section_payload finds the sections of an undamaged file where they were written.
LEMMA CleanPayload ==
  ASSUME IInv, damage \in {"none", "cut"}, pc \in {"stored", "parse"}, DirectoryOK
  PROVE  /\ \A i \in 1 .. 6 : Payload(Kinds[i]) = <<Off(i), Off(i + 1)>> /\ Has(Kinds[i])
         /\ Payload(Kinds[7]) = <<Off(7), img.len>> /\ Has(Kinds[7])
<1>1. TypeOK /\ Len(img.dir) = 7 /\ \A i \in 1 .. 7 : Laid(i)
  BY CleanOffsets DEF IInv
<1>2. \A i \in 1 .. 7 : img.dir[i].kind = Kinds[i]
  BY <1>1 DEF Laid
<1>3. ASSUME NEW i \in 1 .. 6
      PROVE  Payload(Kinds[i]) = <<Off(i), Off(i + 1)>> /\ Has(Kinds[i])
  <2>1. i \in 1 .. 7 /\ i \in 1 .. Len(img.dir) /\ i < Len(img.dir)
    BY <1>1
  <2>2. img.dir[i].kind = Kinds[i]
    BY <1>2, <2>1
  <2>3. /\ Payload(img.dir[i].kind) = <<Off(i), Off(i + 1)>>
        /\ Has(img.dir[i].kind)
    BY <1>1, <2>1, PayloadIs
  <2> QED
    BY <2>2, <2>3
<1>4. Payload(Kinds[7]) = <<Off(7), img.len>> /\ Has(Kinds[7])
  <2>1. 7 \in 1 .. 7 /\ 7 \in 1 .. Len(img.dir) /\ ~(7 < Len(img.dir))
    BY <1>1
  <2>2. img.dir[7].kind = Kinds[7]
    BY <1>2, <2>1
  <2>3. /\ Payload(img.dir[7].kind) = <<Off(7), img.len>>
        /\ Has(img.dir[7].kind)
    BY <1>1, <2>1, PayloadIs
  <2> QED
    BY <2>2, <2>3
<1> QED
  BY <1>3, <1>4

\* A section of plain bytes was placed as one range.
LEMMA BytesPlaced ==
  ASSUME NEW i \in {6, 7}, Laid(i), NEW n, Encode(Kinds[i]) = EncodeBytes(n),
         Off(i) \in Nat, n \in Nat
  PROVE  placed[Kinds[i]] = <<<<Off(i), Off(i) + n>>>>
<1>1. Encode(Kinds[i]).items = <<<<0, n>>>>
  BY DEF EncodeBytes
<1>2. placed[Kinds[i]] = [m \in DOMAIN <<<<0, n>>>> |-> Shift((<<<<0, n>>>>)[m], Off(i))]
  BY <1>1 DEF Laid
<1>3. DOMAIN <<<<0, n>>>> = {1} /\ Shift(<<0, n>>, Off(i)) = <<Off(i), Off(i) + n>>
  BY DEF Shift
<1>4. placed[Kinds[i]] = [m \in {1} |-> <<Off(i), Off(i) + n>>]
  BY <1>2, <1>3
<1> QED
  BY <1>4

\* A track's two blobs lie in its section as parse_video_meta expects them.
LEMMA CleanMeta ==
  ASSUME IInv, damage \in {"none", "cut"}, pc = "parse", DirectoryOK, NEW i \in {1, 2}
  PROVE  \E entry, elst \in Nat : LET from == Payload(Kinds[i])[1]
                                      to == Payload(Kinds[i])[2]
         IN  /\ to - from >= 20
             /\ WordAt(from + 16) = {entry} /\ WordAt(from + 20 + entry) = {elst}
             /\ MetaOK(from, to, entry, elst, TRUE)
             /\ placed[Kinds[i]] = <<<<from + 20, from + 20 + entry>>,
                                     <<from + 24 + entry, from + 24 + entry + elst>>>>
<1> DEFINE from == Payload(Kinds[i])[1]
           to == Payload(Kinds[i])[2]
<1>0. TypeOK /\ i \in 1 .. 6 /\ i \in 1 .. 7
  BY DEF IInv
<1>1. PICK entry \in Nat, elst \in Nat : Encode(Kinds[i]) = EncodeMeta(entry, elst)
  BY <1>0, EncodeForms
<1>2. /\ Encode(Kinds[i]).len = 24 + entry + elst
      /\ DOMAIN Encode(Kinds[i]).word = {16, 20 + entry}
      /\ Encode(Kinds[i]).word[16] = entry
      /\ Encode(Kinds[i]).word[20 + entry] = elst
      /\ Encode(Kinds[i]).items = <<<<20, 20 + entry>>, <<24 + entry, 24 + entry + elst>>>>
  BY <1>1 DEF EncodeMeta
<1>3. from = Off(i) /\ to = Off(i + 1) /\ from \in Nat /\ Laid(i)
  BY <1>0, CleanPayload, CleanOffsets
<1>4. /\ from + (24 + entry + elst) <= to /\ to < from + (24 + entry + elst) + 8
  BY <1>0, <1>2, <1>3, CleanOffsets
<1>5. to \in Nat
  <2>1. i + 1 \in 1 .. 7
    BY <1>0
  <2> QED
    BY <1>3, <2>1, CleanOffsets
<1>6. /\ from + 16 \in DOMAIN img.word /\ img.word[from + 16] = entry
      /\ from + (20 + entry) \in DOMAIN img.word /\ img.word[from + (20 + entry)] = elst
  BY <1>2, <1>3 DEF Laid
<1>7. /\ placed[Kinds[i]] = [m \in DOMAIN Encode(Kinds[i]).items |->
                               Shift(Encode(Kinds[i]).items[m], from)]
  BY <1>3 DEF Laid
<1> HIDE DEF from, to
<1>8. from + 20 + entry = from + (20 + entry)
  BY <1>3
<1>9. WordAt(from + 16) = {entry} /\ WordAt(from + 20 + entry) = {elst}
  BY <1>6, <1>8 DEF WordAt
<1>10. MetaOK(from, to, entry, elst, TRUE) /\ to - from >= 20
  BY <1>3, <1>4, <1>5 DEF MetaOK
<1>11. placed[Kinds[i]] = <<<<from + 20, from + 20 + entry>>,
                            <<from + 24 + entry, from + 24 + entry + elst>>>>
  <2> DEFINE a == <<20, 20 + entry>>
             b == <<24 + entry, 24 + entry + elst>>
  <2>1. /\ Shift(a, from) = <<from + 20, from + 20 + entry>>
        /\ Shift(b, from) = <<from + 24 + entry, from + 24 + entry + elst>>
    BY <1>3 DEF Shift
  <2>2. placed[Kinds[i]] = [m \in DOMAIN <<a, b>> |-> Shift((<<a, b>>)[m], from)]
    BY <1>2, <1>7
  <2> HIDE DEF a, b
  <2>3. placed[Kinds[i]] = <<Shift(a, from), Shift(b, from)>>
    BY <2>2
  <2> QED
    BY <2>1, <2>3
<1> QED
  BY <1>9, <1>10, <1>11 DEF from, to

\* A table's count, its zero and its rows fill its section.
LEMMA CleanTable ==
  ASSUME IInv, damage \in {"none", "cut"}, pc = "parse", DirectoryOK, NEW i \in {3, 4, 5}
  PROVE  \E rows \in Nat : LET from == Payload(Kinds[i])[1]
                               to == Payload(Kinds[i])[2]
         IN  /\ to - from >= 8 /\ WordAt(from) = {rows} /\ WordAt(from + 4) = {0}
             /\ to - (from + 8) = rows * RowLen(Kinds[i]) /\ (from + 8) % 8 = 0
             /\ placed[Kinds[i]] = <<<<from + 8, from + 8 + rows * RowLen(Kinds[i])>>>>
<1> DEFINE from == Payload(Kinds[i])[1]
           to == Payload(Kinds[i])[2]
<1>0. TypeOK /\ i \in 1 .. 6 /\ i \in 1 .. 7
  BY DEF IInv
<1>1. PICK rows \in Nat : Encode(Kinds[i]) = EncodeTable(rows, RowLen(Kinds[i]))
  BY <1>0, EncodeForms
<1> DEFINE all == rows * RowLen(Kinds[i])
<1>2. all \in Nat /\ all % 8 = 0
  <2>1. RowLen(Kinds[i]) = 24 \/ RowLen(Kinds[i]) = 32
    BY RowLens
  <2>2. (rows * 24) % 8 = 0 /\ rows * 24 \in Nat
    OBVIOUS
  <2>3. (rows * 32) % 8 = 0 /\ rows * 32 \in Nat
    OBVIOUS
  <2> QED
    BY <2>1, <2>2, <2>3
<1> HIDE DEF all
<1>3. /\ Encode(Kinds[i]).len = 8 + all
      /\ DOMAIN Encode(Kinds[i]).word = {0, 4}
      /\ Encode(Kinds[i]).word[0] = rows /\ Encode(Kinds[i]).word[4] = 0
      /\ Encode(Kinds[i]).items = <<<<8, 8 + all>>>>
  BY <1>1 DEF EncodeTable, all
<1>4. from = Off(i) /\ to = Off(i + 1) /\ from \in Nat /\ Laid(i)
  BY <1>0, CleanPayload, CleanOffsets
<1>5. from % 8 = 0
  BY <1>4 DEF Laid
<1>6. to = Pad8(from + (8 + all))
  BY <1>0, <1>3, <1>4, CleanOffsets
<1>7. /\ from + 0 \in DOMAIN img.word /\ img.word[from + 0] = rows
      /\ from + 4 \in DOMAIN img.word /\ img.word[from + 4] = 0
  BY <1>3, <1>4, ZenonT(40) DEF Laid
<1>8. placed[Kinds[i]] = [m \in DOMAIN Encode(Kinds[i]).items |->
                            Shift(Encode(Kinds[i]).items[m], from)]
  BY <1>4 DEF Laid
<1> HIDE DEF from, to
<1>9. (8 + all) \in Nat /\ (8 + all) % 8 = 0
  BY <1>2
<1>10. to = from + (8 + all)
  BY <1>4, <1>5, <1>6, <1>9, Pad8Sum
<1>11. to - from >= 8 /\ to - (from + 8) = all /\ (from + 8) % 8 = 0
  BY <1>2, <1>4, <1>5, <1>10
<1>12. WordAt(from) = {rows} /\ WordAt(from + 4) = {0}
  <2>1. from + 0 = from
    BY <1>4
  <2> QED
    BY <1>7, <2>1 DEF WordAt
<1>13. placed[Kinds[i]] = <<<<from + 8, from + 8 + all>>>>
  <2> DEFINE a == <<8, 8 + all>>
  <2>1. Shift(a, from) = <<from + 8, from + 8 + all>>
    BY <1>2, <1>4 DEF Shift
  <2>2. placed[Kinds[i]] = [m \in DOMAIN <<a>> |-> Shift((<<a>>)[m], from)]
    BY <1>3, <1>8
  <2> HIDE DEF a
  <2>3. placed[Kinds[i]] = <<Shift(a, from)>>
    BY <2>2
  <2> QED
    BY <2>1, <2>3
<1> QED
  BY <1>11, <1>12, <1>13 DEF from, to, all

-----------------------------------------------------------------------------
\* Numbers are read from the file, whatever is there.
LEMMA WordType ==
  ASSUME TypeOK, NEW p, NEW w \in WordAt(p)
  PROVE  w \in Nat
  BY U32Assumption DEF WordAt, TypeOK

\* open accepts the directory and takes the two plain sections from it.
LEMMA OpenDirectoryIInv ==
  ASSUME IInv, OpenDirectory
  PROVE  IInv'
<1>1. pc = "stored" /\ TypeOK /\ DOMAIN view = KindSet /\ \A kind \in KindSet : view[kind] = <<>>
  BY DEF OpenDirectory, IInv, TypeOK, PhaseInv
<1>2. CASE ~(DirectoryOK /\ \A kind \in Required : Has(kind))
  <2>1. damage # "none"
    BY <1>1, <1>2, WholeFileOpens
  <2>2. Fail
    BY <1>2 DEF OpenDirectory
  <2> QED
    BY <2>1, <2>2, FailIInv
<1>3. CASE DirectoryOK /\ \A kind \in Required : Has(kind)
  <2>1. /\ view' = [view EXCEPT
             !["InitSegmentBytes"] = <<Payload("InitSegmentBytes")>>,
             !["PlaylistBytes"] = IF Has("PlaylistBytes") THEN <<Payload("PlaylistBytes")>> ELSE <<>>]
        /\ pc' = "parse" /\ k' = 0 /\ UNCHANGED <<input, img, placed, damage>>
    BY <1>3 DEF OpenDirectory
  <2>2. /\ LayoutInv' /\ LengthInv' /\ DirectoryOK'
        /\ \A kind : Has(kind)' <=> Has(kind)
        /\ \A r, kind : Inside(r, kind)' <=> Inside(r, kind)
    BY <1>3, <2>1, SameFile
  <2>3. /\ DOMAIN view' = KindSet
        /\ view'["InitSegmentBytes"] = <<Payload("InitSegmentBytes")>>
        /\ view'["PlaylistBytes"] = IF Has("PlaylistBytes") THEN <<Payload("PlaylistBytes")>> ELSE <<>>
        /\ \A kind \in KindSet \ {"InitSegmentBytes", "PlaylistBytes"} : view'[kind] = <<>>
    BY <1>1, <2>1, KindsAre
  <2>4. TypeOK'
    <3>1. view = [kind \in KindSet |-> view[kind]]
      BY <1>1 DEF TypeOK
    <3> DEFINE v1 == [view EXCEPT !["InitSegmentBytes"] = <<Payload("InitSegmentBytes")>>]
    <3>2. v1 = [kind \in KindSet |-> v1[kind]]
      BY <3>1, KindFunction
    <3>3. view' = [v1 EXCEPT !["PlaylistBytes"] =
                     IF Has("PlaylistBytes") THEN <<Payload("PlaylistBytes")>> ELSE <<>>]
      BY <2>1
    <3> HIDE DEF v1
    <3>4. view' = [kind \in KindSet |-> view'[kind]]
      BY <3>2, <3>3, KindFunction
    <3>5. k' \in 0 .. Sections
      BY <2>1, KindsAre
    <3>6. UNCHANGED <<input, img, placed, damage>> /\ pc' = "parse"
      BY <2>1
    <3> QED
      BY <1>1, <3>4, <3>5, <3>6 DEF TypeOK
  <2>5. PhaseInv'
    <3>1. \A kind \in Required : Has(kind)'
      BY <1>3, <2>2
    <3>2. damage' \in {"none", "cut"} => Len(img'.dir) = Sections
      BY <1>1, <2>1 DEF IInv, PhaseInv
    <3> QED
      BY <2>1, <2>2, <3>1, <3>2 DEF PhaseInv
  <2>6. ASSUME NEW kind, Has(kind)
        PROVE  Inside(<<Payload(kind)>>, kind)
    <3>1. /\ Payload(kind)[1] \in Nat /\ Payload(kind)[2] \in Nat
          /\ Payload(kind)[1] <= Payload(kind)[2]
      BY <1>1, <1>3, <2>6, PayloadIn
    <3> DEFINE P == Payload(kind)
    <3>2. P[1] \in Nat /\ P[2] \in Nat /\ P[1] <= P[2]
      BY <3>1
    <3> HIDE DEF P
    <3>3. DOMAIN <<P>> = {1} /\ (<<P>>)[1] = P
      OBVIOUS
    <3>4. /\ \A x \in DOMAIN <<P>> : /\ (<<P>>)[x][1] \in Nat /\ (<<P>>)[x][2] \in Nat
                                     /\ P[1] <= (<<P>>)[x][1] /\ (<<P>>)[x][1] <= (<<P>>)[x][2]
                                     /\ (<<P>>)[x][2] <= P[2]
          /\ \A x, y \in DOMAIN <<P>> : x = y
      BY <3>2, <3>3
    <3> QED
      BY <2>6, <3>4 DEF Inside, P
  <2>7. Has("InitSegmentBytes") /\ "InitSegmentBytes" \in KindSet /\ "PlaylistBytes" \in KindSet
    BY <1>3, KindsAre DEF Required
  <2>8. ViewInv'
    <3>1. ASSUME NEW kind \in KindSet, view'[kind] # <<>>
          PROVE  Inside(view'[kind], kind)
      <4>1. CASE kind = "InitSegmentBytes"
        BY <2>3, <2>6, <2>7, <4>1
      <4>2. CASE kind = "PlaylistBytes"
        BY <2>3, <2>6, <3>1, <4>2
      <4>3. CASE kind \notin {"InitSegmentBytes", "PlaylistBytes"}
        BY <2>3, <3>1, <4>3
      <4> QED
        BY <4>1, <4>2, <4>3
    <3>2. \A i \in 3 .. 5 : ~(i <= k')
      BY <2>1
    <3> QED
      BY <2>2, <3>1, <3>2 DEF ViewInv
  <2>9. ASSUME damage \in {"none", "cut"}
        PROVE  view'["PlaylistBytes"] = placed["PlaylistBytes"]
    <3>1. 6 \in 1 .. 6 /\ 6 \in 1 .. 7 /\ 6 + 1 = 7
      OBVIOUS
    <3>2. Laid(6) /\ Off(6) \in Nat /\ Off(7) = Pad8(Off(6) + Encode(Kinds[6]).len)
      BY <1>1, <2>9, <3>1, CleanOffsets
    <3>3. Payload(Kinds[6]) = <<Off(6), Off(7)>> /\ Has(Kinds[6])
      BY <1>1, <1>3, <2>9, <3>1, CleanPayload
    <3>4. PICK n \in Nat \ {0} : Encode(Kinds[6]) = EncodeBytes(Pad8(n))
      BY <1>1, EncodeForms
    <3>5. Pad8(n) \in Nat /\ Pad8(n) % 8 = 0 /\ Encode(Kinds[6]).len = Pad8(n)
      BY <3>4, Pad8Is DEF EncodeBytes
    <3>6. Off(6) % 8 = 0
      BY <3>2 DEF Laid
    <3>7. Off(7) = Off(6) + Pad8(n)
      BY <3>2, <3>5, <3>6, Pad8Sum
    <3>8. placed[Kinds[6]] = <<<<Off(6), Off(6) + Pad8(n)>>>>
      BY <3>2, <3>4, <3>5, BytesPlaced
    <3>9. placed["PlaylistBytes"] = <<Payload("PlaylistBytes")>> /\ Has("PlaylistBytes")
      BY <3>3, <3>7, <3>8, KindsAre
    <3> QED
      BY <2>3, <3>9
  <2>10. ASSUME damage = "none"
         PROVE  view'["InitSegmentBytes"] = placed["InitSegmentBytes"]
    <3>2. Laid(7) /\ Off(7) \in Nat /\ Len(img.dir) = 7
      BY <1>1, <2>10, CleanOffsets
    <3>3. Payload(Kinds[7]) = <<Off(7), img.len>>
      BY <1>1, <1>3, <2>10, CleanPayload
    <3>4. PICK n \in Nat : Encode(Kinds[7]) = EncodeBytes(n)
      BY <1>1, EncodeForms
    <3>5. Encode(Kinds[7]).len = n
      BY <3>4 DEF EncodeBytes
    <3>6. img.len = Off(7) + n
      BY <2>10, <3>2, <3>5, KindsAre DEF IInv, LengthInv, ContentEnd
    <3>7. placed[Kinds[7]] = <<<<Off(7), Off(7) + n>>>>
      BY <3>2, <3>4, BytesPlaced
    <3>8. placed["InitSegmentBytes"] = <<Payload("InitSegmentBytes")>>
      BY <3>3, <3>6, <3>7, KindsAre
    <3> QED
      BY <2>3, <3>8
  <2>11. SeenInv' /\ ErrInv'
    BY <2>1, <2>9, <2>10 DEF SeenInv, ErrInv
  <2> QED
    BY <2>2, <2>4, <2>5, <2>8, <2>11 DEF IInv
<1> QED
  BY <1>2, <1>3

\* A section's view is set to ranges inside it.
LEMMA ViewSet ==
  ASSUME IInv, pc = "parse", NEW i \in 1 .. 5, i = k + 1, NEW r, Inside(r, Kinds[i]),
         r # <<>>, i \in 3 .. 5 => r[1][1] % 8 = 0,
         damage \in {"none", "cut"} => r = placed[Kinds[i]],
         view' = [view EXCEPT ![Kinds[i]] = r], k' = i,
         UNCHANGED <<input, pc, img, placed, damage>>
  PROVE  IInv'
<1>1. TypeOK /\ DOMAIN view = KindSet /\ Kinds[i] \in KindSet
  BY KindsDiffer DEF IInv, TypeOK
<1>2. /\ LayoutInv' /\ LengthInv' /\ (DirectoryOK' <=> DirectoryOK)
      /\ \A kind : Has(kind)' <=> Has(kind)
      /\ \A s, kind : Inside(s, kind)' <=> Inside(s, kind)
  BY SameFile
<1>3. /\ DOMAIN view' = KindSet /\ view'[Kinds[i]] = r
      /\ \A kind \in KindSet : kind # Kinds[i] => view'[kind] = view[kind]
  BY <1>1
<1>11. view' = [kind \in KindSet |-> view'[kind]]
  BY <1>1, KindFunction DEF TypeOK
<1>12. k' \in 0 .. Sections
  BY KindsAre
<1>4. TypeOK'
  BY <1>1, <1>11, <1>12 DEF TypeOK
<1>5. k' <= 5 /\ \A j \in 1 .. 5 : j <= k' => j = i \/ j <= k
  <2>1. k \in 0 .. 7
    BY <1>1, KindsAre DEF TypeOK
  <2> QED
    BY <2>1
<1>6. PhaseInv'
  BY <1>2, <1>5 DEF IInv, PhaseInv
<1>7. \A j \in 1 .. 5 : j # i => Kinds[j] \in KindSet /\ Kinds[j] # Kinds[i]
  <2>1. \A j \in 1 .. 5 : j \in 1 .. 7
    OBVIOUS
  <2> QED
    BY <2>1, KindsDiffer
<1>8. ViewInv'
  <2>1. ASSUME NEW kind \in KindSet, view'[kind] # <<>>
        PROVE  Inside(view'[kind], kind)
    BY <1>3, <2>1 DEF IInv, ViewInv
  <2>2. ASSUME NEW j \in 3 .. 5, j <= k'
        PROVE  view'[Kinds[j]][1][1] % 8 = 0
    <3>1. j \in 1 .. 5
      OBVIOUS
    <3>2. CASE j = i
      BY <1>3, <2>2, <3>2
    <3>3. CASE j # i
      <4>1. j <= k /\ view'[Kinds[j]] = view[Kinds[j]]
        BY <1>3, <1>5, <1>7, <2>2, <3>1, <3>3
      <4> QED
        BY <2>2, <4>1 DEF IInv, ViewInv
    <3> QED
      BY <3>2, <3>3
  <2> QED
    BY <1>2, <2>1, <2>2 DEF ViewInv
<1>9. SeenInv'
  <2> SUFFICES ASSUME damage \in {"none", "cut"} PROVE SeenInv'
    BY DEF SeenInv
  <2>1. ASSUME NEW j \in 1 .. 5, j <= k'
        PROVE  view'[Kinds[j]] = placed[Kinds[j]]
    <3>1. CASE j = i
      BY <1>3, <3>1
    <3>2. CASE j # i
      <4>1. j <= k /\ view'[Kinds[j]] = view[Kinds[j]]
        BY <1>3, <1>5, <1>7, <2>1, <3>2
      <4> QED
        BY <2>1, <4>1 DEF IInv, SeenInv
    <3> QED
      BY <3>1, <3>2
  <2>2. /\ Kinds[i] # "PlaylistBytes" /\ Kinds[i] # "InitSegmentBytes"
        /\ "PlaylistBytes" \in KindSet /\ "InitSegmentBytes" \in KindSet
    <3>1. i \in 1 .. 7 /\ i # 6 /\ i # 7
      OBVIOUS
    <3>2. Kinds[i] # Kinds[6] /\ Kinds[i] # Kinds[7]
      BY <3>1, KindsDiffer
    <3> QED
      BY <3>2, KindsAre
  <2>3. /\ view'["PlaylistBytes"] = view["PlaylistBytes"]
        /\ view'["InitSegmentBytes"] = view["InitSegmentBytes"]
    BY <1>3, <2>2
  <2> QED
    BY <2>1, <2>3 DEF IInv, SeenInv
<1>10. ErrInv'
  BY DEF ErrInv
<1> QED
  BY <1>2, <1>4, <1>6, <1>8, <1>9, <1>10 DEF IInv

\* A track's meta section is read: its blobs fit, and those of a file that was
\* not damaged are the ones that were written.
LEMMA ParseMetaIInv ==
  ASSUME IInv, ParseMeta
  PROVE  IInv'
<1> DEFINE kind == Kinds[k + 1]
           from == Payload(kind)[1]
           to == Payload(kind)[2]
           blobs(entry, elst) == <<<<from + 20, from + 20 + entry>>,
                                   <<from + 24 + entry, from + 24 + entry + elst>>>>
           short == to - from < 20 \/ (kind = "AudioTrackMeta" /\ "channels" \in img.dirty)
<1>1. pc = "parse" /\ k < 2 /\ TypeOK /\ DirectoryOK /\ \A x \in Required : Has(x)
  BY DEF ParseMeta, IInv, PhaseInv
<1>2. k \in 0 .. 7
  BY <1>1, KindsAre DEF TypeOK
<1>3. PICK i \in {1, 2} : i = k + 1
  BY <1>1, <1>2
<1>4. kind = Kinds[i] /\ i \in 1 .. 5
  BY <1>3
<1>5. Has(kind)
  BY <1>1, <1>3, <1>4, KindsAre DEF Required
<1>6. from \in Nat /\ to \in Nat /\ from <= to
  BY <1>1, <1>5, PayloadIn
<1>7. damage \in {"none", "cut"} => img.dirty = {}
  BY DEF IInv, LayoutInv
<1>8. damage \in {"none", "cut"} =>
        \E entry, elst \in Nat :
          /\ to - from >= 20
          /\ WordAt(from + 16) = {entry} /\ WordAt(from + 20 + entry) = {elst}
          /\ MetaOK(from, to, entry, elst, TRUE)
          /\ placed[kind] = blobs(entry, elst)
  <2> DEFINE Clean(x) ==
        \E entry, elst \in Nat :
          /\ Payload(x)[2] - Payload(x)[1] >= 20
          /\ WordAt(Payload(x)[1] + 16) = {entry} /\ WordAt(Payload(x)[1] + 20 + entry) = {elst}
          /\ MetaOK(Payload(x)[1], Payload(x)[2], entry, elst, TRUE)
          /\ placed[x] = <<<<Payload(x)[1] + 20, Payload(x)[1] + 20 + entry>>,
                           <<Payload(x)[1] + 24 + entry, Payload(x)[1] + 24 + entry + elst>>>>
  <2>1. damage \in {"none", "cut"} => Clean(Kinds[i])
    BY <1>1, CleanMeta
  <2> HIDE DEF Clean
  <2>2. damage \in {"none", "cut"} => Clean(kind)
    BY <1>4, <2>1
  <2> QED
    BY <2>2 DEF Clean
<1>9. IF short THEN Fail
      ELSE \E entry \in WordAt(from + 16) : \E elst \in WordAt(from + 20 + entry) :
             IF ~MetaOK(from, to, entry, elst, kind \notin img.dirty)
               THEN Fail
               ELSE /\ view' = [view EXCEPT ![kind] = blobs(entry, elst)]
                    /\ k' = k + 1
                    /\ UNCHANGED <<input, pc, img, placed, damage>>
  BY DEF ParseMeta
<1> HIDE DEF kind, from, to, blobs
<1>10. CASE short
  <2>1. ASSUME damage = "none" PROVE FALSE
    <3>1. to - from >= 20
      BY <1>8, <2>1
    <3>2. "channels" \notin img.dirty
      BY <1>7, <2>1
    <3> QED
      BY <1>6, <1>10, <3>1, <3>2
  <2> QED
    BY <1>9, <1>10, <2>1, FailIInv
<1>11. CASE ~short
  <2>0. PICK entry \in WordAt(from + 16) : \E elst \in WordAt(from + 20 + entry) :
             IF ~MetaOK(from, to, entry, elst, kind \notin img.dirty)
               THEN Fail
               ELSE /\ view' = [view EXCEPT ![kind] = blobs(entry, elst)]
                    /\ k' = k + 1
                    /\ UNCHANGED <<input, pc, img, placed, damage>>
    BY <1>9, <1>11
  <2>1. PICK elst \in WordAt(from + 20 + entry) :
             IF ~MetaOK(from, to, entry, elst, kind \notin img.dirty)
               THEN Fail
               ELSE /\ view' = [view EXCEPT ![kind] = blobs(entry, elst)]
                    /\ k' = k + 1
                    /\ UNCHANGED <<input, pc, img, placed, damage>>
    BY <2>0
  <2>2. entry \in Nat /\ elst \in Nat
    BY <1>1, WordType
  <2>3. damage \in {"none", "cut"} =>
          MetaOK(from, to, entry, elst, TRUE) /\ placed[kind] = blobs(entry, elst)
    BY <1>8
  <2>4. CASE ~MetaOK(from, to, entry, elst, kind \notin img.dirty)
    <3>1. damage # "none"
      BY <1>7, <2>3, <2>4 DEF MetaOK
    <3> QED
      BY <2>1, <2>4, <3>1, FailIInv
  <2>5. CASE MetaOK(from, to, entry, elst, kind \notin img.dirty)
    <3>1. to - from >= 24 + entry + elst
      BY <2>5 DEF MetaOK
    <3> DEFINE a == <<from + 20, from + 20 + entry>>
               b == <<from + 24 + entry, from + 24 + entry + elst>>
    <3>2. /\ a[1] \in Nat /\ a[2] \in Nat /\ b[1] \in Nat /\ b[2] \in Nat
          /\ from <= a[1] /\ a[1] <= a[2] /\ a[2] <= b[1] /\ b[1] <= b[2] /\ b[2] <= to
          /\ a[2] <= to /\ from <= b[1]
      BY <1>6, <2>2, <3>1
    <3>3. blobs(entry, elst) = <<a, b>>
      BY DEF blobs
    <3> HIDE DEF a, b
    <3>4. Inside(<<a, b>>, kind)
      <4>1. DOMAIN <<a, b>> = {1, 2} /\ (<<a, b>>)[1] = a /\ (<<a, b>>)[2] = b
        OBVIOUS
      <4> QED
        BY <1>5, <3>2, <4>1 DEF Inside, from, to
    <3>5. <<a, b>> # <<>>
      OBVIOUS
    <3>6. view' = [view EXCEPT ![Kinds[i]] = <<a, b>>] /\ k' = i
          /\ UNCHANGED <<input, pc, img, placed, damage>>
      BY <1>3, <1>4, <2>1, <2>5, <3>3
    <3>7. ~(i \in 3 .. 5)
      BY <1>3
    <3> QED
      BY <1>1, <1>3, <1>4, <2>3, <3>3, <3>4, <3>5, <3>6, <3>7, ViewSet
  <2> QED
    BY <2>4, <2>5
<1> QED
  BY <1>10, <1>11

\* A table section is read.
LEMMA ParseTableIInv ==
  ASSUME IInv, ParseTable
  PROVE  IInv'
<1> DEFINE kind == Kinds[k + 1]
           from == Payload(kind)[1]
           to == Payload(kind)[2]
           rowLen == RowLen(kind)
<1>1. pc = "parse" /\ k \in 2 .. 4 /\ TypeOK /\ DirectoryOK /\ \A x \in Required : Has(x)
  BY DEF ParseTable, IInv, PhaseInv
<1>3. PICK i \in {3, 4, 5} : i = k + 1
  BY <1>1
<1>4. kind = Kinds[i] /\ i \in 1 .. 5 /\ i \in 3 .. 5
  BY <1>3
<1>5. Has(kind)
  BY <1>1, <1>3, <1>4, KindsAre DEF Required
<1>6. from \in Nat /\ to \in Nat /\ from <= to /\ from % 8 = 0
  BY <1>1, <1>5, PayloadIn
<1>8. damage \in {"none", "cut"} =>
        \E rows \in Nat :
          /\ to - from >= 8 /\ WordAt(from) = {rows} /\ WordAt(from + 4) = {0}
          /\ to - (from + 8) = rows * rowLen /\ (from + 8) % 8 = 0
          /\ placed[kind] = <<<<from + 8, from + 8 + rows * rowLen>>>>
  BY <1>1, <1>4, CleanTable
<1>9. IF to - from < 8 THEN Fail
      ELSE \E rows \in WordAt(from) : \E zero \in WordAt(from + 4) :
             IF zero # 0 \/ to - (from + 8) # rows * rowLen \/ (from + 8) % 8 # 0
               THEN Fail
               ELSE /\ view' = [view EXCEPT ![kind] = <<<<from + 8, from + 8 + rows * rowLen>>>>]
                    /\ k' = k + 1
                    /\ UNCHANGED <<input, pc, img, placed, damage>>
  BY DEF ParseTable, RowLen
<1> HIDE DEF kind, from, to, rowLen
<1>10. CASE to - from < 8
  <2>1. damage # "none"
    BY <1>6, <1>8, <1>10
  <2> QED
    BY <1>9, <1>10, <2>1, FailIInv
<1>11. CASE ~(to - from < 8)
  <2>1. PICK rows \in WordAt(from), zero \in WordAt(from + 4) :
             IF zero # 0 \/ to - (from + 8) # rows * rowLen \/ (from + 8) % 8 # 0
               THEN Fail
               ELSE /\ view' = [view EXCEPT ![kind] = <<<<from + 8, from + 8 + rows * rowLen>>>>]
                    /\ k' = k + 1
                    /\ UNCHANGED <<input, pc, img, placed, damage>>
    BY <1>9, <1>11
  <2> DEFINE all == rows * rowLen
  <2>2. all \in Nat
    <3>1. rows \in Nat /\ rowLen \in Nat
      BY <1>1, WordType, RowLens DEF rowLen
    <3> QED
      BY <3>1
  <2>3. damage \in {"none", "cut"} =>
          /\ zero = 0 /\ to - (from + 8) = all /\ (from + 8) % 8 = 0
          /\ placed[kind] = <<<<from + 8, from + 8 + all>>>>
    BY <1>8
  <2>6. IF zero # 0 \/ to - (from + 8) # all \/ (from + 8) % 8 # 0
          THEN Fail
          ELSE /\ view' = [view EXCEPT ![kind] = <<<<from + 8, from + 8 + all>>>>]
               /\ k' = k + 1
               /\ UNCHANGED <<input, pc, img, placed, damage>>
    BY <2>1
  <2> HIDE DEF all
  <2>4. CASE zero # 0 \/ to - (from + 8) # all \/ (from + 8) % 8 # 0
    <3>1. damage # "none"
      BY <2>3, <2>4
    <3> QED
      BY <2>4, <2>6, <3>1, FailIInv
  <2>5. CASE ~(zero # 0 \/ to - (from + 8) # all \/ (from + 8) % 8 # 0)
    <3> DEFINE a == <<from + 8, from + 8 + all>>
    <3>1. /\ a[1] \in Nat /\ a[2] \in Nat /\ from <= a[1] /\ a[1] <= a[2] /\ a[2] <= to
          /\ a[1] % 8 = 0
      BY <1>6, <2>2, <2>5
    <3>6. view' = [view EXCEPT ![Kinds[i]] = <<a>>] /\ k' = i
          /\ UNCHANGED <<input, pc, img, placed, damage>>
      BY <1>3, <1>4, <2>5, <2>6
    <3>7. damage \in {"none", "cut"} => <<a>> = placed[Kinds[i]]
      BY <1>4, <2>3
    <3> HIDE DEF a
    <3>3. DOMAIN <<a>> = {1} /\ (<<a>>)[1] = a /\ <<a>> # <<>>
      OBVIOUS
    <3>4. Inside(<<a>>, kind)
      BY <1>5, <3>1, <3>3 DEF Inside, from, to
    <3> QED
      BY <1>1, <1>3, <1>4, <3>1, <3>3, <3>4, <3>6, <3>7, ViewSet
  <2> QED
    BY <2>4, <2>5
<1> QED
  BY <1>10, <1>11

\* The view is complete.
LEMMA OpenedIInv ==
  ASSUME IInv, Opened
  PROVE  IInv'
<1>1. pc = "parse" /\ k = 5 /\ pc' = "Ok" /\ UNCHANGED <<input, k, img, placed, damage, view>>
  BY DEF Opened
<1>2. /\ LayoutInv' /\ LengthInv' /\ (DirectoryOK' <=> DirectoryOK)
      /\ \A kind : Has(kind)' <=> Has(kind)
      /\ \A s, kind : Inside(s, kind)' <=> Inside(s, kind)
  BY <1>1, SameFile
<1>3. TypeOK' /\ PhaseInv'
  BY <1>1, <1>2 DEF IInv, TypeOK, PhaseInv
<1>4. ViewInv'
  BY <1>1, <1>2 DEF IInv, ViewInv
<1>5. SeenInv' /\ ErrInv'
  BY <1>1 DEF IInv, SeenInv, ErrInv
<1> QED
  BY <1>2, <1>3, <1>4, <1>5 DEF IInv

\* Every step keeps the invariant.
LEMMA NextIInv == IInv /\ [Next]_vars => IInv'
<1> SUFFICES ASSUME IInv, [Next]_vars PROVE IInv'
  OBVIOUS
<1>1. CASE UNCHANGED vars
  <2>1. UNCHANGED <<input, pc, k, img, placed, damage, view>>
    BY <1>1 DEF vars
  <2>2. /\ LayoutInv' /\ LengthInv' /\ (DirectoryOK' <=> DirectoryOK)
        /\ \A kind : Has(kind)' <=> Has(kind)
        /\ \A s, kind : Inside(s, kind)' <=> Inside(s, kind)
    BY <2>1, SameFile
  <2>3. TypeOK' /\ PhaseInv'
    BY <2>1, <2>2 DEF IInv, TypeOK, PhaseInv
  <2>4. ViewInv'
    BY <2>1, <2>2 DEF IInv, ViewInv
  <2>5. \A kind : Encodable(kind)' <=> Encodable(kind)
    BY <2>1 DEF Encodable, Encode
  <2>6. SeenInv' /\ ErrInv'
    BY <2>1, <2>5 DEF IInv, SeenInv, ErrInv
  <2> QED
    BY <2>2, <2>3, <2>4, <2>6 DEF IInv
<1> QED
  BY <1>1, WriteSectionIInv, BuiltIInv, CutShortIInv, DamageIInv, OpenDirectoryIInv,
     ParseMetaIInv, ParseTableIInv, OpenedIInv DEF Next

-----------------------------------------------------------------------------
\* The invariant at the end of open says what the properties do.
LEMMA ViewRoundTrip ==
  ASSUME IInv
  PROVE  RoundTrip /\ CutIsSeen
<1>1. TypeOK /\ DOMAIN view = KindSet /\ DOMAIN placed = KindSet
  BY DEF IInv, TypeOK
<1>2. ASSUME pc = "Ok", damage \in {"none", "cut"}
      PROVE  /\ \A kind \in KindSet \ {"InitSegmentBytes"} : view[kind] = placed[kind]
             /\ damage = "none" => view["InitSegmentBytes"] = placed["InitSegmentBytes"]
  <2>1. k = 5 /\ \A i \in 1 .. 5 : view[Kinds[i]] = placed[Kinds[i]]
    BY <1>2 DEF IInv, PhaseInv, SeenInv
  <2>2. view["PlaylistBytes"] = placed["PlaylistBytes"]
    BY <1>2 DEF IInv, SeenInv
  <2>3. 1 \in 1 .. 5 /\ 2 \in 1 .. 5 /\ 3 \in 1 .. 5 /\ 4 \in 1 .. 5 /\ 5 \in 1 .. 5
    OBVIOUS
  <2>4. \A kind \in KindSet \ {"InitSegmentBytes"} : view[kind] = placed[kind]
    BY <2>1, <2>2, <2>3, KindsAre
  <2> QED
    BY <1>2, <2>4 DEF IInv, SeenInv
<1>3. RoundTrip
  <2>1. ASSUME pc = "Ok", damage = "none" PROVE view = placed
    <3>1. \A kind \in KindSet : view[kind] = placed[kind]
      BY <1>2, <2>1
    <3>2. view = [kind \in KindSet |-> view[kind]] /\ placed = [kind \in KindSet |-> placed[kind]]
      BY <1>1 DEF TypeOK
    <3>3. [kind \in KindSet |-> view[kind]] = [kind \in KindSet |-> placed[kind]]
      BY <3>1
    <3> QED
      BY <3>2, <3>3
  <2> QED
    BY <2>1 DEF RoundTrip, IInv, ErrInv
<1>4. CutIsSeen
  <2> SUFFICES ASSUME pc = "Ok", damage = "cut" PROVE img.len >= placed["InitSegmentBytes"][1][1]
    BY <1>2 DEF CutIsSeen
  <2>1. Len(img.dir) = 7 /\ Laid(7) /\ Off(7) \in Nat
    BY CleanOffsets
  <2>2. PICK n \in Nat : Encode(Kinds[7]) = EncodeBytes(n)
    BY <1>1, EncodeForms
  <2>3. placed[Kinds[7]] = <<<<Off(7), Off(7) + n>>>>
    BY <2>1, <2>2, BytesPlaced
  <2>4. placed["InitSegmentBytes"][1][1] = Off(7)
    BY <2>3, KindsAre
  <2>5. Off(7) <= img.len /\ img.len \in Nat
    BY <1>1, <2>1 DEF IInv, PhaseInv, DirectoryOK, LastStarts, Off, TypeOK
  <2> QED
    BY <2>1, <2>4, <2>5
<1> QED
  BY <1>3, <1>4

\* What IndexBuilder writes, IndexView::open accepts, and it hands out exactly
\* what was written, for every length of the blobs and every number of rows.
THEOREM WrittenIsRead == Spec => []RoundTrip
<1>1. Spec => []IInv
  BY InitIInv, NextIInv, PTL DEF Spec
<1>2. IInv => RoundTrip
  BY ViewRoundTrip
<1> QED
  BY <1>1, <1>2, PTL

\* A file that was cut at any byte before the init segment is refused by open;
\* if the cut is later, all other sections are read as they were written.
THEOREM CutsAreSeen == Spec => []CutIsSeen
<1>1. Spec => []IInv
  BY InitIInv, NextIInv, PTL DEF Spec
<1>2. IInv => CutIsSeen
  BY ViewRoundTrip
<1> QED
  BY <1>1, <1>2, PTL

\* Whatever was damaged, a view that open returns consists of distinct parts of
\* the file, and rows are read at multiples of 8.
THEOREM ViewsInBounds == Spec => []InBounds
<1>1. Spec => []IInv
  BY InitIInv, NextIInv, PTL DEF Spec
<1>2. IInv => InBounds
  BY ViewInBounds
<1> QED
  BY <1>1, <1>2, PTL
=============================================================================
