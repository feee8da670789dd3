---------------------------- MODULE DemuxProofs -----------------------------
(***************************************************************************)
(* Proofs about Demux, for every source file.  First, that the walk stays  *)
(* inside the boxes it entered, whatever the bytes (IInv).  Then, that it  *)
(* accepts exactly the plain pairs in the code's reading: what a loop has  *)
(* kept and what is left for it to read decide together, at every step,    *)
(* whether the file is one (VerdictInv).                                   *)
(***************************************************************************)
EXTENDS Demux, NaturalsInduction, WellFoundedInduction, TLAPS

(***************************************************************************)
(* The reading of the documents that the code takes, spelled out.          *)
(***************************************************************************)
Unmarked(k) == \A m \in Markers : At(k, m) = {}

TakenEntry(stsd, handler) ==
  /\ StsdOK(stsd)
  /\ LET k == Children(file, Payload(stsd) + 8, End(stsd))
     IN  /\ k.boxes # <<>>
         /\ End(k.boxes[1]) = End(stsd)
         /\ EntryError(k.boxes[1], handler) = None
         /\ LET fixed == IF handler = "vide" THEN 78 ELSE 28
                c == Children(file, Payload(k.boxes[1]) + fixed, End(stsd))
            IN  PayloadLen(k.boxes[1]) > fixed => c.whole /\ Unmarked(c)

TakenStbl(k, handler) ==
  /\ k.whole /\ Has(k, {"stsd", "stts", "stsc", "stsz"})
  /\ (At(k, "stco") = {}) # (At(k, "co64") = {})
  /\ At(k, "senc") = {}
  /\ \A t \in {"sbgp", "sgpd"} : All(k, t, LAMBDA b : GroupError(b) = None)
  /\ TakenEntry(LastOf(k, "stsd"), handler)

TakenMdia(k, handler) ==
  /\ k.whole /\ Has(k, {"mdhd", "hdlr", "minf"})
  /\ All(k, "mdhd", MdhdOK) /\ All(k, "hdlr", HdlrOK)
  /\ Handler(LastOf(k, "hdlr")) = handler
  /\ LET m == Inside(LastOf(k, "minf"))
     IN  Has(m, {"stbl"}) /\ TakenStbl(Inside(FirstOf(m, "stbl")), handler)

TakenTrak(k, handler) ==
  /\ k.whole /\ Has(k, {"tkhd", "mdia"})
  /\ All(k, "tkhd", TkhdOK)
  /\ TakenMdia(Inside(LastOf(k, "mdia")), handler)

\* A video track and an audio track without the signs of encryption that the code sees.
TakenPair ==
  LET top == Children(file, 0, file.len)
      moov == Inside(FirstOf(top, "moov"))
  IN  /\ top.whole /\ Has(top, {"ftyp"})
      /\ \E i \in DOMAIN top.boxes : At(top, "moov") = {i}
      /\ At(top, "moof") = {} /\ Unmarked(top)
      /\ All(top, "ftyp", LAMBDA b : FtypError(b) = None)
      /\ moov.whole
      /\ \E v, a \in At(moov, "trak") :
           /\ v # a /\ At(moov, "trak") = {v, a}
           /\ TakenTrak(Inside(moov.boxes[v]), "vide")
           /\ TakenTrak(Inside(moov.boxes[a]), "soun")

\* The walk decides as this reading says.
AcceptsTaken ==
  /\ result = "Ok" => TakenPair
  /\ result \notin {None, "Ok", "Io"} => ~TakenPair

-----------------------------------------------------------------------------
IsBox(b) ==
  /\ b.start \in Nat /\ b.size \in Nat /\ b.header \in {8, 16}
  /\ b.header <= b.size

\* A box inside a range.
In(b, s, e) == IsBox(b) /\ s <= b.start /\ End(b) <= e

Apart(a, b) == End(a) <= b.start \/ End(b) <= a.start

\* The headers a loop keeps: they are children of box o, no two overlap, and
\* all are behind the cursor.
ChildrenOf(o, l) ==
  \A t \in Kept(l) : found[t] # None => In(found[t], Payload(found[o]), End(found[o]))
KeptApart(l) ==
  \A t, u \in Kept(l) : t # u /\ found[t] # None /\ found[u] # None => Apart(found[t], found[u])
Passed(l) ==
  \A t \in Kept(l) : found[t] # None => End(found[t]) <= cursor
NothingOf(T) == \A t \in T : found[t] = None

\* The loops inside of parse_stbl, parse_mdia, parse_trak and the loop over moov.
InStbl == {"stsd", "entry"}
InMinf == InStbl \cup {"minf", "stbl"}
InTrak == InMinf \cup {"trak", "mdia"}
InMoov == InTrak \cup {"moov"}

\* The headers found are nested as the loops are.
TreeInv ==
  /\ loop \in InMoov => In(found["moov"], 0, file.len)
  /\ loop \in InTrak => /\ In(found["trak"], Payload(found["moov"]), End(found["moov"]))
                        /\ ChildrenOf("trak", "trak") /\ KeptApart("trak")
  /\ loop \in InMinf \cup {"mdia"} => found["mdia"] # None /\ ChildrenOf("mdia", "mdia")
  /\ loop \in InMinf => /\ found["minf"] # None
                        /\ ChildrenOf("minf", "stbl") /\ KeptApart("stbl")
  /\ loop \in InStbl => found["stsd"] # None
  /\ loop = "entry" => In(found["entry"], Payload(found["stsd"]), End(found["stsd"]))

\* What no loop has found yet.
FreshInv ==
  /\ loop = "file" => tracks = <<>> /\ (found["moov"] # None => In(found["moov"], 0, file.len))
  /\ loop \in {"file", "moov"} => NothingOf(OfTrack)
  /\ loop = "trak" => NothingOf(Kept("mdia") \cup Kept("stbl"))
  /\ loop \in {"mdia", "minf"} => NothingOf(Kept("stbl"))

\* Each loop runs inside the box it was entered for.
CursorInv ==
  /\ cursor \in Nat /\ end \in Nat
  /\ loop = "file" => end = file.len
  /\ loop \in {"moov", "trak", "mdia", "minf", "stsd"} =>
       Payload(found[loop]) <= cursor /\ end = End(found[loop])
  /\ loop = "stbl" => Payload(found["minf"]) <= cursor /\ end <= End(found["minf"])
  /\ loop \in {"trak", "stbl"} => Passed(loop)

\* The tracks parsed so far lie before the one that is being parsed.
TracksInv ==
  /\ \E S : tracks \in Seq(S)
  /\ \A i \in DOMAIN tracks : \A p \in DOMAIN tracks[i].ranges :
       LET r == tracks[i].ranges[p]
       IN  /\ r.offset \in Nat /\ r.len \in Nat
           /\ loop = "moov" => r.offset + r.len <= cursor
           /\ loop \in InTrak => r.offset + r.len <= found["trak"].start

\* The inductive invariant of the walk.
IInv ==
  /\ file \in Sources
  /\ loop \in InMoov \cup {"file", "done"}
  /\ DOMAIN found = Wanted
  /\ TreeInv /\ FreshInv /\ CursorInv /\ TracksInv /\ RangesApart

-----------------------------------------------------------------------------
\* What the loops keep.
LEMMA KeptIs ==
  /\ Kept("file") = {"ftyp", "moov"}
  /\ Kept("moov") = {} /\ Kept("minf") = {} /\ Kept("stsd") = {} /\ Kept("entry") = {}
  /\ Kept("trak") = {"tkhd", "edts", "mdia"}
  /\ Kept("mdia") = {"mdhd", "hdlr", "minf"}
  /\ Kept("stbl") = {"stsd"} \cup Tables
  BY DEF Kept

\* A number that is read from the source is a natural one.
LEMMA NumType == ASSUME file \in Sources, NEW o PROVE Num(o) \in Nat
  BY DemuxAssumption DEF Num, NumAt

\* next_header returns a box at the cursor that ends where the loop does or before.
LEMMA BoxIn ==
  ASSUME file \in Sources, cursor \in Nat, end \in Nat, HeaderOK(cursor, end)
  PROVE  In(Box, cursor, end) /\ Box.start = cursor
<1>1. HeaderSize(cursor) \in {8, 16} /\ DeclaredSize(cursor, end) \in Int
  BY NumType DEF HeaderSize, DeclaredSize, Size32
<1>2. /\ HeaderSize(cursor) <= DeclaredSize(cursor, end)
      /\ DeclaredSize(cursor, end) <= end - cursor
  BY DEF HeaderOK
<1>3. /\ Box.start = cursor /\ Box.header = HeaderSize(cursor)
      /\ Box.size = DeclaredSize(cursor, end)
  BY DEF Box, Header
<1> QED
  BY <1>1, <1>2, <1>3 DEF In, IsBox, End

\* The payload of a box lies inside it.
LEMMA PayloadInside ==
  ASSUME NEW b, IsBox(b)
  PROVE  /\ Payload(b) \in Nat /\ End(b) \in Nat /\ PayloadLen(b) \in Nat
         /\ b.start < Payload(b) /\ Payload(b) <= End(b)
         /\ Payload(b) + PayloadLen(b) = End(b) /\ b.start + b.size = End(b)
  BY DEF IsBox, Payload, PayloadLen, End

\* What is inside a part is inside the whole.
LEMMA InTransitive ==
  ASSUME NEW s \in Nat, NEW e \in Nat, NEW s1 \in Nat, NEW e1 \in Nat, s <= s1, e1 <= e,
         NEW b, In(b, s1, e1)
  PROVE  In(b, s, e)
<1>1. b.start \in Nat /\ End(b) \in Nat
  BY PayloadInside DEF In, IsBox
<1> QED
  BY <1>1 DEF In

\* What is inside the payload of a box that is inside a range is inside the range.
LEMMA InNested ==
  ASSUME NEW s \in Nat, NEW e \in Nat, NEW a, In(a, s, e), NEW b, In(b, Payload(a), End(a))
  PROVE  In(b, s, e)
<1>1. /\ a.start \in Nat /\ Payload(a) \in Nat /\ End(a) \in Nat /\ a.start < Payload(a)
      /\ s <= a.start /\ End(a) <= e
  BY PayloadInside DEF In, IsBox
<1>2. s <= Payload(a) /\ End(a) <= e
  BY <1>1
<1> QED
  BY <1>1, <1>2, InTransitive

\* The ranges of the tracks stay apart while no track is added.
LEMMA RangesKept ==
  ASSUME RangesApart, UNCHANGED <<file, tracks>>,
         tracks = <<>> \/ found'["moov"] = found["moov"]
  PROVE  RangesApart'
<1>1. CASE tracks = <<>>
  <2>1. DOMAIN tracks' = {}
    BY <1>1
  <2> QED
    BY <2>1 DEF RangesApart
<1>2. CASE found'["moov"] = found["moov"]
  BY <1>2 DEF RangesApart
<1> QED
  BY <1>1, <1>2

\* Initially.
LEMMA InitIInv == DemuxInit => IInv
<1> SUFFICES ASSUME DemuxInit PROVE IInv
  OBVIOUS
<1>1. file \in Sources /\ DOMAIN found = Wanted /\ loop = "file" /\ tracks = <<>>
  BY DEF DemuxInit
<1>2. \A t \in Wanted : found[t] = None
  BY DEF DemuxInit
<1>3. OfTrack \subseteq Wanted /\ "moov" \in Wanted
  BY DEF Wanted
<1>4. TreeInv
  BY <1>1 DEF TreeInv, InMoov, InTrak, InMinf, InStbl
<1>5. FreshInv
  BY <1>1, <1>2, <1>3 DEF FreshInv, NothingOf
<1>6. CursorInv
  BY <1>1, DemuxAssumption DEF DemuxInit, CursorInv
<1>7. TracksInv
  <2>1. tracks \in Seq({}) /\ DOMAIN tracks = {}
    BY <1>1
  <2> QED
    BY <2>1 DEF TracksInv
<1>8. RangesApart
  <2>1. DOMAIN tracks = {}
    BY <1>1
  <2> QED
    BY <2>1 DEF RangesApart
<1> QED
  BY <1>1, <1>4, <1>5, <1>6, <1>7, <1>8 DEF IInv

\* A walk that fails keeps what it found.
LEMMA FailIInv == ASSUME IInv, NEW error, Fail(error) PROVE IInv'
<1>1. loop' = "done" /\ UNCHANGED <<file, cursor, end, found, tracks>>
  BY DEF Fail
<1>2. TreeInv' /\ FreshInv' /\ CursorInv' /\ TracksInv'
  BY <1>1 DEF IInv, TreeInv, FreshInv, CursorInv, TracksInv, InMoov, InTrak, InMinf, InStbl
<1>3. RangesApart'
  BY <1>1, RangesKept DEF IInv
<1> QED
  BY <1>1, <1>2, <1>3 DEF IInv

-----------------------------------------------------------------------------
\* The loop is at a box.
AtSomeBox == loop # "done" /\ cursor < end /\ HeaderOK(cursor, end)

\* What Pass does to the headers found.
LEMMA PassFound ==
  ASSUME DOMAIN found = Wanted, Kept(loop) \subseteq Wanted, Pass
  PROVE  /\ DOMAIN found' = Wanted
         /\ \A u \in Wanted : found'[u] = IF u = Box.type /\ u \in Kept(loop) THEN Box ELSE found[u]
  BY DEF Pass

\* A box that a loop keeps is a child of the box o that the loop runs in.
LEMMA PassChildren ==
  ASSUME IInv, AtSomeBox, Pass, NEW o \in Wanted, o \notin Kept(loop), Kept(loop) \subseteq Wanted,
         IsBox(found[o]), Payload(found[o]) <= cursor, end <= End(found[o]),
         ChildrenOf(o, loop)
  PROVE  ChildrenOf(o, loop)'
<1>1. In(Box, cursor, end) /\ cursor \in Nat /\ end \in Nat
  BY BoxIn DEF IInv, CursorInv, AtSomeBox
<1>2. Payload(found[o]) \in Nat /\ End(found[o]) \in Nat
  BY PayloadInside
<1>3. In(Box, Payload(found[o]), End(found[o]))
  BY <1>1, <1>2, InTransitive
<1>4. /\ loop' = loop /\ found'[o] = found[o]
      /\ \A u \in Kept(loop) : found'[u] = Box \/ found'[u] = found[u]
  BY PassFound DEF Pass, IInv
<1> QED
  BY <1>3, <1>4 DEF ChildrenOf

\* It is behind and apart from what the loop kept before.
LEMMA PassApart ==
  ASSUME IInv, AtSomeBox, Pass, Kept(loop) \subseteq Wanted, Passed(loop), KeptApart(loop),
         \A u \in Kept(loop) : found[u] # None => IsBox(found[u])
  PROVE  Passed(loop)' /\ KeptApart(loop)'
<1>1. In(Box, cursor, end) /\ Box.start = cursor /\ cursor \in Nat
  BY BoxIn DEF IInv, CursorInv, AtSomeBox
<1>2. cursor' = End(Box) /\ loop' = loop /\ End(Box) \in Nat /\ cursor <= End(Box)
  BY <1>1, PayloadInside DEF Pass, In
<1>3. \A u \in Kept(loop) : found'[u] = IF u = Box.type THEN Box ELSE found[u]
  BY PassFound DEF IInv
<1>4. \A u \in Kept(loop) : found[u] # None => End(found[u]) \in Nat /\ End(found[u]) <= Box.start
  BY <1>1, PayloadInside DEF Passed
<1>5. Passed(loop)'
  BY <1>1, <1>2, <1>3, <1>4 DEF Passed
<1>6. KeptApart(loop)'
  <2> SUFFICES ASSUME NEW t \in Kept(loop), NEW u \in Kept(loop), t # u,
                      found'[t] # None, found'[u] # None
               PROVE  Apart(found'[t], found'[u])
    BY <1>2 DEF KeptApart
  <2>1. CASE t = Box.type
    BY <1>3, <1>4, <2>1 DEF Apart
  <2>2. CASE u = Box.type
    BY <1>3, <1>4, <2>2 DEF Apart
  <2>3. CASE t # Box.type /\ u # Box.type
    BY <1>3, <2>3 DEF KeptApart
  <2> QED
    BY <2>1, <2>2, <2>3
<1> QED
  BY <1>5, <1>6

\* Going on behind a box keeps the invariant.
LEMMA PassIInv ==
  ASSUME IInv, AtSomeBox, Pass, loop \in InMoov \cup {"file"}
  PROVE  IInv'
<1>0. /\ TreeInv /\ FreshInv /\ CursorInv /\ TracksInv /\ RangesApart
      /\ file \in Sources /\ DOMAIN found = Wanted
      /\ UNCHANGED <<file, loop, end, tracks>>
  BY DEF IInv, Pass
<1>1. Kept(loop) \subseteq Wanted
  BY KeptIs DEF InMoov, InTrak, InMinf, InStbl, Wanted, OfTrack
<1>2. /\ DOMAIN found' = Wanted
      /\ \A u \in Wanted : found'[u] = IF u = Box.type /\ u \in Kept(loop) THEN Box ELSE found[u]
  BY <1>0, <1>1, PassFound
<1>3. In(Box, cursor, end) /\ Box.start = cursor /\ cursor \in Nat /\ end \in Nat
  BY <1>0, BoxIn DEF CursorInv, AtSomeBox
<1>4. cursor' = End(Box) /\ cursor' \in Nat /\ cursor <= cursor'
  BY <1>3, PayloadInside DEF Pass, In
<1>5. /\ {"moov", "trak", "mdia", "minf", "stsd", "entry"} \subseteq Wanted
      /\ Kept("trak") \subseteq Wanted /\ Kept("mdia") \subseteq Wanted /\ Kept("stbl") \subseteq Wanted
      /\ OfTrack \subseteq Wanted
  BY KeptIs DEF Wanted, OfTrack
<1>6. TracksInv'
  <2>1. loop \in InTrak => found'["trak"] = found["trak"]
    BY <1>2, <1>5, KeptIs DEF InTrak, InMinf, InStbl, Tables
  <2> QED
    BY <1>0, <1>3, <1>4, <2>1 DEF TracksInv
<1>7. RangesApart'
  <2>1. loop \in InMoov => found'["moov"] = found["moov"]
    BY <1>2, <1>5, KeptIs DEF InMoov, InTrak, InMinf, InStbl, Tables
  <2>2. loop = "file" => tracks = <<>>
    BY <1>0 DEF FreshInv
  <2> QED
    BY <1>0, <2>1, <2>2, RangesKept
<1> SUFFICES TreeInv' /\ FreshInv' /\ CursorInv'
  BY <1>0, <1>2, <1>6, <1>7 DEF IInv
<1>8. CASE loop = "file"
  <2>1. \A u \in OfTrack : found'[u] = found[u]
    BY <1>2, <1>5, <1>8, KeptIs DEF OfTrack, Tables
  <2>2. TreeInv'
    BY <1>0, <1>8 DEF TreeInv, InMoov, InTrak, InMinf, InStbl
  <2>3. found'["moov"] = found["moov"] \/ found'["moov"] = Box
    BY <1>2, <1>5
  <2>4. In(Box, 0, file.len)
    BY <1>0, <1>3, <1>8, InTransitive DEF CursorInv
  <2>5. FreshInv'
    BY <1>0, <1>8, <2>1, <2>3, <2>4 DEF FreshInv, NothingOf
  <2>6. CursorInv'
    BY <1>0, <1>4, <1>8 DEF CursorInv
  <2> QED
    BY <2>2, <2>5, <2>6
<1>9. CASE loop \in {"moov", "minf", "stsd", "entry"}
  <2>1. found' = found
    BY <1>9, KeptIs DEF Pass
  <2>2. TreeInv'
    BY <1>0, <2>1 DEF TreeInv, ChildrenOf, KeptApart
  <2>3. FreshInv'
    BY <1>0, <2>1 DEF FreshInv, NothingOf
  <2>4. Payload(found[loop]) <= cursor /\ loop # "entry" => Payload(found[loop]) <= cursor'
    <3>1. loop # "entry" => IsBox(found[loop])
      BY <1>0, <1>9, KeptIs DEF TreeInv, ChildrenOf, In, InMoov, InTrak, InMinf, InStbl
    <3> QED
      BY <1>3, <1>4, <3>1, PayloadInside
  <2>5. CursorInv'
    BY <1>0, <1>4, <1>9, <2>1, <2>4 DEF CursorInv
  <2> QED
    BY <2>2, <2>3, <2>5
<1>10. CASE loop = "trak"
  <2>1. \A u \in Wanted \ {"tkhd", "edts", "mdia"} : found'[u] = found[u]
    BY <1>2, <1>10, KeptIs
  <2>2. /\ IsBox(found["trak"]) /\ Payload(found["trak"]) <= cursor /\ end = End(found["trak"])
        /\ Passed(loop) /\ ChildrenOf("trak", loop) /\ KeptApart(loop)
    BY <1>0, <1>10 DEF TreeInv, CursorInv, In, InTrak
  <2>3. \A u \in Kept(loop) : found[u] # None => IsBox(found[u])
    BY <2>2 DEF ChildrenOf, In
  <2>4. End(found["trak"]) \in Nat /\ Payload(found["trak"]) \in Nat
    BY <2>2, PayloadInside
  <2>5. ChildrenOf("trak", loop)'
    <3>1. "trak" \notin Kept(loop) /\ end <= End(found["trak"])
      BY <1>10, <2>2, <2>4, KeptIs
    <3> QED
      BY <1>1, <1>5, <2>2, <3>1, PassChildren
  <2>6. Passed(loop)' /\ KeptApart(loop)'
    BY <1>1, <2>2, <2>3, PassApart
  <2>7. found'["moov"] = found["moov"] /\ found'["trak"] = found["trak"]
    BY <1>5, <2>1
  <2>8. TreeInv'
    BY <1>0, <1>10, <2>5, <2>6, <2>7 DEF TreeInv, InMoov, InTrak, InMinf, InStbl
  <2>9. FreshInv'
    <3>1. \A u \in Kept("mdia") \cup Kept("stbl") : found'[u] = found[u]
      BY <1>5, <2>1, KeptIs DEF Tables
    <3> QED
      BY <1>0, <1>10, <3>1 DEF FreshInv, NothingOf
  <2>10. CursorInv'
    BY <1>0, <1>3, <1>4, <1>10, <2>2, <2>4, <2>6, <2>7 DEF CursorInv
  <2> QED
    BY <2>8, <2>9, <2>10
<1>11. CASE loop = "mdia"
  <2>1. \A u \in Wanted \ {"mdhd", "hdlr", "minf"} : found'[u] = found[u]
    BY <1>2, <1>11, KeptIs
  <2>2. /\ IsBox(found["mdia"]) /\ Payload(found["mdia"]) <= cursor /\ end = End(found["mdia"])
        /\ ChildrenOf("mdia", loop)
    <3>1. "mdia" \in Kept("trak") /\ found["mdia"] # None /\ ChildrenOf("trak", "trak")
      BY <1>0, <1>11, KeptIs DEF TreeInv, InTrak, InMinf
    <3>2. IsBox(found["mdia"])
      BY <3>1 DEF ChildrenOf, In
    <3> QED
      BY <1>0, <1>11, <3>2 DEF TreeInv, CursorInv
  <2>4. End(found["mdia"]) \in Nat /\ Payload(found["mdia"]) \in Nat
    BY <2>2, PayloadInside
  <2>5. ChildrenOf("mdia", loop)'
    <3>1. "mdia" \notin Kept(loop) /\ end <= End(found["mdia"])
      BY <1>11, <2>2, <2>4, KeptIs
    <3> QED
      BY <1>1, <1>5, <2>2, <3>1, PassChildren
  <2>6. ChildrenOf("trak", "trak")' /\ KeptApart("trak")'
    <3>1. \A u \in Kept("trak") \cup {"trak"} : found'[u] = found[u]
      BY <1>5, <2>1, KeptIs
    <3> QED
      BY <1>0, <1>11, <3>1 DEF TreeInv, ChildrenOf, KeptApart, InTrak
  <2>7. found'["moov"] = found["moov"] /\ found'["trak"] = found["trak"] /\ found'["mdia"] = found["mdia"]
    BY <1>5, <2>1
  <2>8. TreeInv'
    BY <1>0, <1>11, <2>5, <2>6, <2>7 DEF TreeInv, InMoov, InTrak, InMinf, InStbl
  <2>9. FreshInv'
    <3>1. \A u \in Kept("stbl") : found'[u] = found[u]
      BY <1>5, <2>1, KeptIs DEF Tables
    <3> QED
      BY <1>0, <1>11, <3>1 DEF FreshInv, NothingOf
  <2>10. CursorInv'
    BY <1>0, <1>3, <1>4, <1>11, <2>2, <2>4, <2>7 DEF CursorInv
  <2> QED
    BY <2>8, <2>9, <2>10
<1>12. CASE loop = "stbl"
  <2>1. \A u \in Wanted \ ({"stsd"} \cup Tables) : found'[u] = found[u]
    BY <1>2, <1>12, KeptIs
  <2>2. /\ IsBox(found["minf"]) /\ Payload(found["minf"]) <= cursor /\ end <= End(found["minf"])
        /\ Passed(loop) /\ ChildrenOf("minf", loop) /\ KeptApart(loop)
    <3>1. "minf" \in Kept("mdia") /\ found["minf"] # None /\ ChildrenOf("mdia", "mdia")
      BY <1>0, <1>12, KeptIs DEF TreeInv, InMinf
    <3>2. IsBox(found["minf"])
      BY <3>1 DEF ChildrenOf, In
    <3> QED
      BY <1>0, <1>12, <3>2 DEF TreeInv, CursorInv, InMinf
  <2>3. \A u \in Kept(loop) : found[u] # None => IsBox(found[u])
    BY <2>2 DEF ChildrenOf, In
  <2>4. End(found["minf"]) \in Nat /\ Payload(found["minf"]) \in Nat
    BY <2>2, PayloadInside
  <2>5. ChildrenOf("minf", loop)'
    <3>1. "minf" \notin Kept(loop)
      BY <1>12, KeptIs DEF Tables
    <3> QED
      BY <1>1, <1>5, <2>2, <3>1, PassChildren
  <2>6. Passed(loop)' /\ KeptApart(loop)'
    BY <1>1, <2>2, <2>3, PassApart
  <2>7. \A u \in Kept("trak") \cup Kept("mdia") \cup {"moov", "trak"} : found'[u] = found[u]
    BY <1>5, <2>1, KeptIs DEF Tables
  <2>8. ChildrenOf("trak", "trak")' /\ KeptApart("trak")' /\ ChildrenOf("mdia", "mdia")'
    <3>1. "mdia" \in Kept("trak")
      BY KeptIs
    <3> QED
      BY <1>0, <1>12, <2>7, <3>1 DEF TreeInv, ChildrenOf, KeptApart, InTrak, InMinf
  <2>9. found'["mdia"] = found["mdia"] /\ found'["minf"] = found["minf"]
    BY <2>7, KeptIs
  <2>10. TreeInv'
    BY <1>0, <1>12, <2>5, <2>6, <2>7, <2>8, <2>9 DEF TreeInv, InMoov, InTrak, InMinf, InStbl
  <2>11. FreshInv'
    BY <1>0, <1>12 DEF FreshInv
  <2>12. CursorInv'
    BY <1>0, <1>3, <1>4, <1>12, <2>2, <2>4, <2>6, <2>9 DEF CursorInv
  <2> QED
    BY <2>10, <2>11, <2>12
<1> QED
  BY <1>8, <1>9, <1>10, <1>11, <1>12 DEF InMoov, InTrak, InMinf, InStbl

-----------------------------------------------------------------------------
\* The parts of the invariant, and the types that matter when a loop is entered.
LEMMA Unfold ==
  ASSUME IInv
  PROVE  /\ TreeInv /\ FreshInv /\ CursorInv /\ TracksInv /\ RangesApart
         /\ file \in Sources /\ DOMAIN found = Wanted /\ file.len \in Nat
         /\ loop \in InMoov \cup {"file", "done"}
         /\ {"moov", "trak", "mdia", "minf", "stsd", "entry", "edts"} \cup Tables \subseteq Wanted
         /\ OfTrack \subseteq Wanted /\ "moov" \notin OfTrack
  BY DemuxAssumption DEF IInv, Wanted, OfTrack, Tables

\* The loop over moov starts.
LEMMA EnterMoovIInv ==
  ASSUME IInv, loop = "file", found["moov"] # None, Descend("moov", "moov")
  PROVE  IInv'
<1>0. /\ loop' = "moov" /\ cursor' = Payload(found["moov"]) /\ end' = End(found["moov"])
      /\ UNCHANGED <<file, tracks, found>>
  BY DEF Descend, Enter
<1>1. In(found["moov"], 0, file.len) /\ tracks = <<>> /\ NothingOf(OfTrack)
  BY Unfold DEF FreshInv
<1>2. Payload(found["moov"]) \in Nat /\ End(found["moov"]) \in Nat
  BY <1>1, PayloadInside DEF In
<1>3. TreeInv' /\ FreshInv'
  BY <1>0, <1>1 DEF TreeInv, FreshInv, NothingOf, InMoov, InTrak, InMinf, InStbl
<1>4. CursorInv'
  BY <1>0, <1>2 DEF CursorInv
<1>5. TracksInv'
  <2>1. tracks' \in Seq({}) /\ DOMAIN tracks' = {}
    BY <1>0, <1>1
  <2> QED
    BY <2>1 DEF TracksInv
<1>6. RangesApart'
  BY <1>0, Unfold, RangesKept
<1> QED
  BY <1>0, <1>3, <1>4, <1>5, <1>6, Unfold DEF IInv, InMoov, InTrak, InMinf, InStbl

\* parse_trak starts.
LEMMA EnterTrakIInv ==
  ASSUME IInv, AtBox("moov"),
         Enter("trak", Payload(Box), End(Box)), found' = [found EXCEPT !["trak"] = Box]
  PROVE  IInv'
<1>0. /\ loop = "moov" /\ loop' = "trak" /\ cursor' = Payload(Box) /\ end' = End(Box)
      /\ UNCHANGED <<file, tracks>>
  BY DEF Enter, AtBox
<1>1. /\ found'["trak"] = Box /\ DOMAIN found' = Wanted
      /\ \A u \in Wanted : u # "trak" => found'[u] = found[u]
  BY Unfold
<1>2. In(Box, cursor, end) /\ Box.start = cursor /\ cursor \in Nat /\ end \in Nat
  BY Unfold, BoxIn DEF AtBox, CursorInv
<1>3. /\ In(found["moov"], 0, file.len) /\ found'["moov"] = found["moov"]
      /\ Payload(found["moov"]) <= cursor /\ end = End(found["moov"])
  BY <1>0, <1>1, Unfold DEF TreeInv, CursorInv, InMoov
<1>4. Payload(found["moov"]) \in Nat /\ Payload(Box) \in Nat /\ End(Box) \in Nat
  BY <1>2, <1>3, PayloadInside DEF In
<1>5. In(Box, Payload(found["moov"]), End(found["moov"]))
  BY <1>2, <1>3, <1>4, InTransitive
<1>6. NothingOf(Kept("trak") \cup Kept("mdia") \cup Kept("stbl"))'
  <2>1. /\ Kept("trak") \cup Kept("mdia") \cup Kept("stbl") \subseteq OfTrack
        /\ "trak" \notin Kept("trak") \cup Kept("mdia") \cup Kept("stbl")
    BY KeptIs DEF OfTrack, Tables
  <2> QED
    BY <1>0, <1>1, <2>1, Unfold DEF FreshInv, NothingOf
<1>7. TreeInv'
  BY <1>0, <1>1, <1>3, <1>5, <1>6
     DEF TreeInv, ChildrenOf, KeptApart, NothingOf, InMoov, InTrak, InMinf, InStbl
<1>8. FreshInv' /\ CursorInv'
  BY <1>0, <1>1, <1>4, <1>6 DEF FreshInv, CursorInv, NothingOf, Passed
<1>9. TracksInv'
  BY <1>0, <1>1, <1>2, Unfold DEF TracksInv
<1>10. RangesApart'
  BY <1>0, <1>3, Unfold, RangesKept
<1> QED
  BY <1>0, <1>1, <1>7, <1>8, <1>9, <1>10, Unfold DEF IInv, InMoov, InTrak, InMinf, InStbl

\* parse_mdia starts.
LEMMA EnterMdiaIInv ==
  ASSUME IInv, loop = "trak", found["mdia"] # None, Descend("mdia", "mdia")
  PROVE  IInv'
<1>0. /\ loop' = "mdia" /\ cursor' = Payload(found["mdia"]) /\ end' = End(found["mdia"])
      /\ UNCHANGED <<file, tracks, found>>
  BY DEF Descend, Enter
<1>1. IsBox(found["mdia"])
  BY Unfold, KeptIs DEF TreeInv, ChildrenOf, In, InTrak
<1>2. Payload(found["mdia"]) \in Nat /\ End(found["mdia"]) \in Nat
  BY <1>1, PayloadInside
<1>3. NothingOf(Kept("mdia") \cup Kept("stbl"))
  BY Unfold DEF FreshInv
<1>4. TreeInv'
  BY <1>0, <1>3, Unfold
     DEF TreeInv, ChildrenOf, KeptApart, NothingOf, InMoov, InTrak, InMinf, InStbl
<1>5. FreshInv' /\ CursorInv'
  BY <1>0, <1>2, <1>3 DEF FreshInv, CursorInv, NothingOf
<1>6. TracksInv'
  BY <1>0, Unfold DEF TracksInv, InTrak
<1>7. RangesApart'
  BY <1>0, Unfold, RangesKept
<1> QED
  BY <1>0, <1>4, <1>5, <1>6, <1>7, Unfold DEF IInv, InMoov, InTrak, InMinf, InStbl

\* locate_stbl starts.
LEMMA EnterMinfIInv ==
  ASSUME IInv, loop = "mdia", found["minf"] # None, Descend("minf", "minf")
  PROVE  IInv'
<1>0. /\ loop' = "minf" /\ cursor' = Payload(found["minf"]) /\ end' = End(found["minf"])
      /\ UNCHANGED <<file, tracks, found>>
  BY DEF Descend, Enter
<1>1. IsBox(found["minf"])
  BY Unfold, KeptIs DEF TreeInv, ChildrenOf, In
<1>2. Payload(found["minf"]) \in Nat /\ End(found["minf"]) \in Nat
  BY <1>1, PayloadInside
<1>3. NothingOf(Kept("stbl"))
  BY Unfold DEF FreshInv
<1>4. TreeInv'
  BY <1>0, <1>3, Unfold
     DEF TreeInv, ChildrenOf, KeptApart, NothingOf, InMoov, InTrak, InMinf, InStbl
<1>5. FreshInv' /\ CursorInv'
  BY <1>0, <1>2, <1>3 DEF FreshInv, CursorInv, NothingOf
<1>6. TracksInv'
  BY <1>0, Unfold DEF TracksInv, InTrak, InMinf
<1>7. RangesApart'
  BY <1>0, Unfold, RangesKept
<1> QED
  BY <1>0, <1>4, <1>5, <1>6, <1>7, Unfold DEF IInv, InMoov, InTrak, InMinf, InStbl

\* parse_stbl starts: a box inside of minf that is not kept.
LEMMA EnterStblIInv ==
  ASSUME IInv, AtBox("minf"), Enter("stbl", Payload(Box), End(Box)), UNCHANGED found
  PROVE  IInv'
<1>0. /\ loop = "minf" /\ loop' = "stbl" /\ cursor' = Payload(Box) /\ end' = End(Box)
      /\ UNCHANGED <<file, tracks, found>>
  BY DEF Enter, AtBox
<1>1. In(Box, cursor, end) /\ Box.start = cursor /\ cursor \in Nat /\ end \in Nat
  BY Unfold, BoxIn DEF AtBox, CursorInv
<1>2. IsBox(found["minf"])
  BY <1>0, Unfold, KeptIs DEF TreeInv, ChildrenOf, In, InMinf
<1>3. /\ Payload(found["minf"]) <= cursor /\ end = End(found["minf"])
      /\ Payload(found["minf"]) \in Nat
      /\ Payload(Box) \in Nat /\ End(Box) \in Nat /\ Box.start < Payload(Box)
  BY <1>0, <1>1, <1>2, Unfold, PayloadInside DEF CursorInv, In
<1>4. NothingOf(Kept("stbl"))
  BY <1>0, Unfold DEF FreshInv
<1>5. TreeInv'
  BY <1>0, Unfold
     DEF TreeInv, ChildrenOf, KeptApart, InMoov, InTrak, InMinf, InStbl
<1>6. FreshInv'
  BY <1>0 DEF FreshInv
<1>7. CursorInv'
  BY <1>0, <1>1, <1>3, <1>4 DEF CursorInv, NothingOf, Passed, In
<1>8. TracksInv'
  BY <1>0, Unfold DEF TracksInv, InTrak, InMinf
<1>9. RangesApart'
  BY <1>0, Unfold, RangesKept
<1> QED
  BY <1>0, <1>5, <1>6, <1>7, <1>8, <1>9, Unfold DEF IInv, InMoov, InTrak, InMinf, InStbl

\* parse_stsd_entry starts.
LEMMA EnterStsdIInv ==
  ASSUME IInv, loop = "stbl", found["stsd"] # None,
         Enter("stsd", Payload(found["stsd"]) + 8, End(found["stsd"])), UNCHANGED found
  PROVE  IInv'
<1>0. /\ loop' = "stsd" /\ cursor' = Payload(found["stsd"]) + 8 /\ end' = End(found["stsd"])
      /\ UNCHANGED <<file, tracks, found>>
  BY DEF Enter
<1>1. IsBox(found["stsd"])
  BY Unfold, KeptIs DEF TreeInv, ChildrenOf, In, InMinf
<1>2. Payload(found["stsd"]) \in Nat /\ End(found["stsd"]) \in Nat
  BY <1>1, PayloadInside
<1>3. TreeInv'
  BY <1>0, Unfold
     DEF TreeInv, ChildrenOf, KeptApart, InMoov, InTrak, InMinf, InStbl
<1>4. FreshInv' /\ CursorInv'
  BY <1>0, <1>2 DEF FreshInv, CursorInv
<1>5. TracksInv'
  BY <1>0, Unfold DEF TracksInv, InTrak, InMinf, InStbl
<1>6. RangesApart'
  BY <1>0, Unfold, RangesKept
<1> QED
  BY <1>0, <1>3, <1>4, <1>5, <1>6, Unfold DEF IInv, InMoov, InTrak, InMinf, InStbl

\* The sample entry is found, and its children are read.
LEMMA EnterEntryIInv ==
  ASSUME IInv, AtBox("stsd"), NEW h,
         Enter("entry", ChildrenStart(Box, h), End(Box)), found' = [found EXCEPT !["entry"] = Box]
  PROVE  IInv'
<1>0. /\ loop = "stsd" /\ loop' = "entry" /\ cursor' = ChildrenStart(Box, h) /\ end' = End(Box)
      /\ UNCHANGED <<file, tracks>>
  BY DEF Enter, AtBox
<1>1. /\ found'["entry"] = Box /\ DOMAIN found' = Wanted
      /\ \A u \in Wanted : u # "entry" => found'[u] = found[u]
  BY Unfold
<1>2. In(Box, cursor, end) /\ Box.start = cursor /\ cursor \in Nat /\ end \in Nat
  BY Unfold, BoxIn DEF AtBox, CursorInv
<1>3. IsBox(found["stsd"]) /\ Payload(found["stsd"]) <= cursor /\ end = End(found["stsd"])
  BY <1>0, Unfold, KeptIs DEF TreeInv, CursorInv, ChildrenOf, In, InMinf, InStbl
<1>4. /\ Payload(found["stsd"]) \in Nat /\ End(found["stsd"]) \in Nat
      /\ Payload(Box) \in Nat /\ End(Box) \in Nat
  BY <1>2, <1>3, PayloadInside DEF In
<1>5. In(Box, Payload(found["stsd"]), End(found["stsd"]))
  BY <1>2, <1>3, <1>4, InTransitive
<1>6. ChildrenStart(Box, h) \in Nat
  BY <1>4 DEF ChildrenStart, Prefix
<1>7. \A u \in Kept("trak") \cup Kept("mdia") \cup Kept("stbl")
                \cup {"moov", "trak", "mdia", "minf", "stsd"} : found'[u] = found[u]
  <2>1. /\ "entry" \notin Kept("trak") \cup Kept("mdia") \cup Kept("stbl")
        /\ Kept("trak") \cup Kept("mdia") \cup Kept("stbl") \subseteq Wanted
    BY KeptIs DEF Wanted, OfTrack, Tables
  <2> QED
    BY <1>1, <2>1, Unfold
<1>8. TreeInv'
  BY <1>0, <1>1, <1>5, <1>7, Unfold
     DEF TreeInv, ChildrenOf, KeptApart, InMoov, InTrak, InMinf, InStbl
<1>9. FreshInv' /\ CursorInv'
  BY <1>0, <1>4, <1>6 DEF FreshInv, CursorInv
<1>10. TracksInv'
  BY <1>0, <1>7, Unfold DEF TracksInv, InTrak, InMinf, InStbl
<1>11. RangesApart'
  BY <1>0, <1>7, Unfold, RangesKept
<1> QED
  BY <1>0, <1>1, <1>8, <1>9, <1>10, <1>11, Unfold DEF IInv, InMoov, InTrak, InMinf, InStbl

-----------------------------------------------------------------------------
\* The boxes of which a track keeps ranges are apart from each other and inside
\* of trak: edts is beside mdia, which holds minf, which holds the tables and
\* stsd, which holds the entry.
LEMMA TrackBoxes ==
  ASSUME IInv, loop = "entry",
         NEW p \in {"entry", "edts"} \cup Tables, found[p] # None
  PROVE  /\ In(found[p], Payload(found["trak"]), End(found["trak"]))
         /\ \A q \in {"entry", "edts"} \cup Tables :
              q # p /\ found[q] # None => Apart(found[p], found[q])
<1> DEFINE Mdia == found["mdia"]
           Minf == found["minf"]
           Stsd == found["stsd"]
           Trak == found["trak"]
<1>1. /\ ChildrenOf("trak", "trak") /\ KeptApart("trak") /\ ChildrenOf("mdia", "mdia")
      /\ ChildrenOf("minf", "stbl") /\ KeptApart("stbl")
      /\ found["mdia"] # None /\ found["minf"] # None /\ found["stsd"] # None
      /\ In(found["entry"], Payload(Stsd), End(Stsd))
      /\ IsBox(Trak)
  BY Unfold DEF TreeInv, In, InTrak, InMinf, InStbl
<1>2. /\ In(Mdia, Payload(Trak), End(Trak)) /\ In(Minf, Payload(Mdia), End(Mdia))
      /\ In(Stsd, Payload(Minf), End(Minf))
      /\ \A t \in Tables : found[t] # None => In(found[t], Payload(Minf), End(Minf))
      /\ found["edts"] # None =>
           In(found["edts"], Payload(Trak), End(Trak)) /\ Apart(found["edts"], Mdia)
  BY <1>1, KeptIs DEF ChildrenOf, KeptApart
<1>3. /\ \A t \in Tables : found[t] # None => Apart(found[t], Stsd)
      /\ \A t, u \in Tables : t # u /\ found[t] # None /\ found[u] # None => Apart(found[t], found[u])
  <2>1. "stsd" \notin Tables
    BY DEF Tables
  <2> QED
    BY <1>1, <2>1, KeptIs DEF KeptApart
<1> DEFINE Sound(b) == Payload(b) \in Nat /\ End(b) \in Nat /\ b.start \in Nat
                       /\ b.start <= Payload(b) /\ Payload(b) <= End(b)
<1>4. Sound(Trak) /\ Sound(Mdia) /\ Sound(Minf) /\ Sound(Stsd) /\ Sound(found["entry"])
  BY <1>1, <1>2, PayloadInside DEF In, IsBox
<1>5. ASSUME NEW t \in Tables, found[t] # None
      PROVE  Sound(found[t]) /\ In(found[t], Payload(Mdia), End(Mdia))
  <2>1. In(found[t], Payload(Minf), End(Minf))
    BY <1>2, <1>5
  <2>2. Sound(found[t])
    BY <2>1, PayloadInside DEF In, IsBox
  <2>3. Payload(Mdia) <= Payload(Minf) /\ End(Minf) <= End(Mdia)
    BY <1>2, <1>4 DEF In
  <2>4. In(found[t], Payload(Mdia), End(Mdia))
    BY <1>4, <2>1, <2>3, InTransitive
  <2> QED
    BY <2>2, <2>4
<1>6. In(Stsd, Payload(Mdia), End(Mdia))
  BY <1>2, <1>4, InNested
<1>7. In(found["entry"], Payload(Mdia), End(Mdia))
  BY <1>1, <1>4, <1>6, InNested
<1>8. ASSUME NEW b, In(b, Payload(Mdia), End(Mdia))
      PROVE  In(b, Payload(Trak), End(Trak)) /\ (found["edts"] # None => Apart(found["edts"], b))
  <2>1. b.start \in Nat /\ End(b) \in Nat
    BY <1>8, PayloadInside DEF In, IsBox
  <2>2. found["edts"] # None => End(found["edts"]) \in Nat /\ found["edts"].start \in Nat
    BY <1>2, PayloadInside DEF In, IsBox
  <2>3. In(b, Payload(Trak), End(Trak))
    BY <1>2, <1>4, <1>8, InNested
  <2> QED
    BY <1>2, <1>4, <1>8, <2>1, <2>2, <2>3 DEF In, Apart
<1>9. ASSUME NEW t \in Tables, found[t] # None PROVE Apart(found["entry"], found[t])
  BY <1>1, <1>3, <1>4, <1>5, <1>9 DEF In, Apart
<1>10. \A a, b : Apart(a, b) <=> Apart(b, a)
  BY DEF Apart
<1> HIDE DEF Mdia, Minf, Stsd, Trak, Sound
<1>11. In(found[p], Payload(Trak), End(Trak))
  BY <1>2, <1>5, <1>7, <1>8 DEF Trak
<1>12. ASSUME NEW q \in {"entry", "edts"} \cup Tables, q # p, found[q] # None
       PROVE  Apart(found[p], found[q])
  <2>1. CASE p = "edts" \/ q = "edts"
    BY <1>5, <1>7, <1>8, <1>10, <1>12, <2>1
  <2>2. CASE p # "edts" /\ q # "edts"
    BY <1>3, <1>9, <1>10, <1>12, <2>2
  <2> QED
    BY <2>1, <2>2
<1> QED
  BY <1>11, <1>12 DEF Trak

\* What parse_trak returns are ranges inside of trak that are apart.
LEMMA TrackRanges ==
  ASSUME IInv, loop = "entry"
  PROVE  LET R(p) == Track.ranges[p]
         IN  \A p \in DOMAIN Track.ranges :
               /\ R(p).offset \in Nat /\ R(p).len \in Nat
               /\ found["trak"].start <= R(p).offset
               /\ R(p).offset + R(p).len <= End(found["trak"])
               /\ \A q \in DOMAIN Track.ranges : q # p =>
                    \/ R(p).offset + R(p).len <= R(q).offset
                    \/ R(q).offset + R(q).len <= R(p).offset
<1> DEFINE P == {q \in {"entry", "edts"} \cup Tables : found[q] # None}
           R(p) == Track.ranges[p]
<1>1. /\ DOMAIN Track.ranges = P
      /\ \A p \in P : R(p) = IF p \in Tables THEN PayloadRange(found[p]) ELSE WholeRange(found[p])
  BY DEF Track
<1>2. IsBox(found["trak"])
  BY Unfold DEF TreeInv, In, InTrak, InMinf, InStbl
<1>3. ASSUME NEW p \in P
      PROVE  /\ In(found[p], Payload(found["trak"]), End(found["trak"]))
             /\ \A q \in P : q # p => Apart(found[p], found[q])
  BY <1>3, TrackBoxes
<1>4. ASSUME NEW p \in P
      PROVE  /\ R(p).offset \in Nat /\ R(p).len \in Nat
             /\ found[p].start <= R(p).offset /\ R(p).offset + R(p).len = End(found[p])
             /\ found[p].start \in Nat /\ End(found[p]) \in Nat
  <2>1. IsBox(found[p])
    BY <1>3 DEF In
  <2>0. /\ found[p].start \in Nat /\ found[p].size \in Nat
        /\ Payload(found[p]) \in Nat /\ End(found[p]) \in Nat /\ PayloadLen(found[p]) \in Nat
        /\ found[p].start < Payload(found[p])
        /\ Payload(found[p]) + PayloadLen(found[p]) = End(found[p])
        /\ found[p].start + found[p].size = End(found[p])
    BY <2>1, PayloadInside DEF IsBox
  <2> HIDE DEF R, P
  <2>2. CASE p \in Tables
    <3>1. R(p) = PayloadRange(found[p])
      BY <1>1, <1>4, <2>2
    <3>2. R(p).offset = Payload(found[p]) /\ R(p).len = PayloadLen(found[p])
      BY <3>1 DEF PayloadRange
    <3> QED
      BY <2>0, <3>2
  <2>3. CASE p \notin Tables
    <3>1. R(p) = WholeRange(found[p])
      BY <1>1, <1>4, <2>3
    <3>2. R(p).offset = found[p].start /\ R(p).len = found[p].size
      BY <3>1 DEF WholeRange
    <3> QED
      BY <2>0, <3>2
  <2> QED
    BY <2>2, <2>3
<1>5. found["trak"].start \in Nat /\ Payload(found["trak"]) \in Nat
      /\ found["trak"].start < Payload(found["trak"])
  BY <1>2, PayloadInside DEF IsBox
<1> HIDE DEF R, P
<1>6. ASSUME NEW p \in P
      PROVE  /\ found["trak"].start <= R(p).offset
             /\ R(p).offset + R(p).len <= End(found["trak"])
  BY <1>3, <1>4, <1>5 DEF In
<1>7. ASSUME NEW p \in P, NEW q \in P, q # p
      PROVE  \/ R(p).offset + R(p).len <= R(q).offset
             \/ R(q).offset + R(q).len <= R(p).offset
  <2>1. Apart(found[p], found[q])
    BY <1>3, <1>7
  <2> QED
    BY <1>4, <2>1 DEF Apart
<1>8. \A p \in P :
        /\ R(p).offset \in Nat /\ R(p).len \in Nat
        /\ found["trak"].start <= R(p).offset
        /\ R(p).offset + R(p).len <= End(found["trak"])
        /\ \A q \in P : q # p =>
             \/ R(p).offset + R(p).len <= R(q).offset
             \/ R(q).offset + R(q).len <= R(p).offset
  BY <1>4, <1>6, <1>7
<1> QED
  BY <1>1, <1>8 DEF R

\* A track that starts behind all others is added.
LEMMA TrackIsApart ==
  ASSUME IInv, loop = "entry", tracks' = Append(tracks, Track), file' = file,
         found'["moov"] = found["moov"]
  PROVE  RangesApart'
<1> DEFINE R(i, p) == tracks[i].ranges[p]
           N(p) == Track.ranges[p]
           m == Len(tracks) + 1
<1>1. PICK S : tracks \in Seq(S)
  BY Unfold DEF TracksInv
<1>2. /\ Len(tracks) \in Nat /\ DOMAIN tracks = 1 .. Len(tracks)
      /\ DOMAIN tracks' = 1 .. m /\ tracks'[m] = Track
      /\ \A i \in DOMAIN tracks : tracks'[i] = tracks[i]
  BY <1>1
<1>3. /\ In(found["moov"], 0, file.len)
      /\ In(found["trak"], Payload(found["moov"]), End(found["moov"]))
  BY Unfold DEF TreeInv, InMoov, InTrak, InMinf, InStbl
<1>4. /\ found["trak"].start \in Nat /\ End(found["trak"]) \in Nat
      /\ Payload(found["moov"]) \in Nat /\ End(found["moov"]) \in Nat
  BY <1>3, PayloadInside DEF In, IsBox
<1>5. \A i \in DOMAIN tracks : \A p \in DOMAIN tracks[i].ranges :
        /\ R(i, p).offset \in Nat /\ R(i, p).len \in Nat
        /\ R(i, p).offset + R(i, p).len <= found["trak"].start
  BY Unfold DEF TracksInv, InTrak, InMinf, InStbl
<1>6. \A p \in DOMAIN Track.ranges :
        /\ N(p).offset \in Nat /\ N(p).len \in Nat
        /\ found["trak"].start <= N(p).offset
        /\ N(p).offset + N(p).len <= End(found["trak"])
        /\ \A q \in DOMAIN Track.ranges : q # p =>
             \/ N(p).offset + N(p).len <= N(q).offset
             \/ N(q).offset + N(q).len <= N(p).offset
  BY TrackRanges
<1> SUFFICES ASSUME NEW i \in DOMAIN tracks', NEW p \in DOMAIN tracks'[i].ranges
             PROVE  LET Q(j, q) == tracks'[j].ranges[q]
                    IN  /\ Payload(found["moov"]) <= Q(i, p).offset
                        /\ Q(i, p).offset + Q(i, p).len <= End(found["moov"])
                        /\ End(found["moov"]) <= file.len
                        /\ \A j \in DOMAIN tracks' : \A q \in DOMAIN tracks'[j].ranges :
                             <<i, p>> # <<j, q>> =>
                               \/ Q(i, p).offset + Q(i, p).len <= Q(j, q).offset
                               \/ Q(j, q).offset + Q(j, q).len <= Q(i, p).offset
  BY DEF RangesApart
<1> DEFINE Q(j, q) == tracks'[j].ranges[q]
<1> HIDE DEF m
<1>7. \A j \in DOMAIN tracks' : j \in DOMAIN tracks \/ j = m
  BY <1>2 DEF m
<1>8. CASE i \in DOMAIN tracks
  <2>1. /\ Payload(found["moov"]) <= Q(i, p).offset
        /\ Q(i, p).offset + Q(i, p).len <= End(found["moov"])
    BY <1>2, <1>8, Unfold DEF RangesApart
  <2>2. ASSUME NEW j \in DOMAIN tracks, NEW q \in DOMAIN tracks'[j].ranges, <<i, p>> # <<j, q>>
        PROVE  \/ Q(i, p).offset + Q(i, p).len <= Q(j, q).offset
               \/ Q(j, q).offset + Q(j, q).len <= Q(i, p).offset
    BY <1>2, <1>8, <2>2, Unfold DEF RangesApart
  <2>3. ASSUME NEW q \in DOMAIN Track.ranges
        PROVE  Q(i, p).offset + Q(i, p).len <= Q(m, q).offset
    BY <1>2, <1>4, <1>5, <1>6, <1>8, <2>3, SMTT(30)
  <2> HIDE DEF Q
  <2> QED
    BY <1>2, <1>3, <1>7, <2>1, <2>2, <2>3 DEF In, Q
<1>9. CASE i = m
  <2>1. /\ Payload(found["moov"]) <= Q(i, p).offset
        /\ Q(i, p).offset + Q(i, p).len <= End(found["moov"])
    BY <1>2, <1>3, <1>4, <1>6, <1>9 DEF In
  <2>2. ASSUME NEW j \in DOMAIN tracks, NEW q \in DOMAIN tracks'[j].ranges
        PROVE  Q(j, q).offset + Q(j, q).len <= Q(i, p).offset
    BY <1>2, <1>4, <1>5, <1>6, <1>9, <2>2, SMTT(30)
  <2>3. ASSUME NEW q \in DOMAIN Track.ranges, q # p
        PROVE  \/ Q(i, p).offset + Q(i, p).len <= Q(m, q).offset
               \/ Q(m, q).offset + Q(m, q).len <= Q(i, p).offset
    BY <1>2, <1>6, <1>9, <2>3
  <2> HIDE DEF Q
  <2> QED
    BY <1>2, <1>3, <1>7, <1>9, <2>1, <2>2, <2>3 DEF In, Q
<1> QED
  BY <1>7, <1>8, <1>9

\* parse_trak returns, and the loop over moov goes on.
LEMMA EndTrakIInv ==
  ASSUME IInv, loop = "entry", tracks' = Append(tracks, Track),
         loop' = "moov", cursor' = End(found["trak"]), end' = End(found["moov"]),
         found' = [t \in Wanted |-> IF t \in OfTrack THEN None ELSE found[t]],
         file' = file
  PROVE  IInv'
<1>1. /\ In(found["moov"], 0, file.len)
      /\ In(found["trak"], Payload(found["moov"]), End(found["moov"]))
  BY Unfold DEF TreeInv, InMoov, InTrak, InMinf, InStbl
<1>2. /\ found["trak"].start \in Nat /\ End(found["trak"]) \in Nat
      /\ found["trak"].start < Payload(found["trak"])
      /\ Payload(found["trak"]) \in Nat /\ Payload(found["trak"]) <= End(found["trak"])
      /\ Payload(found["moov"]) \in Nat /\ End(found["moov"]) \in Nat
  BY <1>1, PayloadInside DEF In, IsBox
<1>3. /\ found'["moov"] = found["moov"] /\ DOMAIN found' = Wanted
      /\ \A t \in OfTrack : found'[t] = None
  BY Unfold
<1>4. TreeInv' /\ FreshInv'
  BY <1>1, <1>3 DEF TreeInv, FreshInv, NothingOf, InMoov, InTrak, InMinf, InStbl
<1>5. CursorInv'
  BY <1>1, <1>2, <1>3 DEF CursorInv, In
<1>6. TracksInv'
  <2>1. PICK S : tracks \in Seq(S)
    BY Unfold DEF TracksInv
  <2>2. /\ tracks' \in Seq(S \cup {Track}) /\ Len(tracks) \in Nat
        /\ DOMAIN tracks' = 1 .. Len(tracks) + 1 /\ tracks'[Len(tracks) + 1] = Track
        /\ DOMAIN tracks = 1 .. Len(tracks)
        /\ \A i \in DOMAIN tracks : tracks'[i] = tracks[i]
    BY <2>1
  <2>3. ASSUME NEW i \in DOMAIN tracks, NEW p \in DOMAIN tracks[i].ranges
        PROVE  /\ tracks[i].ranges[p].offset \in Nat /\ tracks[i].ranges[p].len \in Nat
               /\ tracks[i].ranges[p].offset + tracks[i].ranges[p].len <= End(found["trak"])
    <3>1. /\ tracks[i].ranges[p].offset \in Nat /\ tracks[i].ranges[p].len \in Nat
          /\ tracks[i].ranges[p].offset + tracks[i].ranges[p].len <= found["trak"].start
      BY Unfold DEF TracksInv, InTrak, InMinf, InStbl
    <3> QED
      BY <1>2, <3>1
  <2>4. \A p \in DOMAIN Track.ranges :
          /\ Track.ranges[p].offset \in Nat /\ Track.ranges[p].len \in Nat
          /\ Track.ranges[p].offset + Track.ranges[p].len <= End(found["trak"])
    BY TrackRanges
  <2>5. \A i \in DOMAIN tracks' : i \in DOMAIN tracks \/ i = Len(tracks) + 1
    BY <2>2
  <2>6. \A i \in DOMAIN tracks' : \A p \in DOMAIN tracks'[i].ranges :
          /\ tracks'[i].ranges[p].offset \in Nat /\ tracks'[i].ranges[p].len \in Nat
          /\ tracks'[i].ranges[p].offset + tracks'[i].ranges[p].len <= cursor'
    BY <2>2, <2>3, <2>4, <2>5
  <2>7. loop' \notin InTrak
    BY DEF InTrak, InMinf, InStbl
  <2> QED
    BY <2>2, <2>6, <2>7 DEF TracksInv
<1>7. RangesApart'
  BY <1>3, TrackIsApart
<1> QED
  BY <1>3, <1>4, <1>5, <1>6, <1>7, Unfold DEF IInv, InMoov, InTrak, InMinf, InStbl

-----------------------------------------------------------------------------
\* A loop that reads a box fails or goes on, if it does not enter the box.
LEMMA BoxStep ==
  ASSUME IInv, NEW l \in InMoov \cup {"file"}, AtBox(l), NEW error, FailOr(error, Pass)
  PROVE  IInv'
<1>1. AtSomeBox /\ loop = l
  BY DEF AtBox, AtSomeBox, InMoov, InTrak, InMinf, InStbl
<1>2. CASE error # None
  BY <1>2, FailIInv DEF FailOr
<1>3. CASE error = None
  BY <1>1, <1>3, PassIInv DEF FailOr
<1> QED
  BY <1>2, <1>3

\* The steps that end a loop.
LEMMA EndSteps ==
  ASSUME IInv, TopEnd \/ TrakEnd \/ MdiaEnd \/ MinfEnd \/ StblEnd \/ StsdEnd \/ EntryEnd \/ MoovEnd
  PROVE  IInv'
<1>1. CASE TopEnd
  BY <1>1, FailIInv, EnterMoovIInv DEF TopEnd, AtEnd
<1>2. CASE TrakEnd
  BY <1>2, FailIInv, EnterMdiaIInv DEF TrakEnd, AtEnd
<1>3. CASE MdiaEnd
  BY <1>3, FailIInv, EnterMinfIInv DEF MdiaEnd, AtEnd
<1>4. CASE MinfEnd \/ StsdEnd
  BY <1>4, FailIInv DEF MinfEnd, StsdEnd
<1>5. CASE StblEnd
  BY <1>5, FailIInv, EnterStsdIInv DEF StblEnd, AtEnd
<1>6. CASE EntryEnd
  BY <1>6, FailIInv, EndTrakIInv DEF EntryEnd, AtEnd, FailOr
<1>7. CASE MoovEnd
  <2>1. CASE \E error : Fail(error)
    BY <2>1, FailIInv
  <2>2. CASE loop' = "done" /\ UNCHANGED <<file, cursor, end, found, tracks>>
    <3>1. TreeInv' /\ FreshInv' /\ CursorInv' /\ TracksInv'
      BY <2>2, Unfold DEF TreeInv, FreshInv, CursorInv, TracksInv, InMoov, InTrak, InMinf, InStbl
    <3>2. RangesApart'
      BY <2>2, Unfold, RangesKept
    <3> QED
      BY <2>2, <3>1, <3>2, Unfold DEF IInv
  <2> QED
    BY <1>7, <2>1, <2>2 DEF MoovEnd
<1> QED
  BY <1>1, <1>2, <1>3, <1>4, <1>5, <1>6, <1>7

\* Every step of the walk.
LEMMA NextIInv == IInv /\ [DemuxNext]_demuxVars => IInv'
<1> SUFFICES ASSUME IInv, [DemuxNext]_demuxVars PROVE IInv'
  OBVIOUS
<1>1. CASE BadHeader \/ ReadError
  BY <1>1, FailIInv DEF BadHeader, ReadError
<1>2. CASE SkipUuid
  <2>1. AtSomeBox /\ Pass
    BY <1>2 DEF SkipUuid, AtSomeBox
  <2>2. CASE loop \in InMoov \cup {"file"}
    BY <2>1, <2>2, PassIInv
  <2> QED
    BY <2>1, <2>2, Unfold DEF AtSomeBox
<1>3. CASE TopBox
  BY <1>3, BoxStep DEF TopBox
<1>4. CASE MoovBox
  <2>1. CASE Box.type = "trak"
    BY <1>4, <2>1, EnterTrakIInv DEF MoovBox
  <2>2. CASE Box.type # "trak"
    BY <1>4, <2>2, PassIInv DEF MoovBox, AtBox, AtSomeBox, InMoov
  <2> QED
    BY <2>1, <2>2
<1>5. CASE TrakBox
  BY <1>5, BoxStep DEF TrakBox, InMoov, InTrak
<1>6. CASE MdiaBox
  BY <1>6, BoxStep DEF MdiaBox, InMoov, InTrak
<1>7. CASE MinfBox
  <2>1. CASE Box.type = "stbl"
    BY <1>7, <2>1, EnterStblIInv DEF MinfBox
  <2>2. CASE Box.type # "stbl"
    BY <1>7, <2>2, PassIInv DEF MinfBox, AtBox, AtSomeBox, InMoov, InTrak, InMinf
  <2> QED
    BY <2>1, <2>2
<1>8. CASE StblBox
  BY <1>8, BoxStep DEF StblBox, InMoov, InTrak, InMinf
<1>9. CASE StsdBox
  BY <1>9, FailIInv, EnterEntryIInv DEF StsdBox
<1>10. CASE EntryBox
  BY <1>10, BoxStep DEF EntryBox, InMoov, InTrak, InMinf, InStbl
<1>11. CASE UNCHANGED demuxVars
  <2>1. UNCHANGED <<file, loop, cursor, end, found, tracks>>
    BY <1>11 DEF demuxVars
  <2>2. TreeInv'
    BY <2>1, Unfold DEF TreeInv, ChildrenOf, KeptApart
  <2>3. FreshInv' /\ TracksInv'
    BY <2>1, Unfold DEF FreshInv, TracksInv, NothingOf
  <2>4. CursorInv'
    BY <2>1, Unfold DEF CursorInv, Passed
  <2>5. RangesApart'
    BY <2>1, Unfold, RangesKept
  <2> QED
    BY <2>1, <2>2, <2>3, <2>4, <2>5, Unfold DEF IInv
<1> QED
  BY <1>1, <1>2, <1>3, <1>4, <1>5, <1>6, <1>7, <1>8, <1>9, <1>10, <1>11, EndSteps
     DEF DemuxNext, Walk

\* The inductive invariant holds in every reachable state.
LEMMA InductiveInvariant == DemuxSpec => []IInv
  BY InitIInv, NextIInv, PTL DEF DemuxSpec

\* For every source file: the ranges the demuxer keeps of the tracks lie inside of
\* moov, inside the file, and do not overlap, however the sizes of the boxes are
\* declared (next_header's checks, and each loop's own BoxIter).
THEOREM RangesAlwaysApart == DemuxSpec => []RangesApart
<1>1. IInv => RangesApart
  BY DEF IInv
<1> QED
  BY <1>1, InductiveInvariant, PTL

-----------------------------------------------------------------------------
\* Every nonempty set of natural numbers has a least element.
LEMMA LeastElement ==
  ASSUME NEW S \in SUBSET Nat, S # {}
  PROVE  \E x \in S : \A y \in S : x <= y
<1> DEFINE R == {ss \in Nat \X Nat : ss[1] < ss[2]}
<1>1. IsWellFoundedOn(R, Nat)
  BY NatLessThanWellFounded DEF OpToRel
<1>2. ASSUME NEW x \in S, NEW y \in S
      PROVE  <<y, x>> \in R <=> y < x
  OBVIOUS
<1> HIDE DEF R
<1>3. PICK x \in S : \A y \in S : ~(<<y, x>> \in R)
  BY <1>1, WFMin
<1>4. \A y \in S : ~(y < x)
  BY <1>2, <1>3
<1> QED
  BY <1>4

(***************************************************************************)
(* Children, the boxes of a range, one by one.                             *)
(***************************************************************************)
\* The boxes from offset o on, if g has those from later offsets on.
BoxesFrom(g, f, o, e) ==
  LET b == HeaderAt(f, o, e)
      rest == g[b.start + b.size]
  IN  IF o = e THEN [boxes |-> <<>>, whole |-> TRUE]
      ELSE IF ~(b.header <= b.size /\ b.size <= e - o) THEN [boxes |-> <<>>, whole |-> FALSE]
      ELSE IF b.type = "uuid" THEN rest
      ELSE [rest EXCEPT !.boxes = <<b>> \o @]

Splits(g, f, s, e) == g = [o \in s .. e |-> BoxesFrom(g, f, o, e)]

\* Children is the value of a recursive function at the start of the range.
LEMMA ChildrenIs ==
  ASSUME NEW f, NEW s, NEW e
  PROVE  Children(f, s, e) = (CHOOSE g : Splits(g, f, s, e))[s]
  BY DEF Children, Splits, BoxesFrom

\* A header that fits is one of a box, which ends behind where it starts.
LEMMA HeaderFits ==
  ASSUME NEW f \in Sources, NEW o \in Nat, NEW e \in Nat, o <= e
  PROVE  LET b == HeaderAt(f, o, e)
         IN  /\ b.header \in {8, 16} /\ b.start = o /\ b.size \in Nat
             /\ b.header <= b.size /\ b.size <= e - o =>
                  b \in Headers(f) /\ b.start + b.size \in o + 1 .. e
<1>1. \A x : NumAt(f, x) \in Nat
  BY DemuxAssumption DEF NumAt
<1> DEFINE b == HeaderAt(f, o, e)
<1>2. b.header \in {8, 16} /\ b.start = o /\ b.size \in Nat
  BY <1>1 DEF HeaderAt
<1>3. b = [type |-> b.type, start |-> b.start, header |-> b.header, size |-> b.size]
  BY DEF HeaderAt
<1> HIDE DEF b
<1>4. b \in Headers(f)
  <2>1. b.type \in {f.code[x] : x \in DOMAIN f.code} \cup {"none"}
    BY DEF b, HeaderAt, CodeAt
  <2> QED
    BY <1>2, <1>3, <2>1 DEF Headers
<1>5. b.header <= b.size /\ b.size <= e - o => b.start + b.size \in o + 1 .. e
  BY <1>2
<1> QED
  BY <1>2, <1>4, <1>5 DEF b

\* What comes first depends only on what comes later.
LEMMA LaterDecides ==
  ASSUME NEW f \in Sources, NEW o \in Nat, NEW e \in Nat, o <= e, NEW g, NEW u,
         \A x \in o + 1 .. e : g[x] = u[x]
  PROVE  BoxesFrom(g, f, o, e) = BoxesFrom(u, f, o, e)
<1> DEFINE b == HeaderAt(f, o, e)
<1>1. b.header <= b.size /\ b.size <= e - o => b.start + b.size \in o + 1 .. e
  BY HeaderFits
<1>2. b.header <= b.size /\ b.size <= e - o => g[b.start + b.size] = u[b.start + b.size]
  BY <1>1
<1> HIDE DEF b
<1>3. \A h : BoxesFrom(h, f, o, e) =
         IF o = e THEN [boxes |-> <<>>, whole |-> TRUE]
         ELSE IF ~(b.header <= b.size /\ b.size <= e - o) THEN [boxes |-> <<>>, whole |-> FALSE]
         ELSE IF b.type = "uuid" THEN h[b.start + b.size]
         ELSE [h[b.start + b.size] EXCEPT !.boxes = <<b>> \o @]
  BY DEF BoxesFrom, b
<1> QED
  BY <1>2, <1>3

\* That function does not depend on where the range starts,
LEMMA SplitsAgree ==
  ASSUME NEW f \in Sources, NEW e \in Nat, NEW s \in Nat, NEW t \in Nat, s <= t,
         NEW g, Splits(g, f, s, e), NEW u, Splits(u, f, t, e)
  PROVE  \A x \in t .. e : g[x] = u[x]
<1> DEFINE S == {d \in Nat : d <= e /\ e - d >= t /\ g[e - d] # u[e - d]}
<1>1. S \in SUBSET Nat
  OBVIOUS
<1>2. S = {}
  <2> SUFFICES ASSUME S # {} PROVE FALSE
    OBVIOUS
  <2>1. PICK d \in S : \A y \in S : d <= y
    <3> HIDE DEF S
    <3> QED
      BY <1>1, LeastElement
  <2>2. PICK o \in Nat : o = e - d /\ o >= t /\ o <= e /\ g[o] # u[o]
    OBVIOUS
  <2>3. \A x \in o + 1 .. e : g[x] = u[x]
    <3> SUFFICES ASSUME NEW x \in o + 1 .. e, g[x] # u[x] PROVE FALSE
      OBVIOUS
    <3>1. x \in Nat /\ x <= e /\ x > o
      OBVIOUS
    <3>2. e - x \in Nat /\ e - x <= e /\ e - (e - x) = x /\ x >= t /\ e - x < d
      BY <2>2, <3>1
    <3>3. e - x \in S
      BY <3>2
    <3> HIDE DEF S
    <3> QED
      BY <1>1, <2>1, <3>2, <3>3
  <2>4. BoxesFrom(g, f, o, e) = BoxesFrom(u, f, o, e)
    BY <2>2, <2>3, LaterDecides
  <2>5. o \in s .. e /\ o \in t .. e
    BY <2>2
  <2>6. g[o] = BoxesFrom(g, f, o, e)
    BY <2>5 DEF Splits
  <2>7. u[o] = BoxesFrom(u, f, o, e)
    BY <2>5 DEF Splits
  <2> QED
    BY <2>2, <2>4, <2>6, <2>7
<1>3. ASSUME NEW x \in t .. e PROVE g[x] = u[x]
  <2>1. e - x \in Nat /\ e - x <= e /\ e - (e - x) = x /\ x >= t
    OBVIOUS
  <2>2. e - x \notin S
    BY <1>2
  <2> QED
    BY <2>1, <2>2
<1> QED
  BY <1>3

\* and exists.
LEMMA SplitsExist ==
  ASSUME NEW f \in Sources, NEW e \in Nat, NEW s \in Nat, s <= e
  PROVE  \E g : Splits(g, f, s, e)
<1> DEFINE S == {d \in Nat : d <= e /\ ~\E g : Splits(g, f, e - d, e)}
<1>1. S \in SUBSET Nat
  OBVIOUS
<1>2. S = {}
  <2> SUFFICES ASSUME S # {} PROVE FALSE
    OBVIOUS
  <2>1. PICK d \in S : \A y \in S : d <= y
    <3> HIDE DEF S
    <3> QED
      BY <1>1, LeastElement
  <2>2. PICK o \in Nat : o = e - d /\ o <= e /\ ~\E g : Splits(g, f, o, e)
    OBVIOUS
  <2>3. PICK v : \A x \in o + 1 .. e : v[x] = BoxesFrom(v, f, x, e)
    <3>1. CASE d = 0
      <4>1. \A x : x \notin o + 1 .. e
        BY <2>2, <3>1
      <4> QED
        BY <4>1
    <3>2. CASE d # 0
      <4>1. d - 1 \in Nat /\ d - 1 < d /\ d - 1 <= e /\ e - (d - 1) = o + 1
        BY <2>2, <3>2
      <4>2. d - 1 \notin S
        <5> HIDE DEF S
        <5> QED
          BY <1>1, <2>1, <4>1
      <4>3. PICK g : Splits(g, f, o + 1, e)
        BY <4>1, <4>2
      <4>4. \A x \in o + 1 .. e : g[x] = BoxesFrom(g, f, x, e)
        BY <4>3 DEF Splits
      <4> QED
        BY <4>4
    <3> QED
      BY <3>1, <3>2
  <2> DEFINE g == [x \in o .. e |-> BoxesFrom(v, f, x, e)]
  <2>4. \A x \in o + 1 .. e : x \in o .. e /\ g[x] = v[x]
    BY <2>3
  <2>5. ASSUME NEW x \in o .. e PROVE BoxesFrom(v, f, x, e) = BoxesFrom(g, f, x, e)
    <3>1. x \in Nat /\ x <= e
      BY <2>2
    <3>2. \A y \in x + 1 .. e : y \in o + 1 .. e
      BY <2>2, <3>1
    <3>3. \A y \in x + 1 .. e : v[y] = g[y]
      <4> HIDE DEF g
      <4> QED
        BY <2>4, <3>2
    <3> HIDE DEF g
    <3> QED
      BY <3>1, <3>3, LaterDecides
  <2>6. g = [x \in o .. e |-> BoxesFrom(g, f, x, e)]
    BY <2>5
  <2>7. Splits(g, f, o, e)
    <3> HIDE DEF g
    <3> QED
      BY <2>6 DEF Splits
  <2> QED
    BY <2>2, <2>7
<1>3. e - s \in Nat /\ e - s <= e /\ e - (e - s) = s
  OBVIOUS
<1>4. e - s \notin S
  BY <1>2
<1> QED
  BY <1>3, <1>4

\* The boxes of a range are the first one, if it fits, and those behind it.
LEMMA ChildrenStep ==
  ASSUME NEW f \in Sources, NEW s \in Nat, NEW e \in Nat, s <= e
  PROVE  LET b == HeaderAt(f, s, e)
             rest == Children(f, b.start + b.size, e)
         IN  Children(f, s, e) =
               IF s = e THEN [boxes |-> <<>>, whole |-> TRUE]
               ELSE IF ~(b.header <= b.size /\ b.size <= e - s) THEN [boxes |-> <<>>, whole |-> FALSE]
               ELSE IF b.type = "uuid" THEN rest
               ELSE [rest EXCEPT !.boxes = <<b>> \o @]
<1> DEFINE G(x) == CHOOSE g : Splits(g, f, x, e)
           u == [x \in s .. e |-> Children(f, x, e)]
           b == HeaderAt(f, s, e)
<1>1. \A x \in s .. e : Splits(G(x), f, x, e)
  BY SplitsExist
<1>2. \A x \in s .. e : Children(f, x, e) = G(x)[x]
  BY ChildrenIs
<1> HIDE DEF G
<1>3. s \in s .. e
  OBVIOUS
<1>4. G(s)[s] = BoxesFrom(G(s), f, s, e)
  BY <1>1, <1>3 DEF Splits
<1>5. \A x \in s + 1 .. e : G(s)[x] = u[x]
  <2> SUFFICES ASSUME NEW x \in s + 1 .. e PROVE G(s)[x] = u[x]
    OBVIOUS
  <2>1. x \in s .. e /\ x \in Nat /\ s <= x /\ x \in x .. e
    OBVIOUS
  <2>2. Splits(G(s), f, s, e) /\ Splits(G(x), f, x, e)
    BY <1>1, <1>3, <2>1
  <2>3. G(s)[x] = G(x)[x]
    BY <2>1, <2>2, SplitsAgree
  <2> QED
    BY <1>2, <2>1, <2>3
<1>6. BoxesFrom(G(s), f, s, e) = BoxesFrom(u, f, s, e)
  <2> HIDE DEF u
  <2> QED
    BY <1>5, LaterDecides
<1>7. Children(f, s, e) = BoxesFrom(u, f, s, e)
  BY <1>2, <1>3, <1>4, <1>6
<1>8. b.header <= b.size /\ b.size <= e - s => b.start + b.size \in s .. e
  <2>1. b.header <= b.size /\ b.size <= e - s => b.start + b.size \in s + 1 .. e
    BY HeaderFits
  <2>2. \A x \in s + 1 .. e : x \in s .. e
    OBVIOUS
  <2> HIDE DEF b
  <2> QED
    BY <2>1, <2>2
<1>9. b.header <= b.size /\ b.size <= e - s => u[b.start + b.size] = Children(f, b.start + b.size, e)
  <2> HIDE DEF b
  <2> QED
    BY <1>8
<1>10. BoxesFrom(u, f, s, e) =
         IF s = e THEN [boxes |-> <<>>, whole |-> TRUE]
         ELSE IF ~(b.header <= b.size /\ b.size <= e - s) THEN [boxes |-> <<>>, whole |-> FALSE]
         ELSE IF b.type = "uuid" THEN u[b.start + b.size]
         ELSE [u[b.start + b.size] EXCEPT !.boxes = <<b>> \o @]
  BY DEF BoxesFrom
<1> HIDE DEF u, b
<1>11. Children(f, s, e) =
         IF s = e THEN [boxes |-> <<>>, whole |-> TRUE]
         ELSE IF ~(b.header <= b.size /\ b.size <= e - s) THEN [boxes |-> <<>>, whole |-> FALSE]
         ELSE IF b.type = "uuid" THEN Children(f, b.start + b.size, e)
         ELSE [Children(f, b.start + b.size, e) EXCEPT !.boxes = <<b>> \o @]
  BY <1>7, <1>9, <1>10
<1> QED
  BY <1>11 DEF b

\* They are a sequence of headers, and a flag.
LEMMA ChildrenType ==
  ASSUME NEW f \in Sources, NEW s \in Nat, NEW e \in Nat, s <= e
  PROVE  Children(f, s, e) \in [boxes : Seq(Headers(f)), whole : BOOLEAN]
<1> DEFINE T == [boxes : Seq(Headers(f)), whole : BOOLEAN]
           S == {d \in Nat : d <= e /\ Children(f, e - d, e) \notin T}
<1>1. S \in SUBSET Nat
  OBVIOUS
<1>2. S = {}
  <2> SUFFICES ASSUME S # {} PROVE FALSE
    OBVIOUS
  <2>1. PICK d \in S : \A y \in S : d <= y
    <3> HIDE DEF S
    <3> QED
      BY <1>1, LeastElement
  <2>2. PICK o \in Nat : o = e - d /\ o <= e /\ Children(f, o, e) \notin T
    OBVIOUS
  <2>3. ASSUME NEW x \in o + 1 .. e PROVE Children(f, x, e) \in T
    <3>1. x \in Nat /\ x <= e /\ x > o
      OBVIOUS
    <3>2. e - x \in Nat /\ e - x <= e /\ e - (e - x) = x /\ e - x < d
      BY <2>2, <3>1
    <3>3. e - x \notin S
      <4> HIDE DEF S
      <4> QED
        BY <1>1, <2>1, <3>2
    <3> HIDE DEF T
    <3> QED
      BY <3>2, <3>3
  <2> DEFINE b == HeaderAt(f, o, e)
             rest == Children(f, b.start + b.size, e)
  <2>4. /\ b.header <= b.size /\ b.size <= e - o => b \in Headers(f)
        /\ b.header <= b.size /\ b.size <= e - o => b.start + b.size \in o + 1 .. e
    BY <2>2, HeaderFits
  <2>5. Children(f, o, e) =
          IF o = e THEN [boxes |-> <<>>, whole |-> TRUE]
          ELSE IF ~(b.header <= b.size /\ b.size <= e - o) THEN [boxes |-> <<>>, whole |-> FALSE]
          ELSE IF b.type = "uuid" THEN rest
          ELSE [rest EXCEPT !.boxes = <<b>> \o @]
    <3>1. o <= e
      BY <2>2
    <3> HIDE DEF S, T
    <3> QED
      BY <3>1, ChildrenStep
  <2> HIDE DEF b
  <2>6. b.header <= b.size /\ b.size <= e - o => rest \in T
    BY <2>3, <2>4
  <2> HIDE DEF rest
  <2>7. ASSUME rest \in T, b \in Headers(f) PROVE [rest EXCEPT !.boxes = <<b>> \o @] \in T
    <3>1. <<b>> \o rest.boxes \in Seq(Headers(f))
      BY <2>7
    <3> QED
      BY <2>7, <3>1
  <2>8. [boxes |-> <<>>, whole |-> TRUE] \in T /\ [boxes |-> <<>>, whole |-> FALSE] \in T
    OBVIOUS
  <2> HIDE DEF T
  <2> QED
    BY <2>2, <2>4, <2>5, <2>6, <2>7, <2>8
<1>3. e - s \in Nat /\ e - s <= e /\ e - (e - s) = s
  OBVIOUS
<1>4. e - s \notin S
  BY <1>2
<1>5. Children(f, s, e) \in T
  <2> HIDE DEF T
  <2> QED
    BY <1>3, <1>4
<1> QED
  BY <1>5

-----------------------------------------------------------------------------
(***************************************************************************)
(* What the walk has still to see for the file to be a plain pair: what    *)
(* TakenPair asks of the boxes of a range, asked of the headers fd found   *)
(* and of the boxes k that the loop has not read yet.                      *)
(***************************************************************************)
Handlers == {"vide", "soun"}

\* What the loop has still to read, and what is behind the trak.
Ahead == Children(file, cursor, end)
NextTraks == Children(file, End(found["trak"]), End(found["moov"]))

\* There is a box of type t behind or ahead; the last one.
Present(t, k, fd) == fd[t] # None \/ At(k, t) # {}
Latest(t, k, fd) == IF At(k, t) = {} THEN fd[t] ELSE LastOf(k, t)

OnlyMoov(k, fd) ==
  \/ fd["moov"] # None /\ At(k, "moov") = {}
  \/ fd["moov"] = None /\ \E i \in DOMAIN k.boxes : At(k, "moov") = {i}

\* The traks among the boxes k: none, one of handler h, one of each handler.
NoTrak(k) == At(k, "trak") = {}
OneTrak(k, h) ==
  \E v \in DOMAIN k.boxes : At(k, "trak") = {v} /\ TakenTrak(Inside(k.boxes[v]), h)
TwoTraks(k) ==
  \E v, a \in At(k, "trak") :
    /\ v # a /\ At(k, "trak") = {v, a}
    /\ TakenTrak(Inside(k.boxes[v]), "vide")
    /\ TakenTrak(Inside(k.boxes[a]), "soun")

\* Behind the tracks ts, the traks of k make a pair.
Completes(ts, k) ==
  /\ k.whole
  /\ \/ Len(ts) = 0 /\ TwoTraks(k)
     \/ Len(ts) = 1 /\ \E g \in Handlers : {ts[1].handler, g} = Handlers /\ OneTrak(k, g)
     \/ Len(ts) = 2 /\ {ts[1].handler, ts[2].handler} = Handlers /\ NoTrak(k)

\* Behind the tracks ts and one more of handler h, they do.
CompletesWith(ts, h, k) ==
  /\ k.whole
  /\ \/ Len(ts) = 0 /\ \E g \in Handlers : {h, g} = Handlers /\ OneTrak(k, g)
     \/ Len(ts) = 1 /\ {ts[1].handler, h} = Handlers /\ NoTrak(k)

FileAhead(k, fd) ==
  /\ k.whole /\ Present("ftyp", k, fd) /\ OnlyMoov(k, fd)
  /\ At(k, "moof") = {} /\ Unmarked(k)
  /\ All(k, "ftyp", LAMBDA b : FtypError(b) = None)
  /\ LET m == Inside(Latest("moov", k, fd)) IN m.whole /\ TwoTraks(m)

TrakAhead(k, fd, h) ==
  /\ k.whole /\ Present("tkhd", k, fd) /\ Present("mdia", k, fd)
  /\ All(k, "tkhd", TkhdOK)
  /\ TakenMdia(Inside(Latest("mdia", k, fd)), h)

MdiaAhead(k, fd, h) ==
  /\ k.whole /\ Present("mdhd", k, fd) /\ Present("hdlr", k, fd) /\ Present("minf", k, fd)
  /\ All(k, "mdhd", MdhdOK) /\ All(k, "hdlr", HdlrOK)
  /\ Handler(Latest("hdlr", k, fd)) = h
  /\ LET m == Inside(Latest("minf", k, fd))
     IN  Has(m, {"stbl"}) /\ TakenStbl(Inside(FirstOf(m, "stbl")), h)

MinfAhead(k, fd, h) ==
  /\ Handler(fd["hdlr"]) = h
  /\ Has(k, {"stbl"}) /\ TakenStbl(Inside(FirstOf(k, "stbl")), h)

StblAhead(k, fd, h) ==
  /\ Handler(fd["hdlr"]) = h
  /\ k.whole /\ \A t \in {"stsd", "stts", "stsc", "stsz"} : Present(t, k, fd)
  /\ (Present("stco", k, fd) <=> ~Present("co64", k, fd))
  /\ At(k, "senc") = {}
  /\ \A t \in {"sbgp", "sgpd"} : All(k, t, LAMBDA b : GroupError(b) = None)
  /\ TakenEntry(Latest("stsd", k, fd), h)

\* The tables are there.
TablesFound(fd) ==
  /\ \A t \in {"stts", "stsc", "stsz"} : fd[t] # None
  /\ (fd["stco"] # None <=> fd["co64"] = None)

\* What there is to see of the children of the entry b.
EntryKids(b, h) ==
  LET c == Children(file, Payload(b) + Prefix(h), End(b))
  IN  PayloadLen(b) > Prefix(h) => c.whole /\ Unmarked(c)

StsdAhead(k, fd, h) ==
  /\ Handler(fd["hdlr"]) = h /\ TablesFound(fd)
  /\ k.boxes # <<>> /\ End(k.boxes[1]) = End(fd["stsd"])
  /\ EntryError(k.boxes[1], h) = None
  /\ EntryKids(k.boxes[1], h)

EntryAhead(k, fd, h) ==
  /\ Handler(fd["hdlr"]) = h /\ TablesFound(fd)
  /\ EntryError(fd["entry"], h) = None
  /\ k.whole /\ Unmarked(k)

\* What makes the trak that loop l is in a plain one of handler h.
ThisTrak(l, k, fd, h) ==
  /\ l = "trak" => TrakAhead(k, fd, h)
  /\ l = "mdia" => MdiaAhead(k, fd, h)
  /\ l = "minf" => MinfAhead(k, fd, h)
  /\ l = "stbl" => StblAhead(k, fd, h)
  /\ l = "stsd" => StsdAhead(k, fd, h)
  /\ l = "entry" => EntryAhead(k, fd, h)

\* What is left decides whether the file is a plain pair.
Verdict(l, k, fd, ts, n) ==
  /\ l = "file" => (TakenPair <=> FileAhead(k, fd))
  /\ l = "moov" => (TakenPair <=> Completes(ts, k))
  /\ l \in InTrak =>
       (TakenPair <=> \E h \in Handlers : ThisTrak(l, k, fd, h) /\ CompletesWith(ts, h, n))

\* It does so at every step.
VerdictInv ==
  /\ Verdict(loop, Ahead, found, tracks, NextTraks)
  /\ loop # "done" => result = None /\ cursor <= end
  /\ AcceptsTaken

-----------------------------------------------------------------------------
(***************************************************************************)
(* The boxes k of a range that starts with box b and goes on with r.       *)
(***************************************************************************)
IsBoxes(k) == k.boxes \in Seq(Headers(file)) /\ k.whole \in BOOLEAN

Joins(k, b, r) ==
  /\ b \in Headers(file) /\ IsBoxes(r) /\ IsBoxes(k)
  /\ k.whole = r.whole /\ k.boxes = <<b>> \o r.boxes

BoxesOf(k, t) == {k.boxes[i] : i \in At(k, t)}

\* A box in front of others shifts their positions by one.
LEMMA JoinsIndex ==
  ASSUME NEW k, NEW b, NEW r, Joins(k, b, r)
  PROVE  /\ DOMAIN k.boxes \subseteq Nat /\ DOMAIN r.boxes \subseteq Nat
         /\ 1 \in DOMAIN k.boxes /\ k.boxes[1] = b
         /\ \A i \in DOMAIN r.boxes : i >= 1 /\ i + 1 \in DOMAIN k.boxes /\ k.boxes[i + 1] = r.boxes[i]
         /\ \A j \in DOMAIN k.boxes :
              j = 1 \/ (j - 1 \in DOMAIN r.boxes /\ k.boxes[j] = r.boxes[j - 1])
<1> DEFINE S == Headers(file)
           q == r.boxes
           p == k.boxes
<1>1. b \in S /\ q \in Seq(S) /\ p = <<b>> \o q
  BY DEF Joins, IsBoxes
<1> HIDE DEF S, p, q
<1>2. DOMAIN q = 1 .. Len(q) /\ Len(q) \in Nat /\ DOMAIN p = 1 .. Len(q) + 1
  BY <1>1
<1>3. p[1] = b /\ \A i \in 1 .. Len(q) : p[i + 1] = q[i]
  BY <1>1
<1>4. \A i \in DOMAIN q : i >= 1 /\ i + 1 \in DOMAIN p
  BY <1>2
<1>5. ASSUME NEW j \in DOMAIN p, j # 1 PROVE j - 1 \in DOMAIN q /\ p[j] = q[j - 1]
  <2>1. j - 1 \in 1 .. Len(q) /\ (j - 1) + 1 = j
    BY <1>2, <1>5
  <2> QED
    BY <1>2, <1>3, <2>1
<1>6. DOMAIN p \subseteq Nat /\ DOMAIN q \subseteq Nat /\ 1 \in DOMAIN p
  BY <1>2
<1> QED
  BY <1>2, <1>3, <1>4, <1>5, <1>6 DEF p, q

\* The indexes of a type.
LEMMA JoinsAt ==
  ASSUME NEW k, NEW b, NEW r, Joins(k, b, r), NEW t
  PROVE  /\ 1 \in At(k, t) <=> b.type = t
         /\ \A i \in At(r, t) : i \in Nat /\ i >= 1 /\ i + 1 \in At(k, t) /\ k.boxes[i + 1] = r.boxes[i]
         /\ \A j \in At(k, t) :
              j \in Nat /\ (j = 1 \/ (j - 1 \in At(r, t) /\ k.boxes[j] = r.boxes[j - 1]))
  BY JoinsIndex DEF At

\* No box of a type in the longer list: neither the first one nor any of the rest.
LEMMA JoinsEmpty ==
  ASSUME NEW k, NEW b, NEW r, Joins(k, b, r), NEW t
  PROVE  At(k, t) = {} <=> b.type # t /\ At(r, t) = {}
  BY JoinsAt

\* The boxes of a type are those of the rest and perhaps the first one.
LEMMA JoinsBoxes ==
  ASSUME NEW k, NEW b, NEW r, Joins(k, b, r), NEW t, NEW x
  PROVE  x \in BoxesOf(k, t) <=> x \in BoxesOf(r, t) \/ (b.type = t /\ x = b)
<1>1. ASSUME x \in BoxesOf(k, t) PROVE x \in BoxesOf(r, t) \/ (b.type = t /\ x = b)
  <2>1. PICK j \in At(k, t) : x = k.boxes[j]
    BY <1>1 DEF BoxesOf
  <2>2. CASE j = 1
    BY <2>1, <2>2, JoinsAt, JoinsIndex
  <2>3. CASE j # 1
    BY <2>1, <2>3, JoinsAt DEF BoxesOf
  <2> QED
    BY <2>2, <2>3
<1>2. ASSUME x \in BoxesOf(r, t) PROVE x \in BoxesOf(k, t)
  <2>1. PICK i \in At(r, t) : x = r.boxes[i]
    BY <1>2 DEF BoxesOf
  <2> QED
    BY <2>1, JoinsAt DEF BoxesOf
<1>3. ASSUME b.type = t PROVE b \in BoxesOf(k, t)
  BY <1>3, JoinsAt, JoinsIndex DEF BoxesOf
<1> QED
  BY <1>1, <1>2, <1>3

\* Some index is the last one.
LEMMA LastExists ==
  ASSUME NEW k, IsBoxes(k), NEW t, At(k, t) # {}
  PROVE  \E i \in At(k, t) : \A m \in At(k, t) : m <= i
<1> DEFINE n == Len(k.boxes)
           A == At(k, t)
           S == {d \in Nat : d <= n /\ n - d \in A}
<1>1. n \in Nat /\ A \subseteq 1 .. n
  BY DEF IsBoxes, At
<1> HIDE DEF n, A
<1>2. PICK a \in A : TRUE
  BY DEF A
<1>3. a \in Nat /\ a <= n /\ n - a \in Nat /\ n - (n - a) = a /\ n - a <= n
  BY <1>1
<1>4. S # {} /\ S \in SUBSET Nat
  BY <1>3
<1>5. PICK d \in S : \A y \in S : d <= y
  <2> HIDE DEF S
  <2> QED
    BY <1>4, LeastElement
<1>6. n - d \in A /\ d \in Nat /\ d <= n
  OBVIOUS
<1>7. ASSUME NEW m \in A PROVE m <= n - d
  <2>1. m \in Nat /\ m <= n /\ n - m \in Nat /\ n - (n - m) = m /\ n - m <= n
    BY <1>1
  <2>2. n - m \in S
    BY <2>1
  <2>3. d <= n - m
    <3> HIDE DEF S
    <3> QED
      BY <1>5, <2>2
  <2> QED
    BY <1>1, <1>6, <2>1, <2>3
<1> QED
  BY <1>6, <1>7 DEF A

\* LastOf and FirstOf are what they say.
LEMMA LastIs ==
  ASSUME NEW k, IsBoxes(k), NEW t, NEW i \in At(k, t), \A m \in At(k, t) : m <= i
  PROVE  LastOf(k, t) = k.boxes[i]
<1> DEFINE c == CHOOSE x \in At(k, t) : \A m \in At(k, t) : m <= x
<1>1. c \in At(k, t) /\ \A m \in At(k, t) : m <= c
  OBVIOUS
<1>2. At(k, t) \subseteq Nat
  BY DEF At, IsBoxes
<1> HIDE DEF c
<1>3. c = i
  BY <1>1, <1>2
<1> QED
  BY <1>3 DEF c, LastOf

\* FirstOf is the box at the least position of its type.
LEMMA FirstIs ==
  ASSUME NEW k, IsBoxes(k), NEW t, NEW i \in At(k, t), \A m \in At(k, t) : i <= m
  PROVE  FirstOf(k, t) = k.boxes[i]
<1> DEFINE c == CHOOSE x \in At(k, t) : \A m \in At(k, t) : x <= m
<1>1. c \in At(k, t) /\ \A m \in At(k, t) : c <= m
  OBVIOUS
<1>2. At(k, t) \subseteq Nat
  BY DEF At, IsBoxes
<1> HIDE DEF c
<1>3. c = i
  BY <1>1, <1>2
<1> QED
  BY <1>3 DEF c, FirstOf

\* The last box of a type is in the rest, unless there is none of them there.
LEMMA JoinsLast ==
  ASSUME NEW k, NEW b, NEW r, Joins(k, b, r), NEW t, At(k, t) # {}
  PROVE  LastOf(k, t) = IF At(r, t) = {} THEN b ELSE LastOf(r, t)
<1>0. IsBoxes(k) /\ IsBoxes(r)
  BY DEF Joins
<1>1. CASE At(r, t) = {}
  <2>1. \A j \in At(k, t) : j = 1
    BY <1>1, JoinsAt
  <2>2. 1 \in At(k, t) /\ \A m \in At(k, t) : m <= 1
    BY <2>1
  <2>3. LastOf(k, t) = k.boxes[1]
    BY <1>0, <2>2, LastIs
  <2> QED
    BY <1>1, <2>3, JoinsIndex
<1>2. CASE At(r, t) # {}
  <2>1. PICK i \in At(r, t) : \A m \in At(r, t) : m <= i
    BY <1>0, <1>2, LastExists
  <2>2. LastOf(r, t) = r.boxes[i]
    BY <1>0, <2>1, LastIs
  <2>3. i \in Nat /\ i >= 1 /\ i + 1 \in At(k, t) /\ k.boxes[i + 1] = r.boxes[i]
    BY JoinsAt
  <2>4. ASSUME NEW m \in At(k, t) PROVE m <= i + 1
    <3>1. m \in Nat /\ (m = 1 \/ m - 1 \in At(r, t))
      BY JoinsAt
    <3>2. m = 1 \/ m - 1 <= i
      BY <2>1, <3>1
    <3> QED
      BY <2>3, <3>1, <3>2
  <2>5. LastOf(k, t) = k.boxes[i + 1]
    BY <1>0, <2>3, <2>4, LastIs
  <2> QED
    BY <1>2, <2>2, <2>3, <2>5
<1> QED
  BY <1>1, <1>2

\* The first box of a type is the one in front, if it is of that type.
LEMMA JoinsFirst ==
  ASSUME NEW k, NEW b, NEW r, Joins(k, b, r), NEW t, At(k, t) # {}
  PROVE  FirstOf(k, t) = IF b.type = t THEN b ELSE FirstOf(r, t)
<1>0. IsBoxes(k) /\ IsBoxes(r)
  BY DEF Joins
<1>1. CASE b.type = t
  <2>2. 1 \in At(k, t) /\ \A m \in At(k, t) : 1 <= m
    BY <1>1, JoinsAt
  <2>3. FirstOf(k, t) = k.boxes[1]
    BY <1>0, <2>2, FirstIs
  <2> QED
    BY <1>1, <2>3, JoinsIndex
<1>2. CASE b.type # t
  <2>0. At(r, t) # {} /\ At(r, t) \in SUBSET Nat /\ 1 \notin At(k, t)
    BY <1>2, JoinsAt
  <2>1. PICK i \in At(r, t) : \A m \in At(r, t) : i <= m
    BY <2>0, LeastElement
  <2>2. FirstOf(r, t) = r.boxes[i]
    BY <1>0, <2>1, FirstIs
  <2>3. i \in Nat /\ i >= 1 /\ i + 1 \in At(k, t) /\ k.boxes[i + 1] = r.boxes[i]
    BY JoinsAt
  <2>4. ASSUME NEW m \in At(k, t) PROVE i + 1 <= m
    <3>1. m \in Nat /\ m - 1 \in At(r, t)
      BY <2>0, JoinsAt
    <3>2. i <= m - 1
      BY <2>1, <3>1
    <3> QED
      BY <2>3, <3>1, <3>2
  <2>5. FirstOf(k, t) = k.boxes[i + 1]
    BY <1>0, <2>3, <2>4, FirstIs
  <2> QED
    BY <1>2, <2>2, <2>3, <2>5
<1> QED
  BY <1>1, <1>2

\* A single box of a type.
Single(k, t, v) == v \in DOMAIN k.boxes /\ At(k, t) = {v}

\* When there is a single box of a type, and where.
LEMMA JoinsSingle ==
  ASSUME NEW k, NEW b, NEW r, Joins(k, b, r), NEW t
  PROVE  /\ b.type # t => \A v : Single(r, t, v) => Single(k, t, v + 1) /\ k.boxes[v + 1] = r.boxes[v]
         /\ b.type # t => \A v : Single(k, t, v) => Single(r, t, v - 1) /\ k.boxes[v] = r.boxes[v - 1]
         /\ b.type = t /\ At(r, t) = {} => Single(k, t, 1)
         /\ \A v : b.type = t /\ Single(k, t, v) => At(r, t) = {} /\ v = 1
<1> USE DEF Single
<1>0. \A x, y : At(x, y) \subseteq DOMAIN x.boxes
  BY DEF At
<1>1. ASSUME b.type # t, NEW v, Single(r, t, v)
      PROVE  Single(k, t, v + 1) /\ k.boxes[v + 1] = r.boxes[v]
  <2>1. v + 1 \in At(k, t) /\ k.boxes[v + 1] = r.boxes[v] /\ v \in Nat
    BY <1>1, JoinsAt
  <2>2. ASSUME NEW j \in At(k, t) PROVE j = v + 1
    <3>1. j \in Nat /\ j - 1 \in At(r, t)
      BY <1>1, JoinsAt
    <3>2. j - 1 = v
      BY <1>1, <3>1
    <3> QED
      BY <3>1, <3>2
  <2> QED
    BY <1>0, <2>1, <2>2
<1>2. ASSUME b.type # t, NEW v, Single(k, t, v)
      PROVE  Single(r, t, v - 1) /\ k.boxes[v] = r.boxes[v - 1]
  <2>1. v - 1 \in At(r, t) /\ k.boxes[v] = r.boxes[v - 1] /\ v \in Nat
    BY <1>2, JoinsAt
  <2>2. ASSUME NEW i \in At(r, t) PROVE i = v - 1
    <3>1. i \in Nat /\ i + 1 \in At(k, t)
      BY JoinsAt
    <3>2. i + 1 = v
      BY <1>2, <3>1
    <3> QED
      BY <3>1, <3>2
  <2> QED
    BY <1>0, <2>1, <2>2
<1>3. ASSUME b.type = t, At(r, t) = {} PROVE Single(k, t, 1)
  BY <1>0, <1>3, JoinsAt
<1>4. ASSUME NEW v, b.type = t, Single(k, t, v) PROVE At(r, t) = {} /\ v = 1
  <2>1. 1 \in At(k, t)
    BY <1>4, JoinsAt
  <2>2. v = 1
    BY <1>4, <2>1
  <2>3. ASSUME NEW i \in At(r, t) PROVE FALSE
    <3>1. i \in Nat /\ i >= 1 /\ i + 1 \in At(k, t)
      BY JoinsAt
    <3>2. i + 1 = 1
      BY <1>4, <2>2, <3>1
    <3> QED
      BY <3>1, <3>2
  <2> QED
    BY <2>2, <2>3
<1> QED
  BY <1>1, <1>2, <1>3, <1>4

-----------------------------------------------------------------------------
(***************************************************************************)
(* What a loop has to see does not change when it keeps the box it read    *)
(* and goes on with the rest, if the box is as it must be.                 *)
(***************************************************************************)
\* fd and fd2 differ in the box b that was kept, if its type is t.
Keeps(fd, fd2, b, t) == fd2[t] = IF b.type = t THEN b ELSE fd[t]

\* A header is not None.
LEMMA NotNone == ASSUME file \in Sources, NEW b \in Headers(file) PROVE b # None
  BY NoneAssumption

\* A box that is kept in found moves there from what is ahead: the latest one stays the same.
LEMMA JoinsKept ==
  ASSUME file \in Sources, NEW k, NEW b, NEW r, Joins(k, b, r), NEW t, NEW fd, NEW fd2, Keeps(fd, fd2, b, t)
  PROVE  /\ Present(t, k, fd) <=> Present(t, r, fd2)
         /\ Latest(t, k, fd) = Latest(t, r, fd2)
<1>1. b # None
  BY NotNone DEF Joins
<1>2. At(k, t) = {} <=> b.type # t /\ At(r, t) = {}
  BY JoinsEmpty
<1>3. Present(t, k, fd) <=> Present(t, r, fd2)
  BY <1>1, <1>2 DEF Present, Keeps
<1>4. CASE At(k, t) = {}
  BY <1>2, <1>3, <1>4 DEF Latest, Keeps
<1>5. CASE At(k, t) # {}
  <2>1. LastOf(k, t) = IF At(r, t) = {} THEN b ELSE LastOf(r, t)
    BY <1>5, JoinsLast
  <2> QED
    BY <1>2, <1>3, <1>5, <2>1 DEF Latest, Keeps
<1> QED
  BY <1>4, <1>5

\* A list without a mark of encryption starts with a box that is none.
LEMMA JoinsUnmarked ==
  ASSUME NEW k, NEW b, NEW r, Joins(k, b, r)
  PROVE  Unmarked(k) <=> b.type \notin Markers /\ Unmarked(r)
  BY JoinsEmpty DEF Unmarked

\* The list with one more box ends as the one without it does.
LEMMA JoinsWhole ==
  ASSUME NEW k, NEW b, NEW r, Joins(k, b, r) PROVE k.whole = r.whole
  BY DEF Joins

\* What is asked of every box of a type.
LEMMA JoinsAll ==
  ASSUME NEW k, NEW b, NEW r, Joins(k, b, r)
  PROVE  /\ All(k, "tkhd", TkhdOK) <=> (b.type = "tkhd" => TkhdOK(b)) /\ All(r, "tkhd", TkhdOK)
         /\ All(k, "mdhd", MdhdOK) <=> (b.type = "mdhd" => MdhdOK(b)) /\ All(r, "mdhd", MdhdOK)
         /\ All(k, "hdlr", HdlrOK) <=> (b.type = "hdlr" => HdlrOK(b)) /\ All(r, "hdlr", HdlrOK)
         /\ All(k, "ftyp", LAMBDA x : FtypError(x) = None) <=>
              /\ b.type = "ftyp" => FtypError(b) = None
              /\ All(r, "ftyp", LAMBDA x : FtypError(x) = None)
         /\ \A t : All(k, t, LAMBDA x : GroupError(x) = None) <=>
              /\ b.type = t => GroupError(b) = None
              /\ All(r, t, LAMBDA x : GroupError(x) = None)
<1>1. \A x, t : x \in BoxesOf(k, t) <=> x \in BoxesOf(r, t) \/ (b.type = t /\ x = b)
  BY JoinsBoxes
<1>2. ASSUME NEW q, NEW t
      PROVE  \A i \in At(q, t) : q.boxes[i] \in BoxesOf(q, t)
  BY DEF BoxesOf
<1>3. ASSUME NEW q, NEW t, NEW x \in BoxesOf(q, t)
      PROVE  \E i \in At(q, t) : x = q.boxes[i]
  BY DEF BoxesOf
<1>4. \A q : All(q, "tkhd", TkhdOK) <=> \A x \in BoxesOf(q, "tkhd") : TkhdOK(x)
  BY <1>2, <1>3 DEF All
<1>5. \A q : All(q, "mdhd", MdhdOK) <=> \A x \in BoxesOf(q, "mdhd") : MdhdOK(x)
  BY <1>2, <1>3 DEF All
<1>6. \A q : All(q, "hdlr", HdlrOK) <=> \A x \in BoxesOf(q, "hdlr") : HdlrOK(x)
  BY <1>2, <1>3 DEF All
<1>7. \A q : All(q, "ftyp", LAMBDA x : FtypError(x) = None)
               <=> \A x \in BoxesOf(q, "ftyp") : FtypError(x) = None
  BY <1>2, <1>3 DEF All
<1>8. \A q, t : All(q, t, LAMBDA x : GroupError(x) = None)
                  <=> \A x \in BoxesOf(q, t) : GroupError(x) = None
  BY <1>2, <1>3 DEF All
<1>9. All(k, "tkhd", TkhdOK) <=> (b.type = "tkhd" => TkhdOK(b)) /\ All(r, "tkhd", TkhdOK)
  BY <1>1, <1>4
<1>10. All(k, "mdhd", MdhdOK) <=> (b.type = "mdhd" => MdhdOK(b)) /\ All(r, "mdhd", MdhdOK)
  BY <1>1, <1>5
<1>11. All(k, "hdlr", HdlrOK) <=> (b.type = "hdlr" => HdlrOK(b)) /\ All(r, "hdlr", HdlrOK)
  BY <1>1, <1>6
<1>12. All(k, "ftyp", LAMBDA x : FtypError(x) = None) <=>
              /\ b.type = "ftyp" => FtypError(b) = None
              /\ All(r, "ftyp", LAMBDA x : FtypError(x) = None)
  BY <1>1, <1>7
<1>13. ASSUME NEW t
       PROVE  All(k, t, LAMBDA x : GroupError(x) = None) <=>
              /\ b.type = t => GroupError(b) = None
              /\ All(r, t, LAMBDA x : GroupError(x) = None)
  BY <1>1, <1>8
<1> QED
  BY <1>9, <1>10, <1>11, <1>12, <1>13

\* The loop over the file.
LEMMA FileJoins ==
  ASSUME file \in Sources, NEW k, NEW b, NEW r, Joins(k, b, r), NEW fd, NEW fd2,
         \A t \in {"ftyp", "moov"} : Keeps(fd, fd2, b, t)
  PROVE  FileAhead(k, fd) <=>
           /\ b.type = "ftyp" => FtypError(b) = None
           /\ ~(b.type = "moov" /\ fd["moov"] # None)
           /\ b.type # "moof" /\ b.type \notin Markers
           /\ FileAhead(r, fd2)
<1>1. /\ Present("ftyp", k, fd) <=> Present("ftyp", r, fd2)
      /\ Latest("moov", k, fd) = Latest("moov", r, fd2)
  BY JoinsKept
<1>2. /\ At(k, "moof") = {} <=> b.type # "moof" /\ At(r, "moof") = {}
      /\ At(k, "moov") = {} <=> b.type # "moov" /\ At(r, "moov") = {}
      /\ Unmarked(k) <=> b.type \notin Markers /\ Unmarked(r)
      /\ k.whole = r.whole
  BY JoinsEmpty, JoinsUnmarked, JoinsWhole
<1>3. b # None
  BY NotNone DEF Joins
<1>4. \A q : (\E i \in DOMAIN q.boxes : At(q, "moov") = {i}) <=> \E v : Single(q, "moov", v)
  BY DEF Single
<1>5. OnlyMoov(k, fd) <=> ~(b.type = "moov" /\ fd["moov"] # None) /\ OnlyMoov(r, fd2)
  <2>1. CASE b.type = "moov"
    <3>1. fd2["moov"] # None
      BY <1>3, <2>1 DEF Keeps
    <3>2. (\E v : Single(k, "moov", v)) <=> At(r, "moov") = {}
      BY <2>1, JoinsSingle
    <3> QED
      BY <1>2, <1>4, <2>1, <3>1, <3>2 DEF OnlyMoov
  <2>2. CASE b.type # "moov"
    <3>1. fd2["moov"] = fd["moov"]
      BY <2>2 DEF Keeps
    <3>2. (\E v : Single(k, "moov", v)) <=> \E v : Single(r, "moov", v)
      BY <2>2, JoinsSingle
    <3> QED
      BY <1>2, <1>4, <2>2, <3>1, <3>2 DEF OnlyMoov
  <2> QED
    BY <2>1, <2>2
<1>6. All(k, "ftyp", LAMBDA x : FtypError(x) = None) <=>
              /\ b.type = "ftyp" => FtypError(b) = None
              /\ All(r, "ftyp", LAMBDA x : FtypError(x) = None)
  BY JoinsAll
<1> QED
  BY <1>1, <1>2, <1>5, <1>6 DEF FileAhead

\* The loop of parse_trak.
LEMMA TrakJoins ==
  ASSUME file \in Sources, NEW k, NEW b, NEW r, Joins(k, b, r), NEW fd, NEW fd2, NEW h,
         \A t \in {"tkhd", "mdia"} : Keeps(fd, fd2, b, t)
  PROVE  TrakAhead(k, fd, h) <=> (b.type = "tkhd" => TkhdOK(b)) /\ TrakAhead(r, fd2, h)
<1>1. \A t \in {"tkhd", "mdia"} :
         /\ Present(t, k, fd) <=> Present(t, r, fd2)
         /\ Latest(t, k, fd) = Latest(t, r, fd2)
  BY JoinsKept
<1>2. All(k, "tkhd", TkhdOK) <=> (b.type = "tkhd" => TkhdOK(b)) /\ All(r, "tkhd", TkhdOK)
  BY JoinsAll
<1>3. k.whole = r.whole
  BY JoinsWhole
<1> QED
  BY <1>1, <1>2, <1>3 DEF TrakAhead

\* The loop of parse_mdia.
LEMMA MdiaJoins ==
  ASSUME file \in Sources, NEW k, NEW b, NEW r, Joins(k, b, r), NEW fd, NEW fd2, NEW h,
         \A t \in {"mdhd", "hdlr", "minf"} : Keeps(fd, fd2, b, t)
  PROVE  MdiaAhead(k, fd, h) <=>
           /\ b.type = "mdhd" => MdhdOK(b)
           /\ b.type = "hdlr" => HdlrOK(b)
           /\ MdiaAhead(r, fd2, h)
<1>1. \A t \in {"mdhd", "hdlr", "minf"} :
         /\ Present(t, k, fd) <=> Present(t, r, fd2)
         /\ Latest(t, k, fd) = Latest(t, r, fd2)
  BY JoinsKept
<1>2. /\ All(k, "mdhd", MdhdOK) <=> (b.type = "mdhd" => MdhdOK(b)) /\ All(r, "mdhd", MdhdOK)
      /\ All(k, "hdlr", HdlrOK) <=> (b.type = "hdlr" => HdlrOK(b)) /\ All(r, "hdlr", HdlrOK)
  BY JoinsAll
<1>3. k.whole = r.whole
  BY JoinsWhole
<1> QED
  BY <1>1, <1>2, <1>3 DEF MdiaAhead

\* The loop of parse_stbl.
LEMMA StblJoins ==
  ASSUME file \in Sources, NEW k, NEW b, NEW r, Joins(k, b, r), NEW fd, NEW fd2, NEW h,
         fd2["hdlr"] = fd["hdlr"],
         \A t \in {"stsd"} \cup Tables : Keeps(fd, fd2, b, t)
  PROVE  StblAhead(k, fd, h) <=>
           /\ b.type # "senc"
           /\ b.type \in {"sbgp", "sgpd"} => GroupError(b) = None
           /\ StblAhead(r, fd2, h)
<1>1. \A t \in {"stsd", "stts", "stsc", "stsz", "stco", "co64"} :
         /\ Present(t, k, fd) <=> Present(t, r, fd2)
         /\ Latest(t, k, fd) = Latest(t, r, fd2)
  BY JoinsKept DEF Tables
<1>2. \A t : All(k, t, LAMBDA x : GroupError(x) = None) <=>
              /\ b.type = t => GroupError(b) = None
              /\ All(r, t, LAMBDA x : GroupError(x) = None)
  BY JoinsAll
<1>3. k.whole = r.whole /\ (At(k, "senc") = {} <=> b.type # "senc" /\ At(r, "senc") = {})
  BY JoinsWhole, JoinsEmpty
<1>4. (\A t \in {"sbgp", "sgpd"} : All(k, t, LAMBDA x : GroupError(x) = None)) <=>
        /\ b.type \in {"sbgp", "sgpd"} => GroupError(b) = None
        /\ \A t \in {"sbgp", "sgpd"} : All(r, t, LAMBDA x : GroupError(x) = None)
  BY <1>2
<1>5. (\A t \in {"stsd", "stts", "stsc", "stsz"} : Present(t, k, fd)) <=>
        \A t \in {"stsd", "stts", "stsc", "stsz"} : Present(t, r, fd2)
  BY <1>1
<1>6. (Present("stco", k, fd) <=> ~Present("co64", k, fd)) <=>
        (Present("stco", r, fd2) <=> ~Present("co64", r, fd2))
  BY <1>1
<1>7. Latest("stsd", k, fd) = Latest("stsd", r, fd2)
  BY <1>1
<1> QED
  BY <1>3, <1>4, <1>5, <1>6, <1>7 DEF StblAhead

\* locate_stbl, and the loop over the children of the entry.
LEMMA MinfJoins ==
  ASSUME NEW k, NEW b, NEW r, Joins(k, b, r), NEW fd, NEW h
  PROVE  MinfAhead(k, fd, h) <=>
           IF b.type = "stbl" THEN Handler(fd["hdlr"]) = h /\ TakenStbl(Inside(b), h)
           ELSE MinfAhead(r, fd, h)
<1>1. At(k, "stbl") = {} <=> b.type # "stbl" /\ At(r, "stbl") = {}
  BY JoinsEmpty
<1>2. At(k, "stbl") # {} => FirstOf(k, "stbl") = IF b.type = "stbl" THEN b ELSE FirstOf(r, "stbl")
  BY JoinsFirst
<1> QED
  BY <1>1, <1>2 DEF MinfAhead, Has

\* The loop over the children of a sample entry: one box less ahead.
LEMMA EntryJoins ==
  ASSUME NEW k, NEW b, NEW r, Joins(k, b, r), NEW fd, NEW h
  PROVE  EntryAhead(k, fd, h) <=> b.type \notin Markers /\ EntryAhead(r, fd, h)
  BY JoinsUnmarked, JoinsWhole DEF EntryAhead

\* The loop over moov, at a box that is not a trak.
LEMMA MoovJoins ==
  ASSUME NEW k, NEW b, NEW r, Joins(k, b, r), b.type # "trak", NEW ts
  PROVE  Completes(ts, k) <=> Completes(ts, r)
<1>1. NoTrak(k) <=> NoTrak(r)
  BY JoinsEmpty DEF NoTrak
<1>2. ASSUME NEW h PROVE OneTrak(k, h) <=> OneTrak(r, h)
  <2>1. \A q : OneTrak(q, h) <=> \E v : Single(q, "trak", v) /\ TakenTrak(Inside(q.boxes[v]), h)
    BY DEF OneTrak, Single
  <2>2. ASSUME NEW v, Single(k, "trak", v)
        PROVE  \E w : Single(r, "trak", w) /\ r.boxes[w] = k.boxes[v]
    BY <2>2, JoinsSingle
  <2>3. ASSUME NEW v, Single(r, "trak", v)
        PROVE  \E w : Single(k, "trak", w) /\ k.boxes[w] = r.boxes[v]
    BY <2>3, JoinsSingle
  <2> QED
    BY <2>1, <2>2, <2>3
<1>3. TwoTraks(r) => TwoTraks(k)
  <2> SUFFICES ASSUME TwoTraks(r) PROVE TwoTraks(k)
    OBVIOUS
  <2>1. PICK v \in At(r, "trak"), a \in At(r, "trak") :
          /\ v # a /\ At(r, "trak") = {v, a}
          /\ TakenTrak(Inside(r.boxes[v]), "vide")
          /\ TakenTrak(Inside(r.boxes[a]), "soun")
    BY DEF TwoTraks
  <2>2. /\ v \in Nat /\ a \in Nat /\ v + 1 \in At(k, "trak") /\ a + 1 \in At(k, "trak")
        /\ k.boxes[v + 1] = r.boxes[v] /\ k.boxes[a + 1] = r.boxes[a]
    BY JoinsAt
  <2>3. ASSUME NEW j \in At(k, "trak") PROVE j = v + 1 \/ j = a + 1
    <3>1. j \in Nat /\ j - 1 \in At(r, "trak")
      BY JoinsAt
    <3>2. j - 1 = v \/ j - 1 = a
      BY <2>1, <3>1
    <3> QED
      BY <3>1, <3>2
  <2>4. v + 1 # a + 1
    BY <2>1, <2>2
  <2>5. At(k, "trak") = {v + 1, a + 1}
    BY <2>2, <2>3
  <2> QED
    BY <2>1, <2>2, <2>4, <2>5 DEF TwoTraks
<1>4. TwoTraks(k) => TwoTraks(r)
  <2> SUFFICES ASSUME TwoTraks(k) PROVE TwoTraks(r)
    OBVIOUS
  <2>1. PICK v \in At(k, "trak"), a \in At(k, "trak") :
          /\ v # a /\ At(k, "trak") = {v, a}
          /\ TakenTrak(Inside(k.boxes[v]), "vide")
          /\ TakenTrak(Inside(k.boxes[a]), "soun")
    BY DEF TwoTraks
  <2>2. /\ v \in Nat /\ a \in Nat /\ v - 1 \in At(r, "trak") /\ a - 1 \in At(r, "trak")
        /\ k.boxes[v] = r.boxes[v - 1] /\ k.boxes[a] = r.boxes[a - 1]
    BY JoinsAt
  <2>3. ASSUME NEW i \in At(r, "trak") PROVE i = v - 1 \/ i = a - 1
    <3>1. i \in Nat /\ i + 1 \in At(k, "trak")
      BY JoinsAt
    <3>2. i + 1 = v \/ i + 1 = a
      BY <2>1, <3>1
    <3> QED
      BY <2>2, <3>1, <3>2
  <2>4. v - 1 # a - 1
    BY <2>1, <2>2
  <2>5. At(r, "trak") = {v - 1, a - 1}
    BY <2>2, <2>3
  <2> QED
    BY <2>1, <2>2, <2>4, <2>5 DEF TwoTraks
<1>5. k.whole = r.whole
  BY JoinsWhole
<1> QED
  BY <1>1, <1>2, <1>3, <1>4, <1>5 DEF Completes

\* At a trak: it has to be a plain one, and the rest completes the pair with it.
LEMMA MoovJoinsTrak ==
  ASSUME NEW k, NEW b, NEW r, Joins(k, b, r), b.type = "trak", NEW ts
  PROVE  Completes(ts, k) <=>
           \E h \in Handlers : TakenTrak(Inside(b), h) /\ CompletesWith(ts, h, r)
<1>1. ~NoTrak(k) /\ 1 \in At(k, "trak") /\ k.boxes[1] = b
  BY JoinsAt, JoinsIndex DEF NoTrak
<1>2. ASSUME NEW h PROVE OneTrak(k, h) <=> TakenTrak(Inside(b), h) /\ NoTrak(r)
  <2>1. \A q : OneTrak(q, h) <=> \E v : Single(q, "trak", v) /\ TakenTrak(Inside(q.boxes[v]), h)
    BY DEF OneTrak, Single
  <2> QED
    BY <1>1, <2>1, JoinsSingle DEF NoTrak
<1>3. ASSUME NEW v, NEW h, Single(r, "trak", v), TakenTrak(Inside(r.boxes[v]), h)
      PROVE  /\ v + 1 \in At(k, "trak") /\ v + 1 # 1 /\ At(k, "trak") = {1, v + 1}
             /\ TakenTrak(Inside(k.boxes[v + 1]), h)
  <2>1. v \in Nat /\ v >= 1 /\ v + 1 \in At(k, "trak") /\ k.boxes[v + 1] = r.boxes[v]
    BY <1>3, JoinsAt DEF Single
  <2>2. ASSUME NEW j \in At(k, "trak"), j # 1 PROVE j = v + 1
    <3>1. j \in Nat /\ j - 1 \in At(r, "trak")
      BY <2>2, JoinsAt
    <3>2. j - 1 = v
      BY <1>3, <3>1 DEF Single
    <3> QED
      BY <3>1, <3>2
  <2>3. v + 1 # 1
    BY <2>1
  <2>4. At(k, "trak") = {1, v + 1}
    BY <1>1, <2>1, <2>2
  <2> QED
    BY <1>3, <2>1, <2>3, <2>4
<1>4. ASSUME NEW v, NEW a \in At(k, "trak"), NEW h, v = 1, v # a, At(k, "trak") = {v, a},
             TakenTrak(Inside(k.boxes[a]), h)
      PROVE  OneTrak(r, h)
  <2>1. a \in Nat /\ a - 1 \in At(r, "trak") /\ k.boxes[a] = r.boxes[a - 1]
    BY <1>4, JoinsAt
  <2>2. ASSUME NEW i \in At(r, "trak") PROVE i = a - 1
    <3>1. i \in Nat /\ i >= 1 /\ i + 1 \in At(k, "trak")
      BY JoinsAt
    <3>2. i + 1 # 1
      BY <3>1
    <3>3. i + 1 = a
      BY <1>4, <3>1, <3>2
    <3> QED
      BY <2>1, <3>1, <3>3
  <2>3. At(r, "trak") = {a - 1} /\ a - 1 \in DOMAIN r.boxes
    BY <2>1, <2>2 DEF At
  <2> QED
    BY <1>4, <2>1, <2>3 DEF OneTrak
<1>5. TwoTraks(k) <=> \/ TakenTrak(Inside(b), "vide") /\ OneTrak(r, "soun")
                      \/ TakenTrak(Inside(b), "soun") /\ OneTrak(r, "vide")
  <2>1. ASSUME TakenTrak(Inside(b), "vide"), OneTrak(r, "soun") PROVE TwoTraks(k)
    <3>1. PICK v : Single(r, "trak", v) /\ TakenTrak(Inside(r.boxes[v]), "soun")
      BY <2>1 DEF OneTrak, Single
    <3>2. /\ v + 1 \in At(k, "trak") /\ v + 1 # 1 /\ At(k, "trak") = {1, v + 1}
          /\ TakenTrak(Inside(k.boxes[v + 1]), "soun")
      BY <1>3, <3>1
    <3> QED
      BY <1>1, <2>1, <3>2 DEF TwoTraks
  <2>2. ASSUME TakenTrak(Inside(b), "soun"), OneTrak(r, "vide") PROVE TwoTraks(k)
    <3>1. PICK v : Single(r, "trak", v) /\ TakenTrak(Inside(r.boxes[v]), "vide")
      BY <2>2 DEF OneTrak, Single
    <3>2. /\ v + 1 \in At(k, "trak") /\ v + 1 # 1 /\ At(k, "trak") = {v + 1, 1}
          /\ TakenTrak(Inside(k.boxes[v + 1]), "vide")
      BY <1>3, <3>1
    <3> QED
      BY <1>1, <2>2, <3>2 DEF TwoTraks
  <2>3. ASSUME TwoTraks(k)
        PROVE  \/ TakenTrak(Inside(b), "vide") /\ OneTrak(r, "soun")
               \/ TakenTrak(Inside(b), "soun") /\ OneTrak(r, "vide")
    <3>1. PICK v \in At(k, "trak"), a \in At(k, "trak") :
            /\ v # a /\ At(k, "trak") = {v, a}
            /\ TakenTrak(Inside(k.boxes[v]), "vide")
            /\ TakenTrak(Inside(k.boxes[a]), "soun")
      BY <2>3 DEF TwoTraks
    <3>2. v = 1 \/ a = 1
      BY <1>1, <3>1
    <3>3. CASE v = 1
      <4>1. OneTrak(r, "soun")
        BY <1>4, <3>1, <3>3
      <4> QED
        BY <1>1, <3>1, <3>3, <4>1
    <3>4. CASE a = 1
      <4>1. At(k, "trak") = {a, v}
        BY <3>1
      <4>2. OneTrak(r, "vide")
        BY <1>4, <3>1, <3>4, <4>1
      <4> QED
        BY <1>1, <3>1, <3>4, <4>2
    <3> QED
      BY <3>2, <3>3, <3>4
  <2> QED
    BY <2>1, <2>2, <2>3
<1>6. k.whole = r.whole
  BY JoinsWhole
<1>7. \A h, g : {h, g} = Handlers <=> (h = "vide" /\ g = "soun") \/ (h = "soun" /\ g = "vide")
  BY DEF Handlers
<1>8. CASE Len(ts) = 0
  BY <1>5, <1>6, <1>7, <1>8 DEF Completes, CompletesWith, Handlers
<1>9. CASE Len(ts) = 1
  BY <1>2, <1>6, <1>7, <1>9 DEF Completes, CompletesWith, Handlers
<1>10. CASE Len(ts) # 0 /\ Len(ts) # 1
  BY <1>1, <1>10 DEF Completes, CompletesWith
<1> QED
  BY <1>8, <1>9, <1>10

-----------------------------------------------------------------------------
(***************************************************************************)
(* What is left when a loop ends, and when the next one starts.            *)
(***************************************************************************)
Ended(k) == k.boxes = <<>> /\ k.whole = TRUE
Broken(k) == k.boxes = <<>> /\ k.whole = FALSE

\* An empty list has no box of any type,
LEMMA EmptyAt == ASSUME NEW k, k.boxes = <<>> PROVE \A t : At(k, t) = {}
  BY DEF At

\* so that what counts is what was found.
LEMMA EmptyKept ==
  ASSUME NEW k, k.boxes = <<>>, NEW fd, NEW t
  PROVE  (Present(t, k, fd) <=> fd[t] # None) /\ Latest(t, k, fd) = fd[t]
  BY EmptyAt DEF Present, Latest

\* Before anything is found what counts is what is ahead.
LEMMA FreshKept ==
  ASSUME NEW k, NEW fd, NEW t, fd[t] = None
  PROVE  (Present(t, k, fd) <=> At(k, t) # {}) /\ (At(k, t) # {} => Latest(t, k, fd) = LastOf(k, t))
  BY DEF Present, Latest

\* Behind a header that next_header refuses there is nothing to see.
LEMMA BrokenAhead ==
  ASSUME NEW k, Broken(k), NEW fd, NEW ts, NEW h
  PROVE  /\ ~FileAhead(k, fd) /\ ~Completes(ts, k)
         /\ \A l \in InTrak : ~ThisTrak(l, k, fd, h)
<1>1. ~k.whole /\ k.boxes = <<>> /\ At(k, "stbl") = {}
  BY EmptyAt DEF Broken
<1>2. ~FileAhead(k, fd) /\ ~Completes(ts, k)
  BY <1>1 DEF FileAhead, Completes
<1>3. ~TrakAhead(k, fd, h) /\ ~MdiaAhead(k, fd, h) /\ ~StblAhead(k, fd, h) /\ ~EntryAhead(k, fd, h)
  BY <1>1 DEF TrakAhead, MdiaAhead, StblAhead, EntryAhead
<1>4. ~MinfAhead(k, fd, h) /\ ~StsdAhead(k, fd, h)
  BY <1>1 DEF MinfAhead, StsdAhead, Has
<1> QED
  BY <1>2, <1>3, <1>4 DEF ThisTrak, InTrak, InMinf, InStbl

\* The end of the file: what was found decides, and what is in moov.
LEMMA FileEnds ==
  ASSUME NEW k, Ended(k), NEW fd
  PROVE  FileAhead(k, fd) <=>
           fd["ftyp"] # None /\ fd["moov"] # None /\ Completes(<<>>, Inside(fd["moov"]))
<1>1. k.whole /\ k.boxes = <<>> /\ \A t : At(k, t) = {}
  BY EmptyAt DEF Ended
<1>2. (Present("ftyp", k, fd) <=> fd["ftyp"] # None) /\ Latest("moov", k, fd) = fd["moov"]
  BY <1>1, EmptyKept
<1>3. OnlyMoov(k, fd) <=> fd["moov"] # None
  BY <1>1 DEF OnlyMoov
<1>4. Unmarked(k) /\ All(k, "ftyp", LAMBDA b : FtypError(b) = None)
  BY <1>1 DEF Unmarked, All
<1>5. \A m : Completes(<<>>, m) <=> m.whole /\ TwoTraks(m)
  BY DEF Completes
<1> QED
  BY <1>1, <1>2, <1>3, <1>4, <1>5 DEF FileAhead

\* The end of moov: the two tracks decide.
LEMMA MoovEnds ==
  ASSUME NEW k, Ended(k), NEW ts
  PROVE  Completes(ts, k) <=> Len(ts) = 2 /\ {ts[1].handler, ts[2].handler} = Handlers
<1>1. k.whole /\ \A t : At(k, t) = {}
  BY EmptyAt DEF Ended
<1> QED
  BY <1>1 DEF Completes, OneTrak, TwoTraks, NoTrak

\* The start of trak: everything is ahead.
LEMMA TrakStarts ==
  ASSUME NEW k, NEW fd, NEW h, \A t \in {"tkhd", "mdia"} : fd[t] = None
  PROVE  TrakAhead(k, fd, h) <=> TakenTrak(k, h)
<1>1. \A t \in {"tkhd", "mdia"} :
         (Present(t, k, fd) <=> At(k, t) # {}) /\ (At(k, t) # {} => Latest(t, k, fd) = LastOf(k, t))
  BY FreshKept
<1> QED
  BY <1>1 DEF TrakAhead, TakenTrak, Has

\* The end of trak: what was found decides, and what is in mdia.
LEMMA TrakEnds ==
  ASSUME NEW k, Ended(k), NEW fd, NEW h
  PROVE  TrakAhead(k, fd, h) <=>
           fd["tkhd"] # None /\ fd["mdia"] # None /\ TakenMdia(Inside(fd["mdia"]), h)
<1>1. k.whole /\ k.boxes = <<>> /\ \A t : At(k, t) = {}
  BY EmptyAt DEF Ended
<1>2. \A t : (Present(t, k, fd) <=> fd[t] # None) /\ Latest(t, k, fd) = fd[t]
  BY <1>1, EmptyKept
<1>3. All(k, "tkhd", TkhdOK)
  BY <1>1 DEF All
<1> QED
  BY <1>1, <1>2, <1>3 DEF TrakAhead

\* The start of mdia.
LEMMA MdiaStarts ==
  ASSUME NEW k, NEW fd, NEW h, \A t \in {"mdhd", "hdlr", "minf"} : fd[t] = None
  PROVE  MdiaAhead(k, fd, h) <=> TakenMdia(k, h)
<1>1. \A t \in {"mdhd", "hdlr", "minf"} :
         (Present(t, k, fd) <=> At(k, t) # {}) /\ (At(k, t) # {} => Latest(t, k, fd) = LastOf(k, t))
  BY FreshKept
<1>2. CASE \A t \in {"mdhd", "hdlr", "minf"} : At(k, t) # {}
  <2>1. /\ Latest("hdlr", k, fd) = LastOf(k, "hdlr") /\ Latest("minf", k, fd) = LastOf(k, "minf")
        /\ Present("mdhd", k, fd) /\ Present("hdlr", k, fd) /\ Present("minf", k, fd)
        /\ Has(k, {"mdhd", "hdlr", "minf"})
    BY <1>1, <1>2 DEF Has
  <2> QED
    BY <2>1 DEF MdiaAhead, TakenMdia
<1>3. CASE ~\A t \in {"mdhd", "hdlr", "minf"} : At(k, t) # {}
  BY <1>1, <1>3 DEF MdiaAhead, TakenMdia, Has
<1> QED
  BY <1>2, <1>3

\* The end of mdia: what was found decides, and what is in minf.
LEMMA MdiaEnds ==
  ASSUME NEW k, Ended(k), NEW fd, NEW h
  PROVE  MdiaAhead(k, fd, h) <=>
           /\ \A t \in {"mdhd", "hdlr", "minf"} : fd[t] # None
           /\ MinfAhead(Inside(fd["minf"]), fd, h)
<1>1. k.whole /\ k.boxes = <<>> /\ \A t : At(k, t) = {}
  BY EmptyAt DEF Ended
<1>2. \A t : (Present(t, k, fd) <=> fd[t] # None) /\ Latest(t, k, fd) = fd[t]
  BY <1>1, EmptyKept
<1>3. All(k, "mdhd", MdhdOK) /\ All(k, "hdlr", HdlrOK)
  BY <1>1 DEF All
<1> QED
  BY <1>1, <1>2, <1>3 DEF MdiaAhead, MinfAhead

\* The start of stbl.
LEMMA StblStarts ==
  ASSUME NEW k, NEW fd, NEW h, \A t \in {"stsd"} \cup Tables : fd[t] = None
  PROVE  StblAhead(k, fd, h) <=> Handler(fd["hdlr"]) = h /\ TakenStbl(k, h)
<1>1. \A t \in {"stsd", "stts", "stsc", "stsz", "stco", "co64"} :
         (Present(t, k, fd) <=> At(k, t) # {}) /\ (At(k, t) # {} => Latest(t, k, fd) = LastOf(k, t))
  BY FreshKept DEF Tables
<1>2. (\A t \in {"stsd", "stts", "stsc", "stsz"} : Present(t, k, fd))
        <=> Has(k, {"stsd", "stts", "stsc", "stsz"})
  BY <1>1 DEF Has
<1>3. (Present("stco", k, fd) <=> ~Present("co64", k, fd))
        <=> ((At(k, "stco") = {}) # (At(k, "co64") = {}))
  BY <1>1
<1>4. Has(k, {"stsd", "stts", "stsc", "stsz"}) => Latest("stsd", k, fd) = LastOf(k, "stsd")
  BY <1>1 DEF Has
<1> QED
  BY <1>2, <1>3, <1>4 DEF StblAhead, TakenStbl

\* The end of stbl: the tables that were found decide, and what is in stsd.
LEMMA StblEnds ==
  ASSUME NEW k, Ended(k), NEW fd, NEW h
  PROVE  StblAhead(k, fd, h) <=>
           /\ Handler(fd["hdlr"]) = h /\ TablesFound(fd)
           /\ fd["stsd"] # None /\ TakenEntry(fd["stsd"], h)
<1>1. k.whole /\ k.boxes = <<>> /\ \A t : At(k, t) = {}
  BY EmptyAt DEF Ended
<1>2. \A t : (Present(t, k, fd) <=> fd[t] # None) /\ Latest(t, k, fd) = fd[t]
  BY <1>1, EmptyKept
<1>3. \A t : All(k, t, LAMBDA b : GroupError(b) = None)
  BY <1>1 DEF All
<1>4. /\ \A t \in {"stsd", "stts", "stsc", "stsz"} : Present(t, k, fd)
      /\ (Present("stco", k, fd) <=> ~Present("co64", k, fd))
      <=> fd["stsd"] # None /\ TablesFound(fd)
  BY <1>2 DEF TablesFound
<1> QED
  BY <1>1, <1>2, <1>3, <1>4 DEF StblAhead

\* parse_stsd_entry starts at the entry.
LEMMA StsdStarts ==
  ASSUME NEW fd, NEW h \in Handlers
  PROVE  LET stsd == fd["stsd"]
         IN  Handler(fd["hdlr"]) = h /\ TablesFound(fd) /\ TakenEntry(stsd, h) <=>
               StsdOK(stsd) /\ StsdAhead(Children(file, Payload(stsd) + 8, End(stsd)), fd, h)
<1> DEFINE k == Children(file, Payload(fd["stsd"]) + 8, End(fd["stsd"]))
<1>1. Prefix(h) = IF h = "vide" THEN 78 ELSE 28
  BY DEF Prefix, Handlers
<1>2. ASSUME End(k.boxes[1]) = End(fd["stsd"])
      PROVE  EntryKids(k.boxes[1], h) <=>
               LET fixed == IF h = "vide" THEN 78 ELSE 28
                   c == Children(file, Payload(k.boxes[1]) + fixed, End(fd["stsd"]))
               IN  PayloadLen(k.boxes[1]) > fixed => c.whole /\ Unmarked(c)
  <2> HIDE DEF k
  <2> QED
    BY <1>1, <1>2 DEF EntryKids
<1> QED
  BY <1>2 DEF TakenEntry, StsdAhead

\* The entry is found, and its children are read.
LEMMA EntryStarts ==
  ASSUME file \in Sources, NEW k, NEW b, NEW r, Joins(k, b, r), IsBox(b), NEW fd, NEW fd2,
         fd2["entry"] = b, \A t \in {"hdlr"} \cup Tables : fd2[t] = fd[t],
         NEW h \in Handlers
  PROVE  StsdAhead(k, fd, h) <=>
           /\ End(b) = End(fd["stsd"])
           /\ EntryAhead(Children(file, ChildrenStart(b, Handler(fd["hdlr"])), End(b)), fd2, h)
<1>1. k.boxes # <<>> /\ k.boxes[1] = b
  <2>1. 1 \in DOMAIN k.boxes /\ k.boxes[1] = b
    BY JoinsIndex
  <2> QED
    BY <2>1
<1>2. TablesFound(fd2) <=> TablesFound(fd)
  BY DEF TablesFound, Tables
<1> DEFINE c == Children(file, ChildrenStart(b, h), End(b))
<1>3. EntryKids(b, h) <=> c.whole /\ Unmarked(c)
  <2>1. CASE PayloadLen(b) > Prefix(h)
    <3>1. ChildrenStart(b, h) = Payload(b) + Prefix(h)
      BY <2>1 DEF ChildrenStart, Handlers
    <3> QED
      BY <2>1, <3>1 DEF EntryKids
  <2>2. CASE ~(PayloadLen(b) > Prefix(h))
    <3>1. ChildrenStart(b, h) = End(b) /\ End(b) \in Nat /\ End(b) <= End(b)
      BY <2>2, PayloadInside DEF ChildrenStart
    <3>2. Children(file, End(b), End(b)) = [boxes |-> <<>>, whole |-> TRUE]
      BY <3>1, ChildrenStep
    <3>3. c.whole /\ c.boxes = <<>>
      BY <3>1, <3>2
    <3> HIDE DEF c
    <3>4. Unmarked(c)
      BY <3>3, EmptyAt DEF Unmarked
    <3> QED
      BY <2>2, <3>3, <3>4 DEF EntryKids
  <2> QED
    BY <2>1, <2>2
<1> HIDE DEF c
<1>4. StsdAhead(k, fd, h) <=>
        /\ Handler(fd["hdlr"]) = h /\ TablesFound(fd) /\ End(b) = End(fd["stsd"])
        /\ EntryError(b, h) = None /\ c.whole /\ Unmarked(c)
  BY <1>1, <1>3 DEF StsdAhead
<1>5. \A q : EntryAhead(q, fd2, h) <=>
        /\ Handler(fd["hdlr"]) = h /\ TablesFound(fd) /\ EntryError(b, h) = None
        /\ q.whole /\ Unmarked(q)
  BY <1>2 DEF EntryAhead
<1>6. Handler(fd["hdlr"]) = h => c = Children(file, ChildrenStart(b, Handler(fd["hdlr"])), End(b))
  BY DEF c
<1> QED
  BY <1>4, <1>5, <1>6

\* The end of the sample entry: its own fields decide.
LEMMA EntryEnds ==
  ASSUME NEW k, Ended(k), NEW fd, NEW h
  PROVE  EntryAhead(k, fd, h) <=>
           Handler(fd["hdlr"]) = h /\ TablesFound(fd) /\ EntryError(fd["entry"], h) = None
<1>1. k.whole /\ Unmarked(k)
  BY EmptyAt DEF Ended, Unmarked
<1> QED
  BY <1>1 DEF EntryAhead

\* The check of the tables is that they were found.
LEMMA TablesErrorIs == TablesError = None <=> TablesFound(found)
<1>1. None # "MalformedAtom" /\ None # "MissingAtom"
  BY NoneAssumption DEF Errors
<1> QED
  BY <1>1 DEF TablesError, TablesFound

\* The track that was parsed counts from now on.
LEMMA CompletesAppended ==
  ASSUME NEW S, NEW ts \in Seq(S), NEW x, NEW k
  PROVE  (\E h \in Handlers : x.handler = h /\ CompletesWith(ts, h, k)) <=> Completes(Append(ts, x), k)
<1>1. Len(ts) \in Nat /\ Len(Append(ts, x)) = Len(ts) + 1
  OBVIOUS
<1>2. Append(ts, x)[Len(ts) + 1] = x /\ \A i \in 1 .. Len(ts) : Append(ts, x)[i] = ts[i]
  OBVIOUS
<1>3. \A h, g : {h, g} = Handlers => h \in Handlers
  BY DEF Handlers
<1>4. CASE Len(ts) = 0
  BY <1>1, <1>2, <1>3, <1>4 DEF Completes, CompletesWith
<1>5. CASE Len(ts) = 1
  <2>1. \A h, g : {h, g} = Handlers => g \in Handlers
    BY DEF Handlers
  <2>2. Len(Append(ts, x)) = 2 /\ Append(ts, x)[2] = x /\ Append(ts, x)[1] = ts[1]
    BY <1>1, <1>2, <1>5
  <2> QED
    BY <1>5, <2>1, <2>2 DEF Completes, CompletesWith
<1>6. CASE Len(ts) # 0 /\ Len(ts) # 1
  <2>0. PICK m \in Nat : m = Len(ts) /\ Len(Append(ts, x)) = m + 1
    BY <1>1
  <2>1. Len(Append(ts, x)) # 0 /\ Len(Append(ts, x)) # 1 /\ Len(Append(ts, x)) # 2
    BY <1>6, <2>0
  <2> QED
    BY <1>6, <2>1 DEF Completes, CompletesWith
<1> QED
  BY <1>4, <1>5, <1>6

-----------------------------------------------------------------------------
(***************************************************************************)
(* What a step leaves to see.                                              *)
(***************************************************************************)
\* The reader's header is the standard's, and is refused when it does not fit.
LEMMA BoxIsHeader ==
  ASSUME file \in Sources, cursor \in Nat, end \in Nat
  PROVE  /\ Box = HeaderAt(file, cursor, end)
         /\ HeaderOK(cursor, end) <=> Box.header <= Box.size /\ Box.size <= end - cursor
<1>1. Box = HeaderAt(file, cursor, end)
  BY DEF Box, Header, HeaderAt, HeaderSize, DeclaredSize, Size32, Num, Code
<1>2. /\ Box.header = HeaderSize(cursor) /\ Box.size = DeclaredSize(cursor, end)
  BY DEF Box, Header
<1>3. HeaderSize(cursor) \in {8, 16} /\ DeclaredSize(cursor, end) \in Int
  BY NumType DEF HeaderSize, DeclaredSize, Size32
<1>4. HeaderOK(cursor, end) <=> Box.header <= Box.size /\ Box.size <= end - cursor
  BY <1>2, <1>3 DEF HeaderOK
<1> QED
  BY <1>1, <1>4

\* What is ahead at the cursor: nothing, something broken, or a box and the rest.
LEMMA AheadStep ==
  ASSUME file \in Sources, cursor \in Nat, end \in Nat, cursor <= end
  PROVE  /\ cursor >= end => Ended(Ahead)
         /\ cursor < end /\ ~HeaderOK(cursor, end) => Broken(Ahead)
         /\ cursor < end /\ HeaderOK(cursor, end) =>
              LET r == Children(file, End(Box), end)
              IN  IF Box.type = "uuid" THEN Ahead = r ELSE Joins(Ahead, Box, r)
<1> DEFINE b == HeaderAt(file, cursor, end)
           r == Children(file, b.start + b.size, end)
<1>1. Box = b /\ (HeaderOK(cursor, end) <=> b.header <= b.size /\ b.size <= end - cursor)
  BY BoxIsHeader
<1>2. Ahead = IF cursor = end THEN [boxes |-> <<>>, whole |-> TRUE]
              ELSE IF ~(b.header <= b.size /\ b.size <= end - cursor)
                THEN [boxes |-> <<>>, whole |-> FALSE]
              ELSE IF b.type = "uuid" THEN r
              ELSE [r EXCEPT !.boxes = <<b>> \o @]
  BY ChildrenStep DEF Ahead
<1>3. b.header <= b.size /\ b.size <= end - cursor =>
        b \in Headers(file) /\ b.start + b.size \in cursor + 1 .. end
  BY HeaderFits
<1>4. Ahead \in [boxes : Seq(Headers(file)), whole : BOOLEAN]
  BY ChildrenType DEF Ahead
<1> HIDE DEF b
<1>5. ASSUME b.header <= b.size, b.size <= end - cursor
      PROVE  r \in [boxes : Seq(Headers(file)), whole : BOOLEAN]
  <2>1. b.start + b.size \in Nat /\ b.start + b.size <= end
    BY <1>3, <1>5
  <2> QED
    BY <2>1, ChildrenType
<1>6. Children(file, End(Box), end) = r
  BY <1>1 DEF End
<1> HIDE DEF r
<1>7. CASE cursor >= end
  <2>1. cursor = end
    BY <1>7
  <2>2. Ahead = [boxes |-> <<>>, whole |-> TRUE]
    BY <1>2, <2>1
  <2> QED
    BY <1>7, <2>2 DEF Ended
<1>8. CASE cursor < end /\ ~HeaderOK(cursor, end)
  <2>1. Ahead = [boxes |-> <<>>, whole |-> FALSE]
    BY <1>1, <1>2, <1>8
  <2> QED
    BY <1>8, <2>1 DEF Broken
<1>9. CASE cursor < end /\ HeaderOK(cursor, end)
  <2>1. Ahead = IF b.type = "uuid" THEN r ELSE [r EXCEPT !.boxes = <<b>> \o @]
    BY <1>1, <1>2, <1>9
  <2>2. r \in [boxes : Seq(Headers(file)), whole : BOOLEAN] /\ b \in Headers(file)
    BY <1>1, <1>3, <1>5, <1>9
  <2>3. b.type # "uuid" => Ahead.whole = r.whole /\ Ahead.boxes = <<b>> \o r.boxes
    BY <2>1, <2>2
  <2>4. b.type # "uuid" => Joins(Ahead, b, r)
    BY <1>4, <2>2, <2>3 DEF Joins, IsBoxes
  <2> QED
    BY <1>1, <1>6, <1>9, <2>1, <2>4
<1> QED
  BY <1>7, <1>8, <1>9

\* The file stays the same, and so does what the predicates say of it.
LEMMA SameFile ==
  ASSUME file' = file, NEW l, NEW k, NEW fd, NEW ts, NEW n
  PROVE  /\ TakenPair' <=> TakenPair
         /\ Verdict(l, k, fd, ts, n)' <=> Verdict(l, k, fd, ts, n)
<1>1. ASSUME NEW o PROVE Num(o)' = Num(o) /\ Code(o)' = Code(o)
  BY DEF Num, Code
<1>2. ASSUME NEW b
      PROVE  /\ FtypError(b)' = FtypError(b) /\ GroupError(b)' = GroupError(b)
             /\ Handler(b)' = Handler(b)
             /\ TkhdOK(b)' <=> TkhdOK(b)
             /\ MdhdOK(b)' <=> MdhdOK(b)
             /\ StsdOK(b)' <=> StsdOK(b)
             /\ Inside(b)' = Inside(b)
  BY DEF FtypError, GroupError, Handler, TkhdOK, TkhdBody, MdhdOK, TimescaleOff, StsdOK, Inside,
         Field, FieldCode, Num, Code
<1>3. ASSUME NEW b, NEW h PROVE EntryError(b, h)' = EntryError(b, h)
  BY DEF EntryError, AudioEntryOK, Field, Num
<1>4. ASSUME NEW b, NEW h PROVE EntryKids(b, h)' <=> EntryKids(b, h)
  BY DEF EntryKids
<1>5. ASSUME NEW b, NEW h PROVE TakenEntry(b, h)' <=> TakenEntry(b, h)
  BY DEF TakenEntry, StsdOK, EntryError, AudioEntryOK, Field, Num
<1>6. ASSUME NEW q, NEW h PROVE TakenStbl(q, h)' <=> TakenStbl(q, h)
  BY <1>2, <1>5 DEF TakenStbl, All
<1>7. ASSUME NEW q, NEW h PROVE TakenMdia(q, h)' <=> TakenMdia(q, h)
  BY <1>2, <1>6 DEF TakenMdia, All
<1>8. ASSUME NEW q, NEW h PROVE TakenTrak(q, h)' <=> TakenTrak(q, h)
  BY <1>2, <1>7 DEF TakenTrak, All
<1>9. ASSUME NEW q, NEW h
      PROVE  (OneTrak(q, h)' <=> OneTrak(q, h)) /\ (TwoTraks(q)' <=> TwoTraks(q))
  BY <1>2, <1>8 DEF OneTrak, TwoTraks
<1>10. TakenPair' <=> TakenPair
  <2>1. ASSUME NEW m
        PROVE  (\E v, a \in At(m, "trak") :
                  /\ v # a /\ At(m, "trak") = {v, a}
                  /\ TakenTrak(Inside(m.boxes[v]), "vide")
                  /\ TakenTrak(Inside(m.boxes[a]), "soun"))' <=> TwoTraks(m)
    BY <1>2, <1>8 DEF TwoTraks
  <2> QED
    BY <1>2, <2>1 DEF TakenPair, All, TwoTraks
<1>11. ASSUME NEW h
       PROVE  /\ TrakAhead(k, fd, h)' <=> TrakAhead(k, fd, h)
              /\ MdiaAhead(k, fd, h)' <=> MdiaAhead(k, fd, h)
              /\ MinfAhead(k, fd, h)' <=> MinfAhead(k, fd, h)
              /\ StblAhead(k, fd, h)' <=> StblAhead(k, fd, h)
              /\ StsdAhead(k, fd, h)' <=> StsdAhead(k, fd, h)
              /\ EntryAhead(k, fd, h)' <=> EntryAhead(k, fd, h)
  <2>1. TrakAhead(k, fd, h)' <=> TrakAhead(k, fd, h)
    BY <1>2, <1>7 DEF TrakAhead, All
  <2>2. MdiaAhead(k, fd, h)' <=> MdiaAhead(k, fd, h)
    BY <1>2, <1>6 DEF MdiaAhead, All
  <2>3. MinfAhead(k, fd, h)' <=> MinfAhead(k, fd, h)
    BY <1>2, <1>6 DEF MinfAhead
  <2>4. StblAhead(k, fd, h)' <=> StblAhead(k, fd, h)
    BY <1>2, <1>5 DEF StblAhead, All
  <2>5. StsdAhead(k, fd, h)' <=> StsdAhead(k, fd, h)
    BY <1>2, <1>3, <1>4 DEF StsdAhead
  <2>6. EntryAhead(k, fd, h)' <=> EntryAhead(k, fd, h)
    BY <1>2, <1>3 DEF EntryAhead
  <2> QED
    BY <2>1, <2>2, <2>3, <2>4, <2>5, <2>6
<1>12. ASSUME NEW h PROVE ThisTrak(l, k, fd, h)' <=> ThisTrak(l, k, fd, h)
  BY <1>11 DEF ThisTrak
<1>13. ASSUME NEW h PROVE CompletesWith(ts, h, n)' <=> CompletesWith(ts, h, n)
  BY <1>9 DEF CompletesWith
<1>14. Completes(ts, k)' <=> Completes(ts, k)
  BY <1>9 DEF Completes
<1>15. FileAhead(k, fd)' <=> FileAhead(k, fd)
  BY <1>2, <1>9 DEF FileAhead, All
<1> QED
  BY <1>10, <1>12, <1>13, <1>14, <1>15 DEF Verdict

\* TakenPair is about the file.
LEMMA SamePair == ASSUME file' = file PROVE TakenPair' <=> TakenPair
  BY SameFile

\* A walk that ends says so rightly.
LEMMA FailVerdict ==
  ASSUME IInv, NEW error, Fail(error), error # "Ok", error = "Io" \/ ~TakenPair
  PROVE  VerdictInv'
<1>1. loop' = "done" /\ result' = error /\ file' = file
  BY DEF Fail
<1>2. TakenPair' <=> TakenPair
  BY <1>1, SamePair
<1>3. AcceptsTaken'
  BY <1>1, <1>2 DEF AcceptsTaken
<1>4. Verdict(loop, Ahead, found, tracks, NextTraks)'
  BY <1>1 DEF Verdict, InTrak, InMinf, InStbl
<1> QED
  BY <1>1, <1>3, <1>4 DEF VerdictInv

\* A walk that goes on does not say anything.
LEMMA StepVerdict ==
  ASSUME file' = file, result' = None, cursor' <= end',
         NEW l, NEW k, NEW fd, NEW ts, NEW n,
         loop' = l, Ahead' = k, found' = fd, tracks' = ts,
         l \in InTrak => NextTraks' = n, Verdict(l, k, fd, ts, n)
  PROVE  VerdictInv'
<1>1. AcceptsTaken'
  BY NoneAssumption DEF AcceptsTaken
<1>2. PICK n2 : n2 = NextTraks'
  OBVIOUS
<1>3. Verdict(l, k, fd, ts, n2)
  BY <1>2 DEF Verdict
<1>4. Verdict(l, k, fd, ts, n2)'
  BY <1>3, SameFile
<1>5. Verdict(loop, Ahead, found, tracks, NextTraks)'
  BY <1>2, <1>4 DEF Verdict
<1> QED
  BY <1>1, <1>5 DEF VerdictInv

\* The predicates of the loops inside a trak.
LEMMA ThisTrakIs ==
  ASSUME NEW k, NEW fd, NEW h
  PROVE  /\ ThisTrak("trak", k, fd, h) <=> TrakAhead(k, fd, h)
         /\ ThisTrak("mdia", k, fd, h) <=> MdiaAhead(k, fd, h)
         /\ ThisTrak("minf", k, fd, h) <=> MinfAhead(k, fd, h)
         /\ ThisTrak("stbl", k, fd, h) <=> StblAhead(k, fd, h)
         /\ ThisTrak("stsd", k, fd, h) <=> StsdAhead(k, fd, h)
         /\ ThisTrak("entry", k, fd, h) <=> EntryAhead(k, fd, h)
  BY DEF ThisTrak

\* The loops inside of a track.
LEMMA InTrakIs ==
  /\ InTrak = {"trak", "mdia", "minf", "stbl", "stsd", "entry"}
  /\ "file" \notin InTrak /\ "moov" \notin InTrak /\ "done" \notin InTrak
  BY DEF InTrak, InMinf, InStbl

\* A step inside a trak that leaves the same to see, and one that leaves nothing.
LEMMA TrakStep ==
  ASSUME NEW l \in InTrak, NEW m \in InTrak, NEW k, NEW q, NEW fd, NEW fd2, NEW ts, NEW n,
         Verdict(l, k, fd, ts, n),
         \A h \in Handlers : ThisTrak(l, k, fd, h) <=> ThisTrak(m, q, fd2, h)
  PROVE  Verdict(m, q, fd2, ts, n)
  BY InTrakIs DEF Verdict

\* If the current track can no longer be plain then there is no plain pair.
LEMMA TrakFails ==
  ASSUME NEW l \in InTrak, NEW k, NEW fd, NEW ts, NEW n, Verdict(l, k, fd, ts, n),
         \A h \in Handlers : ~ThisTrak(l, k, fd, h)
  PROVE  ~TakenPair
  BY InTrakIs DEF Verdict

\* What holds when a loop reads a box, whether it goes on or not.
LEMMA AtBoxFacts ==
  ASSUME IInv, VerdictInv, NEW l \in InMoov \cup {"file"}, AtBox(l)
  PROVE  /\ Joins(Ahead, Box, Children(file, End(Box), end)) /\ IsBox(Box)
         /\ Verdict(l, Ahead, found, tracks, NextTraks)
         /\ loop = l /\ result = None /\ file \in Sources /\ DOMAIN found = Wanted
         /\ \A t \in Wanted :
              Keeps(found, [u \in Wanted |-> IF u = Box.type THEN Box ELSE found[u]], Box, t)
<1>1. /\ loop = l /\ l # "done" /\ cursor < end /\ HeaderOK(cursor, end) /\ Box.type # "uuid"
  BY DEF AtBox, InMoov, InTrak, InMinf, InStbl
<1>2. /\ file \in Sources /\ DOMAIN found = Wanted /\ cursor \in Nat /\ end \in Nat
  BY Unfold DEF CursorInv
<1>3. cursor <= end
  BY <1>1, <1>2
<1>4. Joins(Ahead, Box, Children(file, End(Box), end))
  BY <1>1, <1>2, <1>3, AheadStep
<1>5. IsBox(Box)
  BY <1>1, <1>2, BoxIn DEF In
<1>6. Verdict(l, Ahead, found, tracks, NextTraks) /\ result = None
  BY <1>1 DEF VerdictInv
<1>7. \A t \in Wanted :
        Keeps(found, [u \in Wanted |-> IF u = Box.type THEN Box ELSE found[u]], Box, t)
  BY DEF Keeps
<1> QED
  BY <1>1, <1>2, <1>4, <1>5, <1>6, <1>7

\* What holds when the loop goes on behind the box.
LEMMA PassFacts ==
  ASSUME IInv, VerdictInv, NEW l \in InMoov \cup {"file"}, AtBox(l), Pass
  PROVE  /\ file' = file /\ loop' = l /\ result' = None /\ tracks' = tracks /\ cursor' <= end'
         /\ Ahead' = Children(file, End(Box), end)
         /\ l \in InTrak => NextTraks' = NextTraks
         /\ \A t \in Kept(l) : t \in Wanted /\ Keeps(found, found', Box, t)
         /\ \A t \in Wanted \ Kept(l) : found'[t] = found[t]
         /\ Kept(l) = {} => found' = found
<1>1. loop = l /\ result = None /\ file \in Sources /\ DOMAIN found = Wanted
  BY AtBoxFacts
<1>2. Kept(l) \subseteq Wanted
  BY KeptIs DEF InMoov, InTrak, InMinf, InStbl, Wanted, OfTrack
<1>3. /\ \A u \in Wanted : found'[u] = IF u = Box.type /\ u \in Kept(l) THEN Box ELSE found[u]
  BY <1>1, <1>2, PassFound
<1>4. cursor' = End(Box) /\ end' = end /\ file' = file /\ loop' = l /\ result' = None /\ tracks' = tracks
  BY <1>1 DEF Pass
<1>5. End(Box) <= end
  <2>1. HeaderOK(cursor, end) /\ cursor \in Nat /\ end \in Nat
    BY Unfold DEF AtBox, CursorInv
  <2> QED
    BY <1>1, <2>1, BoxIn DEF In
<1>6. Ahead' = Children(file, End(Box), end)
  BY <1>4 DEF Ahead
<1>7. l \in InTrak => NextTraks' = NextTraks
  <2>1. l \in InTrak => found'["trak"] = found["trak"] /\ found'["moov"] = found["moov"]
    BY <1>3, KeptIs, InTrakIs DEF Wanted, OfTrack, Tables
  <2> QED
    BY <1>4, <2>1 DEF NextTraks, End
<1>8. \A t \in Kept(l) : Keeps(found, found', Box, t)
  BY <1>2, <1>3 DEF Keeps
<1>9. Kept(l) = {} => found' = found
  BY <1>1 DEF Pass
<1> QED
  BY <1>2, <1>3, <1>4, <1>5, <1>6, <1>7, <1>8, <1>9

\* next_header fails or skips a vendor extension.
LEMMA BadHeaderVerdict ==
  ASSUME IInv, VerdictInv, BadHeader
  PROVE  VerdictInv'
<1>1. /\ loop # "done" /\ cursor < end /\ ~HeaderOK(cursor, end)
      /\ file \in Sources /\ cursor \in Nat /\ end \in Nat /\ Fail("MalformedAtom")
      /\ loop \in InTrak \cup {"file", "moov"}
  BY Unfold DEF BadHeader, CursorInv, InMoov
<1>2. Broken(Ahead)
  BY <1>1, AheadStep
<1>3. Verdict(loop, Ahead, found, tracks, NextTraks)
  BY DEF VerdictInv
<1>4. ~TakenPair
  BY <1>1, <1>2, <1>3, BrokenAhead DEF Verdict
<1> QED
  BY <1>1, <1>4, FailVerdict

\* A uuid box is not ahead at all.
LEMMA SkipUuidVerdict ==
  ASSUME IInv, VerdictInv, SkipUuid
  PROVE  VerdictInv'
<1>1. /\ loop # "done" /\ cursor < end /\ HeaderOK(cursor, end) /\ Box.type = "uuid"
      /\ file \in Sources /\ cursor \in Nat /\ end \in Nat /\ Pass
      /\ loop \in InTrak \cup {"file", "moov"}
  BY Unfold DEF SkipUuid, CursorInv, InMoov
<1>2. /\ Verdict(loop, Ahead, found, tracks, NextTraks) /\ result = None
  BY <1>1 DEF VerdictInv
<1>3. cursor' = End(Box) /\ end' = end /\ file' = file /\ loop' = loop /\ result' = None /\ tracks' = tracks
  BY <1>1, <1>2 DEF Pass
<1>4. found' = found
  <2>1. "uuid" \notin Kept(loop)
    BY <1>1, KeptIs, InTrakIs DEF Tables
  <2> QED
    BY <1>1, <2>1 DEF Pass
<1>5. Ahead' = Ahead
  BY <1>1, <1>3, AheadStep DEF Ahead
<1>6. NextTraks' = NextTraks
  BY <1>3, <1>4 DEF NextTraks, End
<1>7. cursor' <= end'
  BY <1>1, <1>3, BoxIn DEF In
<1>8. PICK l, k, fd, ts, n : l = loop /\ k = Ahead /\ fd = found /\ ts = tracks /\ n = NextTraks
  OBVIOUS
<1>9. Verdict(l, k, fd, ts, n)
  BY <1>2, <1>8
<1> QED
  BY <1>3, <1>4, <1>5, <1>6, <1>7, <1>8, <1>9, StepVerdict

\* A step of the loop over the file.
LEMMA TopBoxVerdict == ASSUME IInv, VerdictInv, TopBox PROVE VerdictInv'
<1> DEFINE r == Children(file, End(Box), end)
           up == [u \in Wanted |-> IF u = Box.type THEN Box ELSE found[u]]
           error == CASE Box.type = "ftyp" -> FtypError(Box)
                      [] Box.type = "moov" -> IF found["moov"] # None THEN "MalformedAtom" ELSE None
                      [] Box.type = "moof" -> "FragmentedInput"
                      [] Box.type \in Markers -> "EncryptedInput"
                      [] OTHER -> None
           Fine == /\ Box.type = "ftyp" => FtypError(Box) = None
                   /\ ~(Box.type = "moov" /\ found["moov"] # None)
                   /\ Box.type # "moof" /\ Box.type \notin Markers
<1>1. AtBox("file") /\ FailOr(error, Pass)
  BY DEF TopBox
<1>2. /\ Joins(Ahead, Box, r) /\ Verdict("file", Ahead, found, tracks, NextTraks)
      /\ file \in Sources /\ \A t \in Wanted : Keeps(found, up, Box, t)
  BY <1>1, AtBoxFacts
<1>3. /\ None # "MalformedAtom" /\ None # "FragmentedInput" /\ None # "EncryptedInput" /\ None # "Ok"
  BY NoneAssumption DEF Errors
<1>4. "ftyp" \notin Markers /\ "moov" \notin Markers /\ "moof" \notin Markers
  BY DEF Markers
<1>5. error = None <=> Fine
  <2>1. CASE Box.type = "ftyp"
    BY <1>4, <2>1
  <2>2. CASE Box.type = "moov"
    BY <1>3, <1>4, <2>2
  <2>3. CASE Box.type = "moof"
    BY <1>3, <1>4, <2>3
  <2>4. CASE Box.type \in Markers
    BY <1>3, <1>4, <2>4
  <2>5. CASE Box.type \notin Markers \cup {"ftyp", "moov", "moof"}
    BY <2>5
  <2> QED
    BY <2>1, <2>2, <2>3, <2>4, <2>5
<1>6. error # "Ok"
  <2>1. FtypError(Box) # "Ok"
    BY <1>3 DEF FtypError
  <2>2. CASE Box.type = "ftyp"
    BY <1>4, <2>1, <2>2
  <2>3. CASE Box.type = "moov"
    BY <1>3, <1>4, <2>3
  <2>4. CASE Box.type = "moof"
    BY <1>3, <1>4, <2>4
  <2>5. CASE Box.type \in Markers
    BY <1>3, <1>4, <2>5
  <2>6. CASE Box.type \notin Markers \cup {"ftyp", "moov", "moof"}
    BY <1>3, <2>6
  <2> QED
    BY <2>2, <2>3, <2>4, <2>5, <2>6
<1> HIDE DEF error, r
<1>7. "ftyp" \in Wanted /\ "moov" \in Wanted
  BY DEF Wanted
<1>8. CASE error # None
  <2>1. Fail(error)
    BY <1>1, <1>8 DEF FailOr
  <2>2. \A t \in {"ftyp", "moov"} : Keeps(found, up, Box, t)
    BY <1>2, <1>7
  <2> HIDE DEF up
  <2>3. FileAhead(Ahead, found) => Fine
    BY <1>2, <2>2, FileJoins
  <2>4. ~TakenPair
    BY <1>2, <1>5, <1>8, <2>3 DEF Verdict
  <2> QED
    BY <1>6, <2>1, <2>4, FailVerdict
<1>9. CASE error = None
  <2>1. Pass
    BY <1>1, <1>9 DEF FailOr
  <2>2. /\ file' = file /\ loop' = "file" /\ result' = None /\ tracks' = tracks /\ cursor' <= end'
        /\ Ahead' = r /\ \A t \in {"ftyp", "moov"} : Keeps(found, found', Box, t)
    BY <1>1, <2>1, PassFacts, KeptIs DEF r
  <2>3. PICK k, fd, ts : k = Ahead' /\ fd = found' /\ ts = tracks'
    OBVIOUS
  <2>4. \A t \in {"ftyp", "moov"} : Keeps(found, fd, Box, t)
    BY <2>2, <2>3
  <2>5. Joins(Ahead, Box, k)
    BY <1>2, <2>2, <2>3
  <2>6. FileAhead(Ahead, found) <=> Fine /\ FileAhead(k, fd)
    BY <1>2, <2>4, <2>5, FileJoins
  <2>7. Verdict("file", k, fd, ts, 0)
    BY <1>2, <1>5, <1>9, <2>6, InTrakIs DEF Verdict
  <2> QED
    BY <2>2, <2>3, <2>7, InTrakIs, StepVerdict
<1> QED
  BY <1>8, <1>9

\* A box that parse_trak, parse_mdia, parse_stbl or verify_no_encryption reads.
LEMMA PassTrakVerdict ==
  ASSUME IInv, VerdictInv, NEW l \in InTrak, AtBox(l), Pass,
         \A k, fd : /\ Joins(Ahead, Box, k)
                    /\ \A t \in Kept(l) : Keeps(found, fd, Box, t)
                    /\ \A t \in Wanted \ Kept(l) : fd[t] = found[t]
                    => \A h \in Handlers : ThisTrak(l, Ahead, found, h) <=> ThisTrak(l, k, fd, h)
  PROVE  VerdictInv'
<1>1. l \in InMoov
  BY DEF InMoov
<1>2. /\ Joins(Ahead, Box, Children(file, End(Box), end))
      /\ Verdict(l, Ahead, found, tracks, NextTraks)
  BY <1>1, AtBoxFacts
<1>3. /\ file' = file /\ loop' = l /\ result' = None /\ tracks' = tracks /\ cursor' <= end'
      /\ Ahead' = Children(file, End(Box), end) /\ NextTraks' = NextTraks
      /\ \A t \in Kept(l) : Keeps(found, found', Box, t)
      /\ \A t \in Wanted \ Kept(l) : found'[t] = found[t]
  BY <1>1, PassFacts
<1>4. PICK k, fd, ts, n : k = Ahead' /\ fd = found' /\ ts = tracks /\ n = NextTraks
  OBVIOUS
<1>5. \A h \in Handlers : ThisTrak(l, Ahead, found, h) <=> ThisTrak(l, k, fd, h)
  BY <1>2, <1>3, <1>4
<1>6. Verdict(l, k, fd, ts, n)
  BY <1>2, <1>4, <1>5, TrakStep
<1> QED
  BY <1>3, <1>4, <1>6, StepVerdict

\* A box that ends the walk inside a trak.
LEMMA FailTrakVerdict ==
  ASSUME IInv, VerdictInv, loop \in InTrak, NEW error, Fail(error), error # "Ok",
         \A h \in Handlers : ~ThisTrak(loop, Ahead, found, h)
  PROVE  VerdictInv'
<1>1. ~TakenPair
  BY TrakFails DEF VerdictInv
<1> QED
  BY <1>1, FailVerdict

\* A box of trak,
LEMMA TrakBoxVerdict == ASSUME IInv, VerdictInv, TrakBox PROVE VerdictInv'
<1> DEFINE r == Children(file, End(Box), end)
           up == [u \in Wanted |-> IF u = Box.type THEN Box ELSE found[u]]
           Fine == Box.type = "tkhd" => TkhdOK(Box)
<1>1. AtBox("trak") /\ "trak" \in InTrak /\ "trak" \in InMoov /\ loop = "trak" /\ None # "MalformedAtom"
  BY InTrakIs, NoneAssumption DEF TrakBox, InMoov, AtBox, Errors
<1>2. Joins(Ahead, Box, r) /\ file \in Sources /\ \A t \in Wanted : Keeps(found, up, Box, t)
  BY <1>1, AtBoxFacts
<1>3. {"tkhd", "mdia"} \subseteq Wanted /\ {"tkhd", "mdia"} \subseteq Kept("trak")
  BY KeptIs DEF Wanted, OfTrack
<1> HIDE DEF r, up
<1>4. CASE ~Fine
  <2>1. Fail("MalformedAtom")
    BY <1>1, <1>4 DEF TrakBox, FailOr
  <2>2. \A h \in Handlers : ~ThisTrak(loop, Ahead, found, h)
    BY <1>1, <1>2, <1>3, <1>4, TrakJoins, ThisTrakIs
  <2> QED
    BY <1>1, <2>1, <2>2, FailTrakVerdict
<1>5. CASE Fine
  <2>1. Pass
    BY <1>1, <1>5 DEF TrakBox, FailOr
  <2>2. ASSUME NEW k, NEW fd, Joins(Ahead, Box, k), \A t \in Kept("trak") : Keeps(found, fd, Box, t),
               NEW h \in Handlers
        PROVE  ThisTrak("trak", Ahead, found, h) <=> ThisTrak("trak", k, fd, h)
    <3>1. TrakAhead(Ahead, found, h) <=> Fine /\ TrakAhead(k, fd, h)
      BY <1>2, <1>3, <2>2, TrakJoins
    <3> QED
      BY <1>5, <3>1, ThisTrakIs
  <2> QED
    BY <1>1, <2>1, <2>2, PassTrakVerdict
<1> QED
  BY <1>4, <1>5

\* of mdia,
LEMMA MdiaBoxVerdict == ASSUME IInv, VerdictInv, MdiaBox PROVE VerdictInv'
<1> DEFINE r == Children(file, End(Box), end)
           up == [u \in Wanted |-> IF u = Box.type THEN Box ELSE found[u]]
           Fine == (Box.type = "mdhd" => MdhdOK(Box)) /\ (Box.type = "hdlr" => HdlrOK(Box))
<1>1. AtBox("mdia") /\ "mdia" \in InTrak /\ "mdia" \in InMoov /\ loop = "mdia" /\ None # "MalformedAtom"
  BY InTrakIs, NoneAssumption DEF MdiaBox, InMoov, AtBox, Errors
<1>2. Joins(Ahead, Box, r) /\ file \in Sources /\ \A t \in Wanted : Keeps(found, up, Box, t)
  BY <1>1, AtBoxFacts
<1>3. {"mdhd", "hdlr", "minf"} \subseteq Wanted /\ {"mdhd", "hdlr", "minf"} \subseteq Kept("mdia")
  BY KeptIs DEF Wanted, OfTrack
<1> HIDE DEF r, up
<1>4. CASE ~Fine
  <2>1. Fail("MalformedAtom")
    BY <1>1, <1>4 DEF MdiaBox, FailOr
  <2>2. \A h \in Handlers : ~ThisTrak(loop, Ahead, found, h)
    BY <1>1, <1>2, <1>3, <1>4, MdiaJoins, ThisTrakIs
  <2> QED
    BY <1>1, <2>1, <2>2, FailTrakVerdict
<1>5. CASE Fine
  <2>1. Pass
    BY <1>1, <1>5 DEF MdiaBox, FailOr
  <2>2. ASSUME NEW k, NEW fd, Joins(Ahead, Box, k), \A t \in Kept("mdia") : Keeps(found, fd, Box, t),
               NEW h \in Handlers
        PROVE  ThisTrak("mdia", Ahead, found, h) <=> ThisTrak("mdia", k, fd, h)
    <3>1. MdiaAhead(Ahead, found, h) <=> Fine /\ MdiaAhead(k, fd, h)
      BY <1>2, <1>3, <2>2, MdiaJoins
    <3> QED
      BY <1>5, <3>1, ThisTrakIs
  <2> QED
    BY <1>1, <2>1, <2>2, PassTrakVerdict
<1> QED
  BY <1>4, <1>5

\* of stbl,
LEMMA StblBoxVerdict == ASSUME IInv, VerdictInv, StblBox PROVE VerdictInv'
<1> DEFINE r == Children(file, End(Box), end)
           up == [u \in Wanted |-> IF u = Box.type THEN Box ELSE found[u]]
           error == CASE Box.type \in {"sbgp", "sgpd"} -> GroupError(Box)
                      [] Box.type = "senc" -> "EncryptedInput"
                      [] OTHER -> None
           Fine == Box.type # "senc" /\ (Box.type \in {"sbgp", "sgpd"} => GroupError(Box) = None)
<1>1. AtBox("stbl") /\ "stbl" \in InTrak /\ "stbl" \in InMoov /\ loop = "stbl" /\ FailOr(error, Pass)
  BY InTrakIs DEF StblBox, InMoov, AtBox
<1>2. Joins(Ahead, Box, r) /\ file \in Sources /\ \A t \in Wanted : Keeps(found, up, Box, t)
  BY <1>1, AtBoxFacts
<1>3. /\ {"stsd"} \cup Tables \subseteq Wanted /\ {"stsd"} \cup Tables = Kept("stbl")
      /\ "hdlr" \in Wanted \ Kept("stbl")
  BY KeptIs DEF Wanted, OfTrack, Tables
<1>4. None # "MalformedAtom" /\ None # "EncryptedInput" /\ None # "Ok"
  BY NoneAssumption DEF Errors
<1>5. (error = None <=> Fine) /\ error # "Ok"
  <2>1. GroupError(Box) # "Ok"
    BY <1>4 DEF GroupError
  <2>2. CASE Box.type \in {"sbgp", "sgpd"}
    BY <2>1, <2>2
  <2>3. CASE Box.type = "senc"
    BY <1>4, <2>3
  <2>4. CASE Box.type \notin {"sbgp", "sgpd", "senc"}
    BY <1>4, <2>4
  <2> QED
    BY <2>2, <2>3, <2>4
<1> HIDE DEF r, error
<1>6. CASE error # None
  <2>1. Fail(error)
    BY <1>1, <1>6 DEF FailOr
  <2>2. PICK fd : fd["hdlr"] = found["hdlr"] /\ \A t \in {"stsd"} \cup Tables : Keeps(found, fd, Box, t)
    <3> DEFINE fd == [u \in Wanted |-> IF u \in {"stsd"} \cup Tables THEN up[u] ELSE found[u]]
    <3>1. fd["hdlr"] = found["hdlr"]
      BY <1>3
    <3>2. \A t \in {"stsd"} \cup Tables : fd[t] = up[t]
      BY <1>3
    <3>3. \A t \in {"stsd"} \cup Tables : Keeps(found, fd, Box, t)
      BY <1>2, <1>3, <3>2 DEF Keeps
    <3> QED
      BY <3>1, <3>3
  <2>3. \A h : StblAhead(Ahead, found, h) => Fine
    BY <1>2, <2>2, StblJoins
  <2>4. \A h \in Handlers : ~ThisTrak(loop, Ahead, found, h)
    BY <1>1, <1>5, <1>6, <2>3, ThisTrakIs
  <2> QED
    BY <1>1, <1>5, <2>1, <2>4, FailTrakVerdict
<1>7. CASE error = None
  <2>1. Pass
    BY <1>1, <1>7 DEF FailOr
  <2>2. ASSUME NEW k, NEW fd, Joins(Ahead, Box, k), \A t \in Kept("stbl") : Keeps(found, fd, Box, t),
               \A t \in Wanted \ Kept("stbl") : fd[t] = found[t],
               NEW h \in Handlers
        PROVE  ThisTrak("stbl", Ahead, found, h) <=> ThisTrak("stbl", k, fd, h)
    <3>1. fd["hdlr"] = found["hdlr"] /\ \A t \in {"stsd"} \cup Tables : Keeps(found, fd, Box, t)
      BY <1>3, <2>2
    <3>2. StblAhead(Ahead, found, h) <=> Fine /\ StblAhead(k, fd, h)
      BY <1>2, <2>2, <3>1, StblJoins
    <3> QED
      BY <1>5, <1>7, <3>2, ThisTrakIs
  <2> QED
    BY <1>1, <2>1, <2>2, PassTrakVerdict
<1> QED
  BY <1>6, <1>7

\* and of the sample entry.
LEMMA EntryBoxVerdict == ASSUME IInv, VerdictInv, EntryBox PROVE VerdictInv'
<1> DEFINE r == Children(file, End(Box), end)
           Fine == Box.type \notin Markers
<1>1. AtBox("entry") /\ "entry" \in InTrak /\ "entry" \in InMoov /\ loop = "entry" /\ None # "EncryptedInput"
  BY InTrakIs, NoneAssumption DEF EntryBox, InMoov, AtBox, Errors
<1>2. Joins(Ahead, Box, r)
  BY <1>1, AtBoxFacts
<1> HIDE DEF r
<1>3. {"hdlr", "entry", "stts", "stsc", "stsz", "stco", "co64"} \subseteq Wanted \ Kept("entry")
  BY KeptIs DEF Wanted, OfTrack, Tables
<1>4. CASE ~Fine
  <2>1. Fail("EncryptedInput")
    BY <1>1, <1>4 DEF EntryBox, FailOr
  <2>2. \A h \in Handlers : ~ThisTrak(loop, Ahead, found, h)
    BY <1>1, <1>2, <1>4, EntryJoins, ThisTrakIs
  <2> QED
    BY <1>1, <2>1, <2>2, FailTrakVerdict
<1>5. CASE Fine
  <2>1. Pass
    BY <1>1, <1>5 DEF EntryBox, FailOr
  <2>2. ASSUME NEW k, NEW fd, Joins(Ahead, Box, k), \A t \in Wanted \ Kept("entry") : fd[t] = found[t],
               NEW h \in Handlers
        PROVE  ThisTrak("entry", Ahead, found, h) <=> ThisTrak("entry", k, fd, h)
    <3>1. EntryAhead(Ahead, found, h) <=> EntryAhead(k, found, h)
      BY <1>5, <2>2, EntryJoins
    <3>2. \A t \in {"hdlr", "entry", "stts", "stsc", "stsz", "stco", "co64"} : fd[t] = found[t]
      BY <1>3, <2>2
    <3>3. EntryAhead(k, found, h) <=> EntryAhead(k, fd, h)
      BY <3>2 DEF EntryAhead, TablesFound
    <3> QED
      BY <3>1, <3>3, ThisTrakIs
  <2> QED
    BY <1>1, <2>1, <2>2, PassTrakVerdict
<1> QED
  BY <1>4, <1>5

\* A step that enters a box inside a trak.
LEMMA EnterVerdict ==
  ASSUME IInv, VerdictInv, loop \in InTrak, NEW m \in InTrak, NEW s, NEW e, Enter(m, s, e), s <= e,
         found'["trak"] = found["trak"], found'["moov"] = found["moov"],
         \A k, fd : k = Children(file, s, e) /\ fd = found' =>
           \A h \in Handlers : ThisTrak(loop, Ahead, found, h) <=> ThisTrak(m, k, fd, h)
  PROVE  VerdictInv'
<1>1. /\ loop' = m /\ cursor' = s /\ end' = e /\ UNCHANGED <<file, tracks, result>>
  BY DEF Enter
<1>2. Verdict(loop, Ahead, found, tracks, NextTraks) /\ result = None
  BY InTrakIs DEF VerdictInv
<1>3. NextTraks' = NextTraks
  BY <1>1 DEF NextTraks, End
<1>4. Ahead' = Children(file, s, e)
  BY <1>1 DEF Ahead
<1>5. PICK k, fd, ts, n : k = Ahead' /\ fd = found' /\ ts = tracks /\ n = NextTraks
  OBVIOUS
<1>6. \A h \in Handlers : ThisTrak(loop, Ahead, found, h) <=> ThisTrak(m, k, fd, h)
  BY <1>4, <1>5
<1>7. Verdict(m, k, fd, ts, n)
  BY <1>2, <1>5, <1>6, TrakStep
<1> QED
  BY <1>1, <1>2, <1>3, <1>5, <1>7, StepVerdict

\* A box of minf: the first stbl is entered, others are passed.
LEMMA MinfBoxVerdict == ASSUME IInv, VerdictInv, MinfBox PROVE VerdictInv'
<1> DEFINE r == Children(file, End(Box), end)
<1>1. AtBox("minf") /\ "minf" \in InTrak /\ "minf" \in InMoov /\ loop = "minf" /\ "stbl" \in InTrak
  BY InTrakIs DEF MinfBox, InMoov, AtBox
<1>2. Joins(Ahead, Box, r) /\ IsBox(Box)
  BY <1>1, AtBoxFacts
<1> HIDE DEF r
<1>3. CASE Box.type = "stbl"
  <2>1. Enter("stbl", Payload(Box), End(Box)) /\ found' = found
    BY <1>3 DEF MinfBox
  <2>2. Payload(Box) <= End(Box)
    BY <1>2, PayloadInside
  <2>3. \A t \in {"stsd"} \cup Tables : found[t] = None
    BY <1>1, Unfold, KeptIs DEF FreshInv, NothingOf
  <2>4. ASSUME NEW h
        PROVE  ThisTrak("minf", Ahead, found, h) <=> ThisTrak("stbl", Inside(Box), found, h)
    <3>1. MinfAhead(Ahead, found, h) <=> Handler(found["hdlr"]) = h /\ TakenStbl(Inside(Box), h)
      BY <1>2, <1>3, MinfJoins
    <3>2. StblAhead(Inside(Box), found, h) <=> Handler(found["hdlr"]) = h /\ TakenStbl(Inside(Box), h)
      BY <2>3, StblStarts
    <3> QED
      BY <3>1, <3>2, ThisTrakIs
  <2>5. Children(file, Payload(Box), End(Box)) = Inside(Box)
    BY DEF Inside, Kids, Payload, End
  <2> QED
    BY <1>1, <2>1, <2>2, <2>4, <2>5, EnterVerdict
<1>4. CASE Box.type # "stbl"
  <2>1. Pass
    BY <1>4 DEF MinfBox
  <2>2. "hdlr" \in Wanted \ Kept("minf")
    BY KeptIs DEF Wanted, OfTrack
  <2>3. ASSUME NEW k, NEW fd, Joins(Ahead, Box, k), \A t \in Wanted \ Kept("minf") : fd[t] = found[t],
               NEW h \in Handlers
        PROVE  ThisTrak("minf", Ahead, found, h) <=> ThisTrak("minf", k, fd, h)
    <3>1. MinfAhead(Ahead, found, h) <=> MinfAhead(k, found, h)
      BY <1>4, <2>3, MinfJoins
    <3>2. MinfAhead(k, found, h) <=> MinfAhead(k, fd, h)
      BY <2>2, <2>3 DEF MinfAhead
    <3> QED
      BY <3>1, <3>2, ThisTrakIs
  <2> QED
    BY <1>1, <2>1, <2>3, PassTrakVerdict
<1> QED
  BY <1>3, <1>4

\* The one entry of stsd is entered.
LEMMA StsdBoxVerdict == ASSUME IInv, VerdictInv, StsdBox PROVE VerdictInv'
<1> DEFINE r == Children(file, End(Box), end)
           g == Handler(found["hdlr"])
<1>1. AtBox("stsd") /\ "stsd" \in InTrak /\ "stsd" \in InMoov /\ loop = "stsd" /\ "entry" \in InTrak
  BY InTrakIs DEF StsdBox, InMoov, AtBox
<1>2. Joins(Ahead, Box, r) /\ IsBox(Box) /\ file \in Sources /\ DOMAIN found = Wanted
  BY <1>1, AtBoxFacts
<1>3. end = End(found["stsd"])
  BY <1>1, Unfold DEF CursorInv
<1>4. {"hdlr", "entry", "trak", "moov"} \cup Tables \subseteq Wanted /\ "entry" \notin {"hdlr"} \cup Tables
  BY DEF Wanted, OfTrack, Tables
<1> HIDE DEF r
<1>5. ASSUME NEW fd, fd = [found EXCEPT !["entry"] = Box], NEW h \in Handlers
      PROVE  ThisTrak("stsd", Ahead, found, h) <=>
               End(Box) = end /\ ThisTrak("entry", Children(file, ChildrenStart(Box, g), End(Box)), fd, h)
  <2>1. fd["entry"] = Box /\ \A t \in {"hdlr"} \cup Tables : fd[t] = found[t]
    BY <1>2, <1>4, <1>5
  <2>2. StsdAhead(Ahead, found, h) <=>
           End(Box) = end /\ EntryAhead(Children(file, ChildrenStart(Box, g), End(Box)), fd, h)
    <3>1. StsdAhead(Ahead, found, h) <=>
            /\ End(Box) = End(found["stsd"])
            /\ EntryAhead(Children(file, ChildrenStart(Box, Handler(found["hdlr"])), End(Box)), fd, h)
      BY <1>2, <2>1, EntryStarts
    <3> QED
      BY <1>3, <3>1
  <2> QED
    BY <2>2, ThisTrakIs
<1>6. CASE End(Box) # end
  <2>1. Fail("MalformedAtom")
    BY <1>6 DEF StsdBox
  <2>2. PICK fd : fd = [found EXCEPT !["entry"] = Box]
    OBVIOUS
  <2>3. \A h \in Handlers : ~ThisTrak(loop, Ahead, found, h)
    BY <1>1, <1>5, <1>6, <2>2
  <2> QED
    BY <1>1, <2>1, <2>3, FailTrakVerdict
<1>7. CASE End(Box) = end
  <2>1. Enter("entry", ChildrenStart(Box, g), End(Box)) /\ found' = [found EXCEPT !["entry"] = Box]
    BY <1>7 DEF StsdBox
  <2>2. found'["trak"] = found["trak"] /\ found'["moov"] = found["moov"]
    BY <1>2, <1>4, <2>1
  <2>3. ChildrenStart(Box, g) <= End(Box)
    <3>1. /\ Payload(Box) \in Nat /\ End(Box) \in Nat /\ PayloadLen(Box) \in Nat
          /\ Payload(Box) + PayloadLen(Box) = End(Box)
      BY <1>2, PayloadInside
    <3> QED
      BY <3>1 DEF ChildrenStart, Prefix
  <2> HIDE DEF g
  <2> QED
    BY <1>1, <1>5, <1>7, <2>1, <2>2, <2>3, EnterVerdict
<1> QED
  BY <1>6, <1>7

\* What holds when a loop ends.
LEMMA AtEndFacts ==
  ASSUME IInv, VerdictInv, NEW l \in InMoov \cup {"file"}, AtEnd(l)
  PROVE  /\ Ended(Ahead) /\ loop = l /\ result = None /\ file \in Sources /\ DOMAIN found = Wanted
         /\ Verdict(l, Ahead, found, tracks, NextTraks)
<1>1. loop = l /\ l # "done" /\ cursor >= end
  BY DEF AtEnd, InMoov, InTrak, InMinf, InStbl
<1>2. file \in Sources /\ DOMAIN found = Wanted /\ cursor \in Nat /\ end \in Nat
  BY Unfold DEF CursorInv
<1>3. cursor <= end /\ result = None /\ Verdict(l, Ahead, found, tracks, NextTraks)
  BY <1>1 DEF VerdictInv
<1>4. Ended(Ahead)
  BY <1>1, <1>2, <1>3, AheadStep
<1> QED
  BY <1>1, <1>2, <1>3, <1>4

\* What is inside of a box.
LEMMA InsideIs ==
  ASSUME NEW b PROVE Children(file, Payload(b), End(b)) = Inside(b)
  BY DEF Inside, Kids, Payload, End

\* The ends of the loops: of the file,
LEMMA TopEndVerdict == ASSUME IInv, VerdictInv, TopEnd PROVE VerdictInv'
<1>1. AtEnd("file")
  BY DEF TopEnd
<1>2. /\ Ended(Ahead) /\ loop = "file" /\ result = None
      /\ Verdict("file", Ahead, found, tracks, NextTraks)
  BY <1>1, AtEndFacts
<1>3. TakenPair <=> found["ftyp"] # None /\ found["moov"] # None /\ Completes(<<>>, Inside(found["moov"]))
  BY <1>2, FileEnds DEF Verdict
<1>4. CASE found["ftyp"] = None \/ found["moov"] = None
  <2>1. Fail("MissingAtom")
    BY <1>4 DEF TopEnd
  <2> QED
    BY <1>3, <1>4, <2>1, FailVerdict
<1>5. CASE found["ftyp"] # None /\ found["moov"] # None
  <2>1. Descend("moov", "moov")
    BY <1>5 DEF TopEnd
  <2>2. /\ loop' = "moov" /\ cursor' = Payload(found["moov"]) /\ end' = End(found["moov"])
        /\ UNCHANGED <<file, tracks, found, result>>
    BY <2>1 DEF Descend, Enter
  <2>3. tracks = <<>> /\ IsBox(found["moov"])
    BY <1>2, <1>5, Unfold DEF FreshInv, In
  <2>4. cursor' <= end'
    BY <2>2, <2>3, PayloadInside
  <2>5. Ahead' = Inside(found["moov"])
    <3>1. Ahead' = Children(file, Payload(found["moov"]), End(found["moov"]))
      BY <2>2 DEF Ahead
    <3> QED
      BY <3>1, InsideIs
  <2>6. PICK k, fd, ts : k = Ahead' /\ fd = found /\ ts = tracks
    OBVIOUS
  <2>7. Verdict("moov", k, fd, ts, 0)
    BY <1>3, <1>5, <2>3, <2>5, <2>6, InTrakIs DEF Verdict
  <2> QED
    BY <1>2, <2>2, <2>4, <2>6, <2>7, InTrakIs, StepVerdict
<1> QED
  BY <1>4, <1>5

\* parse_trak starts, or the loop over moov goes on.
LEMMA MoovBoxVerdict == ASSUME IInv, VerdictInv, MoovBox PROVE VerdictInv'
<1> DEFINE r == Children(file, End(Box), end)
<1>1. AtBox("moov") /\ "moov" \in InMoov
  BY DEF MoovBox, InMoov
<1>2. /\ Joins(Ahead, Box, r) /\ IsBox(Box) /\ Verdict("moov", Ahead, found, tracks, NextTraks)
      /\ loop = "moov" /\ result = None /\ file \in Sources /\ DOMAIN found = Wanted
  BY <1>1, AtBoxFacts
<1>3. TakenPair <=> Completes(tracks, Ahead)
  BY <1>2 DEF Verdict
<1>4. CASE Box.type = "trak"
  <2>1. Enter("trak", Payload(Box), End(Box)) /\ found' = [found EXCEPT !["trak"] = Box]
    BY <1>4 DEF MoovBox
  <2>2. /\ loop' = "trak" /\ cursor' = Payload(Box) /\ end' = End(Box)
        /\ UNCHANGED <<file, tracks, result>>
    BY <2>1 DEF Enter
  <2>3. cursor' <= end'
    BY <1>2, <2>2, PayloadInside
  <2>4. Ahead' = Inside(Box)
    <3>1. Ahead' = Children(file, Payload(Box), End(Box))
      BY <2>2 DEF Ahead
    <3> QED
      BY <3>1, InsideIs
  <2>5. {"trak", "moov", "tkhd", "mdia"} \subseteq Wanted /\ {"tkhd", "mdia"} \subseteq OfTrack
    BY DEF Wanted, OfTrack
  <2>6. /\ found'["trak"] = Box /\ found'["moov"] = found["moov"]
        /\ found'["tkhd"] = found["tkhd"] /\ found'["mdia"] = found["mdia"]
    BY <1>2, <2>1, <2>5
  <2>7. found["tkhd"] = None /\ found["mdia"] = None /\ end = End(found["moov"])
    BY <1>2, <2>5, Unfold DEF FreshInv, NothingOf, CursorInv
  <2>8. NextTraks' = r
    BY <2>2, <2>6, <2>7 DEF NextTraks, End
  <2>9. PICK k, fd, ts, n : k = Ahead' /\ fd = found' /\ ts = tracks /\ n = r
    OBVIOUS
  <2>10. \A h : ThisTrak("trak", k, fd, h) <=> TakenTrak(Inside(Box), h)
    <3>1. \A t \in {"tkhd", "mdia"} : fd[t] = None
      BY <2>6, <2>7, <2>9
    <3> QED
      BY <2>4, <2>9, <3>1, TrakStarts, ThisTrakIs
  <2>11. Completes(tracks, Ahead) <=>
           \E h \in Handlers : TakenTrak(Inside(Box), h) /\ CompletesWith(tracks, h, r)
    BY <1>2, <1>4, MoovJoinsTrak
  <2>12. TakenPair <=> \E h \in Handlers : ThisTrak("trak", k, fd, h) /\ CompletesWith(ts, h, n)
    BY <1>3, <2>9, <2>10, <2>11
  <2>13. Verdict("trak", k, fd, ts, n)
    BY <2>12, InTrakIs DEF Verdict
  <2> QED
    BY <1>2, <2>2, <2>3, <2>8, <2>9, <2>13, StepVerdict
<1>5. CASE Box.type # "trak"
  <2>1. Pass
    BY <1>5 DEF MoovBox
  <2>2. /\ file' = file /\ loop' = "moov" /\ result' = None /\ tracks' = tracks /\ cursor' <= end'
        /\ Ahead' = r
    BY <1>1, <2>1, PassFacts
  <2>3. PICK k, fd, ts : k = Ahead' /\ fd = found' /\ ts = tracks
    OBVIOUS
  <2>4. Completes(tracks, Ahead) <=> Completes(tracks, r)
    BY <1>2, <1>5, MoovJoins
  <2>5. Verdict("moov", k, fd, ts, 0)
    BY <1>3, <2>2, <2>3, <2>4, InTrakIs DEF Verdict
  <2> QED
    BY <2>2, <2>3, <2>5, InTrakIs, StepVerdict
<1> QED
  BY <1>4, <1>5

\* of moov,
LEMMA MoovEndVerdict == ASSUME IInv, VerdictInv, MoovEnd PROVE VerdictInv'
<1>1. AtEnd("moov") /\ "moov" \in InMoov
  BY DEF MoovEnd, InMoov
<1>2. Ended(Ahead) /\ Verdict("moov", Ahead, found, tracks, NextTraks)
  BY <1>1, AtEndFacts
<1>3. TakenPair <=> Len(tracks) = 2 /\ {tracks[1].handler, tracks[2].handler} = {"vide", "soun"}
  BY <1>2, MoovEnds DEF Verdict, Handlers
<1>4. CASE TakenPair
  <2>1. result' = "Ok" /\ loop' = "done" /\ file' = file
    BY <1>3, <1>4 DEF MoovEnd
  <2>2. TakenPair'
    BY <1>4, <2>1, SamePair
  <2>3. AcceptsTaken'
    BY <2>1, <2>2 DEF AcceptsTaken
  <2>4. Verdict(loop, Ahead, found, tracks, NextTraks)'
    BY <2>1 DEF Verdict, InTrak, InMinf, InStbl
  <2> QED
    BY <2>1, <2>3, <2>4 DEF VerdictInv
<1>5. CASE ~TakenPair
  <2>1. Fail("UnsupportedTrackLayout")
    BY <1>3, <1>5 DEF MoovEnd
  <2> QED
    BY <1>5, <2>1, FailVerdict
<1> QED
  BY <1>4, <1>5

\* of trak,
LEMMA TrakEndVerdict == ASSUME IInv, VerdictInv, TrakEnd PROVE VerdictInv'
<1>1. AtEnd("trak") /\ "trak" \in InMoov /\ "trak" \in InTrak /\ "mdia" \in InTrak
  BY InTrakIs DEF TrakEnd, InMoov
<1>2. Ended(Ahead) /\ loop = "trak" /\ DOMAIN found = Wanted
  BY <1>1, AtEndFacts
<1>3. \A h : ThisTrak("trak", Ahead, found, h) <=>
         found["tkhd"] # None /\ found["mdia"] # None /\ TakenMdia(Inside(found["mdia"]), h)
  BY <1>2, TrakEnds, ThisTrakIs
<1>4. CASE found["tkhd"] = None \/ found["mdia"] = None
  <2>1. Fail("MissingAtom")
    BY <1>4 DEF TrakEnd
  <2>2. \A h \in Handlers : ~ThisTrak(loop, Ahead, found, h)
    BY <1>2, <1>3, <1>4
  <2> QED
    BY <1>1, <1>2, <2>1, <2>2, FailTrakVerdict
<1>5. CASE found["tkhd"] # None /\ found["mdia"] # None
  <2>1. Enter("mdia", Payload(found["mdia"]), End(found["mdia"])) /\ found' = found
    BY <1>5 DEF TrakEnd, Descend
  <2>2. IsBox(found["mdia"])
    BY <1>2, <1>5, Unfold, KeptIs, InTrakIs DEF TreeInv, ChildrenOf, In
  <2>3. Payload(found["mdia"]) <= End(found["mdia"])
    BY <2>2, PayloadInside
  <2>4. \A t \in {"mdhd", "hdlr", "minf"} : found[t] = None
    BY <1>2, Unfold, KeptIs DEF FreshInv, NothingOf
  <2>5. \A h : ThisTrak("mdia", Inside(found["mdia"]), found, h) <=> TakenMdia(Inside(found["mdia"]), h)
    BY <2>4, MdiaStarts, ThisTrakIs
  <2>6. Children(file, Payload(found["mdia"]), End(found["mdia"])) = Inside(found["mdia"])
    BY InsideIs
  <2> QED
    BY <1>1, <1>2, <1>3, <1>5, <2>1, <2>3, <2>5, <2>6, EnterVerdict
<1> QED
  BY <1>4, <1>5

\* of mdia,
LEMMA MdiaEndVerdict == ASSUME IInv, VerdictInv, MdiaEnd PROVE VerdictInv'
<1>1. AtEnd("mdia") /\ "mdia" \in InMoov /\ "mdia" \in InTrak /\ "minf" \in InTrak
  BY InTrakIs DEF MdiaEnd, InMoov
<1>2. Ended(Ahead) /\ loop = "mdia" /\ DOMAIN found = Wanted
  BY <1>1, AtEndFacts
<1>3. \A h : ThisTrak("mdia", Ahead, found, h) <=>
         /\ \A t \in {"mdhd", "hdlr", "minf"} : found[t] # None
         /\ ThisTrak("minf", Inside(found["minf"]), found, h)
  BY <1>2, MdiaEnds, ThisTrakIs
<1>4. CASE \E t \in {"mdhd", "hdlr", "minf"} : found[t] = None
  <2>1. Fail("MissingAtom")
    BY <1>4 DEF MdiaEnd
  <2>2. \A h \in Handlers : ~ThisTrak(loop, Ahead, found, h)
    BY <1>2, <1>3, <1>4
  <2> QED
    BY <1>1, <1>2, <2>1, <2>2, FailTrakVerdict
<1>5. CASE ~\E t \in {"mdhd", "hdlr", "minf"} : found[t] = None
  <2>1. Enter("minf", Payload(found["minf"]), End(found["minf"])) /\ found' = found
    BY <1>5 DEF MdiaEnd, Descend
  <2>2. IsBox(found["minf"])
    BY <1>2, <1>5, Unfold, KeptIs DEF TreeInv, ChildrenOf, In
  <2>3. Payload(found["minf"]) <= End(found["minf"])
    BY <2>2, PayloadInside
  <2>4. Children(file, Payload(found["minf"]), End(found["minf"])) = Inside(found["minf"])
    BY InsideIs
  <2> QED
    BY <1>1, <1>2, <1>3, <1>5, <2>1, <2>3, <2>4, EnterVerdict
<1> QED
  BY <1>4, <1>5

\* of minf,
LEMMA MinfEndVerdict == ASSUME IInv, VerdictInv, MinfEnd PROVE VerdictInv'
<1>1. AtEnd("minf") /\ "minf" \in InMoov /\ "minf" \in InTrak /\ Fail("MissingAtom")
  BY InTrakIs DEF MinfEnd, InMoov
<1>2. Ended(Ahead) /\ loop = "minf"
  BY <1>1, AtEndFacts
<1>3. At(Ahead, "stbl") = {}
  BY <1>2, EmptyAt DEF Ended
<1>4. \A h \in Handlers : ~ThisTrak(loop, Ahead, found, h)
  BY <1>2, <1>3, ThisTrakIs DEF MinfAhead, Has
<1> QED
  BY <1>1, <1>2, <1>4, FailTrakVerdict

\* of stbl,
LEMMA StblEndVerdict == ASSUME IInv, VerdictInv, StblEnd PROVE VerdictInv'
<1> DEFINE stsd == found["stsd"]
<1>1. AtEnd("stbl") /\ "stbl" \in InMoov /\ "stbl" \in InTrak /\ "stsd" \in InTrak
  BY InTrakIs DEF StblEnd, InMoov
<1>2. Ended(Ahead) /\ loop = "stbl" /\ DOMAIN found = Wanted
  BY <1>1, AtEndFacts
<1>3. \A h \in Handlers : ThisTrak("stbl", Ahead, found, h) <=>
         /\ stsd # None /\ StsdOK(stsd)
         /\ ThisTrak("stsd", Children(file, Payload(stsd) + 8, End(stsd)), found, h)
  <2> SUFFICES ASSUME NEW h \in Handlers
               PROVE  StblAhead(Ahead, found, h) <=>
                        /\ stsd # None /\ StsdOK(stsd)
                        /\ StsdAhead(Children(file, Payload(stsd) + 8, End(stsd)), found, h)
    BY ThisTrakIs
  <2>1. StblAhead(Ahead, found, h) <=>
           /\ Handler(found["hdlr"]) = h /\ TablesFound(found)
           /\ stsd # None /\ TakenEntry(stsd, h)
    BY <1>2, StblEnds
  <2>2. Handler(found["hdlr"]) = h /\ TablesFound(found) /\ TakenEntry(stsd, h) <=>
           StsdOK(stsd) /\ StsdAhead(Children(file, Payload(stsd) + 8, End(stsd)), found, h)
    BY StsdStarts
  <2> QED
    BY <2>1, <2>2
<1>4. CASE stsd = None
  <2>1. Fail("MissingAtom")
    BY <1>4 DEF StblEnd
  <2>2. \A h \in Handlers : ~ThisTrak(loop, Ahead, found, h)
    BY <1>2, <1>3, <1>4
  <2> QED
    BY <1>1, <1>2, <2>1, <2>2, FailTrakVerdict
<1>5. CASE stsd # None /\ ~StsdOK(stsd)
  <2>1. Fail("MalformedAtom")
    BY <1>5 DEF StblEnd
  <2>2. \A h \in Handlers : ~ThisTrak(loop, Ahead, found, h)
    BY <1>2, <1>3, <1>5
  <2> QED
    BY <1>1, <1>2, <2>1, <2>2, FailTrakVerdict
<1>6. CASE stsd # None /\ StsdOK(stsd)
  <2>1. Enter("stsd", Payload(stsd) + 8, End(stsd)) /\ found' = found
    BY <1>6 DEF StblEnd
  <2>2. IsBox(stsd)
    BY <1>2, <1>6, Unfold, KeptIs, InTrakIs DEF TreeInv, ChildrenOf, In, InMinf
  <2>3. Payload(stsd) + 8 <= End(stsd)
    <3>1. Payload(stsd) \in Nat /\ End(stsd) \in Nat
      BY <2>2, PayloadInside
    <3>2. Payload(stsd) + 8 < End(stsd)
      BY <1>6 DEF StsdOK
    <3> HIDE DEF stsd
    <3> QED
      BY <3>1, <3>2
  <2> HIDE DEF stsd
  <2> QED
    BY <1>1, <1>2, <1>3, <1>6, <2>1, <2>3, EnterVerdict
<1> QED
  BY <1>4, <1>5, <1>6

\* and of stsd.
LEMMA StsdEndVerdict == ASSUME IInv, VerdictInv, StsdEnd PROVE VerdictInv'
<1>1. AtEnd("stsd") /\ "stsd" \in InMoov /\ "stsd" \in InTrak /\ Fail("MalformedAtom")
  BY InTrakIs DEF StsdEnd, InMoov
<1>2. Ended(Ahead) /\ loop = "stsd"
  BY <1>1, AtEndFacts
<1>3. \A h \in Handlers : ~ThisTrak(loop, Ahead, found, h)
  BY <1>2, ThisTrakIs DEF StsdAhead, Ended
<1> QED
  BY <1>1, <1>2, <1>3, FailTrakVerdict

\* parse_trak returns.
LEMMA EntryEndVerdict == ASSUME IInv, VerdictInv, EntryEnd PROVE VerdictInv'
<1> DEFINE g == Handler(found["hdlr"])
           error == EntryError(found["entry"], g)
<1>1. AtEnd("entry") /\ "entry" \in InMoov /\ "entry" \in InTrak
  BY InTrakIs DEF EntryEnd, InMoov
<1>2. /\ Ended(Ahead) /\ loop = "entry" /\ DOMAIN found = Wanted /\ result = None
      /\ Verdict("entry", Ahead, found, tracks, NextTraks)
  BY <1>1, AtEndFacts
<1>3. TablesError = None <=> TablesFound(found)
  BY TablesErrorIs
<1>4. \A h : ThisTrak("entry", Ahead, found, h) <=> g = h /\ TablesError = None /\ error = None
  <2> SUFFICES ASSUME NEW h
               PROVE  EntryAhead(Ahead, found, h) <=> g = h /\ TablesError = None /\ error = None
    BY ThisTrakIs
  <2>1. EntryAhead(Ahead, found, h) <=>
          g = h /\ TablesFound(found) /\ EntryError(found["entry"], h) = None
    BY <1>2, EntryEnds
  <2> QED
    BY <1>3, <2>1
<1>5. None # "Ok" /\ TablesError # "Ok" /\ error # "Ok"
  BY NoneAssumption DEF TablesError, EntryError
<1> HIDE DEF error
<1>6. CASE error # None \/ TablesError # None
  <2>1. \/ Fail(error) \/ Fail(TablesError)
    BY <1>6 DEF EntryEnd, FailOr, error
  <2>2. \A h \in Handlers : ~ThisTrak(loop, Ahead, found, h)
    BY <1>2, <1>4, <1>6
  <2> QED
    BY <1>1, <1>2, <1>5, <2>1, <2>2, FailTrakVerdict
<1>7. CASE error = None /\ TablesError = None
  <2>1. /\ tracks' = Append(tracks, Track)
        /\ loop' = "moov" /\ cursor' = End(found["trak"]) /\ end' = End(found["moov"])
        /\ UNCHANGED <<file, result>>
    BY <1>7 DEF EntryEnd, FailOr, error
  <2>2. Track.handler = g
    BY DEF Track
  <2>3. PICK S : tracks \in Seq(S)
    BY Unfold DEF TracksInv
  <2>4. cursor' <= end'
    BY <1>2, <2>1, Unfold, InTrakIs DEF TreeInv, In
  <2>5. Ahead' = NextTraks
    BY <2>1 DEF Ahead, NextTraks
  <2>6. TakenPair <=> \E h \in Handlers : g = h /\ CompletesWith(tracks, h, NextTraks)
    BY <1>1, <1>2, <1>4, <1>7 DEF Verdict
  <2>7. (\E h \in Handlers : Track.handler = h /\ CompletesWith(tracks, h, NextTraks))
          <=> Completes(Append(tracks, Track), NextTraks)
    BY <2>3, CompletesAppended
  <2>8. PICK k, fd, ts : k = Ahead' /\ fd = found' /\ ts = tracks'
    OBVIOUS
  <2> HIDE DEF g
  <2>9. TakenPair <=> Completes(ts, k)
    BY <2>1, <2>2, <2>5, <2>6, <2>7, <2>8
  <2>10. Verdict("moov", k, fd, ts, 0)
    BY <2>9, InTrakIs DEF Verdict
  <2> QED
    BY <1>2, <2>1, <2>4, <2>8, <2>10, InTrakIs, StepVerdict
<1> QED
  BY <1>6, <1>7

-----------------------------------------------------------------------------
\* Initially all is left to see.
LEMMA InitVerdict == DemuxInit => VerdictInv
<1> SUFFICES ASSUME DemuxInit PROVE VerdictInv
  OBVIOUS
<1>1. /\ file \in Sources /\ loop = "file" /\ cursor = 0 /\ end = file.len /\ result = None
      /\ \A t \in Wanted : found[t] = None
  BY DEF DemuxInit
<1>2. {"ftyp", "moov"} \subseteq Wanted
  BY DEF Wanted
<1>3. cursor <= end /\ file.len \in Nat
  BY <1>1, DemuxAssumption
<1>4. AcceptsTaken
  BY <1>1, NoneAssumption DEF AcceptsTaken
<1>5. PICK k : k = Children(file, 0, file.len)
  OBVIOUS
<1>6. Ahead = k
  BY <1>1, <1>5 DEF Ahead
<1>7. IsBoxes(k)
  <2>1. 0 \in Nat /\ 0 <= file.len
    BY <1>3
  <2>2. k \in [boxes : Seq(Headers(file)), whole : BOOLEAN]
    BY <1>1, <1>3, <1>5, <2>1, ChildrenType
  <2> QED
    BY <2>2 DEF IsBoxes
<1>8. /\ Present("ftyp", k, found) <=> At(k, "ftyp") # {}
      /\ OnlyMoov(k, found) <=> \E i \in DOMAIN k.boxes : At(k, "moov") = {i}
  BY <1>1, <1>2 DEF Present, OnlyMoov
<1>9. ASSUME NEW i \in DOMAIN k.boxes, At(k, "moov") = {i}
      PROVE  Latest("moov", k, found) = FirstOf(k, "moov")
  <2>1. i \in At(k, "moov") /\ i \in Nat
    BY <1>7, <1>9 DEF IsBoxes
  <2>2. FirstOf(k, "moov") = k.boxes[i]
    BY <1>7, <1>9, <2>1, FirstIs
  <2>3. LastOf(k, "moov") = k.boxes[i]
    BY <1>7, <1>9, <2>1, LastIs
  <2> QED
    BY <1>9, <2>2, <2>3 DEF Latest
<1>10. FileAhead(k, found) <=> TakenPair
  <2>1. TakenPair <=>
          /\ k.whole /\ Has(k, {"ftyp"})
          /\ \E i \in DOMAIN k.boxes : At(k, "moov") = {i}
          /\ At(k, "moof") = {} /\ Unmarked(k)
          /\ All(k, "ftyp", LAMBDA b : FtypError(b) = None)
          /\ Inside(FirstOf(k, "moov")).whole
          /\ TwoTraks(Inside(FirstOf(k, "moov")))
    BY <1>5 DEF TakenPair, TwoTraks
  <2>2. FileAhead(k, found) <=>
          /\ k.whole /\ Present("ftyp", k, found) /\ OnlyMoov(k, found)
          /\ At(k, "moof") = {} /\ Unmarked(k)
          /\ All(k, "ftyp", LAMBDA b : FtypError(b) = None)
          /\ Inside(Latest("moov", k, found)).whole
          /\ TwoTraks(Inside(Latest("moov", k, found)))
    BY DEF FileAhead
  <2>3. Has(k, {"ftyp"}) <=> At(k, "ftyp") # {}
    BY DEF Has
  <2>4. CASE \E i \in DOMAIN k.boxes : At(k, "moov") = {i}
    <3>1. Latest("moov", k, found) = FirstOf(k, "moov")
      BY <1>9, <2>4
    <3> QED
      BY <1>8, <2>1, <2>2, <2>3, <3>1
  <2>5. CASE ~\E i \in DOMAIN k.boxes : At(k, "moov") = {i}
    BY <1>8, <2>1, <2>2, <2>5
  <2> QED
    BY <2>4, <2>5
<1>11. Verdict(loop, Ahead, found, tracks, NextTraks)
  BY <1>1, <1>6, <1>10, InTrakIs DEF Verdict
<1> QED
  BY <1>1, <1>3, <1>4, <1>11 DEF VerdictInv

\* Every step of the walk.
LEMMA NextVerdict == IInv /\ VerdictInv /\ [DemuxNext]_demuxVars => VerdictInv'
<1> SUFFICES ASSUME IInv, VerdictInv, [DemuxNext]_demuxVars PROVE VerdictInv'
  OBVIOUS
<1>1. CASE ReadError
  BY <1>1, FailVerdict DEF ReadError
<1>2. CASE UNCHANGED demuxVars
  <2>1. UNCHANGED <<file, loop, cursor, end, found, tracks, result>>
    BY <1>2 DEF demuxVars
  <2>2. Ahead' = Ahead /\ NextTraks' = NextTraks
    BY <2>1 DEF Ahead, NextTraks, End
  <2>3. TakenPair' <=> TakenPair
    BY <2>1, SamePair
  <2>4. PICK l, k, fd, ts, n : l = loop /\ k = Ahead /\ fd = found /\ ts = tracks /\ n = NextTraks
    OBVIOUS
  <2>5. Verdict(l, k, fd, ts, n)
    BY <2>4 DEF VerdictInv
  <2>6. Verdict(l, k, fd, ts, n)'
    BY <2>1, <2>5, SameFile
  <2>7. Verdict(loop, Ahead, found, tracks, NextTraks)'
    BY <2>1, <2>2, <2>4, <2>6 DEF Verdict
  <2>8. AcceptsTaken'
    BY <2>1, <2>3 DEF VerdictInv, AcceptsTaken
  <2> QED
    BY <2>1, <2>7, <2>8 DEF VerdictInv
<1> QED
  BY <1>1, <1>2, BadHeaderVerdict, SkipUuidVerdict, TopBoxVerdict, TopEndVerdict, MoovBoxVerdict,
     MoovEndVerdict, TrakBoxVerdict, TrakEndVerdict, MdiaBoxVerdict, MdiaEndVerdict, MinfBoxVerdict,
     MinfEndVerdict, StblBoxVerdict, StblEndVerdict, StsdBoxVerdict, StsdEndVerdict, EntryBoxVerdict,
     EntryEndVerdict DEF DemuxNext, Walk

\* In the code's reading, a sign of encryption is one of its markers,
LEMMA TakenClear ==
  ASSUME NEW k
  PROVE  /\ Clear(Taken, "file", k) <=> Unmarked(k)
         /\ Clear(Taken, "entry", k) <=> Unmarked(k)
         /\ \A l \in {"moov", "trak", "mdia", "minf"} : Clear(Taken, l, k)
<1>1. ~Taken.strays /\ Taken.groups
  BY DEF Taken
<1>2. \A l \in {"file", "entry"} : LookedFor(l) = Signs \cup Groups
  BY DEF LookedFor
<1>3. \A l \in {"moov", "trak", "mdia", "minf"} : LookedFor(l) = {}
  BY DEF LookedFor
<1>4. Markers = Signs \cup Groups
  BY DEF Markers, Signs, Groups
<1>5. Unmarked(k) <=> \A i \in DOMAIN k.boxes : k.boxes[i].type \notin Markers
  BY DEF Unmarked, At
<1>6. \A l \in {"file", "entry"} :
        Clear(Taken, l, k) <=> \A i \in DOMAIN k.boxes : k.boxes[i].type \notin Markers
  BY <1>1, <1>2, <1>4 DEF Clear
<1> QED
  BY <1>1, <1>3, <1>5, <1>6 DEF Clear

\* or, in stbl, senc or a group that check_grouping_type refuses.
LEMMA TakenClearStbl ==
  ASSUME NEW k
  PROVE  Clear(Taken, "stbl", k) <=>
           /\ At(k, "senc") = {}
           /\ \A t \in {"sbgp", "sgpd"} : All(k, t, LAMBDA b : GroupError(b) = None)
<1>1. ~Taken.strays /\ LookedFor("stbl") = {"senc"} \cup Groups /\ "stbl" \notin {"file", "entry"}
  BY DEF Taken, LookedFor
<1>2. \A b : GroupError(b) = None <=> ~(PayloadLen(b) < 8 \/ FieldCode(b, 4) = "seig")
  BY NoneAssumption DEF GroupError, Errors
<1>3. Clear(Taken, "stbl", k) <=>
        \A i \in DOMAIN k.boxes :
          /\ k.boxes[i].type # "senc"
          /\ k.boxes[i].type \in Groups => GroupError(k.boxes[i]) = None
  BY <1>1, <1>2 DEF Clear, Signs, Groups
<1>4. (At(k, "senc") = {}) <=> \A i \in DOMAIN k.boxes : k.boxes[i].type # "senc"
  BY DEF At
<1>5. (\A t \in {"sbgp", "sgpd"} : All(k, t, LAMBDA b : GroupError(b) = None)) <=>
        \A i \in DOMAIN k.boxes : k.boxes[i].type \in Groups => GroupError(k.boxes[i]) = None
  BY DEF All, At, Groups
<1> QED
  BY <1>3, <1>4, <1>5

\* So a plain pair in this reading is what the walk takes for one.
LEMMA TakenIsPlain == PlainPair(Taken) <=> TakenPair
<1>1. ASSUME NEW stsd, NEW h PROVE PlainEntry(Taken, stsd, h) <=> TakenEntry(stsd, h)
  <2>1. \A b : (IF h = "vide" THEN 78 ELSE IF Field(b, 8) = 1 THEN Taken.v1 ELSE 28)
               = IF h = "vide" THEN 78 ELSE 28
    BY DEF Taken
  <2> QED
    BY <2>1, TakenClear DEF PlainEntry, TakenEntry
<1>2. ASSUME NEW k, NEW h PROVE PlainStbl(Taken, k, h) <=> TakenStbl(k, h)
  BY <1>1, TakenClearStbl DEF PlainStbl, TakenStbl
<1>3. ASSUME NEW k, NEW h PROVE PlainMdia(Taken, k, h) <=> TakenMdia(k, h)
  BY <1>2, TakenClear DEF PlainMdia, TakenMdia
<1>4. ASSUME NEW k, NEW h PROVE PlainTrak(Taken, k, h) <=> TakenTrak(k, h)
  BY <1>3, TakenClear DEF PlainTrak, TakenTrak
<1> QED
  BY <1>4, TakenClear DEF PlainPair, TakenPair

\* For every source file: the demuxer says Ok only to a file that is a plain pair in the
\* reading of "encrypted" that the code takes, and an error other than a failed read only to
\* one that is not.  The walk that reads each header once, keeps the last header of each type
\* and stops at the first thing that is wrong decides as the definition that looks at the
\* whole tree of boxes.  Only on files with a sample group at the top or in an entry, a stray
\* sign or a version 1 entry can this differ from what SPEC.md calls encrypted.
THEOREM AcceptsExactlyPlainPairs == DemuxSpec => []AcceptsPlainPairs
<1>1. VerdictInv => AcceptsPlainPairs
  <2>1. VerdictInv => AcceptsTaken
    BY DEF VerdictInv
  <2> QED
    BY <2>1, TakenIsPlain DEF AcceptsTaken, AcceptsPlainPairs, Refused
<1> QED
  BY <1>1, InductiveInvariant, InitVerdict, NextVerdict, PTL DEF DemuxSpec
=============================================================================
