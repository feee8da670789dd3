------------------------------- MODULE Demux --------------------------------
(***************************************************************************)
(* The demuxer (crates/packager/src/demux/reader.rs and moov.rs): a walk   *)
(* over the boxes of a source file that ends with a video track and an     *)
(* audio track or with an error.                                           *)
(*                                                                         *)
(* A step is one box header read by one of the nested loops and all that   *)
(* the loop's body does with it, or the end of a loop.  The walk never     *)
(* copies: it keeps headers, and byte ranges of the source.                *)
(***************************************************************************)
EXTENDS Bytes

CONSTANTS Sources,  \* the files a walk may be given
          None,     \* Option::None
          U16,      \* 2^16, the unit of 16.16 fixed-point numbers
          U8        \* 2^8

ASSUME DemuxAssumption ==
  /\ U16 \in Nat \ {0} /\ U8 \in Nat \ {0}
  /\ Ascii \in Nat
  /\ \A f \in Sources : /\ f.len \in Nat
                        /\ \A o \in DOMAIN f.num : f.num[o] \in Nat

\* What a walk tells from None: an outcome, and the headers of a source.
Errors == {"MalformedAtom", "MissingAtom", "UnsupportedBrand", "FragmentedInput", "EncryptedInput",
           "UnsupportedVideoCodec", "UnsupportedAudioCodec", "UnsupportedTrackLayout"}
Headers(f) == [type : {f.code[o] : o \in DOMAIN f.code} \cup {"none"},
               start : Nat, header : {8, 16}, size : Nat]

ASSUME NoneAssumption ==
  None \notin Errors \cup {"Ok"} /\ \A f \in Sources : None \notin Headers(f)

VARIABLES
  file,    \* the source
  loop,    \* the loop the walk is in: the type of the box whose children it reads
  cursor,  \* BoxIter's
  end,     \*   fields
  found,   \* the last header of each wanted type; "entry" is the sample entry
  tracks,  \* the tracks parsed so far
  result   \* None, "Ok" or the error

demuxVars == <<file, loop, cursor, end, found, tracks, result>>

AllowedBrands == {"isom", "mp42", "iso2", "iso4", "iso5", "iso6", "cmfc", "mp41"}
VideoFourCCs == {"avc1", "hvc1", "hev1"}
AudioFourCCs == {"mp4a"}

Tables == {"stts", "stsc", "stsz", "stco", "co64", "stss", "ctts"}
OfTrack == {"trak", "tkhd", "edts", "mdia", "mdhd", "hdlr", "minf", "stsd", "entry"} \cup Tables
Wanted == OfTrack \cup {"ftyp", "moov"}

\* What each loop keeps a header of.
Kept(l) ==
  CASE l = "file" -> {"ftyp", "moov"}
    [] l = "trak" -> {"tkhd", "edts", "mdia"}
    [] l = "mdia" -> {"mdhd", "hdlr", "minf"}
    [] l = "stbl" -> {"stsd"} \cup Tables
    [] OTHER -> {}

-----------------------------------------------------------------------------
(***************************************************************************)
(* reader.rs                                                               *)
(***************************************************************************)
Payload(b) == b.start + b.header
PayloadLen(b) == b.size - b.header
End(b) == b.start + b.size

Num(o) == NumAt(file, o)
Code(o) == CodeAt(file, o)

Size32(o) == Num(o)

HeaderSize(o) == IF Size32(o) = 1 THEN 16 ELSE 8

\* A size of 0 extends to the end e of the enclosing container.
DeclaredSize(o, e) ==
  IF Size32(o) = 1 THEN Num(o + 8) ELSE IF Size32(o) = 0 THEN e - o ELSE Size32(o)

\* Faulty variant for ParseEnds: a box may be smaller than its header.
HeaderOKTiny(o, e) ==
  /\ HeaderSize(o) <= e - o
  /\ DeclaredSize(o, e) <= e - o

\* What next_header asks of the header at o.
HeaderOK(o, e) ==
  /\ HeaderSize(o) <= e - o
  /\ HeaderSize(o) <= DeclaredSize(o, e)
  /\ DeclaredSize(o, e) <= e - o

Header(o, e) == [type |-> Code(o + 4), start |-> o, header |-> HeaderSize(o),
                 size |-> DeclaredSize(o, e)]

\* The box that next_header returns.
Box == Header(cursor, end)

AtBox(l) == loop = l /\ cursor < end /\ HeaderOK(cursor, end) /\ Box.type # "uuid"
AtEnd(l) == loop = l /\ cursor >= end

-----------------------------------------------------------------------------
(***************************************************************************)
(* moov.rs: what is read of a box, and what it must be like.               *)
(***************************************************************************)
\* The field that starts i bytes into the payload of b.
Field(b, i) == Num(Payload(b) + i)
FieldCode(b, i) == Code(Payload(b) + i)

\* check_ftyp: the major brand or a compatible one is known.
FtypError(b) ==
  IF PayloadLen(b) < 8 THEN "MalformedAtom"
  ELSE IF FieldCode(b, 0) \in AllowedBrands THEN None
  ELSE IF (PayloadLen(b) - 8) % 4 # 0 THEN "MalformedAtom"
  ELSE IF \E i \in 0 .. (PayloadLen(b) - 8) \div 4 - 1 : FieldCode(b, 8 + 4 * i) \in AllowedBrands
    THEN None
  ELSE "UnsupportedBrand"

\* parse_tkhd: the body of each version ends with width and height.
TkhdBody(b) == IF Field(b, 0) = 0 THEN 80 ELSE 92
TkhdOK(b) == PayloadLen(b) >= 4 /\ Field(b, 0) \in {0, 1} /\ PayloadLen(b) >= 4 + TkhdBody(b)
Width(b) == Field(b, 4 + TkhdBody(b) - 8) \div U16
Height(b) == Field(b, 4 + TkhdBody(b) - 4) \div U16

\* parse_mdhd_timescale.
TimescaleOff(b) == IF Field(b, 0) = 0 THEN 8 ELSE 16
MdhdOK(b) == PayloadLen(b) >= 4 /\ Field(b, 0) \in {0, 1} /\ PayloadLen(b) >= 4 + TimescaleOff(b) + 4
Timescale(b) == Field(b, 4 + TimescaleOff(b))

\* parse_hdlr_type.
HdlrOK(b) == PayloadLen(b) >= 12
Handler(b) == FieldCode(b, 8)

\* check_grouping_type: only a group of type seig is about encryption.
GroupError(b) ==
  IF PayloadLen(b) < 8 THEN "MalformedAtom"
  ELSE IF FieldCode(b, 4) = "seig" THEN "EncryptedInput" ELSE None

\* parse_stsd_entry before it looks at the entry.
StsdOK(b) == PayloadLen(b) >= 8 /\ Field(b, 4) = 1 /\ Payload(b) + 8 < End(b)

\* The types that are refused at the top and in a sample entry, whatever is in the box.
Markers == {"sinf", "tenc", "senc", "sbgp", "sgpd"}

\* Faulty variant for AcceptsPlainPairs: one prefix for all.
PrefixVisual(handler) == 78

\* verify_no_encryption: the children of an entry come behind a fixed prefix.
Prefix(handler) == IF handler = "soun" THEN 28 ELSE 78
ChildrenStart(b, handler) ==
  IF handler \in {"vide", "soun"} /\ PayloadLen(b) > Prefix(handler)
    THEN Payload(b) + Prefix(handler) ELSE End(b)

\* parse_audio_sample_entry.
AudioEntryOK(b) == PayloadLen(b) >= 28 /\ Field(b, 8) <= 1 /\ Field(b, 16) < U8

\* The codec allow-lists and the audio header.
EntryError(b, handler) ==
  IF handler = "vide" /\ b.type \notin VideoFourCCs THEN "UnsupportedVideoCodec"
  ELSE IF handler = "soun" /\ b.type \notin AudioFourCCs THEN "UnsupportedAudioCodec"
  ELSE IF handler = "soun" /\ ~AudioEntryOK(b) THEN "MalformedAtom"
  ELSE None

\* The end of parse_stbl: which tables there have to be.
TablesError ==
  IF found["stco"] # None /\ found["co64"] # None THEN "MalformedAtom"
  ELSE IF found["stco"] = None /\ found["co64"] = None THEN "MissingAtom"
  ELSE IF \E t \in {"stts", "stsc", "stsz"} : found[t] = None THEN "MissingAtom"
  ELSE None

WholeRange(b) == [offset |-> b.start, len |-> b.size]
PayloadRange(b) == [offset |-> Payload(b), len |-> PayloadLen(b)]

\* What parse_trak returns for the headers found.
Track ==
  LET handler == Handler(found["hdlr"])
      entry == found["entry"]
  IN  [handler |-> handler,
       timescale |-> Timescale(found["mdhd"]),
       width |-> IF handler = "vide" THEN Width(found["tkhd"]) ELSE 0,
       height |-> IF handler = "vide" THEN Height(found["tkhd"]) ELSE 0,
       fourcc |-> entry.type,
       sampleRate |-> IF handler = "soun" THEN Field(entry, 24) \div U16 ELSE 0,
       channels |-> IF handler = "soun" THEN Field(entry, 16) ELSE 0,
       ranges |-> [p \in {q \in {"entry", "edts"} \cup Tables : found[q] # None} |->
                     IF p \in Tables THEN PayloadRange(found[p]) ELSE WholeRange(found[p])]]

-----------------------------------------------------------------------------
DemuxInit ==
  /\ file \in Sources
  /\ loop = "file" /\ cursor = 0 /\ end = file.len
  /\ found = [t \in Wanted |-> None]
  /\ tracks = <<>>
  /\ result = None

Fail(error) ==
  /\ result' = error
  /\ loop' = "done"
  /\ UNCHANGED <<file, cursor, end, found, tracks>>

\* Go on behind the box, which is kept if the loop wants it.
Pass ==
  /\ cursor' = End(Box)
  /\ found' = IF Box.type \in Kept(loop) THEN [found EXCEPT ![Box.type] = Box] ELSE found
  /\ UNCHANGED <<file, loop, end, tracks, result>>

FailOr(error, otherwise) == IF error # None THEN Fail(error) ELSE otherwise

\* A new BoxIter over [s, e).
Enter(l, s, e) ==
  /\ loop' = l /\ cursor' = s /\ end' = e
  /\ UNCHANGED <<file, tracks, result>>

Descend(l, t) ==
  Enter(l, Payload(found[t]), End(found[t])) /\ UNCHANGED found

\* next_header fails.
BadHeader ==
  /\ loop # "done" /\ cursor < end /\ ~HeaderOK(cursor, end)
  /\ Fail("MalformedAtom")

\* next_header skips a vendor extension.
SkipUuid ==
  /\ loop # "done" /\ cursor < end /\ HeaderOK(cursor, end) /\ Box.type = "uuid"
  /\ Pass

\* The source cannot be read: a header, stsd behind its loop, or an audio entry.
ReadError ==
  /\ loop # "done"
  /\ \/ cursor < end
     \/ loop = "stbl" /\ found["stsd"] # None /\ PayloadLen(found["stsd"]) >= 8
     \/ /\ loop = "entry" /\ Handler(found["hdlr"]) = "soun"
        /\ found["entry"].type \in AudioFourCCs /\ PayloadLen(found["entry"]) >= 28
  /\ Fail("Io")

TopBox ==
  /\ AtBox("file")
  /\ FailOr(CASE Box.type = "ftyp" -> FtypError(Box)
              [] Box.type = "moov" -> IF found["moov"] # None THEN "MalformedAtom" ELSE None
              [] Box.type = "moof" -> "FragmentedInput"
              [] Box.type \in Markers -> "EncryptedInput"
              [] OTHER -> None,
            Pass)

TopEnd ==
  /\ AtEnd("file")
  /\ IF found["ftyp"] = None \/ found["moov"] = None
       THEN Fail("MissingAtom") ELSE Descend("moov", "moov")

\* parse_trak starts.
MoovBox ==
  /\ AtBox("moov")
  /\ IF Box.type = "trak"
       THEN /\ Enter("trak", Payload(Box), End(Box))
            /\ found' = [found EXCEPT !["trak"] = Box]
       ELSE Pass

TrakBox ==
  /\ AtBox("trak")
  /\ FailOr(IF Box.type = "tkhd" /\ ~TkhdOK(Box) THEN "MalformedAtom" ELSE None, Pass)

TrakEnd ==
  /\ AtEnd("trak")
  /\ IF found["tkhd"] = None \/ found["mdia"] = None
       THEN Fail("MissingAtom") ELSE Descend("mdia", "mdia")

MdiaBox ==
  /\ AtBox("mdia")
  /\ FailOr(IF \/ Box.type = "mdhd" /\ ~MdhdOK(Box)
               \/ Box.type = "hdlr" /\ ~HdlrOK(Box) THEN "MalformedAtom" ELSE None,
            Pass)

MdiaEnd ==
  /\ AtEnd("mdia")
  /\ IF \E t \in {"mdhd", "hdlr", "minf"} : found[t] = None
       THEN Fail("MissingAtom") ELSE Descend("minf", "minf")

\* locate_stbl returns the first stbl, without reading on.
MinfBox ==
  /\ AtBox("minf")
  /\ IF Box.type = "stbl"
       THEN Enter("stbl", Payload(Box), End(Box)) /\ UNCHANGED found
       ELSE Pass

MinfEnd == AtEnd("minf") /\ Fail("MissingAtom")

StblBox ==
  /\ AtBox("stbl")
  /\ FailOr(CASE Box.type \in {"sbgp", "sgpd"} -> GroupError(Box)
              [] Box.type = "senc" -> "EncryptedInput"
              [] OTHER -> None,
            Pass)

StblEnd ==
  /\ AtEnd("stbl")
  /\ LET stsd == found["stsd"]
     IN  IF stsd = None THEN Fail("MissingAtom")
         ELSE IF ~StsdOK(stsd) THEN Fail("MalformedAtom")
         ELSE Enter("stsd", Payload(stsd) + 8, End(stsd)) /\ UNCHANGED found

\* The entry has to fill the rest of stsd; its children are read next.
StsdBox ==
  /\ AtBox("stsd")
  /\ IF End(Box) # end
       THEN Fail("MalformedAtom")
       ELSE /\ Enter("entry", ChildrenStart(Box, Handler(found["hdlr"])), End(Box))
            /\ found' = [found EXCEPT !["entry"] = Box]

StsdEnd == AtEnd("stsd") /\ Fail("MalformedAtom")

EntryBox ==
  /\ AtBox("entry")
  /\ FailOr(IF Box.type \in Markers THEN "EncryptedInput" ELSE None, Pass)

\* Faulty variant for RangesApart: the next track starts with what this one had.
EntryEndKeeps ==
  /\ AtEnd("entry")
  /\ FailOr(EntryError(found["entry"], Handler(found["hdlr"])),
       FailOr(TablesError,
         /\ tracks' = Append(tracks, Track)
         /\ loop' = "moov" /\ cursor' = End(found["trak"]) /\ end' = End(found["moov"])
         /\ UNCHANGED <<file, found, result>>))

\* parse_trak returns to the loop over moov.
EntryEnd ==
  /\ AtEnd("entry")
  /\ FailOr(EntryError(found["entry"], Handler(found["hdlr"])),
       FailOr(TablesError,
         /\ tracks' = Append(tracks, Track)
         /\ loop' = "moov" /\ cursor' = End(found["trak"]) /\ end' = End(found["moov"])
         /\ found' = [t \in Wanted |-> IF t \in OfTrack THEN None ELSE found[t]]
         /\ UNCHANGED <<file, result>>))

\* classify_tracks.
MoovEnd ==
  /\ AtEnd("moov")
  /\ IF /\ Len(tracks) = 2
        /\ {tracks[1].handler, tracks[2].handler} = {"vide", "soun"}
       THEN /\ result' = "Ok" /\ loop' = "done"
            /\ UNCHANGED <<file, cursor, end, found, tracks>>
       ELSE Fail("UnsupportedTrackLayout")

Walk ==
  \/ BadHeader \/ SkipUuid
  \/ TopBox \/ TopEnd
  \/ MoovBox \/ MoovEnd
  \/ TrakBox \/ TrakEnd
  \/ MdiaBox \/ MdiaEnd
  \/ MinfBox \/ MinfEnd
  \/ StblBox \/ StblEnd
  \/ StsdBox \/ StsdEnd
  \/ EntryBox \/ EntryEnd

DemuxNext == Walk \/ ReadError

DemuxSpec == DemuxInit /\ [][DemuxNext]_demuxVars

-----------------------------------------------------------------------------
(***************************************************************************)
(* What a file is, without walking it.                                     *)
(***************************************************************************)
Inside(b) == Kids(file, b)
Has(k, T) == \A t \in T : At(k, t) # {}
All(k, t, Good(_)) == \A i \in At(k, t) : Good(k.boxes[i])
\* The code, its comments and SPEC.md do not agree on what makes a source an encrypted
\* one.  A reading of them says
\*   strays  whether a sign of encryption counts wherever it is among the boxes read
\*           (SPEC.md:256, 362: "present"), or only where the code looks for it,
\*   groups  whether a sample group at the top or in the entry counts whatever its type
\*           (moov.rs:103, 594), or only the type seig does (SPEC.md:256, 362),
\*   v1      how far the children of a version 1 audio entry are from its payload's start:
\*           28 bytes (moov.rs:584) or 8 + 36 (the comment at moov.rs:543).
\* What the documents say is [strays |-> TRUE, groups |-> FALSE, v1 |-> 44].  The code takes
Taken == [strays |-> FALSE, groups |-> TRUE, v1 |-> 28]

Signs == {"sinf", "tenc", "senc"}
Groups == {"sbgp", "sgpd"}
LookedFor(l) ==
  CASE l \in {"file", "entry"} -> Signs \cup Groups
    [] l = "stbl" -> {"senc"} \cup Groups
    [] OTHER -> {}

\* The boxes k, children of a box of type l, show no encryption.
Clear(r, l, k) ==
  \A i \in DOMAIN k.boxes :
    LET b == k.boxes[i]
    IN  r.strays \/ b.type \in LookedFor(l) =>
          /\ b.type \notin Signs
          /\ b.type \in Groups => /\ ~(r.groups /\ l \in {"file", "entry"})
                                  /\ ~(PayloadLen(b) < 8 \/ FieldCode(b, 4) = "seig")

PlainEntry(r, stsd, handler) ==
  /\ StsdOK(stsd)
  /\ LET k == Children(file, Payload(stsd) + 8, End(stsd))
         entry == k.boxes[1]
     IN  /\ k.boxes # <<>>
         /\ End(entry) = End(stsd)
         /\ EntryError(entry, handler) = None
         /\ LET fixed == IF handler = "vide" THEN 78 ELSE IF Field(entry, 8) = 1 THEN r.v1 ELSE 28
                c == Children(file, Payload(entry) + fixed, End(stsd))
            IN  PayloadLen(entry) > fixed => c.whole /\ Clear(r, "entry", c)

PlainStbl(r, k, handler) ==
  /\ k.whole /\ Has(k, {"stsd", "stts", "stsc", "stsz"})
  /\ (At(k, "stco") = {}) # (At(k, "co64") = {})
  /\ Clear(r, "stbl", k)
  /\ PlainEntry(r, LastOf(k, "stsd"), handler)

PlainMdia(r, k, handler) ==
  /\ k.whole /\ Has(k, {"mdhd", "hdlr", "minf"}) /\ Clear(r, "mdia", k)
  /\ All(k, "mdhd", MdhdOK) /\ All(k, "hdlr", HdlrOK)
  /\ Handler(LastOf(k, "hdlr")) = handler
  /\ LET m == Inside(LastOf(k, "minf"))
     IN  /\ Has(m, {"stbl"}) /\ Clear(r, "minf", m)
         /\ PlainStbl(r, Inside(FirstOf(m, "stbl")), handler)

PlainTrak(r, k, handler) ==
  /\ k.whole /\ Has(k, {"tkhd", "mdia"}) /\ Clear(r, "trak", k)
  /\ All(k, "tkhd", TkhdOK)
  /\ PlainMdia(r, Inside(LastOf(k, "mdia")), handler)

\* One unfragmented, unencrypted video track and one such audio track.
PlainPair(r) ==
  LET top == Children(file, 0, file.len)
      moov == Inside(FirstOf(top, "moov"))
  IN  /\ top.whole /\ Has(top, {"ftyp"})
      /\ \E i \in DOMAIN top.boxes : At(top, "moov") = {i}
      /\ At(top, "moof") = {} /\ Clear(r, "file", top)
      /\ All(top, "ftyp", LAMBDA b : FtypError(b) = None)
      /\ moov.whole /\ Clear(r, "moov", moov)
      /\ \E v, a \in At(moov, "trak") :
           /\ v # a /\ At(moov, "trak") = {v, a}
           /\ PlainTrak(r, Inside(moov.boxes[v]), "vide")
           /\ PlainTrak(r, Inside(moov.boxes[a]), "soun")

-----------------------------------------------------------------------------
Refused == result \notin {None, "Ok", "Io"}

\* The demuxer accepts exactly the files that are plain pairs in the reading that the code
\* takes of "encrypted": whatever the order, the number and the framing of the boxes, no
\* gate is missed, none fires on its own, and nothing of one track is taken for a part of
\* the next.  On the files on which PlainPair(Taken) differs from what it is in the
\* documents' reading, the property says on which side the code is, against SPEC.md:256,
\* SPEC.md:362 and the comment at moov.rs:543.
AcceptsPlainPairs ==
  /\ result = "Ok" => PlainPair(Taken)
  /\ Refused => ~PlainPair(Taken)

\* The ranges kept of the tracks, which the index builder reads later, lie inside moov
\* and do not overlap: not in a track, and not across tracks.
RangesApart ==
  LET Parts(i) == DOMAIN tracks[i].ranges
      R(i, p) == tracks[i].ranges[p]
  IN  \A i \in DOMAIN tracks : \A p \in Parts(i) :
        /\ Payload(found["moov"]) <= R(i, p).offset
        /\ R(i, p).offset + R(i, p).len <= End(found["moov"])
        /\ End(found["moov"]) <= file.len
        /\ \A j \in DOMAIN tracks : \A q \in Parts(j) : <<i, p>> # <<j, q>> =>
             \/ R(i, p).offset + R(i, p).len <= R(j, q).offset
             \/ R(j, q).offset + R(j, q).len <= R(i, p).offset
=============================================================================
