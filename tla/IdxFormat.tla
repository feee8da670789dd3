----------------------------- MODULE IdxFormat ------------------------------
(***************************************************************************)
(* The .idx format: how IndexBuilder lays an index out (index/builder.rs)  *)
(* and how IndexView::open reads it back (index/view.rs).                  *)
(*                                                                         *)
(* A file is its length, its header and section directory, and the u32     *)
(* numbers in its sections by their position.  All other bytes are opaque: *)
(* what the reader hands out are ranges of the file, and what matters is   *)
(* which ranges.  Between writer and reader the file may be cut short or   *)
(* damaged; numbers read where none was written are arbitrary.             *)
(***************************************************************************)
EXTENDS Integers, Sequences

CONSTANTS Inputs,      \* what build found in the source: lengths and counts
          Values(_),   \* numbers that damage may leave instead of the given one
          Junk,        \* numbers that opaque bytes may be read as
          U32Max,      \* u32::MAX
          Unknown      \* a section kind the reader does not know

ASSUME U32Assumption == U32Max \in Nat /\ Junk \subseteq 0 .. U32Max

\* Lengths and counts are natural numbers, and render_playlist writes at least its header.
ASSUME InputsAssumption ==
  \A in \in Inputs :
    /\ in.videoEntry \in Nat /\ in.videoElst \in Nat
    /\ in.audioEntry \in Nat /\ in.audioElst \in Nat
    /\ in.videoSamples \in Nat /\ in.audioSamples \in Nat /\ in.segments \in Nat
    /\ in.playlist \in Nat \ {0} /\ in.init \in Nat

VARIABLES
  input,   \* the lengths and counts of this build
  pc,      \* where build or open is
  k,       \* sections written or sections parsed
  img,     \* the byte image, then the file; img.dirty says which of the zeros
           \* behind a track's blobs, or after its channel count, are none
  placed,  \* history: the ranges where the builder put each section's items
  damage,  \* "none", "cut" or "other": what happened to the file
  view     \* the ranges the reader found

vars == <<input, pc, k, img, placed, damage, view>>

HEADER_FIXED_LEN == 56
SECTION_DIR_ENTRY_LEN == 16
MAX_SECTIONS == 64
SampleEntryLen == 24
SegmentEntryLen == 32

\* The sections in the order of serialise.
Kinds == <<"VideoTrackMeta", "AudioTrackMeta", "VideoSampleTable", "AudioSampleTable",
           "SegmentTable", "PlaylistBytes", "InitSegmentBytes">>
KindSet == {Kinds[i] : i \in DOMAIN Kinds}

\* Without it a view is not complete.
Required == KindSet \ {"PlaylistBytes"}

\* The smallest multiple of 8 at or above x.
Pad8(x) == x + ((8 - (x % 8)) % 8)

HeaderEnd(sections) == HEADER_FIXED_LEN + sections * SECTION_DIR_ENTRY_LEN

\* encode_video_meta and encode_audio_meta: 16 bytes, then two sized blobs.
EncodeMeta(entry, elst) ==
  [len |-> 24 + entry + elst,
   word |-> [p \in {16, 20 + entry} |-> IF p = 16 THEN entry ELSE elst],
   items |-> <<<<20, 20 + entry>>, <<24 + entry, 24 + entry + elst>>>>]

\* encode_sample_table and encode_segment_table: a count, a zero, and the rows.
EncodeTable(rows, rowLen) ==
  [len |-> 8 + rows * rowLen,
   word |-> [p \in {0, 4} |-> IF p = 0 THEN rows ELSE 0],
   items |-> <<<<8, 8 + rows * rowLen>>>>]

EncodeBytes(len) == [len |-> len, word |-> <<>>, items |-> <<<<0, len>>>>]

\* Faulty variant for RoundTrip: the playlist is not padded by itself.
RenderPlaylistRaw(len) == EncodeBytes(len)

\* render_playlist: the text, then newlines up to a multiple of 8.
RenderPlaylist(len) == EncodeBytes(Pad8(len))

\* The content of a section.
Encode(kind) ==
  CASE kind = "VideoTrackMeta" -> EncodeMeta(input.videoEntry, input.videoElst)
    [] kind = "AudioTrackMeta" -> EncodeMeta(input.audioEntry, input.audioElst)
    [] kind = "VideoSampleTable" -> EncodeTable(input.videoSamples, SampleEntryLen)
    [] kind = "AudioSampleTable" -> EncodeTable(input.audioSamples, SampleEntryLen)
    [] kind = "SegmentTable" -> EncodeTable(input.segments, SegmentEntryLen)
    [] kind = "PlaylistBytes" -> RenderPlaylist(input.playlist)
    [] kind = "InitSegmentBytes" -> EncodeBytes(input.init)

\* byte_blob_size and the row counts have to fit into a u32.
Encodable(kind) == \A p \in DOMAIN Encode(kind).word : Encode(kind).word[p] <= U32Max

Shift(range, by) == <<range[1] + by, range[2] + by>>

-----------------------------------------------------------------------------
Init ==
  /\ input \in Inputs
  /\ pc = "serialise"
  /\ k = 0
  /\ img = [len |-> HeaderEnd(Len(Kinds)), magic |-> TRUE, reserved |-> 0,
            dir |-> <<>>, word |-> <<>>, dirty |-> {}]
  /\ placed = [kind \in KindSet |-> <<>>]
  /\ view = [kind \in KindSet |-> <<>>]
  /\ damage = "none"

Fail ==
  /\ pc' = "Err"
  /\ UNCHANGED <<input, k, img, placed, damage, view>>

\* One section: its content, its directory entry, and zeros up to the next.
WriteSection ==
  /\ pc = "serialise"
  /\ k < Len(Kinds)
  /\ LET kind == Kinds[k + 1]
         c == Encode(kind)
         end == img.len + c.len
         here == {img.len + p : p \in DOMAIN c.word}
     IN  IF ~Encodable(kind)
           THEN Fail
           ELSE /\ img' = [img EXCEPT
                     !.len = IF k + 1 < Len(Kinds) THEN Pad8(end) ELSE end,
                     !.dir = Append(@, [kind |-> kind, pad |-> 0, off |-> img.len]),
                     !.word = [p \in here \cup DOMAIN img.word |->
                                 IF p \in here THEN c.word[p - img.len] ELSE img.word[p]]]
                /\ placed' = [placed EXCEPT ![kind] =
                     [m \in DOMAIN c.items |-> Shift(c.items[m], img.len)]]
                /\ k' = k + 1
                /\ UNCHANGED <<input, pc, damage, view>>

Built ==
  /\ pc = "serialise"
  /\ k = Len(Kinds)
  /\ pc' = "stored"
  /\ UNCHANGED <<input, k, img, placed, damage, view>>

-----------------------------------------------------------------------------
\* A copy of the file ends early.
CutShort ==
  /\ pc = "stored" /\ damage = "none"
  /\ \E len \in 0 .. img.len - 1 : img' = [img EXCEPT !.len = len]
  /\ damage' = "cut"
  /\ UNCHANGED <<input, pc, k, placed, view>>

\* Something of the file is not what the builder wrote.
Damage ==
  /\ pc = "stored" /\ damage = "none"
  /\ \/ img' = [img EXCEPT !.magic = FALSE]
     \/ img' = [img EXCEPT !.reserved = 1]
     \/ \E p \in DOMAIN img.word : \E v \in Values(img.word[p]) :
          v \in 0 .. U32Max /\ img' = [img EXCEPT !.word[p] = v]
     \/ \E i \in DOMAIN img.dir :
          \/ img' = [img EXCEPT !.dir[i].pad = 1]
          \/ \E kind \in KindSet \cup {Unknown} : img' = [img EXCEPT !.dir[i].kind = kind]
          \/ \E v \in Values(img.dir[i].off) : v \in Nat /\ img' = [img EXCEPT !.dir[i].off = v]
     \/ \E m \in 0 .. Len(img.dir) - 1 : img' = [img EXCEPT !.dir = SubSeq(@, 1, m)]
     \/ \E zeros \in {"VideoTrackMeta", "AudioTrackMeta", "channels"} :
          img' = [img EXCEPT !.dirty = {zeros}]
  /\ damage' = "other"
  /\ UNCHANGED <<input, pc, k, placed, view>>

-----------------------------------------------------------------------------
\* The numbers that can be read at a position.
WordAt(p) == IF p \in DOMAIN img.word THEN {img.word[p]} ELSE Junk

\* Faulty variant for CutIsSeen: the last section may start behind the end.
LastStartsAnywhere(m) == TRUE

\* The last of m sections starts in the file.
LastStarts(m) == img.dir[m].off <= img.len

\* What open asks of header and directory before it looks into a section.
DirectoryOK ==
  LET m == Len(img.dir)
  IN  /\ img.len >= HEADER_FIXED_LEN
      /\ img.magic
      /\ img.reserved = 0
      /\ m \in 1 .. MAX_SECTIONS
      /\ img.len >= HeaderEnd(m)
      /\ \A i \in 1 .. m : img.dir[i].pad = 0
      /\ img.dir[1].off = HeaderEnd(m)
      /\ \A i \in 1 .. m - 1 : img.dir[i].off < img.dir[i + 1].off
      /\ LastStarts(m)
      /\ \A i \in 1 .. m : img.dir[i].off % 8 = 0
      /\ \A i, l \in 1 .. m : img.dir[i].kind = img.dir[l].kind => i = l

Has(kind) == \E i \in DOMAIN img.dir : img.dir[i].kind = kind

\* section_payload: up to the next section, or to the end of the file.
Payload(kind) ==
  LET i == CHOOSE i \in DOMAIN img.dir : img.dir[i].kind = kind
  IN  <<img.dir[i].off, IF i < Len(img.dir) THEN img.dir[i + 1].off ELSE img.len>>

OpenDirectory ==
  /\ pc = "stored"
  /\ IF DirectoryOK /\ \A kind \in Required : Has(kind)
       THEN /\ view' = [view EXCEPT
                 !["InitSegmentBytes"] = <<Payload("InitSegmentBytes")>>,
                 !["PlaylistBytes"] =
                   IF Has("PlaylistBytes") THEN <<Payload("PlaylistBytes")>> ELSE <<>>]
            /\ pc' = "parse"
            /\ k' = 0
            /\ UNCHANGED <<input, img, placed, damage>>
       ELSE Fail

\* Faulty variant for InBounds: the end of the second blob is not checked.
MetaOKNoEnd(from, to, entry, elst, clean) ==
  /\ to - from >= 24 + entry
  /\ to - (from + 24 + entry + elst) < 8
  /\ clean \/ to = from + 24 + entry + elst

\* Both blobs fit into the section, and at most 7 zeros follow.
MetaOK(from, to, entry, elst, clean) ==
  /\ to - from >= 24 + entry
  /\ to - from >= 24 + entry + elst
  /\ to - (from + 24 + entry + elst) < 8
  /\ clean \/ to = from + 24 + entry + elst

\* parse_video_meta, parse_audio_meta and validate_trailing_padding.
ParseMeta ==
  /\ pc = "parse"
  /\ k < 2
  /\ LET kind == Kinds[k + 1]
         from == Payload(kind)[1]
         to == Payload(kind)[2]
     IN  IF to - from < 20 \/ (kind = "AudioTrackMeta" /\ "channels" \in img.dirty)
           THEN Fail
           ELSE \E entry \in WordAt(from + 16) : \E elst \in WordAt(from + 20 + entry) :
                  IF ~MetaOK(from, to, entry, elst, kind \notin img.dirty)
                    THEN Fail
                    ELSE /\ view' = [view EXCEPT ![kind] =
                              <<<<from + 20, from + 20 + entry>>,
                                <<from + 24 + entry, from + 24 + entry + elst>>>>]
                         /\ k' = k + 1
                         /\ UNCHANGED <<input, pc, img, placed, damage>>

\* parse_sample_table and parse_segment_table; the file starts at a page.
ParseTable ==
  /\ pc = "parse"
  /\ k \in 2 .. 4
  /\ LET kind == Kinds[k + 1]
         from == Payload(kind)[1]
         to == Payload(kind)[2]
         rowLen == IF kind = "SegmentTable" THEN SegmentEntryLen ELSE SampleEntryLen
     IN  IF to - from < 8
           THEN Fail
           ELSE \E rows \in WordAt(from) : \E zero \in WordAt(from + 4) :
                  IF zero # 0 \/ to - (from + 8) # rows * rowLen \/ (from + 8) % 8 # 0
                    THEN Fail
                    ELSE /\ view' = [view EXCEPT ![kind] = <<<<from + 8, from + 8 + rows * rowLen>>>>]
                         /\ k' = k + 1
                         /\ UNCHANGED <<input, pc, img, placed, damage>>

Opened ==
  /\ pc = "parse"
  /\ k = 5
  /\ pc' = "Ok"
  /\ UNCHANGED <<input, k, img, placed, damage, view>>

Next ==
  \/ WriteSection \/ Built
  \/ CutShort \/ Damage
  \/ OpenDirectory \/ ParseMeta \/ ParseTable \/ Opened

Spec == Init /\ [][Next]_vars

-----------------------------------------------------------------------------
Tables == {"VideoSampleTable", "AudioSampleTable", "SegmentTable"}

\* The ranges that are in the view, with the kind of their section.
Ranges == UNION {{<<kind, m>> : m \in DOMAIN view[kind]} : kind \in KindSet}
From(r) == view[r[1]][r[2]][1]
To(r) == view[r[1]][r[2]][2]

\* What the builder writes, open accepts, and it finds every item exactly where
\* it was put: no padding ends up in the playlist, and no row is lost.
RoundTrip ==
  /\ damage = "none" /\ pc = "Ok" => view = placed
  /\ damage = "none" /\ pc = "Err" =>
       \E kind \in KindSet : ~Encodable(kind)

\* Whatever the file holds, an accepted view stays inside it: rows are aligned
\* and whole, and no two items overlap.
InBounds ==
  pc = "Ok" =>
    /\ \A r \in Ranges : HeaderEnd(Len(img.dir)) <= From(r) /\ From(r) <= To(r) /\ To(r) <= img.len
    /\ \A kind \in Tables : view[kind][1][1] % 8 = 0
    /\ \A r, s \in Ranges : r # s => To(r) <= From(s) \/ To(s) <= From(r)

\* A file that was cut short is refused, unless all that is missing is the end
\* of the init segment, whose length the format does not record.
CutIsSeen ==
  damage = "cut" /\ pc = "Ok" =>
    /\ img.len >= placed["InitSegmentBytes"][1][1]
    /\ \A kind \in KindSet \ {"InitSegmentBytes"} : view[kind] = placed[kind]
=============================================================================
