--------------------------- MODULE MCInitSegment ----------------------------
(***************************************************************************)
(* Sources for TLC: a plain pair of tracks, and the files that one or two  *)
(* changes make of it.  A change drops, doubles, inserts, moves or         *)
(* replaces a child of a box, or alters how a box says its size.           *)
(***************************************************************************)
EXTENDS InitSegment

CONSTANTS SizeForms,  \* the ways to say a size that occur as the only change
          PairForms,  \* the ones that occur together with another change
          EdtsForms   \*   and those of edts

\* The header of a box, in one of the forms.
Framed(form, fourcc, body) ==
  LET size == CASE form = "plain" -> 8 + body.len
                [] form = "zero" -> 0
                [] form = "over" -> 9 + body.len
                [] form = "under" -> 7 + body.len
                [] form = "tiny" -> 7
                [] form \in {"large", "large0"} -> 1
      large == CASE form = "large" -> Number(8, 16 + body.len)
                 [] form = "large0" -> Number(8, 0)
                 [] OTHER -> Empty
  IN  Flatten(<<Number(4, size), FourCC(fourcc), large, body>>)

Versioned(v, m) == Cat(FullBoxHeader(v, 0), Zeros(m))

TkhdBytes(v, w) ==
  Flatten(<<Versioned(v, IF v = 1 THEN 84 ELSE 72), Number(4, w * U16), Number(4, (w + 1) * U16)>>)
MdhdBytes(v, scale) ==
  Flatten(<<Versioned(v, IF v = 1 THEN 16 ELSE 8), Number(4, scale), Zeros(8)>>)
HdlrBytes(c) == Flatten(<<Versioned(0, 4), FourCC(c), Zeros(4)>>)
GroupBytes(c) == Flatten(<<Versioned(0, 0), FourCC(c), Zeros(4)>>)
Child(c) == Flatten(<<BoxWriter(c, <<IF c = "sbgp" THEN GroupBytes("roll") ELSE Zeros(4)>>)>>)
Visual(child) == Cat(Zeros(78), Child(child))

\* In version 1, four more numbers come before the children, the first of them packed.
Audio(v, channels, packed, child) ==
  Flatten(<<Zeros(8), Number(2, v), Zeros(6), Number(2, channels), Zeros(6), Number(4, 3 * U16),
            IF v = 1 THEN Cat(Number(4, packed), Zeros(12)) ELSE Empty, Child(child)>>)

\* The type and the payload of the leaf n in the track of handler h.
Leaf(n, h) ==
  CASE n = "ftyp" -> <<"ftyp", Flatten(<<FourCC("qt"), Zeros(4), FourCC("none"), FourCC("mp42")>>)>>
    [] n = "ftypMajor" -> <<"ftyp", Flatten(<<FourCC("isom"), Zeros(4)>>)>>
    [] n = "ftypOdd" -> <<"ftyp", Flatten(<<FourCC("qt"), Zeros(4), FourCC("isom"), Zeros(1)>>)>>
    [] n = "ftypOther" -> <<"ftyp", Flatten(<<FourCC("qt"), Zeros(8)>>)>>
    [] n = "ftypShort" -> <<"ftyp", Zeros(7)>>
    [] n = "tkhd" -> <<"tkhd", TkhdBytes(0, 3)>>
    [] n = "tkhd1" -> <<"tkhd", TkhdBytes(1, 5)>>
    [] n = "tkhd2" -> <<"tkhd", TkhdBytes(2, 3)>>
    [] n = "tkhdShort" -> <<"tkhd", Versioned(1, 80)>>
    [] n = "mdhd" -> <<"mdhd", MdhdBytes(0, 7)>>
    [] n = "mdhd1" -> <<"mdhd", MdhdBytes(1, 9)>>
    [] n = "mdhd2" -> <<"mdhd", MdhdBytes(2, 7)>>
    [] n = "mdhdShort" -> <<"mdhd", Versioned(0, 8)>>
    [] n = "hdlr" -> <<"hdlr", HdlrBytes(h)>>
    [] n = "hdlrSoun" -> <<"hdlr", HdlrBytes("soun")>>
    [] n = "hdlrText" -> <<"hdlr", HdlrBytes("text")>>
    [] n = "hdlrShort" -> <<"hdlr", Zeros(8)>>
    [] n = "sbgpSeig" -> <<"sbgp", GroupBytes("seig")>>
    [] n = "sgpdSeig" -> <<"sgpd", GroupBytes("seig")>>
    [] n = "sbgpRoll" -> <<"sbgp", GroupBytes("roll")>>
    [] n = "sbgpShort" -> <<"sbgp", Zeros(4)>>
    [] n = "entry" -> IF h = "vide" THEN <<"avc1", Visual("avcC")>> ELSE <<"mp4a", Audio(0, 2, 0, "esds")>>
    [] n = "entryV1" -> IF h = "vide" THEN <<"hvc1", Zeros(60)>> ELSE <<"mp4a", Audio(1, 2, 0, "esds")>>
    [] n = "entryV2" -> IF h = "vide" THEN <<"vp09", Visual("vpcC")>> ELSE <<"mp4a", Audio(2, 2, 0, "esds")>>
    [] n = "entryMany" -> IF h = "vide" THEN <<"mp4a", Visual("esds")>> ELSE <<"mp4a", Audio(0, U8, 0, "esds")>>
    [] n = "entryEnc" -> IF h = "vide" THEN <<"encv", Visual("sinf")>> ELSE <<"enca", Audio(0, 2, 0, "sinf")>>
    [] n = "entrySinf" -> IF h = "vide" THEN <<"avc1", Visual("sinf")>> ELSE <<"mp4a", Audio(0, 2, 0, "sinf")>>
    [] n = "entryGroup" -> IF h = "vide" THEN <<"avc1", Visual("sbgp")>> ELSE <<"mp4a", Audio(0, 2, 0, "sbgp")>>
    [] n = "entryV1Sinf" -> IF h = "vide" THEN <<"hev1", Visual("tenc")>> ELSE <<"mp4a", Audio(1, 2, 0, "sinf")>>
    [] n = "entryV1Packed" -> IF h = "vide" THEN <<"hev1", Visual("hvcC")>> ELSE <<"mp4a", Audio(1, 2, 1024, "esds")>>
    [] n = "entryShort" -> IF h = "vide" THEN <<"avc1", Zeros(80)>> ELSE <<"mp4a", Zeros(24)>>
    [] OTHER -> <<n, Zeros(8)>>

\* The children of each box of a plain pair.
Plain(c) ==
  CASE c = "file" -> <<"ftyp", "mdat", "moov">>
    [] c = "moov" -> <<"mvhd", "vide", "soun">>
    [] c = "trak" -> <<"tkhd", "edts", "mdia">>
    [] c = "mdia" -> <<"mdhd", "hdlr", "minf">>
    [] c = "minf" -> <<"vmhd", "stbl">>
    [] c = "stbl" -> <<"stsd", "stts", "stsc", "stsz", "stco">>
    [] c = "stsd" -> <<"entry">>

Variants(n) ==
  CASE n = "ftyp" -> {"ftypMajor", "ftypOdd", "ftypOther", "ftypShort"}
    [] n = "tkhd" -> {"tkhd1", "tkhd2", "tkhdShort"}
    [] n = "mdhd" -> {"mdhd1", "mdhd2", "mdhdShort"}
    [] n = "hdlr" -> {"hdlrSoun", "hdlrText", "hdlrShort"}
    [] n = "stco" -> {"co64"}
    [] n = "entry" -> {"entryV1", "entryV2", "entryMany", "entryEnc", "entrySinf", "entryShort",
                       "entryGroup", "entryV1Sinf", "entryV1Packed"}
    [] n = "soun" -> {"vide"}
    [] OTHER -> {}

Inserts(c) ==
  CASE c = "file" -> {"moof", "sinf", "senc", "sbgpRoll"}
    [] c = "stbl" -> {"co64", "ctts", "stss", "senc", "sbgpSeig", "sgpdSeig", "sbgpRoll", "sbgpShort"}
    [] OTHER -> {"senc"}

\* One change of the children s of c.
Edited(c) ==
  LET s == Plain(c)
      Without(i) == SubSeq(s, 1, i - 1) \o SubSeq(s, i + 1, Len(s))
      With(i, n) == SubSeq(s, 1, i) \o <<n>> \o SubSeq(s, i + 1, Len(s))
  IN  {Without(i) : i \in DOMAIN s}
        \cup {[i \in DOMAIN s |-> s[Len(s) + 1 - i]]}
        \cup {[s EXCEPT ![i] = s[i + 1], ![i + 1] = s[i]] : i \in 1 .. Len(s) - 1}
        \cup UNION {{With(i, n) : n \in Inserts(c) \cup {"uuid", s[i]} \cup Variants(s[i])} : i \in DOMAIN s}
        \cup UNION {{[s EXCEPT ![i] = n] : n \in Variants(s[i])} : i \in DOMAIN s}

Containers == {"file", "moov", "trak", "mdia", "minf", "stbl", "stsd"}
Shared == {"file", "moov"}

\* One change: the children of a box or the form of a box, in the track of handler h.
Singles ==
  UNION {{<<h, "kids", c, s>> : s \in Edited(c)} :
                 h \in {"vide", "soun"}, c \in Containers \ Shared}
    \cup UNION {{<<"", "kids", c, s>> : s \in Edited(c)} : c \in Shared}
    \cup {<<h, "form", n, f>> : h \in {"vide", "soun"}, f \in SizeForms,
            n \in {"trak", "tkhd", "edts", "mdia", "hdlr", "minf", "stbl", "stsd", "entry", "stsz"}}
    \cup {<<"", "form", n, f>> : f \in SizeForms, n \in {"ftyp", "mdat", "moov"}}

\* The file that the changes D make of the plain pair.
SourceOf(D) ==
  LET List(h, c) == IF \E x \in D : x[1] = h /\ x[2] = "kids" /\ x[3] = c
                      THEN (CHOOSE x \in D : x[1] = h /\ x[2] = "kids" /\ x[3] = c)[4]
                      ELSE Plain(c)
      Form(h, n) == IF \E x \in D : x[1] = h /\ x[2] = "form" /\ x[3] = n
                      THEN (CHOOSE x \in D : x[1] = h /\ x[2] = "form" /\ x[3] = n)[4]
                      ELSE "plain"
      bytes[x \in {"", "vide", "soun"} \X STRING] ==
        LET h == x[1]
            n == x[2]
            leaf == Leaf(n, h)
            kids == Flatten([i \in DOMAIN List(h, n) |-> bytes[<<h, List(h, n)[i]>>]])
            count == Number(4, IF List(h, n) = <<"entry", "entry">> THEN 2 ELSE 1)
        IN  CASE n = "file" -> kids
              [] n \in {"vide", "soun"} -> bytes[<<n, "trak">>]
              [] n = "stsd" -> Framed(Form(h, n), n, Flatten(<<FullBoxHeader(0, 0), count, kids>>))
              [] n \in Containers \ {"file", "stsd"} -> Framed(Form(h, n), n, kids)
              [] OTHER -> Framed(Form(h, n), leaf[1], leaf[2])
  IN  bytes[<<"", "file">>]

\* A form of a box, together with a change of its siblings.
Pairs ==
  UNION {{{<<h, "form", n, f>>, <<h, "kids", c, s>>} : h \in {"vide", "soun"}, s \in Edited(c),
            n \in {Plain(c)[i] : i \in DOMAIN Plain(c)} \ {"edts"}, f \in PairForms}
         : c \in {"trak", "mdia", "minf", "stsd"}}
    \cup {{<<h, "form", "edts", f>>, <<h, "kids", "trak", s>>} :
            h \in {"vide", "soun"}, s \in Edited("trak"), f \in EdtsForms}

MCSources ==
  {SourceOf(D) : D \in {{x} : x \in Singles} \cup Pairs}
=============================================================================
