---------------------------- MODULE InitSegment -----------------------------
(***************************************************************************)
(* The init segment (crates/packager/src/fmp4/init.rs) of the tracks that  *)
(* the demuxer found, and the demuxer run on it: what a player is told of  *)
(* the tracks is what the source says of them.                             *)
(***************************************************************************)
EXTENDS Demux, BoxTree

VARIABLES
  written, \* whether the file is an init segment that write_init_segment wrote
  source   \* the source it was written for, and the source's tracks

vars == <<demuxVars, written, source>>

\* read_byte_range, of a range that is there.
RangeBytes(f, t, p) ==
  IF p \in DOMAIN t.ranges THEN Slice(f, t.ranges[p].offset, t.ranges[p].len) ELSE Empty

\* Faulty variant for InitReadsBack: a width is written as an integer.
FixedWhole(v) == v

\* fixed_16_16: saturates.
Fixed(v) == IF v < U16 THEN v * U16 ELSE U16 * U16 - 1

-----------------------------------------------------------------------------
(***************************************************************************)
(* The boxes of the init segment, with their lengths.                      *)
(***************************************************************************)
Ftyp == BoxWriter("ftyp", <<FourCC("cmfc"), Number(4, 0), FourCC("iso6"), FourCC("cmfc")>>)

Mvhd == BoxWriter("mvhd", <<FullBoxHeader(1, 0), Zeros(16), Number(4, 1000), Zeros(84), Number(4, 3)>>)

Tkhd(id, width, height) ==
  BoxWriter("tkhd", <<FullBoxHeader(1, 7), Zeros(16), Number(4, id), Zeros(64),
                      Number(4, Fixed(width)), Number(4, Fixed(height))>>)

Mdhd(timescale) ==
  BoxWriter("mdhd", <<FullBoxHeader(1, 0), Zeros(16), Number(4, timescale), Zeros(12)>>)

\* The name is 12 characters and a zero.
Hdlr(handler) ==
  BoxWriter("hdlr", <<FullBoxHeader(0, 0), Zeros(4), FourCC(handler), Zeros(25)>>)

Vmhd == BoxWriter("vmhd", <<FullBoxHeader(0, 1), Zeros(8)>>)
Smhd == BoxWriter("smhd", <<FullBoxHeader(0, 0), Zeros(4)>>)

Dinf ==
  BoxWriter("dinf", <<BoxWriter("dref", <<FullBoxHeader(0, 0), Number(4, 1),
                                          BoxWriter("url ", <<FullBoxHeader(0, 1)>>)>>)>>)

EmptyTable(fourcc) == BoxWriter(fourcc, <<FullBoxHeader(0, 0), Number(4, 0)>>)

Stbl(sampleEntry) ==
  BoxWriter("stbl", <<
    BoxWriter("stsd", <<FullBoxHeader(0, 0), Number(4, 1), sampleEntry>>),
    EmptyTable("stts"), EmptyTable("stsc"),
    BoxWriter("stsz", <<FullBoxHeader(0, 0), Zeros(8)>>),
    EmptyTable("stco")>>)

\* write_video_trak and write_audio_trak: edts and the sample entry are copied with their
\* headers.
Trak(f, t, id) ==
  BoxWriter("trak", <<
    Tkhd(id, t.width, t.height),
    RangeBytes(f, t, "edts"),
    BoxWriter("mdia", <<
      Mdhd(t.timescale), Hdlr(t.handler),
      BoxWriter("minf", <<IF t.handler = "vide" THEN Vmhd ELSE Smhd, Dinf,
                          Stbl(RangeBytes(f, t, "entry"))>>)>>)>>)

Trex(id) == BoxWriter("trex", <<FullBoxHeader(0, 0), Number(4, id), Number(4, 1), Zeros(12)>>)

\* The track of a handler, as classify_tracks hands it out.
TrackOf(ts, handler) == CHOOSE t \in {ts[1], ts[2]} : t.handler = handler

\* write_init_segment: track 1 is the video track, track 2 the audio track.
InitBytes(f, ts) ==
  Flatten(<<Ftyp,
            BoxWriter("moov", <<
              Mvhd, Trak(f, TrackOf(ts, "vide"), 1), Trak(f, TrackOf(ts, "soun"), 2),
              BoxWriter("mvex", <<Trex(1), Trex(2)>>)>>)>>)

-----------------------------------------------------------------------------
Init == DemuxInit /\ written = FALSE /\ source = None

\* The builder writes the init segment of an accepted source; then the demuxer reads it.
WriteInit ==
  /\ result = "Ok" /\ ~written
  /\ written' = TRUE
  /\ source' = [file |-> file, tracks |-> tracks]
  /\ file' = InitBytes(file, tracks)
  /\ loop' = "file" /\ cursor' = 0 /\ end' = file'.len
  /\ found' = [t \in Wanted |-> None]
  /\ tracks' = <<>>
  /\ result' = None

Done == loop = "done" /\ (result = "Ok" => written) /\ UNCHANGED vars

Next ==
  \/ DemuxNext /\ UNCHANGED <<written, source>>
  \/ WriteInit
  \/ Done

Spec == Init /\ [][Next]_vars /\ WF_demuxVars(Walk)

-----------------------------------------------------------------------------
\* What a track says apart from where its parts are.
Meta(f, t) ==
  [t EXCEPT !.ranges = [p \in {"entry", "edts"} |-> RangeBytes(f, t, p)]]

\* The init segment of an accepted source is itself one that the demuxer accepts, and it
\* says of the video and the audio track what the source says: the time scale, the size,
\* the codec, rate and channels, and the bytes of the sample entry and of the edit list.
InitReadsBack ==
  written /\ loop = "done" /\ result # "Io" =>
    /\ result = "Ok"
    /\ \A h \in {"vide", "soun"} :
         Meta(file, TrackOf(tracks, h)) = Meta(source.file, TrackOf(source.tracks, h))

\* Every walk ends, whatever the sizes in the file say.
ParseEnds == []<>(loop = "done")
=============================================================================
