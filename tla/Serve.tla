------------------------------- MODULE Serve --------------------------------
(***************************************************************************)
(* From an indexed archive to its playback: IndexBuilder::build renders    *)
(* the playlist and sizes every media segment (index/builder.rs), the      *)
(* server's handlers answer requests for segments                          *)
(* (crates/server/src/handlers.rs), and a player follows the playlist.     *)
(* The player believes the boxes it receives and knows nothing else.       *)
(*                                                                         *)
(* One request is answered at a time: Admission and Registry are about     *)
(* what concurrent requests share.                                         *)
(***************************************************************************)
EXTENDS MediaSegment, Playlist

CONSTANTS Indexes,  \* the archives: samples, segments, timescale, source length
          Strays    \* names that are requested although no playlist has them

\* A segment that is inside the sample tables, and not empty.
Slices(x, g) ==
  /\ g.videoStart + g.videoCount <= Len(x.video) /\ g.videoCount # 0
  /\ g.audioStart + g.audioCount <= Len(x.audio) /\ g.audioCount # 0

\* An index has numbers where the format has numbers, and as many segments as a u32 can
\* count.  Segments that are inside the tables are all of the tables: the splitter
\* partitions both tracks (Partitions in Splitter).
ASSUME ServeAssumption ==
  /\ \A x \in Indexes :
       /\ \A track \in {x.video, x.audio} :
            track \in Seq([offset : Nat, size : Nat, delta : Nat, cts : Int])
       /\ x.segments \in Seq([videoStart : Nat, videoCount : Nat, videoBase : Nat,
                              audioStart : Nat, audioCount : Nat, audioBase : Nat])
       /\ Len(x.segments) <= NumberMax
       /\ x.timescale \in Nat /\ x.sourceLen \in Nat
       /\ (\A i \in DOMAIN x.segments : Slices(x, x.segments[i])) =>
            /\ \A k \in DOMAIN x.video : \E i \in DOMAIN x.segments :
                 LET g == x.segments[i] IN g.videoStart < k /\ k <= g.videoStart + g.videoCount
            /\ \A k \in DOMAIN x.audio : \E i \in DOMAIN x.segments :
                 LET g == x.segments[i] IN g.audioStart < k /\ k <= g.audioStart + g.audioCount
  /\ Strays \subseteq [prefix : BOOLEAN, suffix : BOOLEAN, body : Seq(Characters)]

VARIABLES
  phase,    \* "render", "size", "serve" or "failed"
  maxSize,  \* max_segment_size
  lines,    \* the playlist: the duration and the name of every segment
  target,   \* EXT-X-TARGETDURATION
  asked,    \* the name being requested
  answer,   \* the answer to the last request: its name, the status and the segment
  heard     \* the answers with a segment that the player got for its playlist, in order

vars == <<index, job, sink, phase, maxSize, lines, target, asked, answer, heard>>

served == <<maxSize, lines, target>>

Nothing == [prefix |-> FALSE, suffix |-> FALSE, body |-> <<>>]
NoAnswer == [name |-> Nothing, status |-> 0, idx |-> NoSegment]

Init ==
  /\ index \in Indexes
  /\ job = Idle
  /\ sink = Fresh(TRUE)
  /\ phase = "render"
  /\ maxSize = 0
  /\ lines = <<>> /\ target = 0
  /\ asked = Nothing
  /\ answer = NoAnswer
  /\ heard = <<>>

-----------------------------------------------------------------------------
(***************************************************************************)
(* The builder.                                                            *)
(***************************************************************************)
BuildFails ==
  /\ phase' = "failed"
  /\ UNCHANGED <<index, job, sink, served, asked, answer, heard>>

\* write_media_playlist.
RenderPlaylist ==
  /\ phase = "render"
  /\ IF index.timescale = 0 \/ \E i \in DOMAIN index.segments : ~VideoInTable(index.segments[i])
       THEN BuildFails
       ELSE LET ticks == [i \in DOMAIN index.segments |-> SegmentTicks(VideoSamples(index.segments[i]))]
            IN  /\ phase' = "size"
                /\ target' = TargetDuration(ticks, index.timescale)
                /\ \E round \in [DOMAIN ticks -> {0, 1}] :
                     LET Value(i) == (ticks[i] * Decimals) \div index.timescale + round[i]
                     IN  /\ \A i \in DOMAIN ticks : Value(i) \in Extinf(ticks[i], index.timescale)
                         /\ lines' = [i \in DOMAIN ticks |->
                                        [extinf |-> Value(i), name |-> SegmentName(i)]]
                /\ UNCHANGED <<index, job, sink, maxSize, asked, answer, heard>>

\* Faulty variant for FitsBuffer: the last segment's size.
RaisedToLast(m, len) == len

\* max_segment_size, with another segment.
Raised(m, len) == Larger(m, len)

Sized == IF job.pc = "idle" THEN 0 ELSE job.idx + 1

\* The next segment into a new CountingSink.
SizeSegment ==
  /\ phase = "size"
  /\ job.pc \in {"idle", "Ok"}
  /\ IF job.pc = "Ok" /\ sink.bytes.len > U32Max
       THEN BuildFails
       ELSE /\ maxSize' = IF job.pc = "Ok" THEN Raised(maxSize, sink.bytes.len) ELSE maxSize
            /\ IF Sized < Len(index.segments)
                 THEN StartWrite(Sized, TRUE) /\ UNCHANGED phase
                 ELSE phase' = "serve" /\ job' = Idle /\ UNCHANGED sink
            /\ UNCHANGED <<index, lines, target, asked, answer, heard>>

SizeFails == phase = "size" /\ job.pc = "Err" /\ BuildFails

-----------------------------------------------------------------------------
(***************************************************************************)
(* The handlers, and who asks.                                             *)
(***************************************************************************)
Answer(status, idx) ==
  /\ answer' = [name |-> asked, status |-> status, idx |-> idx]
  /\ asked' = Nothing

\* handle_segment_path and handle_segment up to the writer.
Dispatch ==
  /\ phase = "serve" /\ asked # Nothing /\ job.pc = "idle"
  /\ LET idx == ParseSegmentIdx(asked)
     IN  IF idx = NoSegment \/ idx >= Len(index.segments)
           THEN Answer(404, NoSegment) /\ UNCHANGED <<job, sink>>
           ELSE StartWrite(idx, FALSE) /\ UNCHANGED <<asked, answer>>
  /\ UNCHANGED <<index, phase, served, heard>>

\* The segment is written: the buffer is the body of the answer.
Respond ==
  /\ phase = "serve" /\ job.pc \in {"Ok", "Err"}
  /\ IF job.pc = "Ok" THEN Answer(200, job.idx) ELSE Answer(500, NoSegment)
  /\ heard' = IF job.pc = "Ok" /\ Len(heard) < Len(lines) /\ asked = lines[Len(heard) + 1].name
                THEN Append(heard, sink.bytes) ELSE heard
  /\ job' = Idle
  /\ UNCHANGED <<index, sink, phase, served>>

\* The player asks for the next segment of its playlist.
PlayNext ==
  /\ phase = "serve" /\ asked = Nothing
  /\ Len(heard) < Len(lines)
  /\ asked' = lines[Len(heard) + 1].name
  /\ answer' = NoAnswer
  /\ UNCHANGED <<index, job, sink, phase, served, heard>>

AskStray ==
  /\ phase = "serve" /\ asked = Nothing
  /\ \E name \in Strays : asked' = name
  /\ answer' = NoAnswer
  /\ UNCHANGED <<index, job, sink, phase, served, heard>>

Stopped == phase = "failed" /\ UNCHANGED vars

WriteOn == Write /\ UNCHANGED <<phase, served, asked, answer, heard>>

Next ==
  \/ RenderPlaylist \/ SizeSegment \/ SizeFails
  \/ Dispatch \/ Respond
  \/ WriteOn
  \/ PlayNext \/ AskStray
  \/ Stopped

Spec == Init /\ [][Next]_vars

-----------------------------------------------------------------------------
(***************************************************************************)
(* What a player makes of the segment f: for the track with the given id,  *)
(* the samples with their times and their bytes.                           *)
(***************************************************************************)
Body(b) == b.start + b.header
In(f, b, t) == {c \in Range(Kids(f, b).boxes) : c.type = t}

\* The track runs: the track, its decode time, and where moof and the body of trun are.
Runs(f) ==
  LET whole == [start |-> 0, header |-> 0, size |-> f.len]
  IN  UNION {UNION {{[id |-> NumAt(f, Body(h) + 4), base |-> NumAt(f, Body(d) + 4),
                      moof |-> m.start, trun |-> Body(r)] :
                        h \in In(f, t, "tfhd"), d \in In(f, t, "tfdt"), r \in In(f, t, "trun")} :
                     t \in In(f, m, "traf")} :
              m \in In(f, whole, "moof")}

SamplesOf(f, r) ==
  LET Flag(bit) == (NumAt(f, r.trun + 1) \div bit) % 2
      Row(i) == r.trun + 12 + 4 * Flag(4) + (i - 1) * (8 + 4 * Flag(2048))
      n == NumAt(f, r.trun + 4)
      size == [i \in 1 .. n |-> NumAt(f, Row(i) + 4)]
      at[i \in 1 .. n + 1] ==
        IF i = 1 THEN r.moof + NumAt(f, r.trun + 8) ELSE at[i - 1] + size[i - 1]
      dts[i \in 1 .. n + 1] == IF i = 1 THEN r.base ELSE dts[i - 1] + NumAt(f, Row(i - 1))
  IN  [i \in 1 .. n |->
        [dts |-> dts[i],
         cts |-> dts[i] + IF Flag(2048) = 1 THEN NumAt(f, Row(i) + 8) ELSE 0,
         data |-> [j \in 1 .. size[i] |-> NumAt(f, at[i] + j - 1)]]]

Decoded(f, id) == CHOOSE s \in {SamplesOf(f, r) : r \in {x \in Runs(f) : x.id = id}} : TRUE

\* What a track is.
Content(track) ==
  LET dts[i \in 1 .. Len(track) + 1] == IF i = 1 THEN 0 ELSE dts[i - 1] + track[i - 1].delta
  IN  [i \in DOMAIN track |->
        [dts |-> dts[i], cts |-> dts[i] + track[i].cts,
         data |-> [j \in 1 .. track[i].size |-> track[i].offset + j]]]

Played(id) ==
  LET from[i \in 1 .. Len(heard) + 1] ==
        IF i > Len(heard) THEN <<>> ELSE Decoded(heard[i], id) \o from[i + 1]
  IN  from[1]

\* The player gets the samples all of the track with this id: all of them, once, in order.
Follows(id, all) ==
  \E played \in {Played(id)}, source \in {all} :
    /\ IsPrefix(played, source)
    /\ heard # <<>> /\ Len(heard) = Len(lines) => played = source

\* The track, each sample composed when it is decoded.
NoOffsets(track) == [i \in DOMAIN track |-> [track[i] EXCEPT !.cts = 0]]

\* A player that follows the playlist and believes sizes, data offsets and times in the
\* boxes gets the samples of both tracks: all of them, once, in order, each with its
\* decode time and its bytes of the source; those of video with their composition times,
\* those of audio as if the source had no composition offsets there, which is not what
\* SPEC.md:327 says of trun ("composition offsets when CTTS is present").
PlaybackExact ==
  /\ Follows(1, Content(index.video))
  /\ Follows(2, Content(NoOffsets(index.audio)))

\* What the server writes for a request is no longer than the buffer that the builder's
\* counting sink measured, and the size that mdat was given never turns out wrong.
FitsBuffer ==
  /\ job.pc # "panic"
  /\ phase = "serve" /\ job.pc \in {"stream", "Ok"} => sink.bytes.len <= maxSize

\* name is the given one, or the given one with more zeros in front of its number.
Stands(name, given) ==
  LET zeros == Len(name.body) - Len(given.body)
  IN  /\ name.prefix = given.prefix /\ name.suffix = given.suffix
      /\ zeros >= 0
      /\ \A j \in DOMAIN name.body :
           name.body[j] = IF j <= zeros THEN 0 ELSE given.body[j - zeros]

\* A request gets the i-th segment if it names it as the playlist does or with more zeros
\* in front, and only then: a name with fewer digits than the playlist prints, with the
\* number zero or one too large, or with anything else in it, is not found.
NamesResolve ==
  /\ answer.status = 200 =>
       /\ answer.idx + 1 \in DOMAIN lines
       /\ \A i \in DOMAIN lines : Stands(answer.name, lines[i].name) <=> answer.idx = i - 1
  /\ answer.status = 404 => \A i \in DOMAIN lines : ~Stands(answer.name, lines[i].name)

\* No segment is printed longer than the target duration, and after i segments the
\* printed durations are off by at most i halves of the last decimal place.
PlaylistHonest ==
  LET Ticks(i) == SegmentTicks(VideoSamples(index.segments[i]))
      off[i \in 0 .. Len(lines)] ==
        IF i = 0 THEN 0
        ELSE off[i - 1] + (lines[i].extinf * index.timescale - Ticks(i) * Decimals)
  IN  \A i \in DOMAIN lines :
        /\ lines[i].extinf <= target * Decimals
        /\ 2 * off[i] <= i * index.timescale /\ -(2 * off[i]) <= i * index.timescale

\* The limits an archive has to keep.
Servable ==
  /\ index.timescale # 0
  /\ \A i \in DOMAIN index.segments :
       LET g == index.segments[i]
           video == SumSizes(VideoSamples(g))
           payload == video + SumSizes(AudioSamples(g))
       IN  /\ VideoInTable(g) /\ AudioInTable(g) /\ g.videoCount # 0 /\ g.audioCount # 0
           /\ Styp.len + Moof(i - 1, g).len + 8 + payload <= U32Max
           /\ Moof(i - 1, g).len + 8 + video <= I32Max
  /\ \A t \in {"video", "audio"} : \A i \in DOMAIN index[t] :
       index[t][i].size # 0 => index[t][i].offset + index[t][i].size <= index.sourceLen

\* An archive is refused by the builder exactly if it breaks a limit, and one that was
\* built is never refused by the server: no request ends with an internal error.
RefusedOnlyByBuilder ==
  /\ phase = "failed" => ~Servable
  /\ phase = "serve" /\ heard = <<>> => Servable
  /\ answer.status # 500
=============================================================================
