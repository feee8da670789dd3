# A TLA+ model of cmafly

cmafly is an HTTP origin that serves CMAF HLS straight from MP4 files. An offline
command, `cmafly-index`, reads an MP4 once and writes an `.idx` beside it; a server,
`cmafly-serve`, maps `.idx` and `.mp4` and assembles every segment on request. This
directory models the parts of it whose correctness depends on interleaving, failure,
ordering or arithmetic at a boundary, checks them with TLC on small instances and
proves the most important properties with TLAPS for all of them.

## The system

| Component | State | Operations | Talks to |
|---|---|---|---|
| Archive registry (`server/src/registry.rs`) | a mutex around an LRU of entries (two mappings each) | `get` = `lookup`, `load`, `insert` | the file system; handlers keep the `Arc` it returns |
| Segment admission and streaming (`server/src/handlers.rs`) | a tokio semaphore, one assembly buffer per request that holds a permit | `acquire_permit`, `handle_segment`, `PermitBody` | hyper polls and drops the body; the clients read or go away |
| Routing and the other handlers (`handlers.rs`, `error.rs`) | none | `parse_segment_idx`, playlist, init, status codes | registry, packager |
| Configuration and startup (`config.rs`, `main.rs`) | the resolved knobs | `resolve`, `verify_tunable`, `main` | `/proc`, flags; sizes registry and semaphore |
| Box reader and moov parser (`demux/reader.rs`, `demux/moov.rs`) | a cursor | `next_header`, `parse_top_level` | builder |
| Sample table walk (`demux/sample_table.rs`) | cursors into six tables | `walk` | builder |
| Splitter (`segment/splitter.rs`) | cursors into two tracks, the segment table | `split` | builder |
| Index builder, format and view (`index/*.rs`) | the byte image | `build`, `serialise`, `open` | all of the packager; the registry opens a view on each load |
| fMP4 writers (`fmp4/*.rs`) | a cursor in the output | `write_init_segment`, `write_media_segment` | builder and segment handler |
| Playlist (`playlist/m3u8.rs`) | none | `write_media_playlist` | builder and playlist handler |
| Positional reads (`read_at.rs`) | none | `read_at` | every reader of the source |
| Indexer command (`indexer/src/main.rs`) | the output and its `.tmp` sibling | `run`, `write_atomic` | the file system, read by the server |

What is hard here, and hard to test:

- requests interleave at every lock and every system call of `load`, while an operator
  replaces and deletes files (registry);
- a permit travels through a semaphore, a timeout, a handler that may fail and a body
  that may be dropped at any poll (admission);
- power fails or the process is killed between write, fsync, rename and the directory's
  fsync; the server keeps what was published mapped (indexer);
- cuts, roundings and implied lengths have to fit together over whole files (walk,
  splitter, format), at the limits of u32 and u64 as well;
- boxes say their own size in three forms, are copied from one container into another,
  and say where bytes are by offsets that are patched afterwards; one wrong number and a
  player decodes garbage (demuxer, writers);
- auto-sizing meets hosts at the limits of their tunables (configuration).

`PROJECT.json` lists these hazards by line, with the properties that cover each.

## Modules

Every component has one module; `MC*` modules give its constants values for TLC,
`*Proofs` modules hold its theorems (`ServerProofs` those of Admission and Config). Definitions keep the code's names. A definition
called a *faulty variant* is a plausible bug that the named property has to catch; no
specification uses one. They stand directly before the definition they vary.

```
          Bytes --------- BoxTree           what byte strings and boxes are
            |              |    |
          Demux      MediaSegment   Playlist
            |              |    |   |
          InitSegment           Serve       source -> init segment; index -> playback
          SampleTable  Splitter  IdxFormat  AtomicWrite      the rest of the indexer
          Registry  Admission (implements Gate)  Config      the rest of the server
```

### Registry

`get` of any number of requests, one action per step that another request or the
operator can observe: `Lookup` (the first critical section), `StatIdx`, `OpenIdx`,
`OpenMp4`, `OpenView` (the calls of `load`, in order), `Insert` (the second critical
section, with its re-check, LRU promotion, push and eviction), `DropOutsideLock` (the
evicted `Arc` is dropped after unlocking), `Release` (the handler returns). `IoError`
is any other failure of a system call. The operator's `SetIdx` and `SetMp4` change a
file to absent, not-a-file, corrupt or another generation; generations have lengths, and
`OpenView` compares the length the index records with the length of the mapping, as the
code does. Entries live at addresses, so that two entries of one archive are
different. `touched`, `since` and `quiet` are history variables.

Runs: `registry_files` (2 requests, 1 archive, 2 generations of different length, up to
3 file changes, capacity flag 0, which the code turns into 1) and `registry_lru` (2
requests, 3 archives, capacity 2, so that promotion, eviction, duplicate loads and
reuse of an evicted id all happen). Addresses suffice for every entry that can be alive
at once, so that `OpenView` never waits for one. Requests, ids and addresses are
symmetric; `registry_files` uses no symmetry since it checks liveness too.

- `ServedPairsAgree`: no entry pairs an `.idx` with an `.mp4` of another length, whatever
  changed between the two opens, and a request gets the archive it asked for.
- `QuietOutcome`: if nothing changed during a `get`, its status says what is on disk, as SPEC.md
  has it: 404 for a missing `.idx`, 500 for a pair that cannot be used, one without its `.mp4`
  included. (README.md wants 404 there, and a deletion *during* a `get` can have another
  outcome, see below.)
- `LRUExact`: entries are evicted in exact order of use (a hit in `insert`'s re-check counts as a
  use); one entry per id and never above capacity (`CacheSound`) is part of the proof.
- `FirstInsertWins`, `ReturnsTheCachedEntry`: of two racing loads the first insert stays,
  and the loser returns the winner's entry.
- `MappedBound`: mapped regions are bounded by the capacity plus what requests own.
- `EveryGetReturns`: `get` never awaits and takes its locks for a bounded time, so every
  request takes its next step (weak fairness of `Step`).

### Admission

The segment handler from the moment the entry is there: `Arrive`, `FirstPoll` of
`acquire_permit` (the semaphore is polled before the timer), `Deadline`, `PollGranted`,
`PollElapsed` and `DropAcquire` (503), `AllocBuffer`, `AssembleOk` / `AssembleErr`, `PollFrame`
(one chunk), `EndStream`, and the client going away while the handler waits or the body streams.
The semaphore is modelled from tokio's contract: a FIFO queue, and a released permit is
assigned to the first waiter directly. So is the timeout, whose poll looks at the acquire,
then at the timer, and drops the acquire afterwards: between `PollElapsed`, the look at the
timer, and `DropAcquire` another thread may assign the permit. Then 503 is answered to
a request that has just been granted, and dropping the acquire passes the permit on.

`Gate` is what this is meant to be, without semaphore, timer, buffer or stream: a room with
`Places` places and a line. Nobody stands in line while there is a place, nobody overtakes
the line, who leaves is replaced by the first in line, and only somebody whose time was up
while it stood in front of a full room is refused. It may be let in before it hears so; then
it gives its place to the first in line. `TheGate` maps the requests that hold a permit to the
room, the semaphore's queue to the line, those between the two steps of the timeout to the
expired and those answered with 503 to the refused.

`admission`: 4 requests, 2 permits, buffers of one unit and one chunk: two holders, a waiter
and one behind it, with every way for each to leave.

- `KeepsGate`: Admission implements Gate, so no interleaving of timer, grant, error and
  disconnect refuses early, lets anybody pass, strands a waiter or lets a refused request
  in after all.
- `PermitsConserved`, `QueueIsWaiting`: no path loses or makes up a permit, or leaves a
  refused request in the queue.
- `RamBound`: buffers never exceed permits x max_segment_size: the order *permit, then
  buffer* is what holds it.
- `WaitersAnswered` assumes only that the runtime polls what is ready and fires timers
  (weak fairness of `ServerStep`): clients that stop reading cannot keep a waiter from
  its answer. `EveryRequestEnds` has the clients' reading as its premise (`ClientsRead`):
  the code sets no timeout on a stalled body, and without the premise it does not hold.

### Splitter

`split` as one behaviour: the checks of its inputs, the walk over the video samples, the
cut, the advance of the audio cursor, the pushes and the tail. Tracks are functions of
start times, which is what sums of durations are; `nominal_secs` is a fraction; sums are
checked against `MaxTick` where the code uses checked arithmetic. Counts of samples are
not limited to u32.

`splitter`: all tracks of up to 4 video samples (durations 0 to 2, any sync flags) and 3
audio samples (0, 1, 3), timescales 2:3, 3:2 and 1:0, nominal durations 0, 1/4 and 3/2,
with a u64 that ends at 7: several cuts, empty tails, rounding both ways, overflow.

- `Partitions`: the segments partition both tracks, in order and without a gap.
- `StartsAtSync`, `CutInTime`: each segment starts at a sync sample, at the first one at or
  after the nominal duration.
- `BaseDtsExact`, `AudioAligned`: base decode times are those of the first samples, and audio
  is cut at the first sample that does not start before the video boundary, compared in
  real time.

### SampleTable

`walk`: a step per run of stts and ctts, per entry of stsc, per chunk and per sample, with
the framing checks of `read_full_box_table`, `read_stsz`, `read_ctts` and `read_stsc`.
The properties compare it with what the tables mean, defined without expanding them.

`sample_table`: tracks of up to 3 samples, and around a plain track every pair of stts and
ctts runs, every stsc of up to two (and many of three) entries with up to three
chunks, every stss of two entries, and malformed boxes, in all about 69,000 inputs. A u32
has 8 values (so that sign matters), a u64 ends at 9 (so that offsets overflow).

- `RowsExact`: every emitted row has the place, size, delta, offset and sync mark that the
  tables give that sample.
- `AcceptsExactly`: `walk` succeeds if and only if the tables are consistent.

### IdxFormat

`serialise` and `IndexView::open`, in real byte counts. Blobs are opaque; what counts is
which ranges of the file the reader hands out. Between the two the file may be cut at any
length or damaged in one number.

`idx_format`: blobs of 0, 8, 9 and 12 bytes, tables of one and two rows, playlists that need
padding and that do not; every cut; every stored number off by 1, 4, 8 or 24, zero
or maximal; U32Max is 600, so that a blob can be too large for its size field.

- `RoundTrip`: what is built is accepted, and every item found exactly where it was put.
- `InBounds`: an accepted view lies inside the file, rows aligned and whole, items disjoint,
  whatever the numbers in the file are. This is what the two `unsafe` slices rest on.
- `CutIsSeen`: a file cut short is refused, except for a cut inside the init segment, whose
  length the format does not record: there `open` succeeds with fewer bytes.

### AtomicWrite

`write_atomic` over a file system that is modelled from what the code asks of it: names
stand for inodes, writes and directory operations reach the disk at the latest with the
fsync of the file or directory, and a power failure leaves any state since then.
Directory operations reach the disk in order. Invocations may abort anywhere.

`atomic`: three invocations one after the other, one of which needs two writes, with four
inodes (output, sibling, and two that unsynced states may still refer to).

- `DstWhole`: the output is never partial or mixed. `AckedSurvives`: after success, no crash
  brings an older index back. `OldUntilRename`: nothing is lost before the rename.
- `PublishedUnchanged`: a published inode is never written, so a server may keep it mapped.

### Config

`resolve`, `verify_tunable` and `main` up to serving, over a small machine word (31) so that
saturation and overflow happen; flags and host values around each limit.

- `MapBudget`: a server that serves has room for the mappings of every archive its registry
  may hold, flags included, and auto-sizing refuses only hosts below the floor. The one
  exception is in the formula: `IndexRegistry::new` rounds a flag of 0 up to one archive,
  whose two mappings the check did not count (see below).
- `RamBudget`: auto-sized buffers stay within their fraction of RAM, unless at the floor.

### Demux and InitSegment

`Bytes` has byte strings as a length with the numbers and type codes that start at their
offsets; everything else in them is zero. It also has what a file is without walking it (`Children`:
the boxes of a range), which only properties use. `BoxTree` is what `BoxWriter` makes of
nested boxes.

`Demux` is `BoxIter::next_header` and the parser around it. `loop` says in which of the
nested loops the parser is (file, moov, trak, mdia, minf, stbl, stsd, sample entry); there
is one action per box a loop meets and one per end of a loop. `found` holds the locals
(the last header of each type), and is cleared when a track ends, since the locals of
`parse_trak` are gone. `BadHeader` is every error of `next_header`, `SkipUuid` its inner
loop, `ReadError` a failing read wherever the code reads. Messages of one error variant
are not told apart.

`InitSegment` adds `write_init_segment`, box by box with the real lengths, and runs the
demuxer on what it wrote. Fields that neither the demuxer nor the writer's input has
(matrix, language, volume, default sample flags) are zeros.

`demux`: a plain pair of tracks and all files that one change makes of it (a child dropped,
doubled, moved, inserted or replaced by one of another version, codec or length; a size
that is 0, 64-bit, zero in 64 bits, too large, too small, or smaller than the header), and
those that a size form together with a change of the siblings makes: about 110,000 states.
16.16 fixed point has 16 values per half and a u8 ends at 4, so that the limits are met.

- `AcceptsPlainPairs`: a file is accepted if and only if, seen as a whole, it holds one
  unencrypted, unfragmented video track and one such audio track. `PlainPair(r)` says so of
  the tree of boxes, for a reading `r` of what *encrypted* means, because the code, a comment in
  it and SPEC.md differ: on whether signs of encryption count wherever they are, on whether
  only sample groups of type `seig` do, and on where the children of a version 1 audio entry
  start. The property holds the code to the reading `Taken`, so that it is also exact on the files
  on which the documents say otherwise, which the run has of each kind (see below).
- `RangesApart`: the ranges that the builder will read lie in moov and do not overlap, within
  a track and across tracks: nothing of one track leaks into the next.
- `InitReadsBack`: the init segment of an accepted file is itself accepted and says the same of
  both tracks. `demux` leaves out the one kind of source for which this fails (an `edts`
  with size 0 at the end of its track), which is the run `init_edts`, see below.
- `ParseEnds`: every walk ends. The fairness is that the parser's thread runs (weak fairness of
  `Walk`); what could keep it from ending is a box that does not advance the cursor.

### MediaSegment, Playlist and Serve

`MediaSegment` is `write_media_segment`: the checks, `styp` and `moof` with their rows, one
action per `read_at`, then `finish_expecting` and the patched data offsets. Its sink is
the server's buffer or the builder's `CountingSink`. A byte of the source is its offset
plus one, so that copies tell where they come from. Errors leave the sink as it was,
since both callers throw it away.

`Playlist` is `write_media_playlist` and its inverse, `parse_segment_idx`. EXTINF is a set:
the nearest decimal, or both at a tie, since the quotient is computed in floating point.
(Above 2^53 ticks an f64 is coarser than that; the model does not go there.)

`Serve` composes them: the builder renders the playlist and sizes every segment, the segment
handler answers, a player follows the playlist, and others ask for names that are in no
playlist. The player decodes what it gets by the rules for `moof`, knowing nothing else.

`serve`: samples of 0 to 9 bytes around a copy buffer of 4, one to five segments, with and
without composition offsets in either track (negative ones too), time scales that do and do not divide, a source that
ends with or inside the last sample; u32 ends at 511 and i32 at 255, so that a segment can
be too large in each way; names have binary digits, at least two, and numbers end at 9, so that
names get wider, and all names of up to four digits are requested.

- `PlaybackExact`: what the player decodes is a prefix of the source's samples of each track
  (decode times, bytes, and for video composition times), and all of them after the last
  segment. Audio is composed when it is decoded even if the source has offsets for it,
  as some of the archives do (see below).
- `FitsBuffer`: no segment is longer than the size that the counting sink found, and
  the size assertion of `mdat` never fires.
- `NamesResolve`: a request gets the n-th segment if and only if it asks for the n-th name of the
  playlist or for that name with more zeros in front; names with too few digits, zero, numbers
  that are too large and non-numeric names get 404.
- `PlaylistHonest`: no duration is printed above the target duration, and rounding does not add
  up to more than half a unit per segment.
- `RefusedOnlyByBuilder`: the builder refuses exactly what breaks a limit, and the server
  never answers 500 for what the builder accepted.

## Where documents and code differ

Two runs are expected to violate a property that states what a document or a comment says:

- `atomic_concurrent` (`DstWhole`): `write_atomic` is documented as atomic; two invocations
  with one output share the `.tmp` sibling and can publish a mix.
- `init_edts` (`InitReadsBack`): SPEC.md has edit lists passed through verbatim, and the reader
  accepts boxes whose size is 0, "to the end of the container". An `edts` of that form at the
  end of its `trak` is copied in front of `mdia`, which becomes a part of it: the init segment
  has a track without media.

In other places a property of a passing run states what the code does, on cases the run reaches,
where a document or a comment says something else:

- `QuietOutcome`: README.md has 404 once one or both files are deleted; with only the `.mp4`
  deleted the answer is 500, as SPEC.md says. No 404 is given while the `.idx` is there.
- `MapBudget`: a comment in `IndexRegistry::new` says that the knob is clamped and never zero, and
  SPEC.md that it sizes the registry; the flag is not clamped, 0 is rounded up to 1, and the
  check of `vm.max_map_count` has not counted that archive. Without its exception for the flag 0
  the property fails.
- `AcceptsPlainPairs`, in three ways: it fails if a field of `Taken` is given the documents' value.
  SPEC.md tolerates sample groups other than `seig`; at the top level and in a sample entry every
  `sbgp` and `sgpd` is taken for encryption (`groups`). SPEC.md refuses sources in which `senc`,
  `tenc` or `sinf` is present; those in `moov`, `trak`, `mdia` or `minf` are not looked for
  (`strays`). A comment in `parse_audio_sample_entry` has the children of a version 1 entry behind
  36 bytes; `verify_no_encryption` starts behind 20 for both versions, so that a `sinf` can hide
  behind what it takes for a box header (`v1`).
- `PlaybackExact`: SPEC.md has composition offsets in `trun` when there is a ctts, and format.rs says
  that those of audio are always 0; `walk` keeps them and `write_audio_trun` leaves them out.
  With the offsets of audio in its second line the property fails.

Met while modelling, without a property: SPEC.md has a deleted archive that is not cached stop
being served immediately, but a load that opened its files before the deletion puts it into the
cache afterwards, since `insert` does not look at the files again; edit lists are copied with durations in the
source's movie time scale, but the init segment's is 1000; `seg_00001.m4s` names segment 1 as
well as `seg_0001.m4s` does, where the comment on `parse_segment_idx` rules out aliases by
shorter names only; entries that requests still own keep the number of mmap regions above
SPEC.md's `2 x max_open_archives` for a while (`MappedBound` is the bound that holds); and the
last segment may be shorter than nominal, although SPEC.md says "Never < nominal" and the help
text of `--segment-duration` *always*.

## Proofs

For all values of the constants, with the assumptions named in each module: types of
constants, and what the code guarantees about its inputs. The longest inductive
invariants, those of IdxFormat, SampleTable and Serve, were checked by TLC on the instances of
their runs before they were proved. A theorem that states a property of a run uses the run's own
definition of it.

- `RegistryProofs`: type correctness, `ServedPairsAgree`, `FirstInsertWins`,
  `ReturnsTheCachedEntry`, `LRUExact`, `QuietOutcome` and `MappedBound`. The inductive
  invariant `IInv` adds `CacheSound` (one entry per id, never above capacity) and what a
  request in the middle of `load` holds; `LRUExact` needs `RecencyInv`: the order of the
  cache is the order of last uses, and everything outside is older. `QuietOutcome` needs
  what an undisturbed request has learnt so far; `MappedBound` counts: every mapping
  belongs to a cached entry, to a request's own one, or to one being dropped. It is the one
  that takes the requests to be finitely many (`ConstantsAssumption`).
- `ServerProofs`, on Admission: type correctness, `PermitsConserved`, `NoIdlePermit`, `QueueIsWaiting`,
  at most `Permits` buffers, `RamBound`, and the refinement `AdmissionKeepsGate`
  (`Spec => KeepsGate`). `GateInv` is the conjunction of the first three, inductive only
  together: handing a permit to the head of the queue conserves permits because the head
  waits. `RamBound` adds to the number of buffers that a fold over requests, each of which
  owns nothing or one buffer, is at most their number times a buffer. The refinement takes
  `IInv` and `Unanswered` (a request under way has not been refused) and shows, action by
  action, which step of Gate it is, or that it changes nothing Gate can see; `PollElapsed` is
  its `Expire`, `DropAcquire` its `Refuse`.
- `ServerProofs`, on Config: `MapBudget` (with its exception for a flag of 0) and `RamBudget`, for
  every word size, host and flags; the lemmas are about saturating products and rounded quotients.
- `SplitterProofs`: type correctness, `Partitions`, `StartsAtSync`, `BaseDtsExact`, `CutInTime`
  and `AudioAligned`. The invariant says what the cursors stand for (`CursorInv`), what the
  open segment is (`ActiveInv`), and that the table so far is good (`TableInv`,
  `AudioInv`); the arithmetic of `scale_dts_ceil` is the lemma `BelowCeilDiv`.
- `SampleTableProofs`: `RowsExact` and `AcceptsExactly`, for tables of any length and content
  (`TablesAssumption`: unsigned numbers, and the tables that `parse_stbl` requires). The
  invariant says of each phase of `walk` what it has of the tables' meaning: the runs
  expanded are those of the first `k` entries (`RunsInv`), the chunks filled those of the
  first `k` of stsc (`ChunkInv`), and offset and number of the next sample are sums of
  sizes and of samples per chunk (`WalkInv`). `ErrInv` is the half of `AcceptsExactly` that
  tests hardly reach: each of the early returns contradicts consistency.
- `IdxFormatProofs`: `RoundTrip`, `CutIsSeen` and `InBounds`, for all lengths of the sections
  (`InputsAssumption`: the playlist is not empty) and all values a damaged number may get. The
  invariant is the layout that `serialise` leaves (`LayoutInv`, `LengthInv`), what is known of the
  numbers in each phase of `open` (`PhaseInv`, `ViewInv`), and that an undamaged image passes
  every check (`SeenInv`, `ErrInv`).
- `AtomicWriteProofs`: `DstWhole`, `AckedSurvives`, `OldUntilRename` and the action property
  `PublishedUnchanged`, for any contents and number of writes, aborts and power failures, under
  `~Concurrent`: with concurrent invocations they are false, see above. The invariant relates
  the directory in memory to every state of it that the disk may still have.
- `DemuxProofs`: `RangesApart` and `AcceptsPlainPairs`, for every file (`DemuxAssumption`: the
  numbers in a file are natural; `NoneAssumption`: the value for *nothing yet* is no
  header and no outcome) and every read that fails. For `RangesApart`
  the invariant is that each loop runs inside the box it was entered for, that the headers
  found of a track lie in its `trak` before the cursor and do not overlap, and that the tracks
  parsed lie before the cursor of `moov`. For `AcceptsPlainPairs` it is `VerdictInv`, about the
  reading that the code takes (`TakenPair`, which spells it out and which `TakenIsPlain` shows to
  be `PlainPair(Taken)`): the file
  is such a pair if and only if what is *left* of each open loop, together with what was found
  and the tracks parsed so far, completes one (`FileAhead`, `TrakAhead`, ..., `EntryAhead`, one
  per loop). Two facts carry it: `Children` of a range is the box at its start followed by
  `Children` of the rest (a recursive function, so its equation is proved first), and a box
  that a loop passes moves from what is left to what was found without changing the verdict.
- `ServeProofs`: `FitsBuffer`, `RefusedOnlyByBuilder`, `PlaylistHonest` and `NamesResolve`, for all
  archives, requested names, number bases and limits. `ServeAssumption` is what an index is: the
  types of its numbers, no more segments than `encode_segment_table` can count in a u32, and
  segments that cover both tables when they are inside of them, which is what `Partitions` says of
  the splitter; segments that are empty or outside the tables, a time scale of 0, and
  samples behind the end of the source or too large remain possible. The folds of the model are
  unrolled one by one; then
  the length of every box is a formula in the numbers of samples. The invariant `IInv` says of
  the writer how many bytes it has written for the samples copied so far and that the
  rest fits (`Placed`, `Ahead`, `Counted`), of the builder that each segment sized so far is
  within all limits and not longer than `maxSize` (`PhaseInv`), and what the playlist, the name
  being asked for and the last answer are (`PlaylistInv`, `NameInv`, `AnswerInv`). For
  `NamesResolve` the digits of a name are shown to read back as its number, and a name that reads
  as a number to be the playlist's name of it with zeros in front (`ReadsExactlyPadded`); for
  `PlaylistHonest` the errors of the printed durations are shown to add up to at most half a unit
  each.

No installed prover can use an induction theorem with an operator as its parameter. Where a
proof needs induction on a number (sums in SampleTable and Admission, the boxes of a range in
Demux, folds, digits and durations in Serve), it takes the least element of the set of
counterexamples instead, which `WellFoundedInduction` states of sets.

Only model-checked:

- liveness (`EveryGetReturns`, `WaitersAnswered`, `EveryRequestEnds`, `ParseEnds`), which is out
  of the prover's reach;
- `InitReadsBack`: it is false for some sources (`init_edts`), so a theorem could only be about
  the sources without that form of `edts`, and it relates two runs of the demuxer over bytes
  that are put together from some thirty boxes, whose contents (functions written with `:>` and
  `@@`) the provers cannot reason about;
- `PlaybackExact`: for the same reason. `ServeProofs` knows the length of everything that is
  written, and not the contents that the player reads back.

## Not modelled

BLAKE3 of the source (nothing reads it), HTTP headers, the healthz, playlist and init
handlers beyond their use of the registry (they copy a section of the index), argument
parsing, logging and error wording, and the contents of media. SIGBUS on a truncated
mapping ends the process and is outside the model. Of `validate_id` only the split into
accepted and rejected ids is modelled. Scheduling inside tokio is reduced to fairness.
`Serve` answers one request at a time: what concurrent requests share is the subject of
Registry and Admission, and the index and the source are read-only.
