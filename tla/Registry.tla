------------------------------ MODULE Registry ------------------------------
(***************************************************************************)
(* The archive registry of cmafly-serve (crates/server/src/registry.rs):   *)
(* a mutex-protected LRU of memory-mapped (.idx, .mp4) pairs, filled       *)
(* lazily by the requests themselves while an operator adds, replaces and  *)
(* removes files.                                                          *)
(*                                                                         *)
(* The mutex is held inside lookup and inside insert and nowhere else, so  *)
(* each of these is one action; the load between them runs unlocked and is *)
(* one action per system call, interleaved with the other requests and     *)
(* with the operator.                                                      *)
(*                                                                         *)
(* A file is abstracted to the generation of the source it belongs to.     *)
(* Operators replace files by rename, never in place, so what a request    *)
(* has mapped does not change under it.                                    *)
(***************************************************************************)
EXTENDS Integers, Sequences, FiniteSets

CONSTANTS Requests,        \* request tasks of the server
          Ids,             \* archive ids that pass validate_id
          Gens,            \* generations of a source .mp4
          SrcLen,          \* SrcLen[g]: byte length of generation g
          Addr,            \* identities of Arc<Entry> allocations
          NoEntry,         \* the None of an Option<Arc<Entry>>
          MaxOpenArchives, \* IndexRegistry::new's max_open_archives
          MaxOps           \* bound on the operator's file changes

ASSUME ConstantsAssumption ==
  /\ SrcLen \in [Gens -> Nat]
  /\ MaxOpenArchives \in Nat
  /\ MaxOps \in Nat
  /\ IsFiniteSet(Requests)

(***************************************************************************)
(* Special values of the file contents and of the request state.           *)
(***************************************************************************)
Absent == "absent"      \* no such directory entry
NotFile == "notfile"    \* the .idx path names something that is no regular file
Corrupt == "corrupt"    \* bytes that IndexView::open rejects
NoId == "noid"          \* a request that has not asked for anything yet

ASSUME GensAssumption == {Absent, NotFile, Corrupt} \cap Gens = {}

IdxContent == Gens \cup {Absent, NotFile, Corrupt}
Mp4Content == Gens \cup {Absent}

(***************************************************************************)
(* An Entry maps one .idx and one .mp4; addr distinguishes two Arcs that   *)
(* map equal files.                                                        *)
(***************************************************************************)
Entry == [addr : Addr, id : Ids, idx : Gens, mp4 : Gens]

ASSUME EntryAssumption == NoEntry \notin Entry

VARIABLES
  idxFile,   \* idxFile[id]: what {index_dir}/{id}.idx holds
  mp4File,   \* mp4File[id]: what {media_dir}/{id}.mp4 holds
  cache,     \* the LRU list, most recently used entry first
  pc,        \* where each request is inside IndexRegistry::get
  arg,       \* the id each request asks for
  idxMap,    \* load's local idx_mmap
  mp4Map,    \* load's local mp4_mmap
  held,      \* the Arc<Entry> a request owns: load's result, then get's
  doomed,    \* an Arc<Entry> a request still has to drop outside the lock
  outcome,   \* how the last get of each request ended
  ops,       \* operator changes so far (bounded by MaxOps)
  \* History variables: read by the properties only.
  touched,   \* ids that were ever returned by lookup or insert
  since,     \* since[id]: the distinct ids returned after id last was
  quiet      \* quiet[r]: nothing outside the server disturbed r's current get

fileVars == <<idxFile, mp4File, ops>>
lruVars  == <<cache, touched, since>>
loadVars == <<idxMap, mp4Map>>
vars == <<idxFile, mp4File, cache, pc, arg, idxMap, mp4Map, held, doomed,
          outcome, ops, touched, since, quiet>>

(***************************************************************************)
(* IndexRegistry::new rounds a capacity of zero up to one.                 *)
(***************************************************************************)
Capacity == IF MaxOpenArchives = 0 THEN 1 ELSE MaxOpenArchives

(***************************************************************************)
(* The lru crate, as registry.rs uses it: get moves the entry it finds to  *)
(* the front, push puts a new entry in front and gives back the one that   *)
(* falls off the end of a full list.                                       *)
(***************************************************************************)
Cached(id) == \E i \in DOMAIN cache : cache[i].id = id

PosOf(id) == CHOOSE i \in DOMAIN cache : cache[i].id = id

Promote(s, k) ==
  [j \in DOMAIN s |-> IF j = 1 THEN s[k] ELSE IF j <= k THEN s[j - 1] ELSE s[j]]

PushFront(s, e) ==
  LET n == IF Len(s) < Capacity THEN Len(s) + 1 ELSE Capacity
  IN  [j \in 1 .. n |-> IF j = 1 THEN e ELSE s[j - 1]]

Evicted(s) == IF Len(s) < Capacity THEN NoEntry ELSE s[Len(s)]

\* What returning id does to the recency history.
Touch(id) ==
  /\ touched' = touched \cup {id}
  /\ since' = [x \in Ids |->
                 IF x = id THEN {}
                 ELSE IF x \in touched THEN since[x] \cup {id} ELSE since[x]]

(***************************************************************************)
(* References.  An entry stays mapped while the cache or a request owns an *)
(* Arc of it; a load in progress owns bare mappings.                       *)
(***************************************************************************)
CacheEntries == {cache[i] : i \in DOMAIN cache}

HeldEntries ==
  {held[r] : r \in Requests} \cup {doomed[r] : r \in Requests}

Live == (CacheEntries \cup HeldEntries) \ {NoEntry}

\* The number of memory mappings the process has (two per live entry).
MappedRegions ==
  2 * Cardinality(Live)
    + Cardinality({r \in Requests : idxMap[r] # Absent})
    + Cardinality({r \in Requests : mp4Map[r] # Absent})

Active == {r \in Requests : pc[r] # "idle"}
Dropping == {r \in Requests : doomed[r] # NoEntry}

-----------------------------------------------------------------------------
Init ==
  /\ idxFile \in [Ids -> IdxContent]
  /\ mp4File \in [Ids -> Mp4Content]
  /\ cache = <<>>
  /\ pc = [r \in Requests |-> "idle"]
  /\ arg = [r \in Requests |-> NoId]
  /\ idxMap = [r \in Requests |-> Absent]
  /\ mp4Map = [r \in Requests |-> Absent]
  /\ held = [r \in Requests |-> NoEntry]
  /\ doomed = [r \in Requests |-> NoEntry]
  /\ outcome = [r \in Requests |-> "none"]
  /\ ops = 0
  /\ touched = {}
  /\ since = [id \in Ids |-> {}]
  /\ quiet = [r \in Requests |-> FALSE]

(***************************************************************************)
(* get's early return on an id that validate_id refuses.                   *)
(***************************************************************************)
RejectId(r) ==
  /\ pc[r] = "idle"
  /\ outcome' = [outcome EXCEPT ![r] = "BadRequest"]
  /\ quiet' = [quiet EXCEPT ![r] = FALSE]
  /\ UNCHANGED <<fileVars, lruVars, loadVars, pc, arg, held, doomed>>

BeginGet(r, id) ==
  /\ pc[r] = "idle"
  /\ pc' = [pc EXCEPT ![r] = "lookup"]
  /\ arg' = [arg EXCEPT ![r] = id]
  /\ outcome' = [outcome EXCEPT ![r] = "none"]
  /\ quiet' = [quiet EXCEPT ![r] = TRUE]
  /\ UNCHANGED <<fileVars, lruVars, loadVars, held, doomed>>

\* lookup: under the lock, find the entry, bump its recency, clone the Arc.
Lookup(r) ==
  /\ pc[r] = "lookup"
  /\ \/ /\ Cached(arg[r])
        /\ LET k == PosOf(arg[r])
           IN  /\ held' = [held EXCEPT ![r] = cache[k]]
               /\ cache' = Promote(cache, k)
        /\ Touch(arg[r])
        /\ pc' = [pc EXCEPT ![r] = "serve"]
        /\ outcome' = [outcome EXCEPT ![r] = "Ok"]
     \/ /\ ~Cached(arg[r])
        /\ pc' = [pc EXCEPT ![r] = "stat"]
        /\ UNCHANGED <<held, lruVars, outcome>>
  /\ UNCHANGED <<fileVars, loadVars, arg, doomed, quiet>>

\* load returns an error: its mappings are dropped, get returns the error.
Fail(r, error) ==
  /\ pc' = [pc EXCEPT ![r] = "idle"]
  /\ outcome' = [outcome EXCEPT ![r] = error]
  /\ idxMap' = [idxMap EXCEPT ![r] = Absent]
  /\ mp4Map' = [mp4Map EXCEPT ![r] = Absent]

\* Faulty variant for QuietOutcome: no stat, a missing .idx is an open error.
StatIdxFaulty(r) ==
  /\ pc[r] = "stat"
  /\ pc' = [pc EXCEPT ![r] = "openIdx"]
  /\ UNCHANGED <<fileVars, lruVars, loadVars, arg, held, doomed, outcome, quiet>>

\* Faulty variant for EveryGetReturns: a missing .idx is retried.
StatIdxRetry(r) ==
  /\ pc[r] = "stat"
  /\ pc' = [pc EXCEPT ![r] =
       IF idxFile[arg[r]] \in {Absent, NotFile} THEN "lookup" ELSE "openIdx"]
  /\ UNCHANGED <<fileVars, lruVars, loadVars, arg, held, doomed, outcome, quiet>>

StatIdx(r) ==
  /\ pc[r] = "stat"
  /\ \/ /\ idxFile[arg[r]] \in {Absent, NotFile}
        /\ Fail(r, "NotFound")
     \/ /\ idxFile[arg[r]] \notin {Absent, NotFile}
        /\ pc' = [pc EXCEPT ![r] = "openIdx"]
        /\ UNCHANGED <<outcome, loadVars>>
  /\ UNCHANGED <<fileVars, lruVars, arg, held, doomed, quiet>>

\* Faulty variant for TypeOK: what is no file is mapped all the same.
OpenIdxFaulty(r) ==
  /\ pc[r] = "openIdx"
  /\ idxMap' = [idxMap EXCEPT ![r] = idxFile[arg[r]]]
  /\ pc' = [pc EXCEPT ![r] = "openMp4"]
  /\ UNCHANGED <<fileVars, lruVars, mp4Map, arg, held, doomed, outcome, quiet>>

\* File::open + Mmap::map of the .idx.  A file removed since the stat is an
\* error here, not a 404.
OpenIdx(r) ==
  /\ pc[r] = "openIdx"
  /\ \/ /\ idxFile[arg[r]] \in {Absent, NotFile}
        /\ Fail(r, "Internal")
     \/ /\ idxFile[arg[r]] \notin {Absent, NotFile}
        /\ idxMap' = [idxMap EXCEPT ![r] = idxFile[arg[r]]]
        /\ pc' = [pc EXCEPT ![r] = "openMp4"]
        /\ UNCHANGED <<outcome, mp4Map>>
  /\ UNCHANGED <<fileVars, lruVars, arg, held, doomed, quiet>>

OpenMp4(r) ==
  /\ pc[r] = "openMp4"
  /\ \/ /\ mp4File[arg[r]] = Absent
        /\ Fail(r, "Internal")
     \/ /\ mp4File[arg[r]] # Absent
        /\ mp4Map' = [mp4Map EXCEPT ![r] = mp4File[arg[r]]]
        /\ pc' = [pc EXCEPT ![r] = "openView"]
        /\ UNCHANGED <<outcome, idxMap>>
  /\ UNCHANGED <<fileVars, lruVars, arg, held, doomed, quiet>>

\* Faulty variant for ServedPairsAgree: the length is not compared.
PairAgreesFaulty(i, m) == i \in Gens /\ m \in Gens

\* IndexView::open and the source_mp4_len check, on what is mapped.
PairAgrees(i, m) == i \in Gens /\ m \in Gens /\ SrcLen[i] = SrcLen[m]

\* The allocator returns an address that no live entry uses.
FreeAddr(a) == \A e \in Live : e.addr # a

OpenView(r) ==
  /\ pc[r] = "openView"
  /\ \/ /\ ~PairAgrees(idxMap[r], mp4Map[r])
        /\ Fail(r, "Internal")
        /\ UNCHANGED held
     \/ /\ PairAgrees(idxMap[r], mp4Map[r])
        /\ \E a \in Addr :
             /\ FreeAddr(a)
             /\ held' = [held EXCEPT ![r] =
                  [addr |-> a, id |-> arg[r], idx |-> idxMap[r], mp4 |-> mp4Map[r]]]
        /\ idxMap' = [idxMap EXCEPT ![r] = Absent]
        /\ mp4Map' = [mp4Map EXCEPT ![r] = Absent]
        /\ pc' = [pc EXCEPT ![r] = "insert"]
        /\ UNCHANGED outcome
  /\ UNCHANGED <<fileVars, lruVars, arg, doomed, quiet>>

\* Any system call of load may fail for a reason of its own (EACCES, EMFILE,
\* ENOMEM at vm.max_map_count): internal_io.
IoError(r) ==
  /\ pc[r] \in {"stat", "openIdx", "openMp4"}
  /\ Fail(r, "Internal")
  /\ quiet' = [quiet EXCEPT ![r] = FALSE]
  /\ UNCHANGED <<fileVars, lruVars, arg, held, doomed>>

\* Faulty variant for FirstInsertWins: no re-check, push replaces the value of
\* a key that is already there.
InsertNoRecheck(r) ==
  /\ pc[r] = "insert"
  /\ cache' = IF Cached(arg[r])
                THEN Promote([cache EXCEPT ![PosOf(arg[r])] = held[r]], PosOf(arg[r]))
                ELSE PushFront(cache, held[r])
  /\ doomed' = [doomed EXCEPT ![r] =
                  IF Cached(arg[r]) THEN cache[PosOf(arg[r])] ELSE Evicted(cache)]
  /\ Touch(arg[r])
  /\ pc' = [pc EXCEPT ![r] = "drop"]
  /\ UNCHANGED <<fileVars, loadVars, arg, held, outcome, quiet>>

\* Faulty variant for ReturnsTheCachedEntry: the loser of the race returns the
\* entry it loaded itself.
InsertKeepsOwn(r) ==
  /\ pc[r] = "insert"
  /\ \/ /\ Cached(arg[r])
        /\ cache' = Promote(cache, PosOf(arg[r]))
        /\ UNCHANGED doomed
     \/ /\ ~Cached(arg[r])
        /\ cache' = PushFront(cache, held[r])
        /\ doomed' = [doomed EXCEPT ![r] = Evicted(cache)]
  /\ Touch(arg[r])
  /\ pc' = [pc EXCEPT ![r] = "drop"]
  /\ UNCHANGED <<fileVars, loadVars, arg, held, outcome, quiet>>

\* Faulty variant for LRUExact: room is made for the newcomer one entry early.
InsertEvictsEarly(r) ==
  /\ pc[r] = "insert"
  /\ \/ /\ Cached(arg[r])
        /\ held' = [held EXCEPT ![r] = cache[PosOf(arg[r])]]
        /\ cache' = Promote(cache, PosOf(arg[r]))
        /\ doomed' = [doomed EXCEPT ![r] = held[r]]
     \/ /\ ~Cached(arg[r])
        /\ LET kept == SubSeq(cache, 1, Capacity - 2)
           IN  /\ cache' = <<held[r]>> \o kept
               /\ doomed' = [doomed EXCEPT ![r] =
                    IF kept = cache THEN NoEntry ELSE cache[Len(cache)]]
        /\ UNCHANGED held
  /\ Touch(arg[r])
  /\ pc' = [pc EXCEPT ![r] = "drop"]
  /\ UNCHANGED <<fileVars, loadVars, arg, outcome, quiet>>

\* insert: under the lock, re-check; the first entry inserted wins.  The entry
\* that loses, or that is evicted, is dropped after the lock is released.
Insert(r) ==
  /\ pc[r] = "insert"
  /\ \/ /\ Cached(arg[r])
        /\ LET k == PosOf(arg[r])
           IN  /\ held' = [held EXCEPT ![r] = cache[k]]
               /\ cache' = Promote(cache, k)
        /\ doomed' = [doomed EXCEPT ![r] = held[r]]
     \/ /\ ~Cached(arg[r])
        /\ cache' = PushFront(cache, held[r])
        /\ doomed' = [doomed EXCEPT ![r] = Evicted(cache)]
        /\ UNCHANGED held
  /\ Touch(arg[r])
  /\ pc' = [pc EXCEPT ![r] = "drop"]
  /\ UNCHANGED <<fileVars, loadVars, arg, outcome, quiet>>

DropOutsideLock(r) ==
  /\ pc[r] = "drop"
  /\ doomed' = [doomed EXCEPT ![r] = NoEntry]
  /\ pc' = [pc EXCEPT ![r] = "serve"]
  /\ outcome' = [outcome EXCEPT ![r] = "Ok"]
  /\ UNCHANGED <<fileVars, lruVars, loadVars, arg, held, quiet>>

\* Faulty variant for MappedBound: the Arc outlives the request.
ReleaseLeaks(r) ==
  /\ pc[r] = "serve"
  /\ pc' = [pc EXCEPT ![r] = "idle"]
  /\ UNCHANGED <<fileVars, lruVars, loadVars, arg, held, doomed, outcome, quiet>>

\* The handler is done with the Arc get returned (or its future is dropped).
Release(r) ==
  /\ pc[r] = "serve"
  /\ held' = [held EXCEPT ![r] = NoEntry]
  /\ pc' = [pc EXCEPT ![r] = "idle"]
  /\ UNCHANGED <<fileVars, lruVars, loadVars, arg, doomed, outcome, quiet>>

Step(r) ==
  \/ Lookup(r)
  \/ StatIdx(r)
  \/ OpenIdx(r)
  \/ OpenMp4(r)
  \/ OpenView(r)
  \/ IoError(r)
  \/ Insert(r)
  \/ DropOutsideLock(r)
  \/ Release(r)

(***************************************************************************)
(* The operator publishes (by rename) or removes one file of an archive.   *)
(***************************************************************************)
Disturb(id) == quiet' = [r \in Requests |-> quiet[r] /\ arg[r] # id]

SetIdx(id, x) ==
  /\ ops < MaxOps
  /\ x # idxFile[id]
  /\ idxFile' = [idxFile EXCEPT ![id] = x]
  /\ ops' = ops + 1
  /\ Disturb(id)
  /\ UNCHANGED <<mp4File, lruVars, loadVars, pc, arg, held, doomed, outcome>>

SetMp4(id, x) ==
  /\ ops < MaxOps
  /\ x # mp4File[id]
  /\ mp4File' = [mp4File EXCEPT ![id] = x]
  /\ ops' = ops + 1
  /\ Disturb(id)
  /\ UNCHANGED <<idxFile, lruVars, loadVars, pc, arg, held, doomed, outcome>>

Next ==
  \/ \E r \in Requests :
       \/ RejectId(r)
       \/ \E id \in Ids : BeginGet(r, id)
       \/ Step(r)
  \/ \E id \in Ids :
       \/ \E x \in IdxContent : SetIdx(id, x)
       \/ \E x \in Mp4Content : SetMp4(id, x)

Spec == Init /\ [][Next]_vars

(***************************************************************************)
(* get never awaits: once started, a request's steps run to the end on its *)
(* worker thread.  Release is the handler's, and the handlers end too.     *)
(* Nothing is assumed of the operator or of new requests.                  *)
(***************************************************************************)
FairSpec == Spec /\ \A r \in Requests : WF_vars(Step(r))

-----------------------------------------------------------------------------
\* Every variable has its type.
TypeOK ==
  /\ idxFile \in [Ids -> IdxContent]
  /\ mp4File \in [Ids -> Mp4Content]
  /\ cache \in Seq(Entry)
  /\ pc \in [Requests -> {"idle", "lookup", "stat", "openIdx", "openMp4",
                          "openView", "insert", "drop", "serve"}]
  /\ arg \in [Requests -> Ids \cup {NoId}]
  /\ idxMap \in [Requests -> Gens \cup {Absent, Corrupt}]
  /\ mp4Map \in [Requests -> Gens \cup {Absent}]
  /\ held \in [Requests -> Entry \cup {NoEntry}]
  /\ doomed \in [Requests -> Entry \cup {NoEntry}]
  /\ outcome \in [Requests -> {"none", "Ok", "BadRequest", "NotFound", "Internal"}]
  /\ ops \in 0 .. MaxOps
  /\ touched \in SUBSET Ids
  /\ since \in [Ids -> SUBSET Ids]
  /\ quiet \in [Requests -> BOOLEAN]

\* The LRU never holds more than max_open_archives entries, nor two entries
\* for one id, whatever loads of that id race (registry.rs insert's re-check).
CacheSound ==
  /\ Len(cache) <= Capacity
  /\ \A i, j \in DOMAIN cache : cache[i].id = cache[j].id => i = j

\* Whatever the operator replaces between load's system calls, no entry that
\* is cached or owned by a request pairs an .idx with an .mp4 of another
\* length, and a request is served the archive it asked for.
ServedPairsAgree ==
  /\ \A e \in Live : SrcLen[e.idx] = SrcLen[e.mp4]
  /\ \A r \in Requests : held[r] # NoEntry => held[r].id = arg[r]

\* Among loads of one id that race, the first entry inserted wins: while an id
\* stays cached its entry is never exchanged for another one.
FirstInsertWins ==
  [][\A i \in DOMAIN cache : \A j \in DOMAIN cache' :
       cache[i].id = cache'[j].id => cache[i] = cache'[j]]_vars

\* What get returns is, at the moment the lock is released, the cached entry of
\* the id and the most recently used one: two requests whose gets overlap an
\* uninterrupted stay of the id in the cache share one mapping.
ReturnsTheCachedEntry ==
  [][\A r \in Requests :
       /\ pc[r] \in {"lookup", "insert"}
       /\ pc'[r] \in {"serve", "drop"}
       => Len(cache') > 0 /\ cache'[1] = held'[r]]_vars

\* Exact LRU: an id that was served before is still cached if and only if
\* fewer than max_open_archives other ids were served since.
LRUExact ==
  \A id \in Ids :
    Cached(id) <=> id \in touched /\ Cardinality(since[id]) < Capacity

\* The memory mappings of the process exceed two per cached archive by at most
\* two per request inside get or a handler, and two more per request that is
\* about to drop an entry outside the lock.
MappedBound ==
  MappedRegions <=
    2 * Capacity + 2 * Cardinality(Active) + 2 * Cardinality(Dropping)

\* The outcome of a get that nothing outside the server disturbed is the one
\* the files on disk explain: 404 only for a missing .idx, 500 only for an
\* unusable pair, and an entry only for a usable pair or an already cached one.
\* A failed load is never remembered.  That a present .idx without its .mp4 is a
\* 500 is what SPEC.md:534 says, against README.md:126 ("Delete one or both files. New
\* requests return `404`").
QuietOutcome ==
  \A r \in Requests : quiet[r] =>
    LET i == idxFile[arg[r]]
        m == mp4File[arg[r]]
    IN  /\ outcome[r] = "NotFound" => i \in {Absent, NotFile}
        /\ outcome[r] = "Internal" =>
             \/ i = Corrupt
             \/ i \in Gens /\ m = Absent
             \/ i \in Gens /\ m \in Gens /\ SrcLen[i] # SrcLen[m]
        /\ pc[r] = "insert" => held[r].idx = i /\ held[r].mp4 = m

\* Every get returns: the request ends with an error or with an entry.
EveryGetReturns ==
  \A r \in Requests : pc[r] = "lookup" ~> pc[r] \in {"idle", "serve"}

=============================================================================
