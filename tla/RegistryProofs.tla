--------------------------- MODULE RegistryProofs ---------------------------
(***************************************************************************)
(* Proofs about Registry, for every number of requests, archives,          *)
(* generations and every capacity.                                         *)
(***************************************************************************)
EXTENDS Registry, SequenceTheorems, FiniteSetTheorems, TLAPS

(***************************************************************************)
(* Lemmas about the LRU list operators.                                    *)
(***************************************************************************)

\* A function on 1..n is a sequence of length n.
LEMMA FunctionIsSequence ==
  ASSUME NEW S, NEW n \in Nat, NEW f \in [1 .. n -> S]
  PROVE  f \in Seq(S) /\ Len(f) = n /\ DOMAIN f = 1 .. n
<1>1. f \in Seq(S)
  BY SeqDef
<1>2. DOMAIN f = 1 .. n
  OBVIOUS
<1>3. Len(f) \in Nat /\ DOMAIN f = 1 .. Len(f)
  BY <1>1, LenProperties
<1> QED
  BY <1>1, <1>2, <1>3

\* IndexRegistry::new never builds an LRU without room.
LEMMA CapacityPositive == Capacity \in Nat /\ Capacity > 0
  BY ConstantsAssumption DEF Capacity

\* PosOf finds the position of a cached id.
LEMMA PosOfCached ==
  ASSUME NEW id, Cached(id)
  PROVE  PosOf(id) \in DOMAIN cache /\ cache[PosOf(id)].id = id
  BY DEF Cached, PosOf

\* Promote permutes the list: its length stays, its front is entry k, and each
\* of its places holds a place of the old list.
LEMMA PromoteProperties ==
  ASSUME NEW s \in Seq(Entry), NEW k \in DOMAIN s
  PROVE  /\ Promote(s, k) \in Seq(Entry)
         /\ Len(Promote(s, k)) = Len(s)
         /\ DOMAIN Promote(s, k) = DOMAIN s
         /\ Promote(s, k)[1] = s[k]
         /\ \A j \in DOMAIN s :
              Promote(s, k)[j] = IF j = 1 THEN s[k] ELSE IF j <= k THEN s[j - 1] ELSE s[j]
<1>1. Len(s) \in Nat /\ DOMAIN s = 1 .. Len(s) /\ k \in 1 .. Len(s)
  BY LenProperties
<1>2. \A j \in 1 .. Len(s) : s[j] \in Entry
  BY ElementOfSeq
<1>3. Promote(s, k) \in [1 .. Len(s) -> Entry]
  BY <1>1, <1>2 DEF Promote
<1>4. /\ Promote(s, k) \in Seq(Entry)
      /\ Len(Promote(s, k)) = Len(s)
      /\ DOMAIN Promote(s, k) = 1 .. Len(s)
  BY <1>1, <1>3, FunctionIsSequence
<1> QED
  BY <1>1, <1>4 DEF Promote

\* PushFront keeps the list within the capacity, puts the new entry in front
\* and shifts the others.
LEMMA PushFrontProperties ==
  ASSUME NEW s \in Seq(Entry), NEW e \in Entry, Len(s) <= Capacity
  PROVE  /\ PushFront(s, e) \in Seq(Entry)
         /\ Len(PushFront(s, e)) <= Capacity
         /\ Len(PushFront(s, e)) = IF Len(s) < Capacity THEN Len(s) + 1 ELSE Capacity
         /\ DOMAIN PushFront(s, e) = 1 .. Len(PushFront(s, e))
         /\ 1 \in DOMAIN PushFront(s, e)
         /\ PushFront(s, e)[1] = e
         /\ \A j \in DOMAIN PushFront(s, e) : j > 1 =>
              j - 1 \in DOMAIN s /\ PushFront(s, e)[j] = s[j - 1]
<1> DEFINE n == IF Len(s) < Capacity THEN Len(s) + 1 ELSE Capacity
<1>1. Len(s) \in Nat /\ DOMAIN s = 1 .. Len(s)
  BY LenProperties
<1>2. n \in Nat /\ n > 0 /\ n <= Capacity /\ n <= Len(s) + 1
  BY <1>1, CapacityPositive
<1>3. \A j \in 1 .. Len(s) : s[j] \in Entry
  BY ElementOfSeq
<1>4. PushFront(s, e) \in [1 .. n -> Entry]
  <2>1. PushFront(s, e) = [j \in 1 .. n |-> IF j = 1 THEN e ELSE s[j - 1]]
    BY DEF PushFront
  <2>2. \A j \in 1 .. n : (IF j = 1 THEN e ELSE s[j - 1]) \in Entry
    BY <1>1, <1>2, <1>3
  <2> QED
    BY <2>1, <2>2
<1>5. /\ PushFront(s, e) \in Seq(Entry)
      /\ Len(PushFront(s, e)) = n
      /\ DOMAIN PushFront(s, e) = 1 .. n
  BY <1>2, <1>4, FunctionIsSequence
<1>6. \A j \in 1 .. n : PushFront(s, e)[j] = IF j = 1 THEN e ELSE s[j - 1]
  BY DEF PushFront
<1> QED
  BY <1>1, <1>2, <1>5, <1>6

-----------------------------------------------------------------------------
(***************************************************************************)
(* Type correctness.                                                       *)
(***************************************************************************)

\* Recording that an id was returned keeps the history variables typed.
LEMMA TouchType ==
  ASSUME TypeOK, NEW id \in Ids, Touch(id)
  PROVE  touched' \in SUBSET Ids /\ since' \in [Ids -> SUBSET Ids]
  BY DEF TypeOK, Touch

\* A request that is inside get asks for a valid id, and owns an entry exactly
\* from the end of its load on.
Placed ==
  \A r \in Requests :
    /\ pc[r] # "idle" => arg[r] \in Ids
    /\ pc[r] \in {"insert", "drop", "serve"} <=> held[r] # NoEntry

\* The cached entries are no more than the capacity and have distinct ids.
\* Every entry anywhere pairs files of equal length and belongs to the id of
\* the request that owns it.
EntriesAgree ==
  /\ \A i \in DOMAIN cache : SrcLen[cache[i].idx] = SrcLen[cache[i].mp4]
  /\ \A r \in Requests :
       /\ held[r] # NoEntry =>
            held[r].id = arg[r] /\ SrcLen[held[r].idx] = SrcLen[held[r].mp4]
       /\ doomed[r] # NoEntry => SrcLen[doomed[r].idx] = SrcLen[doomed[r].mp4]

\* The inductive invariant of the registry.
IInv == TypeOK /\ Placed /\ CacheSound /\ EntriesAgree

\* The empty registry satisfies the inductive invariant, whatever the files are.
LEMMA InitIInv == Init => IInv
<1> SUFFICES ASSUME Init PROVE IInv
  OBVIOUS
<1>1. cache \in Seq(Entry) /\ Len(cache) = 0 /\ DOMAIN cache = {}
  BY EmptySeq, LenProperties DEF Init
<1>2. TypeOK
  BY <1>1, ConstantsAssumption DEF Init, TypeOK
<1>3. Placed
  BY DEF Init, Placed
<1>4. CacheSound
  BY <1>1, CapacityPositive DEF CacheSound
<1>5. EntriesAgree
  BY <1>1 DEF Init, EntriesAgree
<1> QED
  BY <1>2, <1>3, <1>4, <1>5 DEF IInv

\* Moving the entry of a cached id to the front keeps the list sound and its
\* entries paired, and brings that entry to the front.
LEMMA PromoteSound ==
  ASSUME IInv, NEW k \in DOMAIN cache, cache' = Promote(cache, k)
  PROVE  /\ cache' \in Seq(Entry)
         /\ CacheSound'
         /\ \A i \in DOMAIN cache' : SrcLen[cache'[i].idx] = SrcLen[cache'[i].mp4]
         /\ Len(cache') > 0 /\ cache'[1] = cache[k]
         /\ \A j \in DOMAIN cache' : \E i \in DOMAIN cache : cache'[j] = cache[i]
<1>1. cache \in Seq(Entry) /\ Len(cache) \in Nat /\ DOMAIN cache = 1 .. Len(cache)
  BY LenProperties DEF IInv, TypeOK
<1>2. /\ cache' \in Seq(Entry)
      /\ Len(cache') = Len(cache)
      /\ DOMAIN cache' = 1 .. Len(cache)
      /\ cache'[1] = cache[k]
      /\ \A j \in 1 .. Len(cache) :
           cache'[j] = IF j = 1 THEN cache[k] ELSE IF j <= k THEN cache[j - 1] ELSE cache[j]
  <2>1. /\ Promote(cache, k) \in Seq(Entry)
        /\ Len(Promote(cache, k)) = Len(cache)
        /\ DOMAIN Promote(cache, k) = DOMAIN cache
        /\ Promote(cache, k)[1] = cache[k]
        /\ \A j \in DOMAIN cache : Promote(cache, k)[j] =
             IF j = 1 THEN cache[k] ELSE IF j <= k THEN cache[j - 1] ELSE cache[j]
    BY <1>1, PromoteProperties, Zenon
  <2> QED
    BY <1>1, <2>1, Zenon
<1>3. CacheSound'
  <2> SUFFICES ASSUME NEW i \in DOMAIN cache', NEW j \in DOMAIN cache',
                      cache'[i].id = cache'[j].id
               PROVE  i = j
    BY <1>2 DEF CacheSound, IInv, Capacity
  <2>1. \A m, n \in DOMAIN cache : cache[m].id = cache[n].id => m = n
    BY DEF IInv, CacheSound
  <2> DEFINE src(m) == IF m = 1 THEN k ELSE IF m <= k THEN m - 1 ELSE m
  <2>2. /\ src(i) \in DOMAIN cache /\ cache'[i] = cache[src(i)]
        /\ src(j) \in DOMAIN cache /\ cache'[j] = cache[src(j)]
    BY <1>1, <1>2
  <2>3. src(i) = src(j)
    <3> HIDE DEF src
    <3> QED BY <2>1, <2>2
  <2> QED
    BY <1>1, <1>2, <2>3
<1>4. \A j \in DOMAIN cache' : \E i \in DOMAIN cache : cache'[j] = cache[i]
  BY <1>1, <1>2
<1>5. \A i \in DOMAIN cache' : SrcLen[cache'[i].idx] = SrcLen[cache'[i].mp4]
  BY <1>4 DEF IInv, EntriesAgree
<1> QED
  BY <1>1, <1>2, <1>3, <1>4, <1>5

\* Pushing the entry of an id that is not cached keeps the list sound and its
\* entries paired.
LEMMA PushSound ==
  ASSUME IInv, NEW e \in Entry, ~Cached(e.id), SrcLen[e.idx] = SrcLen[e.mp4],
         cache' = PushFront(cache, e)
  PROVE  /\ cache' \in Seq(Entry)
         /\ CacheSound'
         /\ \A i \in DOMAIN cache' : SrcLen[cache'[i].idx] = SrcLen[cache'[i].mp4]
         /\ Len(cache') > 0 /\ cache'[1] = e
         /\ \A j \in DOMAIN cache' :
              cache'[j] = e \/ \E i \in DOMAIN cache : cache'[j] = cache[i]
<1>1. cache \in Seq(Entry) /\ Len(cache) \in Nat /\ DOMAIN cache = 1 .. Len(cache)
  BY LenProperties DEF IInv, TypeOK
<1>2. Len(cache) <= Capacity
  BY DEF IInv, CacheSound
<1>3. /\ cache' \in Seq(Entry)
      /\ Len(cache') <= Capacity
      /\ DOMAIN cache' = 1 .. Len(cache')
      /\ 1 \in DOMAIN cache'
      /\ cache'[1] = e
      /\ \A j \in DOMAIN cache' : j > 1 =>
           j - 1 \in DOMAIN cache /\ cache'[j] = cache[j - 1]
  <2> DEFINE p == PushFront(cache, e)
  <2>1. /\ p \in Seq(Entry)
        /\ Len(p) <= Capacity
        /\ Len(p) = IF Len(cache) < Capacity THEN Len(cache) + 1 ELSE Capacity
        /\ DOMAIN p = 1 .. Len(p)
        /\ 1 \in DOMAIN p
        /\ p[1] = e
        /\ \A j \in DOMAIN p : j > 1 => j - 1 \in DOMAIN cache /\ p[j] = cache[j - 1]
    BY <1>1, <1>2, PushFrontProperties
  <2>2. cache' = p
    OBVIOUS
  <2> QED
    BY <2>1, <2>2, Zenon
<1>4. Len(cache') \in Nat
  BY <1>3, LenProperties
<1>5. CacheSound'
  <2> SUFFICES ASSUME NEW i \in DOMAIN cache', NEW j \in DOMAIN cache',
                      cache'[i].id = cache'[j].id
               PROVE  i = j
    BY <1>3 DEF CacheSound, Capacity
  <2>1. \A n \in DOMAIN cache : cache[n].id # e.id
    BY DEF Cached
  <2>2. \A m, n \in DOMAIN cache : cache[m].id = cache[n].id => m = n
    BY DEF IInv, CacheSound
  <2> QED
    BY <1>3, <1>4, <2>1, <2>2
<1>6. \A i \in DOMAIN cache' : SrcLen[cache'[i].idx] = SrcLen[cache'[i].mp4]
  BY <1>3, <1>4 DEF IInv, EntriesAgree
<1>7. \A j \in DOMAIN cache' :
        cache'[j] = e \/ \E i \in DOMAIN cache : cache'[j] = cache[i]
  BY <1>3, <1>4
<1> QED
  BY <1>3, <1>4, <1>5, <1>6, <1>7

\* The entry that falls off the list was in it.
LEMMA EvictedSound ==
  ASSUME IInv
  PROVE  Evicted(cache) = NoEntry \/ \E i \in DOMAIN cache : Evicted(cache) = cache[i]
<1>1. Len(cache) \in Nat /\ DOMAIN cache = 1 .. Len(cache)
  BY LenProperties DEF IInv, TypeOK
<1> QED
  BY <1>1, CapacityPositive DEF Evicted

\* Steps that leave the cache alone keep the cache's part of the invariant.
LEMMA CacheUntouched ==
  ASSUME IInv, UNCHANGED lruVars
  PROVE  /\ cache' \in Seq(Entry)
         /\ touched' \in SUBSET Ids /\ since' \in [Ids -> SUBSET Ids]
         /\ CacheSound'
         /\ \A i \in DOMAIN cache' : SrcLen[cache'[i].idx] = SrcLen[cache'[i].mp4]
  BY DEF IInv, TypeOK, CacheSound, EntriesAgree, lruVars, Capacity

\* An error return of load keeps the local state typed.
LEMMA FailType ==
  ASSUME TypeOK, NEW r \in Requests, NEW error \in {"NotFound", "Internal"},
         Fail(r, error)
  PROVE  /\ pc' \in [Requests -> {"idle", "lookup", "stat", "openIdx", "openMp4",
                          "openView", "insert", "drop", "serve"}]
         /\ pc'[r] = "idle" /\ \A q \in Requests : q # r => pc'[q] = pc[q]
         /\ outcome' \in [Requests ->
              {"none", "Ok", "BadRequest", "NotFound", "Internal"}]
         /\ idxMap' \in [Requests -> Gens \cup {Absent, Corrupt}]
         /\ mp4Map' \in [Requests -> Gens \cup {Absent}]
  BY DEF TypeOK, Fail

\* Every step of one request inside get preserves the inductive invariant.
LEMMA StepIInv ==
  ASSUME IInv, NEW r \in Requests, Step(r)
  PROVE  IInv'
<1> USE DEF IInv
<1>0. /\ TypeOK /\ Placed /\ EntriesAgree
      /\ \A i \in DOMAIN cache : cache[i] \in Entry
  <2>1. DOMAIN cache = 1 .. Len(cache)
    BY LenProperties DEF TypeOK
  <2> QED
    BY <2>1, ElementOfSeq DEF TypeOK
<1>1. CASE Lookup(r)
  <2>1. arg[r] \in Ids
    BY <1>1 DEF Lookup, Placed
  <2>2. CASE Cached(arg[r])
    <3>1. PICK k \in DOMAIN cache :
            cache[k].id = arg[r] /\ cache' = Promote(cache, k) /\ held'[r] = cache[k]
            /\ held' = [held EXCEPT ![r] = cache[k]]
      BY <1>1, <2>2, PosOfCached DEF Lookup, TypeOK
    <3>2. /\ pc' = [pc EXCEPT ![r] = "serve"] /\ outcome' = [outcome EXCEPT ![r] = "Ok"]
          /\ Touch(arg[r]) /\ UNCHANGED <<fileVars, loadVars, arg, doomed, quiet>>
      BY <1>1, <2>2 DEF Lookup
    <3>3. /\ cache' \in Seq(Entry) /\ CacheSound'
          /\ \A i \in DOMAIN cache' : SrcLen[cache'[i].idx] = SrcLen[cache'[i].mp4]
      BY <3>1, PromoteSound
    <3>4. cache[k] \in Entry /\ cache[k] # NoEntry
      BY <1>0, EntryAssumption
    <3>5. TypeOK'
      BY <1>0, <2>1, <3>1, <3>2, <3>3, <3>4, TouchType
         DEF TypeOK, fileVars, loadVars
    <3>6. Placed'
      BY <1>0, <2>1, <3>1, <3>2, <3>4 DEF Placed, TypeOK
    <3>7. EntriesAgree'
      BY <1>0, <3>1, <3>2, <3>3, <3>4 DEF EntriesAgree, TypeOK
    <3> QED
      BY <3>3, <3>5, <3>6, <3>7
  <2>3. CASE ~Cached(arg[r])
    <3>1. /\ pc' = [pc EXCEPT ![r] = "stat"]
          /\ UNCHANGED <<held, lruVars, outcome, fileVars, loadVars, arg, doomed, quiet>>
      BY <1>1, <2>3 DEF Lookup
    <3>2. TypeOK'
      BY <1>0, <3>1, CacheUntouched DEF TypeOK, fileVars, loadVars
    <3>3. Placed'
      BY <1>0, <1>1, <3>1 DEF Placed, TypeOK, Lookup
    <3>4. EntriesAgree'
      BY <1>0, <3>1, CacheUntouched DEF EntriesAgree
    <3> QED
      BY <3>1, <3>2, <3>3, <3>4, CacheUntouched
  <2> QED
    BY <2>2, <2>3
<1>2. CASE StatIdx(r) \/ OpenIdx(r) \/ OpenMp4(r) \/ IoError(r)
  <2>1. /\ UNCHANGED <<lruVars, arg, held, doomed, fileVars>>
        /\ pc[r] \in {"stat", "openIdx", "openMp4"}
    BY <1>2 DEF StatIdx, OpenIdx, OpenMp4, IoError
  <2>2. \/ Fail(r, "NotFound") \/ Fail(r, "Internal")
        \/ /\ pc' = [pc EXCEPT ![r] = "openIdx"] /\ UNCHANGED <<outcome, loadVars>>
        \/ /\ pc' = [pc EXCEPT ![r] = "openMp4"] /\ UNCHANGED <<outcome, mp4Map>>
           /\ idxFile[arg[r]] \notin {Absent, NotFile}
           /\ idxMap' = [idxMap EXCEPT ![r] = idxFile[arg[r]]]
        \/ /\ pc' = [pc EXCEPT ![r] = "openView"] /\ UNCHANGED <<outcome, idxMap>>
           /\ mp4Map' = [mp4Map EXCEPT ![r] = mp4File[arg[r]]]
    BY <1>2 DEF StatIdx, OpenIdx, OpenMp4, IoError
  <2>3. arg[r] \in Ids
    BY <2>1, <1>0 DEF Placed
  <2>4. /\ pc' \in [Requests -> {"idle", "lookup", "stat", "openIdx", "openMp4",
                          "openView", "insert", "drop", "serve"}]
        /\ pc'[r] \in {"idle", "openIdx", "openMp4", "openView"}
        /\ \A q \in Requests : q # r => pc'[q] = pc[q]
        /\ outcome' \in [Requests ->
              {"none", "Ok", "BadRequest", "NotFound", "Internal"}]
        /\ idxMap' \in [Requests -> Gens \cup {Absent, Corrupt}]
        /\ mp4Map' \in [Requests -> Gens \cup {Absent}]
    BY <2>2, <2>3, <1>0, FailType, SMTT(30)
       DEF TypeOK, loadVars, IdxContent, Mp4Content
  <2>5. quiet' \in [Requests -> BOOLEAN]
    BY <1>2, <1>0 DEF StatIdx, OpenIdx, OpenMp4, IoError, TypeOK
  <2>6. TypeOK'
    BY <1>0, <2>1, <2>4, <2>5, CacheUntouched DEF TypeOK, fileVars
  <2>7. Placed'
    BY <1>0, <2>1, <2>4 DEF Placed
  <2>8. EntriesAgree'
    BY <1>0, <2>1, CacheUntouched DEF EntriesAgree
  <2> QED
    BY <2>1, <2>6, <2>7, <2>8, CacheUntouched
<1>3. CASE OpenView(r)
  <2>1. /\ UNCHANGED <<fileVars, lruVars, arg, doomed, quiet>> /\ pc[r] = "openView"
        /\ arg[r] \in Ids
    BY <1>0, <1>3 DEF OpenView, Placed
  <2>2. CASE ~PairAgrees(idxMap[r], mp4Map[r])
    <3>1. Fail(r, "Internal") /\ UNCHANGED held
      BY <1>3, <2>2 DEF OpenView
    <3>2. TypeOK'
      BY <1>0, <2>1, <3>1, FailType, CacheUntouched DEF TypeOK, fileVars
    <3>3. Placed'
      BY <1>0, <2>1, <3>1, FailType DEF Placed
    <3>4. EntriesAgree'
      BY <1>0, <2>1, <3>1, CacheUntouched DEF EntriesAgree
    <3> QED
      BY <2>1, <3>2, <3>3, <3>4, CacheUntouched
  <2>3. CASE PairAgrees(idxMap[r], mp4Map[r])
    <3>1. PICK e \in Entry :
            /\ held' = [held EXCEPT ![r] = e]
            /\ e.id = arg[r] /\ SrcLen[e.idx] = SrcLen[e.mp4]
      <4>1. PICK a \in Addr : held' = [held EXCEPT ![r] =
              [addr |-> a, id |-> arg[r], idx |-> idxMap[r], mp4 |-> mp4Map[r]]]
        BY <1>3, <2>3 DEF OpenView
      <4> DEFINE e == [addr |-> a, id |-> arg[r], idx |-> idxMap[r], mp4 |-> mp4Map[r]]
      <4>2. e \in Entry /\ e.id = arg[r] /\ e.idx = idxMap[r] /\ e.mp4 = mp4Map[r]
        BY <2>1, <2>3 DEF PairAgrees, Entry
      <4>3. SrcLen[e.idx] = SrcLen[e.mp4]
        BY <2>3, <4>2 DEF PairAgrees
      <4>4. held' = [held EXCEPT ![r] = e]
        BY <4>1
      <4> HIDE DEF e
      <4> QED
        BY <4>2, <4>3, <4>4
    <3>2. /\ pc' = [pc EXCEPT ![r] = "insert"] /\ UNCHANGED outcome
          /\ idxMap' = [idxMap EXCEPT ![r] = Absent]
          /\ mp4Map' = [mp4Map EXCEPT ![r] = Absent]
      BY <1>3, <2>3 DEF OpenView
    <3>3. e # NoEntry
      BY EntryAssumption
    <3>4. TypeOK'
      BY <1>0, <2>1, <3>1, <3>2, CacheUntouched DEF TypeOK, fileVars
    <3>5. Placed'
      BY <1>0, <2>1, <3>1, <3>2, <3>3 DEF Placed, TypeOK
    <3>6. EntriesAgree'
      BY <1>0, <2>1, <3>1, CacheUntouched DEF EntriesAgree, TypeOK
    <3> QED
      BY <2>1, <3>4, <3>5, <3>6, CacheUntouched
  <2> QED
    BY <2>2, <2>3
<1>4. CASE Insert(r)
  <2>1. /\ UNCHANGED <<fileVars, loadVars, arg, outcome, quiet>> /\ pc[r] = "insert"
        /\ arg[r] \in Ids /\ Touch(arg[r]) /\ pc' = [pc EXCEPT ![r] = "drop"]
        /\ held[r] \in Entry /\ held[r] # NoEntry /\ held[r].id = arg[r]
        /\ SrcLen[held[r].idx] = SrcLen[held[r].mp4]
    BY <1>0, <1>4 DEF Insert, Placed, TypeOK, EntriesAgree
  <2>2. /\ cache' \in Seq(Entry) /\ CacheSound'
        /\ \A i \in DOMAIN cache' : SrcLen[cache'[i].idx] = SrcLen[cache'[i].mp4]
        /\ \E e \in Entry : /\ held' = [held EXCEPT ![r] = e] /\ e.id = arg[r]
                            /\ SrcLen[e.idx] = SrcLen[e.mp4]
        /\ \E d \in Entry \cup {NoEntry} :
             /\ doomed' = [doomed EXCEPT ![r] = d]
             /\ d # NoEntry => SrcLen[d.idx] = SrcLen[d.mp4]
    <3>1. CASE Cached(arg[r])
      <4>1. PICK k \in DOMAIN cache :
              cache[k].id = arg[r] /\ cache' = Promote(cache, k)
              /\ held' = [held EXCEPT ![r] = cache[k]]
              /\ doomed' = [doomed EXCEPT ![r] = held[r]]
        BY <1>4, <3>1, PosOfCached DEF Insert
      <4>2. cache[k] \in Entry /\ SrcLen[cache[k].idx] = SrcLen[cache[k].mp4]
        BY <1>0 DEF EntriesAgree
      <4>3. /\ cache' \in Seq(Entry) /\ CacheSound'
            /\ \A i \in DOMAIN cache' : SrcLen[cache'[i].idx] = SrcLen[cache'[i].mp4]
        BY <4>1, PromoteSound
      <4> QED
        BY <2>1, <4>1, <4>2, <4>3
    <3>2. CASE ~Cached(arg[r])
      <4>1. /\ cache' = PushFront(cache, held[r])
            /\ doomed' = [doomed EXCEPT ![r] = Evicted(cache)]
            /\ held' = held
        BY <1>4, <3>2 DEF Insert
      <4>2. held' = [held EXCEPT ![r] = held[r]]
        BY <1>0, <4>1 DEF TypeOK
      <4>3. /\ cache' \in Seq(Entry) /\ CacheSound'
            /\ \A i \in DOMAIN cache' : SrcLen[cache'[i].idx] = SrcLen[cache'[i].mp4]
        BY <2>1, <3>2, <4>1, PushSound
      <4>4. /\ Evicted(cache) \in Entry \cup {NoEntry}
            /\ Evicted(cache) # NoEntry =>
                 SrcLen[Evicted(cache).idx] = SrcLen[Evicted(cache).mp4]
        BY <1>0, EvictedSound DEF EntriesAgree
      <4> QED
        BY <2>1, <4>1, <4>2, <4>3, <4>4
    <3> QED
      BY <3>1, <3>2
  <2>3. PICK e \in Entry, d \in Entry \cup {NoEntry} :
          /\ held' = [held EXCEPT ![r] = e] /\ e.id = arg[r]
          /\ SrcLen[e.idx] = SrcLen[e.mp4]
          /\ doomed' = [doomed EXCEPT ![r] = d]
          /\ d # NoEntry => SrcLen[d.idx] = SrcLen[d.mp4]
    BY <2>2
  <2>4. TypeOK'
    BY <1>0, <2>1, <2>2, <2>3, TouchType DEF TypeOK, fileVars, loadVars
  <2>5. Placed'
    BY <1>0, <2>1, <2>3, EntryAssumption DEF Placed, TypeOK
  <2>6. EntriesAgree'
    BY <1>0, <2>1, <2>2, <2>3 DEF EntriesAgree, TypeOK
  <2> QED
    BY <2>2, <2>4, <2>5, <2>6
<1>5. CASE DropOutsideLock(r)
  <2>1. TypeOK'
    BY <1>0, <1>5, CacheUntouched DEF DropOutsideLock, TypeOK, fileVars, loadVars
  <2>2. Placed'
    BY <1>0, <1>5 DEF DropOutsideLock, Placed, TypeOK
  <2>3. EntriesAgree'
    BY <1>0, <1>5, CacheUntouched DEF DropOutsideLock, EntriesAgree, TypeOK
  <2> QED
    BY <1>5, <2>1, <2>2, <2>3, CacheUntouched DEF DropOutsideLock
<1>6. CASE Release(r)
  <2>1. TypeOK'
    BY <1>0, <1>6, CacheUntouched DEF Release, TypeOK, fileVars, loadVars
  <2>2. Placed'
    BY <1>0, <1>6 DEF Release, Placed, TypeOK
  <2>3. EntriesAgree'
    BY <1>0, <1>6, CacheUntouched DEF Release, EntriesAgree, TypeOK
  <2> QED
    BY <1>6, <2>1, <2>2, <2>3, CacheUntouched DEF Release
<1> QED
  BY <1>1, <1>2, <1>3, <1>4, <1>5, <1>6 DEF Step

\* The operator's file changes and the start of a get preserve the invariant.
LEMMA NextIInv == IInv /\ [Next]_vars => IInv'
<1> SUFFICES ASSUME IInv, [Next]_vars PROVE IInv'
  OBVIOUS
<1>1. ASSUME NEW r \in Requests, RejectId(r) PROVE IInv'
  <2>1. TypeOK'
    BY <1>1, CacheUntouched DEF RejectId, IInv, TypeOK, fileVars, loadVars
  <2>2. Placed' /\ EntriesAgree'
    BY <1>1, CacheUntouched DEF RejectId, IInv, Placed, EntriesAgree
  <2> QED
    BY <1>1, <2>1, <2>2, CacheUntouched DEF RejectId, IInv
<1>2. ASSUME NEW r \in Requests, NEW id \in Ids, BeginGet(r, id) PROVE IInv'
  <2>1. TypeOK'
    BY <1>2, CacheUntouched DEF BeginGet, IInv, TypeOK, fileVars, loadVars
  <2>2. Placed'
    BY <1>2 DEF BeginGet, IInv, Placed, TypeOK
  <2>3. EntriesAgree'
    BY <1>2, CacheUntouched DEF BeginGet, IInv, Placed, EntriesAgree, TypeOK
  <2> QED
    BY <1>2, <2>1, <2>2, <2>3, CacheUntouched DEF BeginGet, IInv
<1>3. ASSUME NEW r \in Requests, Step(r) PROVE IInv'
  BY <1>3, StepIInv
<1>4. ASSUME NEW id \in Ids, NEW x \in IdxContent \cup Mp4Content,
             (x \in IdxContent /\ SetIdx(id, x)) \/ (x \in Mp4Content /\ SetMp4(id, x))
      PROVE  IInv'
  <2>1. UNCHANGED <<lruVars, loadVars, pc, arg, held, doomed, outcome>>
    BY <1>4 DEF SetIdx, SetMp4
  <2>2. ops' \in 0 .. MaxOps
    BY <1>4, ConstantsAssumption DEF SetIdx, SetMp4, IInv, TypeOK
  <2>3. idxFile' \in [Ids -> IdxContent] /\ mp4File' \in [Ids -> Mp4Content]
    BY <1>4 DEF SetIdx, SetMp4, IInv, TypeOK
  <2>4. quiet' \in [Requests -> BOOLEAN]
    <3>1. quiet' = [r \in Requests |-> quiet[r] /\ arg[r] # id]
      BY <1>4 DEF SetIdx, SetMp4, Disturb
    <3> QED
      BY <3>1, Zenon
  <2>5. TypeOK'
    BY <2>1, <2>2, <2>3, <2>4, CacheUntouched DEF IInv, TypeOK, loadVars
  <2>6. Placed' /\ EntriesAgree'
    BY <2>1, CacheUntouched DEF IInv, Placed, EntriesAgree
  <2> QED
    BY <2>1, <2>5, <2>6, CacheUntouched DEF IInv
<1>5. CASE UNCHANGED vars
  <2>1. UNCHANGED lruVars
    BY <1>5 DEF vars, lruVars
  <2>2. TypeOK'
    BY <1>5 DEF vars, IInv, TypeOK
  <2>3. Placed' /\ EntriesAgree'
    BY <1>5 DEF vars, IInv, Placed, EntriesAgree
  <2> QED
    BY <2>1, <2>2, <2>3, CacheUntouched DEF IInv
<1> QED
  BY <1>1, <1>2, <1>3, <1>4, <1>5 DEF Next

\* The inductive invariant holds in every reachable state.
THEOREM InductiveInvariant == Spec => []IInv
  BY InitIInv, NextIInv, PTL DEF Spec

\* The registry's state has its type in every reachable state.
THEOREM TypeCorrect == Spec => []TypeOK
<1>1. IInv => TypeOK
  BY DEF IInv
<1> QED
  BY <1>1, InductiveInvariant, PTL

\* Whatever the operator replaces during a load, no entry in the process pairs
\* an .idx with a source of another length, and a request owns only entries of
\* the id it asked for (load's check on the mapped bytes).
THEOREM PairsAlwaysAgree == Spec => []ServedPairsAgree
<1>1. IInv => ServedPairsAgree
  BY DEF IInv, EntriesAgree, ServedPairsAgree, Live, CacheEntries, HeldEntries
<1> QED
  BY <1>1, InductiveInvariant, PTL

-----------------------------------------------------------------------------
(***************************************************************************)
(* Action properties.  The cache changes in two ways only.                 *)
(***************************************************************************)

\* A step that changes the LRU promotes a cached entry and returns it, or
\* pushes a loaded entry of an id that was not cached and returns that one.
LEMMA CacheSteps ==
  ASSUME IInv, Next, ~UNCHANGED lruVars
  PROVE  \E r \in Requests :
           /\ arg[r] \in Ids /\ Touch(arg[r])
           /\ \/ \E k \in DOMAIN cache : /\ cache[k].id = arg[r]
                                         /\ cache' = Promote(cache, k)
                                         /\ held' = [held EXCEPT ![r] = cache[k]]
              \/ /\ ~Cached(arg[r]) /\ held[r] \in Entry /\ held[r].id = arg[r]
                 /\ SrcLen[held[r].idx] = SrcLen[held[r].mp4]
                 /\ cache' = PushFront(cache, held[r]) /\ held' = held
           /\ \A q \in Requests : q # r => pc'[q] = pc[q]
<1>1. ASSUME NEW r \in Requests, NEW id \in Ids,
             RejectId(r) \/ BeginGet(r, id)
      PROVE  UNCHANGED lruVars
  BY <1>1 DEF RejectId, BeginGet
<1>2. ASSUME NEW id \in Ids, NEW x, SetIdx(id, x) \/ SetMp4(id, x)
      PROVE  UNCHANGED lruVars
  BY <1>2 DEF SetIdx, SetMp4
<1>3. PICK r \in Requests : Step(r)
  <2>1. ASSUME NEW r \in Requests, RejectId(r) PROVE UNCHANGED lruVars
    BY <2>1 DEF RejectId
  <2> QED
    BY <1>1, <1>2, <2>1 DEF Next
<1>4. Lookup(r) \/ Insert(r)
  BY <1>3 DEF Step, StatIdx, OpenIdx, OpenMp4, OpenView, IoError, DropOutsideLock, Release
<1>5. arg[r] \in Ids
  BY <1>4 DEF Lookup, Insert, IInv, Placed
<1>6. Touch(arg[r])
  BY <1>4 DEF Lookup, Insert
<1>7. \A q \in Requests : q # r => pc'[q] = pc[q]
  BY <1>4 DEF Lookup, Insert, IInv, TypeOK
<1>8. CASE Cached(arg[r])
  <2>1. PICK k \in DOMAIN cache : /\ cache[k].id = arg[r]
                                  /\ cache' = Promote(cache, k)
                                  /\ held' = [held EXCEPT ![r] = cache[k]]
    BY <1>4, <1>8, PosOfCached DEF Lookup, Insert
  <2> QED
    BY <1>5, <1>6, <1>7, <2>1
<1>9. CASE ~Cached(arg[r])
  <2>1. Insert(r)
    BY <1>4, <1>9 DEF Lookup
  <2>2. cache' = PushFront(cache, held[r]) /\ held' = held
    BY <2>1, <1>9 DEF Insert
  <2>3. /\ held[r] \in Entry /\ held[r].id = arg[r]
        /\ SrcLen[held[r].idx] = SrcLen[held[r].mp4]
    BY <2>1 DEF Insert, IInv, Placed, TypeOK, EntriesAgree
  <2> QED
    BY <1>5, <1>6, <1>7, <1>9, <2>2, <2>3
<1> QED
  BY <1>8, <1>9

\* While an id stays cached its entry is never exchanged for another one, for
\* any number of racing loads.
THEOREM FirstInsertAlwaysWins == Spec => FirstInsertWins
<1> DEFINE A == \A i \in DOMAIN cache : \A j \in DOMAIN cache' :
                  cache[i].id = cache'[j].id => cache[i] = cache'[j]
<1>1. IInv /\ [Next]_vars => [A]_vars
  <2> SUFFICES ASSUME IInv, Next, NEW i \in DOMAIN cache, NEW j \in DOMAIN cache',
                      cache[i].id = cache'[j].id
               PROVE  cache[i] = cache'[j]
    OBVIOUS
  <2>1. \A m, n \in DOMAIN cache : cache[m].id = cache[n].id => m = n
    BY DEF IInv, CacheSound
  <2>2. CASE UNCHANGED lruVars
    BY <2>1, <2>2 DEF lruVars
  <2>3. CASE ~UNCHANGED lruVars
    <3>1. PICK r \in Requests :
            \/ \E k \in DOMAIN cache : cache[k].id = arg[r] /\ cache' = Promote(cache, k)
            \/ /\ ~Cached(arg[r]) /\ held[r] \in Entry /\ held[r].id = arg[r]
               /\ SrcLen[held[r].idx] = SrcLen[held[r].mp4]
               /\ cache' = PushFront(cache, held[r])
      BY <2>3, CacheSteps
    <3>2. CASE \E k \in DOMAIN cache : cache[k].id = arg[r] /\ cache' = Promote(cache, k)
      <4>1. \E n \in DOMAIN cache : cache'[j] = cache[n]
        BY <3>2, PromoteSound
      <4> QED
        BY <4>1, <2>1
    <3>3. CASE /\ ~Cached(arg[r]) /\ held[r] \in Entry /\ held[r].id = arg[r]
               /\ SrcLen[held[r].idx] = SrcLen[held[r].mp4]
               /\ cache' = PushFront(cache, held[r])
      <4>1. cache'[j] = held[r] \/ \E n \in DOMAIN cache : cache'[j] = cache[n]
        BY <3>3, PushSound
      <4>2. cache[i].id # held[r].id
        BY <3>3 DEF Cached
      <4> QED
        BY <4>1, <4>2, <2>1
    <3> QED
      BY <3>1, <3>2, <3>3
  <2> QED
    BY <2>2, <2>3
<1> QED
  BY <1>1, InductiveInvariant, PTL DEF Spec, FirstInsertWins

\* Whatever get returns is, when the lock is released, the cached entry of its
\* id and the most recently used one.
THEOREM AlwaysReturnsTheCachedEntry == Spec => ReturnsTheCachedEntry
<1> DEFINE A == \A r \in Requests :
                  /\ pc[r] \in {"lookup", "insert"}
                  /\ pc'[r] \in {"serve", "drop"}
                  => Len(cache') > 0 /\ cache'[1] = held'[r]
<1>1. IInv /\ [Next]_vars => [A]_vars
  <2> SUFFICES ASSUME IInv, Next, NEW r \in Requests,
                      pc[r] \in {"lookup", "insert"}, pc'[r] \in {"serve", "drop"}
               PROVE  Len(cache') > 0 /\ cache'[1] = held'[r]
    OBVIOUS
  <2>1. PICK q \in Requests : Step(q)
    BY DEF Next, RejectId, BeginGet, SetIdx, SetMp4, IInv, TypeOK
  <2>2. q = r
    BY <2>1 DEF Step, Lookup, StatIdx, OpenIdx, OpenMp4, OpenView, IoError, Fail,
                Insert, DropOutsideLock, Release, IInv, TypeOK
  <2>3. (Lookup(r) /\ Cached(arg[r])) \/ Insert(r)
    BY <2>1, <2>2 DEF Step, Lookup, StatIdx, OpenIdx, OpenMp4, OpenView, IoError,
                      DropOutsideLock, Release, IInv, TypeOK
  <2>4. CASE Cached(arg[r])
    <3>1. PICK k \in DOMAIN cache : cache' = Promote(cache, k) /\ held'[r] = cache[k]
      BY <2>3, <2>4, PosOfCached DEF Lookup, Insert, IInv, TypeOK
    <3> QED
      BY <3>1, PromoteSound
  <2>5. CASE ~Cached(arg[r])
    <3>1. /\ cache' = PushFront(cache, held[r]) /\ held' = held
          /\ held[r] \in Entry /\ held[r].id = arg[r]
          /\ SrcLen[held[r].idx] = SrcLen[held[r].mp4]
      BY <2>3, <2>5 DEF Insert, IInv, Placed, TypeOK, EntriesAgree
    <3> QED
      BY <2>5, <3>1, PushSound
  <2> QED
    BY <2>4, <2>5
<1> QED
  BY <1>1, InductiveInvariant, PTL DEF Spec, ReturnsTheCachedEntry

-----------------------------------------------------------------------------
(***************************************************************************)
(* The eviction order is exact LRU.                                        *)
(***************************************************************************)

\* The ids before position n of a list of entries.
IdsBefore(s, n) == {s[j].id : j \in 1 .. n - 1}

\* A cached id was returned, and the ids returned since are those in front of
\* it; an id that is no longer cached saw at least Capacity others since.
RecencyInv ==
  /\ \A i \in DOMAIN cache :
       cache[i].id \in touched /\ since[cache[i].id] = IdsBefore(cache, i)
  /\ \A id \in touched : ~Cached(id) => Cardinality(since[id]) >= Capacity
  /\ \A id \in Ids : IsFiniteSet(since[id])

\* Entries with distinct ids: the ids before position n are n - 1 many.
LEMMA IdsBeforeCardinality ==
  ASSUME NEW s \in Seq(Entry), NEW n \in DOMAIN s,
         \A i, j \in DOMAIN s : s[i].id = s[j].id => i = j
  PROVE  IsFiniteSet(IdsBefore(s, n)) /\ Cardinality(IdsBefore(s, n)) = n - 1
<1> DEFINE f == [j \in 1 .. n - 1 |-> s[j].id]
<1>1. Len(s) \in Nat /\ DOMAIN s = 1 .. Len(s) /\ n \in 1 .. Len(s)
  BY LenProperties
<1>2. f \in Bijection(1 .. n - 1, IdsBefore(s, n))
  <2>1. f \in [1 .. n - 1 -> IdsBefore(s, n)]
    BY DEF IdsBefore
  <2>2. \A a, b \in 1 .. n - 1 : f[a] = f[b] => a = b
    BY <1>1
  <2>3. \A t \in IdsBefore(s, n) : \E a \in 1 .. n - 1 : f[a] = t
    BY DEF IdsBefore
  <2> QED
    BY <2>1, <2>2, <2>3 DEF Bijection, Injection, Surjection, IsInjective
<1>3. ExistsBijection(1 .. n - 1, IdsBefore(s, n))
  BY <1>2 DEF ExistsBijection
<1>4. IsFiniteSet(1 .. n - 1) /\ Cardinality(1 .. n - 1) = n - 1
  <2>1. 1 \in Int /\ n - 1 \in Int
    BY <1>1
  <2>2. /\ IsFiniteSet(1 .. n - 1)
        /\ Cardinality(1 .. n - 1) = IF 1 > n - 1 THEN 0 ELSE (n - 1) - 1 + 1
    BY <2>1, FS_Interval, Zenon
  <2> QED
    BY <1>1, <2>2
<1> QED
  BY <1>3, <1>4, FS_Bijection

\* The recency invariant yields exact LRU eviction.
LEMMA RecencyExact == IInv /\ RecencyInv => LRUExact
<1> SUFFICES ASSUME IInv, RecencyInv, NEW id \in Ids
             PROVE  Cached(id) <=> id \in touched /\ Cardinality(since[id]) < Capacity
  BY DEF LRUExact
<1>1. CASE Cached(id)
  <2>1. PICK i \in DOMAIN cache : cache[i].id = id
    BY <1>1 DEF Cached
  <2>2. cache \in Seq(Entry) /\ \A m, n \in DOMAIN cache : cache[m].id = cache[n].id => m = n
    BY DEF IInv, TypeOK, CacheSound
  <2>3. Cardinality(IdsBefore(cache, i)) = i - 1
    BY <2>2, IdsBeforeCardinality
  <2>4. i \in 1 .. Len(cache) /\ Len(cache) \in Nat /\ Len(cache) <= Capacity
    BY <2>2, LenProperties DEF IInv, CacheSound
  <2>5. id \in touched /\ since[id] = IdsBefore(cache, i)
    BY <2>1 DEF RecencyInv
  <2> QED
    BY <1>1, <2>3, <2>4, <2>5, CapacityPositive
<1>2. CASE ~Cached(id)
  <2>1. id \in touched => Cardinality(since[id]) >= Capacity
    BY <1>2 DEF RecencyInv
  <2>2. Cardinality(since[id]) \in Nat
    BY FS_CardinalityType DEF RecencyInv
  <2> QED
    BY <1>2, <2>1, <2>2, CapacityPositive
<1> QED
  BY <1>1, <1>2

\* Adding an id to a finite set never makes it smaller.
LEMMA CardinalityGrows ==
  ASSUME NEW S, IsFiniteSet(S), NEW x
  PROVE  /\ IsFiniteSet(S \cup {x})
         /\ Cardinality(S) \in Nat /\ Cardinality(S \cup {x}) \in Nat
         /\ Cardinality(S \cup {x}) >= Cardinality(S)
         /\ x \notin S => Cardinality(S \cup {x}) = Cardinality(S) + 1
<1>1. Cardinality(S) \in Nat
  BY FS_CardinalityType
<1>2. /\ IsFiniteSet(S \cup {x})
      /\ Cardinality(S \cup {x}) = IF x \in S THEN Cardinality(S) ELSE Cardinality(S) + 1
  BY FS_AddElement, Zenon
<1> QED
  BY <1>1, <1>2

\* What a promotion does to the ids in front of each position.
LEMMA PromoteIds ==
  ASSUME NEW s \in Seq(Entry), NEW k \in DOMAIN s, NEW i \in DOMAIN s
  PROVE  IdsBefore(Promote(s, k), i) =
           IF i = 1 THEN {}
           ELSE IF i <= k THEN IdsBefore(s, i - 1) \cup {s[k].id}
           ELSE IdsBefore(s, i)
<1>1. Len(s) \in Nat /\ DOMAIN s = 1 .. Len(s)
  BY LenProperties
<1> DEFINE p == Promote(s, k)
<1>2. \A j \in DOMAIN s :
        p[j] = IF j = 1 THEN s[k] ELSE IF j <= k THEN s[j - 1] ELSE s[j]
  BY PromoteProperties, Zenon
<1> HIDE DEF p
<1>3. CASE i = 1
  BY <1>3 DEF IdsBefore, p
<1>4. CASE i # 1 /\ i <= k
  <2>1. ASSUME NEW t, t \in IdsBefore(p, i)
        PROVE  t \in IdsBefore(s, i - 1) \cup {s[k].id}
    <3>1. PICK j \in 1 .. i - 1 : t = p[j].id
      BY <2>1 DEF IdsBefore
    <3>2. j = 1 \/ (j - 1 \in 1 .. (i - 1) - 1 /\ p[j] = s[j - 1])
      BY <1>1, <1>2, <1>4
    <3>3. j = 1 => t = s[k].id
      BY <1>1, <1>2, <3>1
    <3> QED
      BY <3>1, <3>2, <3>3 DEF IdsBefore
  <2>2. ASSUME NEW t, t \in IdsBefore(s, i - 1)
        PROVE  t \in IdsBefore(p, i)
    <3>1. PICK j \in 1 .. (i - 1) - 1 : t = s[j].id
      BY <2>2 DEF IdsBefore
    <3>2. j + 1 \in 1 .. i - 1 /\ p[j + 1] = s[j]
      BY <1>1, <1>2, <1>4
    <3> QED
      BY <3>1, <3>2 DEF IdsBefore
  <2>3. s[k].id \in IdsBefore(p, i)
    <3>1. 1 \in 1 .. i - 1 /\ p[1] = s[k]
      BY <1>1, <1>2, <1>4
    <3> QED
      BY <3>1 DEF IdsBefore
  <2>4. IdsBefore(p, i) = IdsBefore(s, i - 1) \cup {s[k].id}
    BY <2>1, <2>2, <2>3
  <2> QED
    BY <1>4, <2>4 DEF p
<1>5. CASE i # 1 /\ ~(i <= k)
  <2>1. ASSUME NEW t, t \in IdsBefore(p, i)
        PROVE  t \in IdsBefore(s, i)
    <3>1. PICK j \in 1 .. i - 1 : t = p[j].id
      BY <2>1 DEF IdsBefore
    <3>2. \E m \in 1 .. i - 1 : p[j] = s[m]
      BY <1>1, <1>2, <1>5
    <3> QED
      BY <3>1, <3>2 DEF IdsBefore
  <2>2. ASSUME NEW t, t \in IdsBefore(s, i)
        PROVE  t \in IdsBefore(p, i)
    <3>1. PICK j \in 1 .. i - 1 : t = s[j].id
      BY <2>2 DEF IdsBefore
    <3>2. \E m \in 1 .. i - 1 : p[m] = s[j]
      <4>1. CASE j < k
        <5>1. j + 1 \in 1 .. i - 1 /\ p[j + 1] = s[j]
          BY <1>1, <1>2, <1>5, <4>1
        <5> QED
          BY <5>1
      <4>2. CASE j = k
        <5>1. 1 \in 1 .. i - 1 /\ p[1] = s[j]
          BY <1>1, <1>2, <1>5, <4>2
        <5> QED
          BY <5>1
      <4>3. CASE j > k
        <5>1. p[j] = s[j]
          BY <1>1, <1>2, <1>5, <4>3
        <5> QED
          BY <5>1
      <4> QED
        BY <1>1, <4>1, <4>2, <4>3
    <3> QED
      BY <3>1, <3>2 DEF IdsBefore
  <2>3. IdsBefore(p, i) = IdsBefore(s, i)
    BY <2>1, <2>2
  <2> QED
    BY <1>5, <2>3 DEF p
<1> QED
  BY <1>3, <1>4, <1>5

\* What a push does to the ids in front of each position.
LEMMA PushIds ==
  ASSUME NEW s \in Seq(Entry), NEW e \in Entry, Len(s) <= Capacity,
         NEW i \in DOMAIN PushFront(s, e)
  PROVE  IdsBefore(PushFront(s, e), i) =
           IF i = 1 THEN {} ELSE IdsBefore(s, i - 1) \cup {e.id}
<1> DEFINE p == PushFront(s, e)
<1>1. /\ p \in Seq(Entry)
      /\ DOMAIN p = 1 .. Len(p)
      /\ p[1] = e
      /\ \A j \in DOMAIN p : j > 1 => j - 1 \in DOMAIN s /\ p[j] = s[j - 1]
  BY PushFrontProperties
<1>2. Len(p) \in Nat /\ i \in 1 .. Len(p)
  BY <1>1, LenProperties
<1> HIDE DEF p
<1>3. CASE i = 1
  BY <1>3 DEF IdsBefore, p
<1>4. CASE i # 1
  <2>1. ASSUME NEW t, t \in IdsBefore(p, i)
        PROVE  t \in IdsBefore(s, i - 1) \cup {e.id}
    <3>1. PICK j \in 1 .. i - 1 : t = p[j].id
      BY <2>1 DEF IdsBefore
    <3>2. j = 1 \/ (j - 1 \in 1 .. (i - 1) - 1 /\ p[j] = s[j - 1])
      BY <1>1, <1>2, <1>4
    <3>3. j = 1 => t = e.id
      BY <1>1, <3>1
    <3> QED
      BY <3>1, <3>2, <3>3 DEF IdsBefore
  <2>2. ASSUME NEW t, t \in IdsBefore(s, i - 1)
        PROVE  t \in IdsBefore(p, i)
    <3>1. PICK j \in 1 .. (i - 1) - 1 : t = s[j].id
      BY <2>2 DEF IdsBefore
    <3>2. j + 1 \in 1 .. i - 1 /\ p[j + 1] = s[j]
      BY <1>1, <1>2, <1>4
    <3> QED
      BY <3>1, <3>2 DEF IdsBefore
  <2>3. e.id \in IdsBefore(p, i)
    <3>1. 1 \in 1 .. i - 1
      BY <1>2, <1>4
    <3> QED
      BY <1>1, <3>1 DEF IdsBefore
  <2>4. IdsBefore(p, i) = IdsBefore(s, i - 1) \cup {e.id}
    BY <2>1, <2>2, <2>3
  <2> QED
    BY <1>4, <2>4 DEF p
<1> QED
  BY <1>3, <1>4

\* Returning the id x keeps the recency invariant if x comes to the front of
\* the list, every other entry of the new list gains x in front of it, and
\* only the last entry of a full list falls off.
LEMMA TouchRecency ==
  ASSUME IInv, RecencyInv, NEW x \in Ids, Touch(x),
         \E i \in DOMAIN cache' : cache'[i].id = x,
         \A i \in DOMAIN cache' :
           \/ cache'[i].id = x /\ IdsBefore(cache', i) = {}
           \/ \E m \in DOMAIN cache :
                /\ cache'[i].id = cache[m].id /\ cache[m].id # x
                /\ IdsBefore(cache', i) = IdsBefore(cache, m) \cup {x},
         \A m \in DOMAIN cache :
           \/ \E i \in DOMAIN cache' : cache'[i].id = cache[m].id
           \/ m = Capacity /\ x \notin IdsBefore(cache, m)
  PROVE  RecencyInv'
<1>1. /\ touched' = touched \cup {x}
      /\ \A id \in Ids : since'[id] = IF id = x THEN {}
           ELSE IF id \in touched THEN since[id] \cup {x} ELSE since[id]
  BY DEF Touch
<1>2. /\ cache \in Seq(Entry)
      /\ \A m, n \in DOMAIN cache : cache[m].id = cache[n].id => m = n
      /\ \A m \in DOMAIN cache :
           /\ cache[m].id \in Ids /\ cache[m].id \in touched
           /\ since[cache[m].id] = IdsBefore(cache, m)
  <2>1. cache \in Seq(Entry) /\ DOMAIN cache = 1 .. Len(cache)
    BY LenProperties DEF IInv, TypeOK
  <2>2. \A m \in DOMAIN cache : cache[m] \in Entry
    BY <2>1, ElementOfSeq
  <2> QED
    BY <2>1, <2>2 DEF Entry, RecencyInv, IInv, CacheSound
<1>3. ASSUME NEW i \in DOMAIN cache'
      PROVE  cache'[i].id \in touched' /\ since'[cache'[i].id] = IdsBefore(cache', i)
  <2>1. CASE cache'[i].id = x /\ IdsBefore(cache', i) = {}
    BY <1>1, <2>1
  <2>2. ASSUME NEW m \in DOMAIN cache,
               cache'[i].id = cache[m].id, cache[m].id # x,
               IdsBefore(cache', i) = IdsBefore(cache, m) \cup {x}
        PROVE  cache'[i].id \in touched' /\ since'[cache'[i].id] = IdsBefore(cache', i)
    <3>1. cache[m].id \in Ids /\ cache[m].id \in touched
          /\ since[cache[m].id] = IdsBefore(cache, m)
      BY <1>2
    <3>2. since'[cache[m].id] = since[cache[m].id] \cup {x}
      BY <1>1, <2>2, <3>1
    <3> QED
      BY <1>1, <2>2, <3>1, <3>2
  <2> QED
    BY <2>1, <2>2
<1>4. ASSUME NEW id \in touched', ~(\E i \in DOMAIN cache' : cache'[i].id = id)
      PROVE  Cardinality(since'[id]) >= Capacity
  <2>1. CASE id = x
    BY <1>4, <2>1
  <2>2. CASE id # x
    <3>1. id \in touched /\ id \in Ids
      BY <1>1, <2>2 DEF IInv, TypeOK
    <3>2. since'[id] = since[id] \cup {x}
      BY <1>1, <2>2, <3>1
    <3>3. IsFiniteSet(since[id])
      BY <3>1 DEF RecencyInv
    <3>4. CASE ~Cached(id)
      <4>1. Cardinality(since[id]) >= Capacity
        BY <3>1, <3>4 DEF RecencyInv
      <4>2. /\ Cardinality(since[id]) \in Nat /\ Cardinality(since[id] \cup {x}) \in Nat
            /\ Cardinality(since[id] \cup {x}) >= Cardinality(since[id])
        BY <3>3, CardinalityGrows
      <4> QED
        BY <3>2, <4>1, <4>2, CapacityPositive
    <3>5. CASE Cached(id)
      <4>1. PICK m \in DOMAIN cache : cache[m].id = id
        BY <3>5 DEF Cached
      <4>2. m = Capacity /\ x \notin IdsBefore(cache, m)
        BY <1>4, <4>1
      <4>3. since[id] = IdsBefore(cache, m) /\ Cardinality(IdsBefore(cache, m)) = m - 1
        BY <1>2, <4>1, IdsBeforeCardinality
      <4>4. Cardinality(since[id] \cup {x}) = Cardinality(since[id]) + 1
        BY <3>3, <4>2, <4>3, CardinalityGrows
      <4> QED
        BY <3>2, <4>2, <4>3, <4>4, CapacityPositive
    <3> QED
      BY <3>4, <3>5
  <2> QED
    BY <2>1, <2>2
<1>5. ASSUME NEW id \in Ids PROVE IsFiniteSet(since'[id])
  <2>1. since'[id] = {} \/ since'[id] = since[id] \cup {x} \/ since'[id] = since[id]
    BY <1>1
  <2>2. IsFiniteSet(since[id])
    BY DEF RecencyInv
  <2>3. IsFiniteSet({}) /\ IsFiniteSet(since[id] \cup {x})
    BY <2>2, FS_EmptySet, CardinalityGrows
  <2> QED
    BY <2>1, <2>2, <2>3
<1> QED
  BY <1>3, <1>4, <1>5 DEF RecencyInv, Cached, Capacity

\* Every step of the registry keeps the recency invariant.
LEMMA NextRecency == IInv /\ RecencyInv /\ [Next]_vars => RecencyInv'
<1> SUFFICES ASSUME IInv, RecencyInv, [Next]_vars PROVE RecencyInv'
  OBVIOUS
<1>1. CASE UNCHANGED lruVars
  BY <1>1 DEF lruVars, RecencyInv, Cached, IdsBefore, Capacity
<1>2. CASE ~UNCHANGED lruVars
  <2>0. Next
    BY <1>2 DEF vars, lruVars
  <2>1. PICK r \in Requests :
          /\ arg[r] \in Ids /\ Touch(arg[r])
          /\ \/ \E k \in DOMAIN cache : cache[k].id = arg[r] /\ cache' = Promote(cache, k)
             \/ /\ ~Cached(arg[r]) /\ held[r] \in Entry /\ held[r].id = arg[r]
                /\ cache' = PushFront(cache, held[r])
    BY <1>2, <2>0, CacheSteps
  <2>2. /\ cache \in Seq(Entry) /\ Len(cache) \in Nat /\ DOMAIN cache = 1 .. Len(cache)
        /\ Len(cache) <= Capacity
        /\ \A m, n \in DOMAIN cache : cache[m].id = cache[n].id => m = n
    BY LenProperties DEF IInv, TypeOK, CacheSound
  <2>3. ASSUME NEW k \in DOMAIN cache, cache[k].id = arg[r], cache' = Promote(cache, k)
        PROVE  RecencyInv'
    <3>1. /\ DOMAIN cache' = 1 .. Len(cache)
          /\ \A j \in 1 .. Len(cache) : cache'[j] =
               IF j = 1 THEN cache[k] ELSE IF j <= k THEN cache[j - 1] ELSE cache[j]
      <4>1. /\ DOMAIN Promote(cache, k) = DOMAIN cache
            /\ \A j \in DOMAIN cache : Promote(cache, k)[j] =
                 IF j = 1 THEN cache[k] ELSE IF j <= k THEN cache[j - 1] ELSE cache[j]
        BY <2>2, PromoteProperties, ZenonT(30)
      <4> QED
        BY <2>2, <2>3, <4>1, Zenon
    <3>2. \A i \in 1 .. Len(cache) : IdsBefore(cache', i) =
            IF i = 1 THEN {}
            ELSE IF i <= k THEN IdsBefore(cache, i - 1) \cup {arg[r]}
            ELSE IdsBefore(cache, i)
      BY <2>2, <2>3, PromoteIds
    <3>3. \A i \in 1 .. Len(cache) : i > k => arg[r] \in IdsBefore(cache, i)
      <4> SUFFICES ASSUME NEW i \in 1 .. Len(cache), i > k
                   PROVE  arg[r] \in IdsBefore(cache, i)
        OBVIOUS
      <4>1. k \in 1 .. i - 1
        BY <2>2
      <4> QED
        BY <2>3, <4>1 DEF IdsBefore
    <3>4. \E i \in DOMAIN cache' : cache'[i].id = arg[r]
      <4>1. 1 \in DOMAIN cache' /\ cache'[1] = cache[k]
        BY <2>2, <3>1
      <4> QED
        BY <2>3, <4>1
    <3>5. ASSUME NEW i \in DOMAIN cache'
          PROVE  \/ cache'[i].id = arg[r] /\ IdsBefore(cache', i) = {}
                 \/ \E m \in DOMAIN cache :
                      /\ cache'[i].id = cache[m].id /\ cache[m].id # arg[r]
                      /\ IdsBefore(cache', i) = IdsBefore(cache, m) \cup {arg[r]}
      <4>1. CASE i = 1
        BY <2>2, <2>3, <3>1, <3>2, <4>1
      <4>2. CASE i # 1 /\ i <= k
        <5>1. i - 1 \in DOMAIN cache /\ i - 1 # k /\ cache'[i] = cache[i - 1]
          BY <2>2, <3>1, <4>2
        <5>2. IdsBefore(cache', i) = IdsBefore(cache, i - 1) \cup {arg[r]}
          BY <3>1, <3>2, <4>2
        <5> QED
          BY <2>2, <2>3, <5>1, <5>2
      <4>3. CASE i # 1 /\ ~(i <= k)
        <5>1. i \in DOMAIN cache /\ i # k /\ i > k /\ cache'[i] = cache[i]
          BY <2>2, <3>1, <4>3
        <5>2. IdsBefore(cache', i) = IdsBefore(cache, i) \cup {arg[r]}
          BY <2>2, <3>1, <3>2, <3>3, <4>3, <5>1
        <5> QED
          BY <2>2, <2>3, <5>1, <5>2
      <4> QED
        BY <4>1, <4>2, <4>3
    <3>6. ASSUME NEW m \in DOMAIN cache
          PROVE  \E i \in DOMAIN cache' : cache'[i].id = cache[m].id
      <4>1. CASE m < k
        <5>1. m + 1 \in DOMAIN cache' /\ cache'[m + 1] = cache[m]
          BY <2>2, <3>1, <4>1
        <5> QED
          BY <5>1
      <4>2. CASE m = k
        BY <2>3, <3>4, <4>2
      <4>3. CASE m > k
        <5>1. m \in DOMAIN cache' /\ cache'[m] = cache[m]
          BY <2>2, <3>1, <4>3
        <5> QED
          BY <5>1
      <4> QED
        BY <2>2, <4>1, <4>2, <4>3
    <3> QED
      BY <2>1, <3>4, <3>5, <3>6, TouchRecency
  <2>4. ASSUME ~Cached(arg[r]), held[r] \in Entry, held[r].id = arg[r],
               cache' = PushFront(cache, held[r])
        PROVE  RecencyInv'
    <3>1. /\ cache' \in Seq(Entry)
          /\ Len(cache') = IF Len(cache) < Capacity THEN Len(cache) + 1 ELSE Capacity
          /\ DOMAIN cache' = 1 .. Len(cache')
          /\ 1 \in DOMAIN cache'
          /\ cache'[1] = held[r]
          /\ \A j \in DOMAIN cache' : j > 1 =>
               j - 1 \in DOMAIN cache /\ cache'[j] = cache[j - 1]
      <4> DEFINE p == PushFront(cache, held[r])
      <4>1. /\ p \in Seq(Entry)
            /\ Len(p) <= Capacity
            /\ Len(p) = IF Len(cache) < Capacity THEN Len(cache) + 1 ELSE Capacity
            /\ DOMAIN p = 1 .. Len(p)
            /\ 1 \in DOMAIN p
            /\ p[1] = held[r]
            /\ \A j \in DOMAIN p : j > 1 => j - 1 \in DOMAIN cache /\ p[j] = cache[j - 1]
        BY <2>2, <2>4, PushFrontProperties
      <4>2. cache' = p
        BY <2>4
      <4> QED
        BY <4>1, <4>2, Zenon
    <3>2. \A i \in DOMAIN cache' : IdsBefore(cache', i) =
            IF i = 1 THEN {} ELSE IdsBefore(cache, i - 1) \cup {arg[r]}
      <4>1. \A i \in DOMAIN PushFront(cache, held[r]) :
              IdsBefore(PushFront(cache, held[r]), i) =
                IF i = 1 THEN {} ELSE IdsBefore(cache, i - 1) \cup {held[r].id}
        BY <2>2, <2>4, PushIds
      <4> QED
        BY <2>4, <4>1, Zenon
    <3>3. ASSUME NEW i \in DOMAIN cache'
          PROVE  \/ cache'[i].id = arg[r] /\ IdsBefore(cache', i) = {}
                 \/ \E m \in DOMAIN cache :
                      /\ cache'[i].id = cache[m].id /\ cache[m].id # arg[r]
                      /\ IdsBefore(cache', i) = IdsBefore(cache, m) \cup {arg[r]}
      <4>1. CASE i = 1
        BY <2>4, <3>1, <3>2, <4>1
      <4>2. CASE i # 1
        <5>1. i - 1 \in DOMAIN cache /\ cache'[i] = cache[i - 1]
          BY <2>2, <3>1, <4>2
        <5>2. cache[i - 1].id # arg[r]
          BY <2>4, <5>1 DEF Cached
        <5>3. IdsBefore(cache', i) = IdsBefore(cache, i - 1) \cup {arg[r]}
          BY <3>2, <4>2
        <5> QED
          BY <5>1, <5>2, <5>3
      <4> QED
        BY <4>1, <4>2
    <3>4. ASSUME NEW m \in DOMAIN cache
          PROVE  \/ \E i \in DOMAIN cache' : cache'[i].id = cache[m].id
                 \/ m = Capacity /\ arg[r] \notin IdsBefore(cache, m)
      <4>1. CASE m < Capacity
        <5>1. m + 1 \in DOMAIN cache' /\ cache'[m + 1] = cache[m]
          BY <2>2, <3>1, <4>1, CapacityPositive
        <5> QED
          BY <5>1
      <4>2. CASE m = Capacity
        <5>1. \A j \in 1 .. m - 1 : j \in DOMAIN cache
          BY <2>2
        <5>2. arg[r] \notin IdsBefore(cache, m)
          BY <2>4, <5>1 DEF IdsBefore, Cached
        <5> QED
          BY <4>2, <5>2
      <4> QED
        BY <2>2, <4>1, <4>2, CapacityPositive
    <3>5. \E i \in DOMAIN cache' : cache'[i].id = arg[r]
      BY <2>4, <3>1
    <3> QED
      BY <2>1, <3>3, <3>4, <3>5, TouchRecency
  <2> QED
    BY <2>1, <2>3, <2>4
<1> QED
  BY <1>1, <1>2

\* Exact LRU for every capacity and any number of archives and requests: an id
\* is cached if and only if fewer than max_open_archives other ids were
\* returned since it last was.
THEOREM EvictionIsExactLRU == Spec => []LRUExact
<1>1. Init => RecencyInv
  <2> SUFFICES ASSUME Init PROVE RecencyInv
    OBVIOUS
  <2>1. DOMAIN cache = {}
    BY DEF Init
  <2>2. \A id \in Ids : IsFiniteSet(since[id])
    BY FS_EmptySet DEF Init
  <2> QED
    BY <2>1, <2>2 DEF Init, RecencyInv
<1> QED
  BY <1>1, NextRecency, RecencyExact, InductiveInvariant, PTL DEF Spec

-----------------------------------------------------------------------------
(***************************************************************************)
(* Loads: what a request has mapped, and how a get ends.                   *)
(***************************************************************************)

\* Where the bare mappings of a load are, and for a get that nothing disturbed:
\* what it has seen of the files is what they are.
LoadOK(r) ==
  /\ idxMap[r] # Absent => pc[r] \in {"openMp4", "openView"}
  /\ mp4Map[r] # Absent => pc[r] = "openView"
  /\ quiet[r] =>
       LET i == idxFile[arg[r]]
           m == mp4File[arg[r]]
       IN  /\ arg[r] \in Ids
           /\ pc[r] \in {"openIdx", "openMp4", "openView"} => i \notin {Absent, NotFile}
           /\ pc[r] \in {"openMp4", "openView"} => idxMap[r] = i
           /\ pc[r] = "openView" => mp4Map[r] = m /\ m # Absent
           /\ outcome[r] = "NotFound" => i \in {Absent, NotFile}
           /\ outcome[r] = "Internal" =>
                \/ i = Corrupt
                \/ i \in Gens /\ m = Absent
                \/ i \in Gens /\ m \in Gens /\ SrcLen[i] # SrcLen[m]
           /\ pc[r] = "insert" => held[r].idx = i /\ held[r].mp4 = m

LoadInv == \A r \in Requests : LoadOK(r)

\* A request that takes no step keeps its part of the invariant, unless its files
\* change, and then its get is not quiet any more.
LEMMA LoadUntouched ==
  ASSUME NEW r \in Requests, LoadOK(r),
         pc'[r] = pc[r], arg'[r] = arg[r], idxMap'[r] = idxMap[r], mp4Map'[r] = mp4Map[r],
         held'[r] = held[r], outcome'[r] = outcome[r],
         quiet'[r] => /\ quiet[r]
                      /\ idxFile'[arg[r]] = idxFile[arg[r]]
                      /\ mp4File'[arg[r]] = mp4File[arg[r]]
  PROVE  LoadOK(r)'
  BY DEF LoadOK

\* A step of request r changes nothing that the invariant says of another one.
LEMMA StepIsLocal ==
  ASSUME IInv, NEW r \in Requests, Step(r)
  PROVE  /\ UNCHANGED <<idxFile, mp4File, arg>>
         /\ \A q \in Requests \ {r} :
              /\ pc'[q] = pc[q] /\ idxMap'[q] = idxMap[q] /\ mp4Map'[q] = mp4Map[q]
              /\ held'[q] = held[q] /\ outcome'[q] = outcome[q]
         /\ quiet' = quiet \/ quiet' = [quiet EXCEPT ![r] = FALSE]
<1> USE DEF IInv, TypeOK, fileVars, loadVars
<1>1. CASE Lookup(r)
  BY <1>1 DEF Lookup
<1>2. CASE StatIdx(r)
  BY <1>2 DEF StatIdx, Fail
<1>3. CASE OpenIdx(r)
  BY <1>3 DEF OpenIdx, Fail
<1>4. CASE OpenMp4(r)
  BY <1>4 DEF OpenMp4, Fail
<1>5. CASE OpenView(r)
  BY <1>5 DEF OpenView, Fail
<1>6. CASE IoError(r)
  BY <1>6 DEF IoError, Fail
<1>7. CASE Insert(r)
  BY <1>7 DEF Insert
<1>8. CASE DropOutsideLock(r) \/ Release(r)
  BY <1>8 DEF DropOutsideLock, Release
<1> QED
  BY <1>1, <1>2, <1>3, <1>4, <1>5, <1>6, <1>7, <1>8 DEF Step

\* Every step of get keeps the stepping request's part of the invariant.
LEMMA StepLoadOK ==
  ASSUME IInv, NEW r \in Requests, LoadOK(r), Step(r)
  PROVE  LoadOK(r)'
<1>0. TypeOK
  BY DEF IInv
<1>1. UNCHANGED <<idxFile, mp4File, arg>> /\ (quiet'[r] => quiet[r])
  BY StepIsLocal DEF IInv, TypeOK
<1>2. /\ idxMap[r] \in Gens \cup {Absent, Corrupt} /\ mp4Map[r] \in Gens \cup {Absent}
      /\ quiet[r] => idxFile[arg[r]] \in IdxContent /\ mp4File[arg[r]] \in Mp4Content
  BY <1>0 DEF TypeOK, LoadOK
<1>3. ASSUME NEW error \in {"NotFound", "Internal"}, Fail(r, error)
      PROVE  /\ pc'[r] = "idle" /\ outcome'[r] = error
             /\ idxMap'[r] = Absent /\ mp4Map'[r] = Absent
  BY <1>0, <1>3 DEF Fail, TypeOK
<1>4. CASE Lookup(r)
  <2>1. /\ pc[r] = "lookup" /\ pc'[r] \in {"serve", "stat"}
        /\ idxMap'[r] = idxMap[r] /\ mp4Map'[r] = mp4Map[r]
        /\ outcome'[r] \in {"Ok", outcome[r]}
    BY <1>0, <1>4 DEF Lookup, TypeOK, loadVars
  <2> QED
    BY <1>1, <2>1 DEF LoadOK
<1>5. CASE StatIdx(r)
  <2>1. CASE idxFile[arg[r]] \in {Absent, NotFile}
    <3>1. Fail(r, "NotFound")
      BY <1>5, <2>1 DEF StatIdx
    <3> QED
      BY <1>1, <1>3, <2>1, <3>1 DEF LoadOK
  <2>2. CASE idxFile[arg[r]] \notin {Absent, NotFile}
    <3>1. /\ pc[r] = "stat" /\ pc'[r] = "openIdx" /\ outcome'[r] = outcome[r]
          /\ idxMap'[r] = idxMap[r] /\ mp4Map'[r] = mp4Map[r]
      BY <1>0, <1>5, <2>2 DEF StatIdx, TypeOK, loadVars
    <3> QED
      BY <1>1, <2>2, <3>1 DEF LoadOK
  <2> QED
    BY <2>1, <2>2
<1>6. CASE OpenIdx(r)
  <2>1. CASE idxFile[arg[r]] \in {Absent, NotFile}
    <3>1. pc[r] = "openIdx" /\ Fail(r, "Internal")
      BY <1>6, <2>1 DEF OpenIdx
    <3> QED
      BY <1>1, <1>3, <2>1, <3>1 DEF LoadOK
  <2>2. CASE idxFile[arg[r]] \notin {Absent, NotFile}
    <3>1. /\ pc[r] = "openIdx" /\ pc'[r] = "openMp4" /\ outcome'[r] = outcome[r]
          /\ idxMap'[r] = idxFile[arg[r]] /\ mp4Map'[r] = mp4Map[r]
      BY <1>0, <1>6, <2>2 DEF OpenIdx, TypeOK
    <3> QED
      BY <1>1, <2>2, <3>1 DEF LoadOK
  <2> QED
    BY <2>1, <2>2
<1>7. CASE OpenMp4(r)
  <2>1. CASE mp4File[arg[r]] = Absent
    <3>1. pc[r] = "openMp4" /\ Fail(r, "Internal")
      BY <1>7, <2>1 DEF OpenMp4
    <3> QED
      BY <1>1, <1>2, <1>3, <2>1, <3>1 DEF LoadOK, IdxContent
  <2>2. CASE mp4File[arg[r]] # Absent
    <3>1. /\ pc[r] = "openMp4" /\ pc'[r] = "openView" /\ outcome'[r] = outcome[r]
          /\ idxMap'[r] = idxMap[r] /\ mp4Map'[r] = mp4File[arg[r]]
      BY <1>0, <1>7, <2>2 DEF OpenMp4, TypeOK
    <3> QED
      BY <1>1, <2>2, <3>1 DEF LoadOK
  <2> QED
    BY <2>1, <2>2
<1>8. CASE OpenView(r)
  <2>1. CASE ~PairAgrees(idxMap[r], mp4Map[r])
    <3>1. pc[r] = "openView" /\ Fail(r, "Internal")
      BY <1>8, <2>1 DEF OpenView
    <3>2. quiet[r] => \/ idxFile[arg[r]] = Corrupt
                      \/ /\ idxFile[arg[r]] \in Gens /\ mp4File[arg[r]] \in Gens
                         /\ SrcLen[idxFile[arg[r]]] # SrcLen[mp4File[arg[r]]]
      BY <1>2, <2>1, <3>1 DEF LoadOK, PairAgrees
    <3> QED
      BY <1>1, <1>3, <3>1, <3>2 DEF LoadOK
  <2>2. CASE PairAgrees(idxMap[r], mp4Map[r])
    <3>1. /\ pc[r] = "openView" /\ pc'[r] = "insert" /\ outcome'[r] = outcome[r]
          /\ idxMap'[r] = Absent /\ mp4Map'[r] = Absent
          /\ held'[r].idx = idxMap[r] /\ held'[r].mp4 = mp4Map[r]
      BY <1>0, <1>8, <2>2 DEF OpenView, TypeOK
    <3> QED
      BY <1>1, <3>1 DEF LoadOK
  <2> QED
    BY <2>1, <2>2
<1>9. CASE IoError(r)
  <2>1. Fail(r, "Internal") /\ ~quiet'[r]
    BY <1>0, <1>9 DEF IoError, TypeOK
  <2> QED
    BY <1>3, <2>1 DEF LoadOK
<1>10. CASE Insert(r) \/ DropOutsideLock(r) \/ Release(r)
  <2>1. /\ pc[r] \in {"insert", "drop", "serve"} /\ pc'[r] \in {"drop", "serve", "idle"}
        /\ idxMap'[r] = idxMap[r] /\ mp4Map'[r] = mp4Map[r]
        /\ outcome'[r] \in {"Ok", outcome[r]}
    BY <1>0, <1>10 DEF Insert, DropOutsideLock, Release, TypeOK, loadVars
  <2> QED
    BY <1>1, <2>1 DEF LoadOK
<1> QED
  BY <1>4, <1>5, <1>6, <1>7, <1>8, <1>9, <1>10 DEF Step

\* So does every step of the system.
LEMMA NextLoadInv == IInv /\ LoadInv /\ [Next]_vars => LoadInv'
<1> SUFFICES ASSUME IInv, LoadInv, [Next]_vars, NEW q \in Requests PROVE LoadOK(q)'
  BY DEF LoadInv
<1>0. TypeOK /\ LoadOK(q)
  BY DEF IInv, LoadInv
<1>1. ASSUME NEW r \in Requests, RejectId(r) PROVE LoadOK(q)'
  <2>1. /\ UNCHANGED <<idxFile, mp4File, arg, pc, idxMap, mp4Map, held>>
        /\ outcome' = [outcome EXCEPT ![r] = "BadRequest"]
        /\ quiet' = [quiet EXCEPT ![r] = FALSE]
    BY <1>1 DEF RejectId, fileVars, loadVars
  <2>2. CASE q = r
    <3>1. ~quiet'[q]
      BY <1>0, <2>1, <2>2 DEF TypeOK
    <3> QED
      BY <1>0, <2>1, <3>1 DEF LoadOK
  <2>3. CASE q # r
    BY <1>0, <2>1, <2>3, LoadUntouched DEF TypeOK
  <2> QED
    BY <2>2, <2>3
<1>2. ASSUME NEW r \in Requests, NEW id \in Ids, BeginGet(r, id) PROVE LoadOK(q)'
  <2>1. /\ UNCHANGED <<idxFile, mp4File, idxMap, mp4Map, held>>
        /\ pc[r] = "idle" /\ pc' = [pc EXCEPT ![r] = "lookup"]
        /\ arg' = [arg EXCEPT ![r] = id]
        /\ outcome' = [outcome EXCEPT ![r] = "none"]
        /\ quiet' = [quiet EXCEPT ![r] = TRUE]
    BY <1>2 DEF BeginGet, fileVars, loadVars
  <2>2. CASE q = r
    <3>1. pc'[q] = "lookup" /\ arg'[q] \in Ids /\ outcome'[q] = "none"
      BY <1>0, <2>1, <2>2 DEF TypeOK
    <3> QED
      BY <1>0, <2>1, <2>2, <3>1 DEF LoadOK
  <2>3. CASE q # r
    BY <1>0, <2>1, <2>3, LoadUntouched DEF TypeOK
  <2> QED
    BY <2>2, <2>3
<1>3. ASSUME NEW r \in Requests, Step(r) PROVE LoadOK(q)'
  <2>1. CASE q = r
    BY <1>0, <1>3, <2>1, StepLoadOK
  <2>2. CASE q # r
    <3>1. /\ UNCHANGED <<idxFile, mp4File, arg>>
          /\ pc'[q] = pc[q] /\ idxMap'[q] = idxMap[q] /\ mp4Map'[q] = mp4Map[q]
          /\ held'[q] = held[q] /\ outcome'[q] = outcome[q]
      BY <1>3, <2>2, StepIsLocal
    <3>2. quiet'[q] => quiet[q]
      BY <1>0, <1>3, <2>2, StepIsLocal DEF TypeOK
    <3> QED
      BY <1>0, <3>1, <3>2, LoadUntouched
  <2> QED
    BY <2>1, <2>2
<1>4. ASSUME NEW id \in Ids, NEW x, SetIdx(id, x) \/ SetMp4(id, x) PROVE LoadOK(q)'
  <2>1. /\ UNCHANGED <<pc, arg, idxMap, mp4Map, held, outcome>>
        /\ \A y \in Ids : y # id => idxFile'[y] = idxFile[y] /\ mp4File'[y] = mp4File[y]
    BY <1>0, <1>4 DEF SetIdx, SetMp4, loadVars, TypeOK
  <2>2. quiet' = [r \in Requests |-> quiet[r] /\ arg[r] # id]
    BY <1>4 DEF SetIdx, SetMp4, Disturb
  <2>3. quiet'[q] => quiet[q] /\ arg[q] # id
    BY <2>2, Zenon
  <2>4. quiet[q] => arg[q] \in Ids
    BY <1>0 DEF LoadOK
  <2> QED
    BY <1>0, <2>1, <2>3, <2>4, LoadUntouched
<1>5. CASE UNCHANGED vars
  BY <1>0, <1>5, LoadUntouched DEF vars
<1> QED
  BY <1>1, <1>2, <1>3, <1>4, <1>5 DEF Next

\* The invariant of the loads holds in every reachable state.
LEMMA LoadInvariant == Spec => []LoadInv
<1>1. Init => LoadInv
  BY DEF Init, LoadInv, LoadOK
<1> QED
  BY <1>1, NextLoadInv, InductiveInvariant, PTL DEF Spec

\* A get that nothing disturbed ends as the files on disk explain (load's order of
\* stat, open, map and check), for any number of requests, ids and generations.
THEOREM QuietGetsExplained == Spec => []QuietOutcome
<1>1. LoadInv => QuietOutcome
  BY DEF LoadInv, LoadOK, QuietOutcome
<1> QED
  BY <1>1, LoadInvariant, PTL

\* A set of at most as many elements as a set of requests that names them all.
LEMMA NamedByRequests ==
  ASSUME NEW R \in SUBSET Requests, NEW f, NEW S, S = {f[r] : r \in R}
  PROVE  IsFiniteSet(S) /\ Cardinality(S) <= Cardinality(R) /\ Cardinality(S) \in Nat
<1>1. IsFiniteSet(R)
  BY ConstantsAssumption, FS_Subset
<1> DEFINE g == [r \in R |-> f[r]]
<1>2. g \in Surjection(R, S)
  BY DEF Surjection
<1> QED
  BY <1>1, <1>2, FS_Surjection, FS_CardinalityType

\* The union of three finite sets has at most as many elements as they.
LEMMA UnionBound ==
  ASSUME NEW A, NEW B, NEW C, IsFiniteSet(A), IsFiniteSet(B), IsFiniteSet(C)
  PROVE  /\ IsFiniteSet(A \cup B \cup C)
         /\ Cardinality(A \cup B \cup C) <= Cardinality(A) + Cardinality(B) + Cardinality(C)
<1>1. /\ IsFiniteSet(A \cup B)
      /\ Cardinality(A \cup B) = Cardinality(A) + Cardinality(B) - Cardinality(A \cap B)
  BY FS_Union
<1>2. /\ IsFiniteSet(A \cup B \cup C)
      /\ Cardinality(A \cup B \cup C)
           = Cardinality(A \cup B) + Cardinality(C) - Cardinality((A \cup B) \cap C)
  BY <1>1, FS_Union
<1>3. /\ Cardinality(A) \in Nat /\ Cardinality(B) \in Nat /\ Cardinality(C) \in Nat
      /\ Cardinality(A \cap B) \in Nat /\ Cardinality((A \cup B) \cap C) \in Nat
  BY <1>1, FS_CardinalityType, FS_Intersection
<1> QED
  BY <1>1, <1>2, <1>3

\* The process has at most two mappings per cached archive, two per request inside
\* get or a handler and two per entry about to be dropped (registry.rs: an entry
\* owns one .idx and one .mp4 mapping; vm.max_map_count is sized by this).
THEOREM MappingsBounded == Spec => []MappedBound
<1>1. ASSUME IInv, LoadInv PROVE MappedBound
  <2> DEFINE Owners == {r \in Requests : held[r] # NoEntry}
             Loaders == {r \in Requests : pc[r] \in {"openMp4", "openView"}}
             I == {r \in Requests : idxMap[r] # Absent}
             M == {r \in Requests : mp4Map[r] # Absent}
             H == {held[r] : r \in Owners}
             D == {doomed[r] : r \in Dropping}
  <2>1. IsFiniteSet(CacheEntries) /\ Cardinality(CacheEntries) <= Capacity
    <3>1. Len(cache) \in Nat /\ DOMAIN cache = 1 .. Len(cache) /\ Len(cache) <= Capacity
      BY <1>1, LenProperties DEF IInv, TypeOK, CacheSound
    <3>2. [i \in 1 .. Len(cache) |-> cache[i]] \in Surjection(1 .. Len(cache), CacheEntries)
      BY <3>1 DEF Surjection, CacheEntries
    <3>3. IsFiniteSet(1 .. Len(cache)) /\ Cardinality(1 .. Len(cache)) = Len(cache)
      <4> HIDE DEF I, M, H, D
      <4>1. 1 \in Int /\ Len(cache) \in Int
        BY <3>1
      <4>2. /\ IsFiniteSet(1 .. Len(cache))
            /\ Cardinality(1 .. Len(cache)) = IF 1 > Len(cache) THEN 0 ELSE Len(cache) - 1 + 1
        BY ONLY <4>1, FS_Interval
      <4> QED
        BY <3>1, <4>2
    <3>4. IsFiniteSet(CacheEntries) /\ Cardinality(CacheEntries) <= Len(cache)
      BY <3>2, <3>3, FS_Surjection
    <3> QED
      BY <3>1, <3>4, FS_CardinalityType, CapacityPositive
  <2>2. IsFiniteSet(H) /\ Cardinality(H) <= Cardinality(Owners)
    BY NamedByRequests
  <2>3. IsFiniteSet(D) /\ Cardinality(D) <= Cardinality(Dropping)
    <3>1. Dropping \in SUBSET Requests
      BY DEF Dropping
    <3> QED
      BY <3>1, NamedByRequests
  <2>4. Live \subseteq CacheEntries \cup H \cup D
    BY DEF Live, HeldEntries, Dropping
  <2>5. /\ IsFiniteSet(Owners) /\ IsFiniteSet(Loaders) /\ IsFiniteSet(Active)
        /\ IsFiniteSet(Dropping)
    BY ConstantsAssumption, FS_Subset DEF Active, Dropping
  <2>6. Cardinality(I) <= Cardinality(Loaders) /\ Cardinality(M) <= Cardinality(Loaders)
    <3>1. I \subseteq Loaders /\ M \subseteq Loaders
      BY <1>1 DEF LoadInv, LoadOK
    <3> HIDE DEF I, M, Loaders
    <3> QED
      BY <2>5, <3>1, FS_Subset
  <2>7. Cardinality(Owners) + Cardinality(Loaders) <= Cardinality(Active)
    <3>1. Owners \cap Loaders = {} /\ Owners \cup Loaders \subseteq Active
      BY <1>1 DEF IInv, Placed, TypeOK, Active
    <3> HIDE DEF Owners, Loaders
    <3>2. Cardinality(Owners \cup Loaders) = Cardinality(Owners) + Cardinality(Loaders)
      <4>1. Cardinality(Owners \cap Loaders) = 0
        BY <3>1, FS_EmptySet
      <4>2. Cardinality(Owners \cup Loaders)
              = Cardinality(Owners) + Cardinality(Loaders) - Cardinality(Owners \cap Loaders)
        BY <2>5, FS_Union
      <4>3. Cardinality(Owners) \in Nat /\ Cardinality(Loaders) \in Nat
        BY <2>5, FS_CardinalityType
      <4> QED
        BY <4>1, <4>2, <4>3
    <3> QED
      BY <2>5, <3>1, <3>2, FS_Subset
  <2>8. Cardinality(Live)
          <= Cardinality(CacheEntries) + Cardinality(H) + Cardinality(D)
    <3> HIDE DEF H, D
    <3>1. /\ IsFiniteSet(CacheEntries \cup H \cup D)
          /\ Cardinality(CacheEntries \cup H \cup D)
               <= Cardinality(CacheEntries) + Cardinality(H) + Cardinality(D)
      BY <2>1, <2>2, <2>3, UnionBound
    <3>2. /\ IsFiniteSet(Live)
          /\ Cardinality(Live) <= Cardinality(CacheEntries \cup H \cup D)
      BY <2>4, <3>1, FS_Subset
    <3> QED
      BY <2>1, <2>2, <2>3, <3>1, <3>2, FS_CardinalityType
  <2>9. /\ Cardinality(CacheEntries) \in Nat /\ Cardinality(H) \in Nat /\ Cardinality(D) \in Nat
        /\ Cardinality(Owners) \in Nat /\ Cardinality(Loaders) \in Nat
        /\ Cardinality(Active) \in Nat /\ Cardinality(Dropping) \in Nat
    BY <2>1, <2>2, <2>3, <2>5, FS_CardinalityType
  <2>10. Cardinality(Live) \in Nat /\ Cardinality(I) \in Nat /\ Cardinality(M) \in Nat
    <3>1. IsFiniteSet(I) /\ IsFiniteSet(M)
      BY ConstantsAssumption, FS_Subset
    <3>2. IsFiniteSet(Live)
      <4> HIDE DEF H, D
      <4>1. IsFiniteSet(CacheEntries \cup H \cup D)
        BY <2>1, <2>2, <2>3, UnionBound
      <4> QED
        BY <2>4, <4>1, FS_Subset
    <3> QED
      BY <3>1, <3>2, FS_CardinalityType
  <2>11. MappedRegions = 2 * Cardinality(Live) + Cardinality(I) + Cardinality(M)
    BY DEF MappedRegions
  <2> HIDE DEF Owners, Loaders, I, M, H, D
  <2> QED
    BY <2>1, <2>2, <2>3, <2>6, <2>7, <2>8, <2>9, <2>10, <2>11, CapacityPositive DEF MappedBound
<1> QED
  BY <1>1, InductiveInvariant, LoadInvariant, PTL

=============================================================================
