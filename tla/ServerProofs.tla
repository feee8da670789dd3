---------------------------- MODULE ServerProofs ----------------------------
(***************************************************************************)
(* Proofs about the server: Admission, for every finite set of requests,   *)
(* every number of permits and every segment size; then its startup,       *)
(* Config.                                                                 *)
(***************************************************************************)
EXTENDS Admission, Config, SequenceTheorems, FiniteSetTheorems, NaturalsInduction, WellFoundedInduction, TLAPS

\* The elements of a queue, and that it has no duplicates.
Elems(q) == {q[i] : i \in DOMAIN q}
Distinct(q) == \A i, j \in DOMAIN q : q[i] = q[j] => i = j

\* Removing position k of a duplicate-free queue removes exactly its element.
LEMMA WithoutProperties ==
  ASSUME NEW q \in Seq(Requests), Distinct(q), NEW k \in DOMAIN q
  PROVE  /\ Without(q, k) \in Seq(Requests)
         /\ Distinct(Without(q, k))
         /\ Elems(Without(q, k)) = Elems(q) \ {q[k]}
<1> DEFINE w == Without(q, k)
<1>1. Len(q) \in Nat /\ DOMAIN q = 1 .. Len(q) /\ k \in 1 .. Len(q)
      /\ \A i \in DOMAIN q : q[i] \in Requests
  BY LenProperties, ElementOfSeq
<1>2. w = [j \in 1 .. Len(q) - 1 |-> IF j < k THEN q[j] ELSE q[j + 1]]
  BY DEF Without
<1>3. w \in [1 .. Len(q) - 1 -> Requests] /\ Len(q) - 1 \in Nat
  BY <1>1, <1>2
<1>4. w \in Seq(Requests) /\ DOMAIN w = 1 .. Len(q) - 1
  BY <1>3, SeqDef
<1>5. \A j \in DOMAIN w : w[j] = IF j < k THEN q[j] ELSE q[j + 1]
  BY <1>2, <1>4
<1> HIDE DEF w
<1>6. Distinct(w)
  <2> SUFFICES ASSUME NEW i \in DOMAIN w, NEW j \in DOMAIN w, w[i] = w[j]
               PROVE  i = j
    BY DEF Distinct
  <2> DEFINE src(m) == IF m < k THEN m ELSE m + 1
  <2>1. /\ src(i) \in DOMAIN q /\ w[i] = q[src(i)]
        /\ src(j) \in DOMAIN q /\ w[j] = q[src(j)]
    BY <1>1, <1>4, <1>5
  <2>2. src(i) = src(j)
    <3> HIDE DEF src
    <3> QED BY <2>1 DEF Distinct
  <2> QED
    BY <1>1, <1>4, <2>2
<1>7. ASSUME NEW x \in Elems(w) PROVE x \in Elems(q) \ {q[k]}
  <2>1. PICK j \in DOMAIN w : x = w[j]
    BY DEF Elems
  <2>2. \E m \in DOMAIN q : m # k /\ x = q[m]
    <3>1. CASE j < k
      <4>1. j \in DOMAIN q /\ j # k /\ x = q[j]
        BY <1>1, <1>4, <1>5, <2>1, <3>1
      <4> QED
        BY <4>1
    <3>2. CASE ~(j < k)
      <4>1. j + 1 \in DOMAIN q /\ j + 1 # k /\ x = q[j + 1]
        BY <1>1, <1>4, <1>5, <2>1, <3>2
      <4> QED
        BY <4>1
    <3> QED
      BY <3>1, <3>2
  <2> QED
    BY <2>2 DEF Elems, Distinct
<1>8. ASSUME NEW x \in Elems(q) \ {q[k]} PROVE x \in Elems(w)
  <2>1. PICK m \in DOMAIN q : x = q[m] /\ m # k
    BY DEF Elems
  <2>2. CASE m < k
    <3>1. m \in DOMAIN w /\ w[m] = x
      BY <1>1, <1>4, <1>5, <2>1, <2>2
    <3> QED
      BY <3>1 DEF Elems
  <2>3. CASE ~(m < k)
    <3>1. m - 1 \in DOMAIN w /\ w[m - 1] = x
      BY <1>1, <1>4, <1>5, <2>1, <2>3
    <3> QED
      BY <3>1 DEF Elems
  <2> QED
    BY <2>2, <2>3
<1>9. Elems(w) = Elems(q) \ {q[k]}
  BY <1>7, <1>8
<1> QED
  BY <1>4, <1>6, <1>9 DEF w

\* A newcomer queues behind the others.
LEMMA AppendElems ==
  ASSUME NEW q \in Seq(Requests), Distinct(q), NEW r \in Requests, r \notin Elems(q)
  PROVE  /\ Append(q, r) \in Seq(Requests)
         /\ Distinct(Append(q, r))
         /\ Elems(Append(q, r)) = Elems(q) \cup {r}
<1>1. Len(q) \in Nat /\ DOMAIN q = 1 .. Len(q)
  BY LenProperties
<1>2. /\ Append(q, r) \in Seq(Requests)
      /\ DOMAIN Append(q, r) = 1 .. Len(q) + 1
      /\ \A i \in 1 .. Len(q) : Append(q, r)[i] = q[i]
      /\ Append(q, r)[Len(q) + 1] = r
  BY AppendProperties
<1>3. Distinct(Append(q, r))
  BY <1>1, <1>2 DEF Distinct, Elems
<1>4. Elems(Append(q, r)) = Elems(q) \cup {r}
  <2>1. ASSUME NEW x \in Elems(Append(q, r)) PROVE x \in Elems(q) \cup {r}
    BY <1>1, <1>2 DEF Elems
  <2>2. ASSUME NEW x \in Elems(q) \cup {r} PROVE x \in Elems(Append(q, r))
    <3>1. CASE x = r
      <4>1. Len(q) + 1 \in DOMAIN Append(q, r)
        BY <1>1, <1>2
      <4> QED
        BY <1>2, <3>1, <4>1 DEF Elems
    <3>2. CASE x \in Elems(q)
      <4>1. PICK i \in DOMAIN q : x = q[i]
        BY <3>2 DEF Elems
      <4>2. i \in DOMAIN Append(q, r) /\ x = Append(q, r)[i]
        BY <1>1, <1>2, <4>1
      <4> QED
        BY <4>2 DEF Elems
    <3> QED
      BY <3>1, <3>2
  <2> QED
    BY <2>1, <2>2
<1> QED
  BY <1>2, <1>3, <1>4

-----------------------------------------------------------------------------
\* A buffer exists only while its request assembles or streams.
BuffersHeld == \A r \in Requests : buf[r] # 0 => pc[r] \in {"assemble", "stream"}

\* The state of the semaphore: its counter, its queue and its permits.
GateInv == PermitsConserved /\ NoIdlePermit /\ QueueIsWaiting

\* The inductive invariant of admission control.
IInv == TypeOK /\ GateInv /\ BuffersHeld

\* A queue that is not empty has a head, its first element.
LEMMA NonEmptyQueue ==
  ASSUME NEW S, NEW q \in Seq(S), q # <<>>
  PROVE  1 \in DOMAIN q /\ Head(q) = q[1]
<1>1. Len(q) \in Nat \ {0}
  BY EmptySeq
<1>2. DOMAIN q = 1 .. Len(q)
  BY LenProperties
<1> QED
  BY <1>1, <1>2

\* QueueIsWaiting in terms of Distinct and Elems.
LEMMA QueueElems == QueueIsWaiting <=> Distinct(queue) /\ Elems(queue) = Waiting
  BY DEF QueueIsWaiting, Distinct, Elems

\* The same in the next state.
LEMMA QueueElemsNext ==
  QueueIsWaiting' <=> Distinct(queue') /\ Elems(queue') = Waiting'
  BY DEF QueueIsWaiting, Distinct, Elems

\* There are finitely many permit holders.
LEMMA HoldersFinite == IsFiniteSet(Holders) /\ Cardinality(Holders) \in Nat
  BY AdmissionAssumption, FS_Subset, FS_CardinalityType DEF Holders

\* The fresh semaphore satisfies the inductive invariant.
LEMMA InitIInv == Init => IInv
<1> SUFFICES ASSUME Init PROVE IInv
  OBVIOUS
<1>1. queue \in Seq(Requests) /\ DOMAIN queue = {}
  BY EmptySeq DEF Init
<1>2. TypeOK
  BY <1>1, AdmissionAssumption DEF Init, TypeOK
<1>3. Holders = {} /\ Waiting = {}
  BY DEF Init, Holders, Waiting
<1>4. PermitsConserved
  BY <1>3, FS_EmptySet, AdmissionAssumption DEF Init, PermitsConserved
<1>5. NoIdlePermit /\ QueueIsWaiting /\ BuffersHeld
  BY <1>1, <1>3 DEF Init, NoIdlePermit, QueueIsWaiting, BuffersHeld
<1> QED
  BY <1>2, <1>4, <1>5 DEF IInv, GateInv

\* Every permit passes through one of these: taken by a newcomer, waited for,
\* waited for no more, or released.  Each keeps the semaphore consistent.
LEMMA TakeGate ==
  ASSUME IInv, NEW r \in Requests, pc[r] = "start", avail > 0, avail' = avail - 1,
         pc' = [pc EXCEPT ![r] = "permit"], UNCHANGED queue
  PROVE  GateInv' /\ avail' \in Nat
<1>1. Holders' = Holders \cup {r} /\ r \notin Holders /\ Waiting' = Waiting
  BY DEF IInv, TypeOK, Holders, Waiting
<1>2. Cardinality(Holders \cup {r}) = Cardinality(Holders) + 1
  BY <1>1, HoldersFinite, FS_AddElement
<1>3. PermitsConserved'
  BY <1>1, <1>2, HoldersFinite, AdmissionAssumption
     DEF IInv, GateInv, PermitsConserved, TypeOK
<1>4. NoIdlePermit' /\ avail' \in Nat
  BY <1>1 DEF IInv, GateInv, NoIdlePermit, TypeOK
<1>5. QueueIsWaiting'
  BY <1>1 DEF IInv, GateInv, QueueIsWaiting
<1> QED
  BY <1>3, <1>4, <1>5 DEF GateInv

\* A first poll that finds no permit queues the request.
LEMMA EnqueueGate ==
  ASSUME IInv, NEW r \in Requests, pc[r] = "start", avail = 0, UNCHANGED avail,
         queue' = Append(queue, r), pc' = [pc EXCEPT ![r] = "wait"]
  PROVE  GateInv' /\ queue' \in Seq(Requests)
<1>1. Holders' = Holders /\ r \notin Waiting /\ Waiting' = Waiting \cup {r}
  BY DEF IInv, TypeOK, Holders, Waiting
<1>2. queue \in Seq(Requests) /\ Distinct(queue) /\ Elems(queue) = Waiting
  BY QueueElems DEF IInv, GateInv, TypeOK
<1>3. /\ queue' \in Seq(Requests) /\ Distinct(queue')
      /\ Elems(queue') = Elems(queue) \cup {r}
  BY <1>1, <1>2, AppendElems
<1>4. QueueIsWaiting'
  BY <1>1, <1>2, <1>3, QueueElemsNext
<1>5. PermitsConserved' /\ NoIdlePermit'
  BY <1>1 DEF IInv, GateInv, PermitsConserved, NoIdlePermit
<1> QED
  BY <1>3, <1>4, <1>5 DEF GateInv

\* A waiter that times out or is dropped leaves the queue.
LEMMA LeaveGate ==
  ASSUME IInv, NEW r \in Requests, pc[r] \in {"wait", "elapsed"}, LeaveQueue(r)
  PROVE  GateInv' /\ queue' \in Seq(Requests) /\ avail' = avail
         /\ pc' = [pc EXCEPT ![r] = "idle"]
<1>1. PICK k \in DOMAIN queue : queue[k] = r /\ queue' = Without(queue, k)
  BY DEF LeaveQueue
<1>2. pc' = [pc EXCEPT ![r] = "idle"] /\ avail' = avail
  BY DEF LeaveQueue
<1>3. Holders' = Holders /\ Waiting' = Waiting \ {r}
  BY <1>2 DEF IInv, TypeOK, Holders, Waiting
<1>4. queue \in Seq(Requests) /\ Distinct(queue) /\ Elems(queue) = Waiting
  BY QueueElems DEF IInv, GateInv, TypeOK
<1>5. /\ queue' \in Seq(Requests) /\ Distinct(queue')
      /\ Elems(queue') = Elems(queue) \ {r}
  BY <1>1, <1>4, WithoutProperties
<1>6. QueueIsWaiting'
  BY <1>3, <1>4, <1>5, QueueElemsNext
<1>7. PermitsConserved' /\ NoIdlePermit'
  BY <1>2, <1>3 DEF IInv, GateInv, PermitsConserved, NoIdlePermit
<1> QED
  BY <1>2, <1>5, <1>6, <1>7 DEF GateInv

\* A dropped permit goes to the first waiter, or back to the semaphore.
LEMMA ReleaseGate ==
  ASSUME IInv, NEW r \in Requests, r \in Holders, ReleasePermit(r)
  PROVE  /\ GateInv' /\ queue' \in Seq(Requests) /\ avail' \in Nat
         /\ pc' \in [Requests -> {"idle", "start", "wait", "granted", "elapsed",
                                  "elapsedGranted", "permit", "assemble", "stream"}]
         /\ pc'[r] = "idle" /\ Elapsed' = Elapsed \ {r}
         /\ \A q \in Requests \ {r} : pc'[q] = pc[q] \/ (q \in Waiting /\ q \in Holders')
<1>1. queue \in Seq(Requests) /\ Distinct(queue) /\ Elems(queue) = Waiting
  BY QueueElems DEF IInv, GateInv, TypeOK
<1>2. IsFiniteSet(Holders \ {r}) /\ Cardinality(Holders \ {r}) = Cardinality(Holders) - 1
  BY HoldersFinite, FS_RemoveElement
<1>3. avail \in Nat /\ avail + Cardinality(Holders) = Permits /\ Cardinality(Holders) \in Nat
  BY HoldersFinite DEF IInv, GateInv, TypeOK, PermitsConserved
<1>4. CASE queue = <<>>
  <2>1. /\ avail' = avail + 1 /\ queue' = queue /\ pc' = [pc EXCEPT ![r] = "idle"]
    BY <1>4 DEF ReleasePermit
  <2>2. Holders' = Holders \ {r} /\ Waiting' = Waiting
    BY <2>1 DEF IInv, TypeOK, Holders, Waiting
  <2>3. Waiting = {}
    BY <1>1, <1>4, EmptySeq DEF Elems
  <2>4. PermitsConserved'
    BY <1>2, <1>3, <2>1, <2>2 DEF PermitsConserved
  <2>5. NoIdlePermit' /\ QueueIsWaiting'
    BY <2>1, <2>2, <2>3 DEF NoIdlePermit, QueueIsWaiting, IInv, GateInv
  <2>6. Elapsed' = Elapsed \ {r}
    BY <2>1 DEF IInv, TypeOK, Elapsed
  <2> QED
    BY <1>1, <1>3, <2>1, <2>4, <2>5, <2>6 DEF GateInv, IInv, TypeOK
<1>5. CASE queue # <<>>
  <2> DEFINE h == queue[1]
  <2>1. /\ 1 \in DOMAIN queue /\ Head(queue) = h
    BY <1>1, <1>5, NonEmptyQueue
  <2>2. /\ h \in Waiting /\ h \in Requests /\ h # r /\ h \notin Holders
        /\ pc[h] \in {"wait", "elapsed"}
    BY <1>1, <2>1 DEF Elems, Waiting, Holders
  <2>3. /\ avail' = avail /\ queue' = Without(queue, 1)
        /\ pc' = [pc EXCEPT ![r] = "idle", ![h] = Assigned(h)]
    BY <1>5, <2>1 DEF ReleasePermit
  <2>a. /\ Assigned(h) \in {"granted", "elapsedGranted"}
        /\ Assigned(h) = "elapsedGranted" <=> h \in Elapsed
    BY <2>2 DEF Assigned, Elapsed
  <2> HIDE DEF h
  <2>4. Holders' = (Holders \ {r}) \cup {h} /\ Waiting' = Waiting \ {h}
    BY <2>2, <2>3, <2>a DEF IInv, TypeOK, Holders, Waiting
  <2>5. Cardinality((Holders \ {r}) \cup {h}) = Cardinality(Holders \ {r}) + 1
    BY <1>2, <2>2, FS_AddElement
  <2>6. PermitsConserved'
    BY <1>2, <1>3, <2>3, <2>4, <2>5 DEF PermitsConserved
  <2>7. NoIdlePermit'
    BY <2>2, <2>3 DEF NoIdlePermit, IInv, GateInv
  <2>8. /\ queue' \in Seq(Requests) /\ Distinct(queue')
        /\ Elems(queue') = Elems(queue) \ {h}
    BY <1>1, <2>1, <2>3, WithoutProperties DEF h
  <2>9. QueueIsWaiting'
    BY <1>1, <2>4, <2>8, QueueElemsNext
  <2>10. Elapsed' = Elapsed \ {r}
    BY <2>2, <2>3, <2>a DEF IInv, TypeOK, Elapsed
  <2>11. /\ pc' \in [Requests -> {"idle", "start", "wait", "granted", "elapsed",
                                  "elapsedGranted", "permit", "assemble", "stream"}]
         /\ pc'[r] = "idle"
         /\ \A q \in Requests \ {r} : pc'[q] = pc[q] \/ (q \in Waiting /\ q \in Holders')
    BY <2>2, <2>3, <2>4, <2>a DEF IInv, TypeOK
  <2> QED
    BY <1>3, <2>3, <2>6, <2>7, <2>8, <2>9, <2>10, <2>11 DEF GateInv, IInv, TypeOK
<1> QED
  BY <1>4, <1>5

\* Neither a permit nor the queue moves in a step that changes neither the
\* set of holders nor the set of waiting requests.
LEMMA NeutralGate ==
  ASSUME IInv, Holders' = Holders, Waiting' = Waiting, UNCHANGED <<avail, queue>>
  PROVE  GateInv'
  BY DEF IInv, GateInv, PermitsConserved, NoIdlePermit, QueueIsWaiting

\* Every step keeps the inductive invariant.
LEMMA NextIInv == IInv /\ [Next]_vars => IInv'
<1> SUFFICES ASSUME IInv, [Next]_vars PROVE IInv'
  OBVIOUS
<1>t. TypeOK /\ BuffersHeld /\ GateInv
  BY DEF IInv
<1>1. ASSUME NEW r \in Requests, NEW n \in 1 .. MaxSegmentSize, Arrive(r, n)
      PROVE  IInv'
  <2>1. Holders' = Holders /\ Waiting' = Waiting /\ UNCHANGED <<avail, queue>>
    BY <1>t, <1>1 DEF Arrive, TypeOK, Holders, Waiting
  <2>2. TypeOK' /\ BuffersHeld'
    BY <1>t, <1>1, AdmissionAssumption DEF Arrive, TypeOK, BuffersHeld
  <2> QED
    BY <2>1, <2>2, NeutralGate DEF IInv
<1>2. ASSUME NEW r \in Requests, FirstPoll(r) PROVE IInv'
  <2>0. pc[r] = "start" /\ UNCHANGED <<late, size, buf, left, outcome>>
    BY <1>2 DEF FirstPoll
  <2>1. CASE avail > 0
    <3>1. avail' = avail - 1 /\ pc' = [pc EXCEPT ![r] = "permit"] /\ UNCHANGED queue
      BY <1>2, <2>1 DEF FirstPoll
    <3>2. GateInv' /\ avail' \in Nat
      BY <2>0, <2>1, <3>1, TakeGate
    <3>3. TypeOK' /\ BuffersHeld'
      BY <1>t, <2>0, <3>1, <3>2 DEF TypeOK, BuffersHeld
    <3> QED
      BY <3>2, <3>3 DEF IInv
  <2>2. CASE avail = 0
    <3>1. queue' = Append(queue, r) /\ pc' = [pc EXCEPT ![r] = "wait"] /\ UNCHANGED avail
      BY <1>2, <2>2 DEF FirstPoll
    <3>2. GateInv' /\ queue' \in Seq(Requests)
      BY <2>0, <2>2, <3>1, EnqueueGate
    <3>3. TypeOK' /\ BuffersHeld'
      BY <1>t, <2>0, <3>1, <3>2 DEF TypeOK, BuffersHeld
    <3> QED
      BY <3>2, <3>3 DEF IInv
  <2> QED
    BY <1>t, <2>1, <2>2 DEF TypeOK
<1>3. ASSUME NEW r \in Requests, Deadline(r) \/ PollGranted(r) \/ PollElapsed(r) PROVE IInv'
  <2>1. Holders' = Holders /\ Waiting' = Waiting /\ UNCHANGED <<avail, queue>>
    BY <1>t, <1>3 DEF Deadline, PollGranted, PollElapsed, TypeOK, Holders, Waiting
  <2>2. TypeOK' /\ BuffersHeld'
    BY <1>t, <1>3 DEF Deadline, PollGranted, PollElapsed, TypeOK, BuffersHeld
  <2> QED
    BY <2>1, <2>2, NeutralGate DEF IInv
<1>4. ASSUME NEW r \in Requests, pc[r] \in {"wait", "elapsed"}, LeaveQueue(r),
             outcome' \in [Requests -> {"none", "Ok", "ServiceUnavailable", "Internal", "gone"}],
             UNCHANGED <<late, size, buf, left>>
      PROVE  IInv'
  <2>1. /\ GateInv' /\ queue' \in Seq(Requests) /\ avail' = avail
        /\ pc' = [pc EXCEPT ![r] = "idle"]
    BY <1>4, LeaveGate
  <2>2. TypeOK' /\ BuffersHeld'
    BY <1>t, <1>4, <2>1 DEF TypeOK, BuffersHeld
  <2> QED
    BY <2>1, <2>2 DEF IInv
<1>5. ASSUME NEW r \in Requests, r \in Holders, ReleasePermit(r),
             buf' \in [Requests -> 0 .. MaxSegmentSize], buf'[r] = 0,
             \A q \in Requests \ {r} : buf'[q] = buf[q],
             left' \in [Requests -> 0 .. MaxChunks],
             outcome' \in [Requests -> {"none", "Ok", "ServiceUnavailable", "Internal", "gone"}],
             UNCHANGED <<late, size>>
      PROVE  IInv'
  <2>1. /\ GateInv' /\ queue' \in Seq(Requests) /\ avail' \in Nat
        /\ pc' \in [Requests -> {"idle", "start", "wait", "granted", "elapsed",
                                 "elapsedGranted", "permit", "assemble", "stream"}]
        /\ \A q \in Requests \ {r} : pc'[q] = pc[q] \/ q \in Waiting
    BY <1>5, ReleaseGate
  <2>2. TypeOK'
    BY <1>t, <1>5, <2>1 DEF TypeOK
  <2>3. BuffersHeld'
    BY <1>t, <1>5, <2>1 DEF BuffersHeld, Waiting
  <2> QED
    BY <2>1, <2>2, <2>3 DEF IInv
<1>6. ASSUME NEW r \in Requests, DropAcquire(r) \/ DisconnectWaiting(r) PROVE IInv'
  <2>1. /\ outcome' \in [Requests -> {"none", "Ok", "ServiceUnavailable", "Internal", "gone"}]
        /\ UNCHANGED <<late, size, buf, left>>
    BY <1>t, <1>6 DEF DropAcquire, DisconnectWaiting, TypeOK
  <2>2. CASE pc[r] \in {"wait", "elapsed"} /\ LeaveQueue(r)
    BY <1>4, <2>1, <2>2
  <2>3. CASE pc[r] \in {"granted", "elapsedGranted"} /\ ReleasePermit(r)
    <3>1. r \in Holders /\ buf[r] = 0
      BY <1>t, <2>3 DEF Holders, BuffersHeld
    <3>2. /\ buf' \in [Requests -> 0 .. MaxSegmentSize] /\ buf'[r] = 0
          /\ left' \in [Requests -> 0 .. MaxChunks]
      BY <1>t, <2>1, <3>1 DEF TypeOK
    <3> QED
      BY <1>5, <2>1, <2>3, <3>1, <3>2
  <2> QED
    BY <1>6, <2>2, <2>3 DEF DropAcquire, DisconnectWaiting
<1>7. ASSUME NEW r \in Requests, AllocBuffer(r) PROVE IInv'
  <2>1. Holders' = Holders /\ Waiting' = Waiting /\ UNCHANGED <<avail, queue>>
    BY <1>t, <1>7 DEF AllocBuffer, TypeOK, Holders, Waiting
  <2>2. TypeOK' /\ BuffersHeld'
    BY <1>t, <1>7 DEF AllocBuffer, TypeOK, BuffersHeld
  <2> QED
    BY <2>1, <2>2, NeutralGate DEF IInv
<1>8. ASSUME NEW r \in Requests, NEW n \in 1 .. MaxChunks, AssembleOk(r, n)
      PROVE  IInv'
  <2>1. Holders' = Holders /\ Waiting' = Waiting /\ UNCHANGED <<avail, queue>>
    BY <1>t, <1>8 DEF AssembleOk, TypeOK, Holders, Waiting
  <2>2. TypeOK' /\ BuffersHeld'
    BY <1>t, <1>8, AdmissionAssumption DEF AssembleOk, TypeOK, BuffersHeld
  <2> QED
    BY <2>1, <2>2, NeutralGate DEF IInv
<1>9. ASSUME NEW r \in Requests, AssembleErr(r) \/ EndStream(r) \/ DisconnectStreaming(r)
      PROVE  IInv'
  <2>1. r \in Holders /\ ReleasePermit(r) /\ UNCHANGED <<late, size>>
    BY <1>9 DEF AssembleErr, EndStream, DisconnectStreaming, Holders
  <2>2. /\ buf' \in [Requests -> 0 .. MaxSegmentSize] /\ buf'[r] = 0
        /\ \A q \in Requests \ {r} : buf'[q] = buf[q]
    <3>1. buf' = [buf EXCEPT ![r] = 0] /\ 0 \in 0 .. MaxSegmentSize
      BY <1>9, AdmissionAssumption DEF AssembleErr, EndStream, DisconnectStreaming
    <3> QED
      BY <1>t, <3>1 DEF TypeOK
  <2>4. left' \in [Requests -> 0 .. MaxChunks]
    <3>1. left' = left \/ left' = [left EXCEPT ![r] = 0]
      BY <1>9 DEF AssembleErr, EndStream, DisconnectStreaming
    <3>2. 0 \in 0 .. MaxChunks
      BY AdmissionAssumption
    <3> QED
      BY <1>t, <3>1, <3>2 DEF TypeOK
  <2>3. outcome' \in [Requests -> {"none", "Ok", "ServiceUnavailable", "Internal", "gone"}]
    BY <1>t, <1>9 DEF AssembleErr, EndStream, DisconnectStreaming, TypeOK
  <2> QED
    BY <1>5, <2>1, <2>2, <2>3, <2>4
<1>10. ASSUME NEW r \in Requests, PollFrame(r) PROVE IInv'
  <2>1. Holders' = Holders /\ Waiting' = Waiting /\ UNCHANGED <<avail, queue>>
    BY <1>t, <1>10 DEF PollFrame, TypeOK, Holders, Waiting
  <2>2. TypeOK' /\ BuffersHeld'
    BY <1>t, <1>10, AdmissionAssumption DEF PollFrame, TypeOK, BuffersHeld
  <2> QED
    BY <2>1, <2>2, NeutralGate DEF IInv
<1>11. CASE UNCHANGED vars
  BY <1>t, <1>11 DEF vars, IInv, TypeOK, BuffersHeld, GateInv, PermitsConserved,
     NoIdlePermit, QueueIsWaiting, Holders, Waiting
<1> QED
  BY <1>1, <1>2, <1>3, <1>6, <1>7, <1>8, <1>9, <1>10, <1>11 DEF Next, ServerStep

\* The inductive invariant holds in every reachable state.
LEMMA InductiveInvariant == Spec => []IInv
  BY InitIInv, NextIInv, PTL DEF Spec

-----------------------------------------------------------------------------
\* Every variable keeps its type; in particular no permit counter underflows.
THEOREM TypeCorrect == Spec => []TypeOK
  BY InductiveInvariant, PTL DEF IInv

\* Whatever the number of requests and permits, and on every path a request can
\* end by, the permits are conserved.
THEOREM PermitsAlwaysConserved == Spec => []PermitsConserved
  BY InductiveInvariant, PTL DEF IInv, GateInv

\* No permit ever lies free beside a waiting request.
THEOREM NoPermitIdles == Spec => []NoIdlePermit
  BY InductiveInvariant, PTL DEF IInv, GateInv

\* The queue is always exactly the waiting requests, each once.
THEOREM QueueAlwaysExact == Spec => []QueueIsWaiting
  BY InductiveInvariant, PTL DEF IInv, GateInv

\* The RAM budget of handle_segment: never more than Permits buffers at a time.
AtMostPermitsBuffers == Cardinality({r \in Requests : buf[r] # 0}) <= Permits

\* At most max_inflight_segments assembly buffers exist at a time.
THEOREM BuffersBounded == Spec => []AtMostPermitsBuffers
<1>1. IInv => AtMostPermitsBuffers
  <2> SUFFICES ASSUME IInv PROVE AtMostPermitsBuffers
    OBVIOUS
  <2> DEFINE B == {r \in Requests : buf[r] # 0}
  <2>1. B \subseteq Holders
    BY DEF IInv, BuffersHeld, Holders
  <2>2. Cardinality(B) <= Cardinality(Holders) /\ Cardinality(B) \in Nat
    BY <2>1, HoldersFinite, FS_Subset, FS_CardinalityType
  <2>3. avail \in Nat /\ avail + Cardinality(Holders) = Permits
        /\ Permits \in Nat /\ Cardinality(Holders) \in Nat
    BY HoldersFinite, AdmissionAssumption DEF IInv, TypeOK, GateInv, PermitsConserved
  <2>4. Cardinality(B) <= Permits
    <3> HIDE DEF B
    <3> QED BY <2>2, <2>3
  <2> QED
    BY <2>4 DEF AtMostPermitsBuffers
<1> QED
  BY <1>1, InductiveInvariant, PTL

-----------------------------------------------------------------------------
(***************************************************************************)
(* The sum of the buffers.  FoldFunction is a recursive function over the  *)
(* subsets of Requests; that one exists, and what bounds it, follows by    *)
(* induction on the size of a subset.                                      *)
(***************************************************************************)
\* Every nonempty set of natural numbers has a least element.
LEMMA LeastElement ==
  ASSUME NEW S \in SUBSET Nat, S # {}
  PROVE  \E x \in S : \A y \in S : x <= y
<1> DEFINE R == {ss \in Nat \X Nat : ss[1] < ss[2]}
<1>1. IsWellFoundedOn(R, Nat)
  BY NatLessThanWellFounded DEF OpToRel
<1>2. ASSUME NEW x \in S, NEW y \in S
      PROVE  <<y, x>> \in R <=> y < x
  OBVIOUS
<1> HIDE DEF R
<1>3. PICK x \in S : \A y \in S : ~(<<y, x>> \in R)
  BY <1>1, WFMin
<1>4. \A y \in S : ~(y < x)
  BY <1>2, <1>3
<1> QED
  BY <1>4

\* g sums f over the sets in D, element by element.
AnyOf(s) == CHOOSE x \in s : TRUE
Sums(g, f, D) == g = [s \in D |-> IF s = {} THEN 0 ELSE f[AnyOf(s)] + g[s \ {AnyOf(s)}]]

\* AnyOf chooses an element.
LEMMA AnyOfIn == ASSUME NEW s, s # {} PROVE AnyOf(s) \in s
  BY DEF AnyOf

\* FoldFunction is such a sum.
LEMMA FoldIs ==
  ASSUME NEW f
  PROVE  FoldFunction(+, 0, f) = (CHOOSE g : Sums(g, f, SUBSET DOMAIN f))[DOMAIN f]
  BY DEF FoldFunction, FoldFunctionOnSet, MapThenFoldSet, Sums, AnyOf

\* A subset without one of its elements is smaller by one.
LEMMA OneLess ==
  ASSUME NEW S, IsFiniteSet(S), NEW s \in SUBSET S, s # {}
  PROVE  /\ Cardinality(s) \in Nat /\ Cardinality(s \ {AnyOf(s)}) = Cardinality(s) - 1
         /\ Cardinality(s) > 0 /\ s \ {AnyOf(s)} \in SUBSET S
<1>1. IsFiniteSet(s) /\ AnyOf(s) \in s
  BY FS_Subset, AnyOfIn
<1>2. Cardinality(s) \in Nat /\ Cardinality(s \ {AnyOf(s)}) = Cardinality(s) - 1
  BY <1>1, FS_CardinalityType, FS_RemoveElement
<1>3. Cardinality(s) # 0
  BY <1>1, FS_EmptySet
<1> QED
  BY <1>2, <1>3

\* The sum over the subsets of a finite set exists.
LEMMA SumsExist ==
  ASSUME NEW S, IsFiniteSet(S), NEW f
  PROVE  \E g : Sums(g, f, SUBSET S)
<1> DEFINE Small(n) == {s \in SUBSET S : Cardinality(s) <= n}
           Bad == {n \in Nat : ~\E g : Sums(g, f, Small(n))}
<1>1. Bad = {}
  <2> SUFFICES ASSUME Bad # {} PROVE FALSE
    OBVIOUS
  <2>1. PICK n \in Bad : \A m \in Bad : n <= m
    <3>1. Bad \in SUBSET Nat
      OBVIOUS
    <3> HIDE DEF Bad
    <3> QED
      BY <3>1, LeastElement
  <2>2. CASE n = 0
    <3>1. ASSUME NEW s \in Small(0) PROVE s = {}
      <4>1. s # {} => Cardinality(s) > 0 /\ Cardinality(s) \in Nat
        BY OneLess
      <4>2. Cardinality(s) <= 0
        OBVIOUS
      <4> QED
        BY <4>1, <4>2
    <3> DEFINE g == [s \in Small(0) |-> 0]
    <3>2. g = [s \in Small(0) |-> IF s = {} THEN 0 ELSE f[AnyOf(s)] + g[s \ {AnyOf(s)}]]
      BY <3>1
    <3>3. Sums(g, f, Small(0))
      BY <3>2 DEF Sums
    <3> QED
      BY <2>2, <3>3
  <2>3. CASE n # 0
    <3>1. n \in Nat /\ n - 1 \in Nat /\ n - 1 \notin Bad
      <4>1. n \in Nat
        OBVIOUS
      <4> HIDE DEF Bad
      <4> QED
        BY <2>1, <2>3, <4>1
    <3>2. PICK g : Sums(g, f, Small(n - 1))
      BY <3>1
    <3> DEFINE rest(s) == s \ {AnyOf(s)}
               h == [s \in Small(n) |-> IF s = {} THEN 0 ELSE f[AnyOf(s)] + g[rest(s)]]
    <3>3. ASSUME NEW s \in Small(n), s # {}
          PROVE  rest(s) \in Small(n - 1) /\ rest(s) \in Small(n)
      <4>1. s \in SUBSET S /\ Cardinality(s) <= n
        OBVIOUS
      <4>2. /\ Cardinality(s) \in Nat /\ Cardinality(rest(s)) = Cardinality(s) - 1
            /\ rest(s) \in SUBSET S
        BY <3>3, <4>1, OneLess
      <4> QED
        BY <3>1, <4>1, <4>2
    <3>4. ASSUME NEW s \in Small(n - 1), s \in Small(n)
          PROVE  h[s] = g[s]
      <4> HIDE DEF Small
      <4>1. g[s] = IF s = {} THEN 0 ELSE f[AnyOf(s)] + g[rest(s)]
        BY <3>2 DEF Sums
      <4> QED
        BY <3>4, <4>1
    <3>5. h = [s \in Small(n) |-> IF s = {} THEN 0 ELSE f[AnyOf(s)] + h[rest(s)]]
      <4>1. \A s \in Small(n) : s # {} => g[rest(s)] = h[rest(s)]
        BY <3>3, <3>4
      <4> HIDE DEF Small, rest
      <4> QED
        BY <4>1
    <3>6. Sums(h, f, Small(n))
      <4> HIDE DEF Small, h
      <4> QED
        BY <3>5 DEF Sums
    <3> QED
      BY <2>1, <3>6
  <2> QED
    BY <2>2, <2>3
<1>2. Cardinality(S) \in Nat /\ Small(Cardinality(S)) = SUBSET S
  <2>1. Cardinality(S) \in Nat
    BY FS_CardinalityType
  <2>2. \A s \in SUBSET S : Cardinality(s) <= Cardinality(S)
    BY FS_Subset
  <2> QED
    BY <2>1, <2>2
<1> QED
  BY <1>1, <1>2

\* A sum over a set is at most Max for each of its elements in B, if f is
\* at most Max on B and nothing elsewhere.
LEMMA SumBounded ==
  ASSUME NEW S, IsFiniteSet(S), NEW Max \in Nat, NEW f \in [S -> 0 .. Max],
         NEW B \in SUBSET S, \A x \in S : x \notin B => f[x] = 0,
         NEW g, Sums(g, f, SUBSET S)
  PROVE  \A s \in SUBSET S : g[s] \in Nat /\ g[s] <= Cardinality(s \cap B) * Max
<1> DEFINE Good(s) == g[s] \in Nat /\ g[s] <= Cardinality(s \cap B) * Max
           Bad == {n \in Nat : \E s \in SUBSET S : Cardinality(s) = n /\ ~Good(s)}
<1>1. ASSUME NEW s \in SUBSET S PROVE Cardinality(s) \in Nat /\ IsFiniteSet(s)
  BY FS_Subset, FS_CardinalityType
<1>2. \A s \in SUBSET S : g[s] = IF s = {} THEN 0 ELSE f[AnyOf(s)] + g[s \ {AnyOf(s)}]
  BY DEF Sums
<1>3. Bad = {}
  <2> SUFFICES ASSUME Bad # {} PROVE FALSE
    OBVIOUS
  <2>1. PICK n \in Bad : \A m \in Bad : n <= m
    <3>1. Bad \in SUBSET Nat
      OBVIOUS
    <3> HIDE DEF Bad
    <3> QED
      BY <3>1, LeastElement
  <2>2. PICK s \in SUBSET S : Cardinality(s) = n /\ ~Good(s)
    OBVIOUS
  <2>3. s # {}
    <3>1. Good({})
      <4>1. g[{}] = 0
        BY <1>2
      <4>2. Cardinality({} \cap B) = 0
        BY FS_EmptySet
      <4>3. 0 * Max = 0
        OBVIOUS
      <4> QED
        BY <4>1, <4>2, <4>3
    <3> QED
      BY <2>2, <3>1
  <2> DEFINE x == AnyOf(s)
             u == s \ {x}
  <2>4. x \in s /\ x \in S /\ u \in SUBSET S
    BY <2>3, AnyOfIn
  <2>5. n \in Nat /\ Cardinality(u) = n - 1 /\ n - 1 \in Nat
    <3>1. Cardinality(s) = n
      BY <2>2
    <3> HIDE DEF Good, Bad
    <3>2. Cardinality(s) \in Nat /\ Cardinality(u) = Cardinality(s) - 1 /\ Cardinality(s) > 0
      BY <2>3, OneLess
    <3> HIDE DEF u
    <3> QED
      BY <3>1, <3>2
  <2>6. Good(u)
    <3>1. n - 1 \notin Bad
      <4> HIDE DEF Bad
      <4> QED
        BY <2>1, <2>5
    <3> QED
      BY <2>4, <2>5, <3>1
  <2>7. g[s] = f[x] + g[u]
    BY <1>2, <2>3
  <2> DEFINE c == Cardinality(u \cap B)
  <2>8. c \in Nat /\ g[u] \in Nat /\ g[u] <= c * Max /\ f[x] \in 0 .. Max
    BY <1>1, <2>4, <2>6
  <2>9. CASE x \in B
    <3>1. Cardinality(s \cap B) = c + 1
      <4>1. s \cap B = (u \cap B) \cup {x} /\ x \notin u \cap B
        BY <2>4, <2>9
      <4>2. IsFiniteSet(u \cap B)
        BY <2>4, <1>1
      <4> HIDE DEF u, x
      <4> QED
        BY <4>1, <4>2, FS_AddElement
    <3>2. (c + 1) * Max = c * Max + Max /\ c * Max \in Nat
      <4> HIDE DEF c
      <4> QED
        BY <2>8
    <3> HIDE DEF c, u, x
    <3>3. g[s] \in Nat /\ g[s] <= c * Max + Max
      BY <2>7, <2>8, <3>2
    <3> QED
      BY <2>2, <3>1, <3>2, <3>3
  <2>10. CASE x \notin B
    <3>1. s \cap B = u \cap B /\ f[x] = 0
      BY <2>4, <2>10
    <3>2. g[s] = g[u]
      <4> HIDE DEF u, x
      <4> QED
        BY <2>7, <2>8, <3>1
    <3> QED
      BY <2>2, <2>6, <3>1, <3>2
  <2> QED
    BY <2>9, <2>10
<1> QED
  BY <1>1, <1>3

\* The assembly buffers of all requests together never exceed
\* max_inflight_segments x max_segment_size: only permit holders have one.
THEOREM RamAlwaysBounded == Spec => []RamBound
<1>1. IInv => RamBound
  <2> SUFFICES ASSUME IInv PROVE RamBound
    OBVIOUS
  <2>1. /\ IsFiniteSet(Requests) /\ Permits \in Nat /\ MaxSegmentSize \in Nat
        /\ buf \in [Requests -> 0 .. MaxSegmentSize] /\ DOMAIN buf = Requests
    BY AdmissionAssumption DEF IInv, TypeOK
  <2>2. Holders \in SUBSET Requests /\ \A r \in Requests : r \notin Holders => buf[r] = 0
    BY DEF IInv, BuffersHeld, Holders
  <2> DEFINE g == CHOOSE g : Sums(g, buf, SUBSET Requests)
             c == Cardinality(Holders)
  <2>3. Sums(g, buf, SUBSET Requests)
    BY <2>1, SumsExist
  <2>4. FoldFunction(+, 0, buf) = g[Requests]
    BY <2>1, FoldIs
  <2> HIDE DEF g
  <2>5. g[Requests] \in Nat /\ g[Requests] <= Cardinality(Requests \cap Holders) * MaxSegmentSize
    BY <2>1, <2>2, <2>3, SumBounded
  <2>6. Requests \cap Holders = Holders
    BY <2>2
  <2>7. c \in Nat /\ avail \in Nat /\ avail + c = Permits
    BY HoldersFinite DEF IInv, TypeOK, GateInv, PermitsConserved
  <2> HIDE DEF c
  <2>8. c * MaxSegmentSize <= Permits * MaxSegmentSize
    <3>1. Permits * MaxSegmentSize = avail * MaxSegmentSize + c * MaxSegmentSize
      BY <2>1, <2>7
    <3>2. avail * MaxSegmentSize \in Nat /\ c * MaxSegmentSize \in Nat
      BY <2>1, <2>7
    <3> QED
      BY <3>1, <3>2
  <2>9. g[Requests] <= c * MaxSegmentSize /\ c * MaxSegmentSize \in Nat /\ Permits * MaxSegmentSize \in Nat
    <3>1. g[Requests] <= c * MaxSegmentSize
      BY <2>5, <2>6 DEF c
    <3>2. c * MaxSegmentSize \in Nat /\ Permits * MaxSegmentSize \in Nat
      BY <2>1, <2>7
    <3> QED
      BY <3>1, <3>2
  <2>10. g[Requests] <= Permits * MaxSegmentSize
    BY <2>5, <2>8, <2>9
  <2> QED
    BY <2>4, <2>10 DEF RamBound
<1> QED
  BY <1>1, InductiveInvariant, PTL

-----------------------------------------------------------------------------
\* A request that is being handled has not been refused yet.
Unanswered == \A r \in Requests : pc[r] # "idle" => r \notin Refused

\* The steps that leave holders, queue, timeouts and refusals alone.
LEMMA StutterGate ==
  ASSUME Holders' = Holders, Elapsed' = Elapsed, Refused' = Refused, UNCHANGED queue
  PROVE  UNCHANGED TheGate!gateVars
  BY DEF TheGate!gateVars

\* Line and queue are the same list, so leaving them is the same.
LEMMA MinusIsWithout == \A s, k : TheGate!Minus(s, k) = Without(s, k)
  BY DEF TheGate!Minus, Without

\* The gate counts as admission does.
LEMMA SameCount == TheGate!Cardinality(Holders) = Cardinality(Holders)
  BY DEF TheGate!Cardinality, Cardinality

\* While a request waits, every permit is taken.
LEMMA WaitingMeansFull == IInv /\ Waiting # {} => TheGate!Full
<1> SUFFICES ASSUME IInv, Waiting # {} PROVE TheGate!Full
  OBVIOUS
<1>1. avail = 0
  BY DEF IInv, GateInv, NoIdlePermit, TypeOK
<1> QED
  BY <1>1, HoldersFinite, SameCount DEF IInv, GateInv, PermitsConserved, TheGate!Full

\* Dropping a permit is giving back a place in the room.
LEMMA ReleaseGivesBack ==
  ASSUME IInv, NEW r \in Requests, r \in Holders, ReleasePermit(r)
  PROVE  TheGate!GiveBack(r) /\ Elapsed' = Elapsed \ {r}
         /\ \A q \in Requests : pc'[q] # "idle" => pc[q] # "idle"
<1>1. queue \in Seq(Requests) /\ Elems(queue) = Waiting
  BY QueueElems DEF IInv, GateInv, TypeOK
<1>2. ASSUME queue = <<>> PROVE TheGate!GiveBack(r)
  <2>1. queue' = queue /\ pc' = [pc EXCEPT ![r] = "idle"]
    BY <1>2 DEF ReleasePermit
  <2>2. Holders' = Holders \ {r}
    BY <2>1 DEF IInv, TypeOK, Holders
  <2> QED
    BY <1>2, <2>1, <2>2 DEF TheGate!GiveBack
<1>3. ASSUME queue # <<>> PROVE TheGate!GiveBack(r)
  <2>1. 1 \in DOMAIN queue /\ Head(queue) = queue[1]
    BY <1>1, <1>3, NonEmptyQueue
  <2>2. queue[1] \in Requests /\ queue[1] # r /\ queue[1] \in Waiting
    BY <1>1, <2>1 DEF Elems, Waiting, Holders
  <2>3. /\ queue' = Without(queue, 1)
        /\ pc' = [pc EXCEPT ![r] = "idle", ![queue[1]] = Assigned(queue[1])]
    BY <1>3, <2>1 DEF ReleasePermit
  <2>4. Assigned(queue[1]) \in {"granted", "elapsedGranted"}
    BY DEF Assigned
  <2>5. Holders' = (Holders \ {r}) \cup {queue[1]}
    BY <2>2, <2>3, <2>4 DEF IInv, TypeOK, Holders
  <2>6. queue' = TheGate!Minus(queue, 1)
    BY <2>3, MinusIsWithout
  <2> QED
    BY <1>3, <2>5, <2>6 DEF TheGate!GiveBack
<1>4. TheGate!GiveBack(r)
  BY <1>2, <1>3
<1>5. /\ Elapsed' = Elapsed \ {r} /\ pc'[r] = "idle"
      /\ \A q \in Requests \ {r} : pc'[q] = pc[q] \/ q \in Waiting
  BY ReleaseGate
<1> QED
  BY <1>4, <1>5 DEF Waiting

\* Leaving the queue is stepping out of the line.
LEMMA LeaveQueueStepsOut ==
  ASSUME IInv, NEW r \in Requests, r \in Waiting, LeaveQueue(r)
  PROVE  TheGate!StepOut(r) /\ Elapsed' = Elapsed \ {r}
         /\ \A q \in Requests : pc'[q] # "idle" => pc[q] # "idle"
<1>1. PICK k \in DOMAIN queue : queue[k] = r /\ queue' = Without(queue, k)
  BY DEF LeaveQueue
<1>2. Holders' = Holders /\ Elapsed' = Elapsed \ {r}
  BY DEF IInv, TypeOK, Holders, Waiting, Elapsed, LeaveQueue
<1>3. queue' = TheGate!Minus(queue, k)
  BY <1>1, MinusIsWithout
<1>4. \A q \in Requests : pc'[q] # "idle" => pc[q] # "idle"
  BY DEF IInv, TypeOK, LeaveQueue
<1> QED
  BY <1>1, <1>2, <1>3, <1>4 DEF TheGate!StepOut

\* Every step of admission is a step of the gate, or none.
LEMMA GateStep ==
  ASSUME IInv, Unanswered, [Next]_vars
  PROVE  Unanswered' /\ [TheGate!GateNext]_(TheGate!gateVars)
<1>t. TypeOK
  BY DEF IInv
<1>q. queue \in Seq(Requests) /\ Elems(queue) = Waiting
  BY QueueElems DEF IInv, GateInv, TypeOK
<1>1. ASSUME NEW r \in Requests, NEW n \in 1 .. MaxSegmentSize, Arrive(r, n)
      PROVE  Unanswered' /\ TheGate!GateNext
  <2>1. /\ Holders' = Holders /\ queue' = queue /\ Refused' = Refused \ {r}
        /\ r \notin Holders /\ r \notin Waiting /\ Elapsed' = Elapsed
    BY <1>t, <1>1 DEF Arrive, TypeOK, Holders, Waiting, Elapsed, Refused
  <2>2. ~TheGate!InLine(r)
    BY <1>q, <2>1 DEF Elems, TheGate!InLine
  <2>3. Unanswered'
    BY <1>t, <1>1 DEF Unanswered, Refused, Arrive, TypeOK
  <2> QED
    BY <2>1, <2>2, <2>3 DEF TheGate!GateNext, TheGate!Come
<1>2. ASSUME NEW r \in Requests, FirstPoll(r)
      PROVE  Unanswered' /\ TheGate!GateNext
  <2>1. /\ Refused' = Refused /\ r \notin Holders /\ r \notin Waiting /\ r \notin Refused
        /\ Elapsed' = Elapsed
    BY <1>t, <1>2 DEF FirstPoll, Holders, Waiting, Elapsed, Refused, Unanswered, TypeOK
  <2>2. Unanswered'
    BY <1>t, <1>2 DEF Unanswered, Refused, FirstPoll, TypeOK
  <2>3. ~TheGate!InLine(r)
    BY <1>q, <2>1 DEF Elems, TheGate!InLine
  <2>4. avail \in Nat /\ avail + Cardinality(Holders) = Permits /\ Cardinality(Holders) \in Nat
    BY HoldersFinite DEF IInv, GateInv, PermitsConserved, TypeOK
  <2>5. CASE avail > 0
    <3>1. Holders' = Holders \cup {r} /\ queue' = queue
      BY <1>t, <1>2, <2>5 DEF FirstPoll, Holders, TypeOK
    <3>2. Waiting = {}
      BY <2>5 DEF IInv, GateInv, NoIdlePermit
    <3>3. queue = <<>>
      <4>1. SUFFICES ASSUME queue # <<>>
                     PROVE  FALSE
        OBVIOUS
      <4>2. 1 \in DOMAIN queue
        BY <1>q, <4>1, NonEmptyQueue
      <4> QED
        BY <1>q, <3>2, <4>2 DEF Elems
    <3>4. TheGate!Cardinality(Holders) < Permits
      BY <2>4, <2>5, SameCount
    <3> QED
      BY <2>1, <2>2, <3>1, <3>3, <3>4 DEF TheGate!GateNext, TheGate!Enter
  <2>6. CASE avail = 0
    <3>1. Holders' = Holders /\ queue' = Append(queue, r)
      BY <1>t, <1>2, <2>6 DEF FirstPoll, Holders, TypeOK
    <3>2. TheGate!Full
      BY <2>4, <2>6, SameCount DEF TheGate!Full
    <3> QED
      BY <2>1, <2>2, <2>3, <3>1, <3>2 DEF TheGate!GateNext, TheGate!LineUp
  <2> QED
    BY <2>4, <2>5, <2>6
<1>3. ASSUME NEW r \in Requests,
             \/ Deadline(r) \/ PollGranted(r) \/ AllocBuffer(r) \/ PollFrame(r)
             \/ \E n \in 1 .. MaxChunks : AssembleOk(r, n)
      PROVE  Unanswered' /\ UNCHANGED TheGate!gateVars
  <2>1. Holders' = Holders /\ queue' = queue
    BY <1>t, <1>3 DEF Deadline, PollGranted, AllocBuffer, PollFrame, AssembleOk, TypeOK, Holders
  <2>3. Elapsed' = Elapsed
    BY <1>t, <1>3 DEF Deadline, PollGranted, AllocBuffer, PollFrame, AssembleOk, TypeOK, Elapsed
  <2>2. Refused' = Refused /\ Unanswered'
    BY <1>t, <1>3 DEF Deadline, PollGranted, AllocBuffer, PollFrame, AssembleOk, TypeOK,
       Refused, Unanswered
  <2> QED
    BY <2>1, <2>2, <2>3, StutterGate
<1>4. ASSUME NEW r \in Requests, PollElapsed(r)
      PROVE  Unanswered' /\ TheGate!GateNext
  <2>1. /\ Holders' = Holders /\ queue' = queue /\ Refused' = Refused
        /\ Elapsed' = Elapsed \cup {r} /\ r \notin Elapsed /\ r \in Waiting
    BY <1>t, <1>4 DEF PollElapsed, TypeOK, Holders, Waiting, Elapsed, Refused
  <2>2. Unanswered'
    BY <1>t, <1>4 DEF Unanswered, Refused, PollElapsed, TypeOK
  <2>3. TheGate!InLine(r) /\ TheGate!Full
    BY <1>q, <2>1, WaitingMeansFull DEF Elems, TheGate!InLine
  <2> QED
    BY <2>1, <2>2, <2>3 DEF TheGate!GateNext, TheGate!Expire
<1>5. ASSUME NEW r \in Requests, DropAcquire(r)
      PROVE  Unanswered' /\ TheGate!GateNext
  <2>1. r \in Elapsed /\ Refused' = Refused \cup {r}
    BY <1>t, <1>5 DEF DropAcquire, TypeOK, Elapsed, Refused
  <2>2. /\ TheGate!StepOut(r) \/ TheGate!GiveBack(r)
        /\ Elapsed' = Elapsed \ {r}
        /\ \A q \in Requests : pc'[q] # "idle" => pc[q] # "idle"
    <3>1. CASE pc[r] = "elapsed" /\ LeaveQueue(r)
      BY <3>1, LeaveQueueStepsOut DEF Waiting
    <3>2. CASE pc[r] = "elapsedGranted" /\ ReleasePermit(r)
      BY <3>2, ReleaseGivesBack DEF Holders
    <3> QED
      BY <1>5, <3>1, <3>2 DEF DropAcquire
  <2>3. pc'[r] = "idle"
    <3>1. CASE pc[r] = "elapsed" /\ LeaveQueue(r)
      BY <1>t, <3>1 DEF LeaveQueue, TypeOK
    <3>2. CASE pc[r] = "elapsedGranted" /\ ReleasePermit(r)
      BY <3>2, ReleaseGate DEF Holders
    <3> QED
      BY <1>5, <3>1, <3>2 DEF DropAcquire
  <2> QED
    BY <2>1, <2>2, <2>3 DEF Unanswered, TheGate!GateNext, TheGate!Refuse
<1>6. ASSUME NEW r \in Requests,
             \/ AssembleErr(r) \/ EndStream(r) \/ DisconnectStreaming(r) \/ DisconnectWaiting(r)
      PROVE  Unanswered' /\ TheGate!GateNext
  <2>1. Refused' = Refused /\ r \notin Elapsed
    BY <1>t, <1>6 DEF AssembleErr, EndStream, DisconnectStreaming, DisconnectWaiting, TypeOK,
       Refused, Elapsed, Unanswered
  <2>2. /\ TheGate!StepOut(r) \/ TheGate!GiveBack(r)
        /\ Elapsed' = Elapsed \ {r}
        /\ \A q \in Requests : pc'[q] # "idle" => pc[q] # "idle"
    <3>1. CASE pc[r] = "wait" /\ LeaveQueue(r)
      BY <3>1, LeaveQueueStepsOut DEF Waiting
    <3>2. CASE pc[r] \in {"granted", "assemble", "stream"} /\ ReleasePermit(r)
      BY <3>2, ReleaseGivesBack DEF Holders
    <3> QED
      BY <1>6, <3>1, <3>2 DEF AssembleErr, EndStream, DisconnectStreaming, DisconnectWaiting
  <2>3. Elapsed' = Elapsed
    BY <2>1, <2>2
  <2> QED
    BY <2>1, <2>2, <2>3 DEF Unanswered, TheGate!GateNext, TheGate!Leave, TheGate!GiveUp
<1>7. ASSUME UNCHANGED vars PROVE Unanswered' /\ UNCHANGED TheGate!gateVars
  <2>1. /\ Holders' = Holders /\ Elapsed' = Elapsed /\ Refused' = Refused
        /\ queue' = queue /\ pc' = pc
    BY <1>7 DEF vars, Holders, Elapsed, Refused
  <2> QED
    BY <2>1, StutterGate DEF Unanswered
<1> QED
  BY <1>1, <1>2, <1>3, <1>4, <1>5, <1>6, <1>7 DEF Next, ServerStep

\* Admission control implements the gate, for every finite set of requests and every
\* number of permits.
THEOREM AdmissionKeepsGate == Spec => KeepsGate
<1>1. Init => TheGate!GateInit /\ Unanswered
  BY DEF Init, TheGate!GateInit, Holders, Elapsed, Refused, Unanswered
<1>2. IInv /\ Unanswered /\ [Next]_vars => Unanswered' /\ [TheGate!GateNext]_(TheGate!gateVars)
  BY GateStep
<1> QED
  BY <1>1, <1>2, InductiveInvariant, PTL DEF Spec, KeepsGate, TheGate!GateSpec

-----------------------------------------------------------------------------
(***************************************************************************)
(* Config, for all sizes of a word, values of the constants of config.rs,  *)
(* flags and hosts.                                                        *)
(***************************************************************************)
\* Every variable has its type.
ConfigTypeOK ==
  /\ open \in OpenFlags \cup {None} /\ inflight \in InflightFlags \cup {None}
  /\ host \in {"linux", "fallback", "unreadable"}
  /\ mapCount \in MapCounts /\ memKb \in MemTotals
  /\ stage \in {"gather", "resolve", "verify", "timeout", "build", "bind", "serve",
             "noHost", "tooLow", "badTimeout", "panic", "noSocket"}
  /\ memTotal \in Nat /\ maxOpen \in Nat /\ maxInflight \in Nat /\ capacity \in Nat

Resolved == stage \notin {"gather", "resolve", "noHost"}

\* Without a flag the knobs are what the host suggests, a flag wins, a Linux host
\* that passed verify_tunable has the room, and the registry has one place at least.
KnobsInv ==
  /\ Resolved /\ host = "linux" /\ open = None => maxOpen = AutoMaxOpenArchives(mapCount)
  /\ Resolved /\ host = "linux" /\ inflight = None => maxInflight = AutoMaxInflight(memTotal)
  /\ stage \in {"timeout", "build", "bind", "serve"} /\ host = "linux" => TunableOK
  /\ stage = "tooLow" => host = "linux" /\ ~TunableOK
  /\ Resolved /\ open # None => maxOpen = open
  /\ stage \in {"bind", "serve"} => capacity = RegistryCapacity(maxOpen)

\* The inductive invariant of startup.
ConfigInv == ConfigTypeOK /\ KnobsInv

-----------------------------------------------------------------------------
\* What the assumption says of the constants.
LEMMA Numbers ==
  /\ WordMax \in Nat /\ VmaReserve \in Nat /\ OpenFloor \in Nat \ {0} /\ OpenCeil \in Nat
  /\ InflightFloor \in Nat /\ InflightCeil \in Nat
  /\ FallbackOpen \in Nat /\ FallbackInflight \in Nat
  /\ WorstCaseSegment \in Nat \ {0} /\ FractionDen \in Nat \ {0} /\ Kib \in Nat
  /\ FractionNum \in Nat
  /\ OpenFloor <= OpenCeil /\ InflightFloor <= InflightCeil
  /\ OpenFlags \subseteq Nat /\ InflightFlags \subseteq Nat
  /\ MapCounts \subseteq 0 .. WordMax /\ MemTotals \subseteq Nat
  BY ConfigAssumption

\* Integer division.
LEMMA DivBound ==
  ASSUME NEW a \in Nat, NEW b \in Nat \ {0}
  PROVE  a \div b \in Nat /\ b * (a \div b) <= a
  OBVIOUS

\* A product of two naturals.
LEMMA Product == ASSUME NEW a \in Nat, NEW b \in Nat PROVE a * b \in Nat
  OBVIOUS

\* Multiplication is monotonic.
LEMMA ProductMonotonic ==
  ASSUME NEW a \in Nat, NEW b \in Nat, NEW c \in Nat, a <= b
  PROVE  c * a <= c * b
  OBVIOUS

\* clamp returns a value between its bounds, the argument if it is there.
LEMMA ClampBound ==
  ASSUME NEW x \in Nat, NEW lo \in Nat, NEW hi \in Nat, lo <= hi
  PROVE  /\ Clamp(x, lo, hi) \in lo .. hi
         /\ Clamp(x, lo, hi) # lo => Clamp(x, lo, hi) <= x
         /\ x >= lo => Clamp(x, lo, hi) <= x
  BY DEF Clamp

\* auto_max_open_archives fits the host, if the floor of the knob does.
LEMMA OpenFits ==
  ASSUME NEW c \in 0 .. WordMax
  PROVE  /\ AutoMaxOpenArchives(c) \in Nat \ {0}
         /\ 2 * OpenFloor + VmaReserve <= c => 2 * AutoMaxOpenArchives(c) + VmaReserve <= c
<1> DEFINE room == IF c < VmaReserve THEN 0 ELSE c - VmaReserve
<1>1. room \in Nat /\ c \in Nat
  BY Numbers
<1>2. room \div 2 \in Nat /\ 2 * (room \div 2) <= room
  BY <1>1, DivBound
<1>3. AutoMaxOpenArchives(c) = Clamp(room \div 2, OpenFloor, OpenCeil)
  BY DEF AutoMaxOpenArchives
<1>4. /\ AutoMaxOpenArchives(c) \in Nat \ {0}
      /\ room \div 2 >= OpenFloor => AutoMaxOpenArchives(c) <= room \div 2
  <2> DEFINE half == room \div 2
  <2> HIDE DEF half
  <2>1. half \in Nat /\ OpenFloor \in Nat \ {0} /\ OpenCeil \in Nat /\ OpenFloor <= OpenCeil
    BY <1>2, Numbers DEF half
  <2>2. /\ Clamp(half, OpenFloor, OpenCeil) \in OpenFloor .. OpenCeil
        /\ half >= OpenFloor => Clamp(half, OpenFloor, OpenCeil) <= half
    BY <2>1, ClampBound
  <2>3. Clamp(half, OpenFloor, OpenCeil) = AutoMaxOpenArchives(c)
    BY <1>3 DEF half
  <2>4. AutoMaxOpenArchives(c) \in Nat \ {0} /\ (half >= OpenFloor => AutoMaxOpenArchives(c) <= half)
    BY <2>1, <2>2, <2>3
  <2> QED
    BY <2>4 DEF half
<1>5. ASSUME 2 * OpenFloor + VmaReserve <= c PROVE room = c - VmaReserve /\ room \div 2 >= OpenFloor
  BY <1>1, <1>5, Numbers
<1> HIDE DEF room
<1> QED
  BY <1>1, <1>2, <1>4, <1>5, Numbers

\* auto_max_inflight takes at most its share of RAM, unless it is at its floor.
LEMMA InflightFits ==
  ASSUME NEW mem \in Nat
  PROVE  /\ AutoMaxInflight(mem) \in Nat
         /\ AutoMaxInflight(mem) # InflightFloor =>
              FractionDen * AutoMaxInflight(mem) * WorstCaseSegment <= FractionNum * mem
<1> DEFINE product == IF mem * FractionNum > WordMax THEN WordMax ELSE mem * FractionNum
           share == product \div FractionDen
           quota == share \div WorstCaseSegment
<1>1. product \in Nat /\ product <= mem * FractionNum /\ mem * FractionNum \in Nat
  BY Numbers, Product
<1> HIDE DEF product
<1>2. share \in Nat /\ FractionDen * share <= product
  BY <1>1, DivBound, Numbers
<1> HIDE DEF share
<1>3. quota \in Nat /\ WorstCaseSegment * quota <= share
  BY <1>2, DivBound, Numbers
<1> HIDE DEF quota
<1>4. AutoMaxInflight(mem) = Clamp(quota, InflightFloor, InflightCeil)
  BY DEF AutoMaxInflight, quota, share, product
<1> DEFINE m == AutoMaxInflight(mem)
<1>5. m \in Nat /\ (m # InflightFloor => m <= quota)
  <2>1. quota \in Nat /\ InflightFloor \in Nat /\ InflightCeil \in Nat /\ InflightFloor <= InflightCeil
    BY <1>3, Numbers
  <2>2. /\ Clamp(quota, InflightFloor, InflightCeil) \in InflightFloor .. InflightCeil
        /\ Clamp(quota, InflightFloor, InflightCeil) # InflightFloor =>
             Clamp(quota, InflightFloor, InflightCeil) <= quota
    BY <2>1, ClampBound
  <2> QED
    BY <1>4, <2>1, <2>2
<1> HIDE DEF m
<1>6. ASSUME m # InflightFloor
      PROVE  FractionDen * m * WorstCaseSegment <= FractionNum * mem
  <2>1. WorstCaseSegment * m <= WorstCaseSegment * quota
    BY <1>3, <1>5, <1>6, ProductMonotonic, Numbers
  <2>2. WorstCaseSegment * m \in Nat /\ WorstCaseSegment * quota \in Nat
    BY <1>3, <1>5, Product, Numbers
  <2>3. WorstCaseSegment * m <= share
    BY <1>2, <1>3, <2>1, <2>2
  <2>4. FractionDen * (WorstCaseSegment * m) <= FractionDen * share
    BY <1>2, <2>2, <2>3, ProductMonotonic, Numbers
  <2>5. FractionDen * (WorstCaseSegment * m) \in Nat /\ FractionDen * share \in Nat
    BY <1>2, <2>2, Product, Numbers
  <2>6. FractionDen * m * WorstCaseSegment = FractionDen * (WorstCaseSegment * m)
    BY <1>5, Numbers
  <2>7. FractionNum * mem = mem * FractionNum
    BY Numbers
  <2> QED
    BY <1>1, <1>2, <2>4, <2>5, <2>6, <2>7
<1> QED
  BY <1>5, <1>6 DEF m

-----------------------------------------------------------------------------
\* Initially.
LEMMA InitConfigInv == ConfigInit => ConfigInv
  BY DEF ConfigInit, ConfigInv, ConfigTypeOK, KnobsInv, Resolved

\* Every step.
LEMMA NextConfigInv == ConfigInv /\ [ConfigNext]_configVars => ConfigInv'
<1> SUFFICES ASSUME ConfigInv, [ConfigNext]_configVars PROVE ConfigInv'
  OBVIOUS
<1> USE DEF ConfigInv
<1>1. CASE GatherHostInputs
  <2>1. memKb * Kib \in Nat
    BY Numbers, Product DEF ConfigTypeOK
  <2>2. ConfigTypeOK'
    BY <1>1, <2>1 DEF GatherHostInputs, ConfigTypeOK, input
  <2>3. KnobsInv'
    BY <1>1 DEF GatherHostInputs, KnobsInv, Resolved
  <2> QED
    BY <2>2, <2>3
<1>2. CASE ResolveKnobs
  <2>1. AutoMaxOpenArchives(mapCount) \in Nat /\ AutoMaxInflight(memTotal) \in Nat
    BY OpenFits, InflightFits, Numbers DEF ConfigTypeOK
  <2>2. maxOpen' \in Nat
    BY <1>2, <2>1, Numbers DEF ResolveKnobs, ConfigTypeOK
  <2>3. maxInflight' \in Nat
    BY <1>2, <2>1, Numbers DEF ResolveKnobs, ConfigTypeOK
  <2>4. UNCHANGED <<open, inflight, host, mapCount, memKb, memTotal, capacity>> /\ stage' = "verify"
    BY <1>2 DEF ResolveKnobs, input
  <2>5. ConfigTypeOK'
    BY <2>2, <2>3, <2>4 DEF ConfigTypeOK
  <2>6. KnobsInv'
    BY <1>2, <2>4 DEF ResolveKnobs, KnobsInv
  <2> QED
    BY <2>5, <2>6
<1>3. CASE VerifyTunable \/ ResolvePermitWaitTimeout \/ BuildState \/ Bind
  <2>1. /\ UNCHANGED <<open, inflight, host, mapCount, memKb, memTotal, maxOpen, maxInflight>>
        /\ \/ /\ stage = "verify"
              /\ stage' = IF host = "linux" /\ ~TunableOK THEN "tooLow" ELSE "timeout"
              /\ capacity' = capacity
           \/ /\ stage \in {"timeout", "build", "bind"}
              /\ stage' \in {"build", "badTimeout", "panic", "bind", "serve", "noSocket"}
              /\ \/ stage' \notin {"bind", "serve"} /\ capacity' \in {capacity, RegistryCapacity(maxOpen)}
                 \/ stage = "build" /\ capacity' = RegistryCapacity(maxOpen)
                 \/ stage = "bind" /\ capacity' = capacity
    BY <1>3 DEF VerifyTunable, ResolvePermitWaitTimeout, BuildState, Bind, input
  <2>2. ConfigTypeOK'
    <3>1. RegistryCapacity(maxOpen) \in Nat
      BY DEF ConfigTypeOK, RegistryCapacity
    <3> QED
      BY <2>1, <3>1 DEF ConfigTypeOK
  <2>3. TunableOK' <=> TunableOK
    BY <2>1 DEF TunableOK
  <2>4. KnobsInv'
    BY <2>1, <2>3 DEF KnobsInv, Resolved
  <2> QED
    BY <2>2, <2>4
<1>4. CASE UNCHANGED configVars
  BY <1>4 DEF configVars, input, ConfigTypeOK, KnobsInv, Resolved, TunableOK
<1> QED
  BY <1>1, <1>2, <1>3, <1>4 DEF ConfigNext

\* The inductive invariant holds in every reachable state.
LEMMA ConfigInvariant == ConfigSpec => []ConfigInv
  BY InitConfigInv, NextConfigInv, PTL DEF ConfigSpec

\* A Linux server that serves has room for two mappings per archive that its registry
\* may hold, but for the one that it holds even with --max-open-archives 0; and
\* auto-sizing is refused only by a host without room for the floor of the knob
\* (auto_max_open_archives, verify_tunable and IndexRegistry::new), for every word size
\* and host.
THEOREM MapBudgetHolds == ConfigSpec => []MapBudget
<1>1. ASSUME ConfigInv PROVE MapBudget
  <2>1. mapCount \in 0 .. WordMax /\ maxOpen \in Nat
    BY <1>1, Numbers DEF ConfigInv, ConfigTypeOK
  <2>2. ASSUME stage = "serve", host = "linux"
        PROVE  2 * capacity + VmaReserve <= mapCount + (IF open = 0 THEN 2 ELSE 0)
    <3>1. 2 * maxOpen + VmaReserve <= mapCount /\ capacity = RegistryCapacity(maxOpen)
      BY <1>1, <2>1, <2>2, Numbers DEF ConfigInv, KnobsInv, TunableOK
    <3>2. maxOpen = 0 => open = 0
      <4>1. open = None => maxOpen \in Nat \ {0}
        BY <1>1, <2>1, <2>2, OpenFits DEF ConfigInv, KnobsInv, Resolved
      <4>2. open # None => maxOpen = open
        BY <1>1, <2>2 DEF ConfigInv, KnobsInv, Resolved
      <4> QED
        BY <4>1, <4>2
    <3>3. CASE maxOpen = 0
      BY <2>1, <3>1, <3>2, <3>3, Numbers DEF RegistryCapacity
    <3>4. CASE maxOpen # 0
      BY <2>1, <3>1, <3>4, Numbers DEF RegistryCapacity
    <3> QED
      BY <3>3, <3>4
  <2>3. ASSUME stage = "tooLow", open = None PROVE mapCount < 2 * OpenFloor + VmaReserve
    <3>1. maxOpen = AutoMaxOpenArchives(mapCount) /\ ~TunableOK
      BY <1>1, <2>3 DEF ConfigInv, KnobsInv, Resolved
    <3>2. 2 * OpenFloor + VmaReserve <= mapCount => 2 * maxOpen + VmaReserve <= mapCount
      BY <2>1, <3>1, OpenFits
    <3>3. 2 * maxOpen + VmaReserve <= mapCount => TunableOK
      BY <2>1, Numbers DEF TunableOK
    <3> QED
      BY <2>1, <3>1, <3>2, <3>3, Numbers
  <2> QED
    BY <2>2, <2>3 DEF MapBudget
<1> QED
  BY <1>1, ConfigInvariant, PTL

\* The auto-sized segment buffers take at most their fraction of RAM, unless the
\* knob is at its floor: saturation and both divisions only round down.
THEOREM RamBudgetHolds == ConfigSpec => []RamBudget
<1>1. ASSUME ConfigInv PROVE RamBudget
  BY <1>1, InflightFits DEF ConfigInv, ConfigTypeOK, KnobsInv, Resolved, RamBudget
<1> QED
  BY <1>1, ConfigInvariant, PTL

=============================================================================
