----------------------------- MODULE Admission ------------------------------
(***************************************************************************)
(* Admission control of segment requests in cmafly-serve                   *)
(* (crates/server/src/handlers.rs: handle_segment from its permit wait on, *)
(* acquire_permit, PermitBody).                                            *)
(*                                                                         *)
(* The tokio semaphore is modelled from how acquire_permit uses it: one    *)
(* permit per request, waiters served first in first out, a released       *)
(* permit assigned to the first waiter before that waiter runs again, and  *)
(* a waiter that is dropped giving back what it was assigned.  So is the   *)
(* timeout: one poll looks at the acquire, then at the timer, and drops    *)
(* the acquire afterwards; another thread may release a permit in between. *)
(***************************************************************************)
EXTENDS Integers, Sequences, FiniteSets, Functions

CONSTANTS Requests,        \* segment requests
          Permits,         \* max_inflight_segments
          MaxSegmentSize,  \* largest max_segment_size of any archive
          MaxChunks        \* bound on the 64 KiB chunks of a segment

ASSUME AdmissionAssumption ==
  /\ IsFiniteSet(Requests)
  /\ Permits \in Nat
  /\ MaxSegmentSize \in Nat \ {0}
  /\ MaxChunks \in Nat \ {0}

VARIABLES
  avail,    \* free permits of the semaphore
  queue,    \* waiting requests, first come first
  pc,       \* where each request is in handle_segment
  late,     \* late[r]: the permit_wait_timeout timer of r has fired
  size,     \* size[r]: max_segment_size of the archive r asks for
  buf,      \* buf[r]: bytes of r's assembly buffer
  left,     \* left[r]: chunks PermitBody has not handed to hyper yet
  outcome   \* how the last request of each task was answered

vars == <<avail, queue, pc, late, size, buf, left, outcome>>

\* Requests that own a permit: assigned to an acquire future that waits or that
\* timeout has given up, returned by acquire_permit, or moved into the response body.
Holders == {r \in Requests :
              pc[r] \in {"granted", "elapsedGranted", "permit", "assemble", "stream"}}

\* Requests whose acquire future stands in the semaphore's queue.
Waiting == {r \in Requests : pc[r] \in {"wait", "elapsed"}}

\* Requests whose timeout has elapsed, and whose acquire future is not dropped yet.
Elapsed == {r \in Requests : pc[r] \in {"elapsed", "elapsedGranted"}}

\* The list s without its k-th element.
Without(s, k) == [j \in 1 .. Len(s) - 1 |-> IF j < k THEN s[j] ELSE s[j + 1]]

-----------------------------------------------------------------------------
Init ==
  /\ avail = Permits
  /\ queue = <<>>
  /\ pc = [r \in Requests |-> "idle"]
  /\ late = [r \in Requests |-> FALSE]
  /\ size = [r \in Requests |-> 0]
  /\ buf = [r \in Requests |-> 0]
  /\ left = [r \in Requests |-> 0]
  /\ outcome = [r \in Requests |-> "none"]

\* Faulty variant for RamBound: the buffer is allocated before the permit.
ArriveAllocates(r, n) ==
  /\ pc[r] = "idle"
  /\ pc' = [pc EXCEPT ![r] = "start"]
  /\ size' = [size EXCEPT ![r] = n]
  /\ buf' = [buf EXCEPT ![r] = n]
  /\ late' = [late EXCEPT ![r] = FALSE]
  /\ outcome' = [outcome EXCEPT ![r] = "none"]
  /\ UNCHANGED <<avail, queue, left>>

\* handle_segment passed the registry and the segment_count check and read
\* max_segment_size; it calls acquire_permit.
Arrive(r, n) ==
  /\ pc[r] = "idle"
  /\ pc' = [pc EXCEPT ![r] = "start"]
  /\ size' = [size EXCEPT ![r] = n]
  /\ late' = [late EXCEPT ![r] = FALSE]
  /\ outcome' = [outcome EXCEPT ![r] = "none"]
  /\ UNCHANGED <<avail, queue, buf, left>>

\* Faulty variant for KeepsGate: the timer is looked at first, and a
\* timeout of zero refuses without trying.
FirstPollTimerFirst(r) ==
  /\ pc[r] = "start"
  /\ pc' = [pc EXCEPT ![r] = "idle"]
  /\ outcome' = [outcome EXCEPT ![r] = "ServiceUnavailable"]
  /\ UNCHANGED <<avail, queue, late, size, buf, left>>

\* First poll of timeout(acquire_owned()): take a free permit or queue up.
FirstPoll(r) ==
  /\ pc[r] = "start"
  /\ \/ /\ avail > 0
        /\ avail' = avail - 1
        /\ pc' = [pc EXCEPT ![r] = "permit"]
        /\ UNCHANGED queue
     \/ /\ avail = 0
        /\ queue' = Append(queue, r)
        /\ pc' = [pc EXCEPT ![r] = "wait"]
        /\ UNCHANGED avail
  /\ UNCHANGED <<late, size, buf, left, outcome>>

\* The timer fires, whatever became of the acquire meanwhile.
Deadline(r) ==
  /\ pc[r] \in {"wait", "granted"}
  /\ ~late[r]
  /\ late' = [late EXCEPT ![r] = TRUE]
  /\ UNCHANGED <<avail, queue, pc, size, buf, left, outcome>>

\* A later poll.  timeout polls the acquire first, so a permit assigned before
\* the poll wins over the timer.
PollGranted(r) ==
  /\ pc[r] = "granted"
  /\ pc' = [pc EXCEPT ![r] = "permit"]
  /\ UNCHANGED <<avail, queue, late, size, buf, left, outcome>>

\* Faulty variant for WaitersAnswered: the acquire is polled, the timer is not.
PollElapsedNever(r) == FALSE /\ UNCHANGED vars

\* A later poll finds no permit and then the timer elapsed.  A timer that fires between
\* the two looks is as good as one that fired before the poll: Deadline changes late only.
PollElapsed(r) ==
  /\ pc[r] = "wait"
  /\ late[r]
  /\ pc' = [pc EXCEPT ![r] = "elapsed"]
  /\ UNCHANGED <<avail, queue, late, size, buf, left, outcome>>

\* The waiter leaves the queue, wherever in it it stands.
LeaveQueue(r) ==
  /\ \E k \in DOMAIN queue : queue[k] = r /\ queue' = Without(queue, k)
  /\ pc' = [pc EXCEPT ![r] = "idle"]
  /\ UNCHANGED avail

\* Where a queued request is once a permit is assigned to its acquire future.
Assigned(r) == IF pc[r] = "elapsed" THEN "elapsedGranted" ELSE "granted"

\* r ends and its permit is dropped: it goes to the first of the queue, even if
\* that one's timeout has elapsed, or back to the semaphore if nobody queues.
ReleasePermit(r) ==
  \/ /\ queue = <<>>
     /\ avail' = avail + 1
     /\ pc' = [pc EXCEPT ![r] = "idle"]
     /\ UNCHANGED queue
  \/ /\ queue # <<>>
     /\ pc' = [pc EXCEPT ![r] = "idle", ![Head(queue)] = Assigned(Head(queue))]
     /\ queue' = Without(queue, 1)
     /\ UNCHANGED avail

\* Faulty variant for QueueIsWaiting: the refused waiter stays queued.
DropAcquireStays(r) ==
  /\ \/ /\ pc[r] = "elapsed"
        /\ pc' = [pc EXCEPT ![r] = "idle"]
        /\ UNCHANGED <<avail, queue>>
     \/ pc[r] = "elapsedGranted" /\ ReleasePermit(r)
  /\ outcome' = [outcome EXCEPT ![r] = "ServiceUnavailable"]
  /\ UNCHANGED <<late, size, buf, left>>

\* Faulty variant for PermitsConserved: the permit that came too late is lost.
DropAcquireLosesPermit(r) ==
  /\ \/ pc[r] = "elapsed" /\ LeaveQueue(r)
     \/ /\ pc[r] = "elapsedGranted"
        /\ pc' = [pc EXCEPT ![r] = "idle"]
        /\ UNCHANGED <<avail, queue>>
  /\ outcome' = [outcome EXCEPT ![r] = "ServiceUnavailable"]
  /\ UNCHANGED <<late, size, buf, left>>

\* The poll that found the timer elapsed ends: the acquire future is dropped, and gives
\* back the permit it was assigned since that look; acquire_permit answers 503.
DropAcquire(r) ==
  /\ \/ pc[r] = "elapsed" /\ LeaveQueue(r)
     \/ pc[r] = "elapsedGranted" /\ ReleasePermit(r)
  /\ outcome' = [outcome EXCEPT ![r] = "ServiceUnavailable"]
  /\ UNCHANGED <<late, size, buf, left>>

\* Vec::with_capacity(max_segment_size), after the permit.
AllocBuffer(r) ==
  /\ pc[r] = "permit"
  /\ buf' = [buf EXCEPT ![r] = size[r]]
  /\ pc' = [pc EXCEPT ![r] = "assemble"]
  /\ UNCHANGED <<avail, queue, late, size, left, outcome>>

\* write_media_segment succeeded: the buffer and the permit move into a
\* PermitBody of n chunks, and the handler returns 200.
AssembleOk(r, n) ==
  /\ pc[r] = "assemble"
  /\ left' = [left EXCEPT ![r] = n]
  /\ pc' = [pc EXCEPT ![r] = "stream"]
  /\ outcome' = [outcome EXCEPT ![r] = "Ok"]
  /\ UNCHANGED <<avail, queue, late, size, buf>>

\* write_media_segment failed: buffer and permit are dropped with the handler.
AssembleErr(r) ==
  /\ pc[r] = "assemble"
  /\ ReleasePermit(r)
  /\ buf' = [buf EXCEPT ![r] = 0]
  /\ outcome' = [outcome EXCEPT ![r] = "Internal"]
  /\ UNCHANGED <<late, size, left>>

\* poll_frame copies the next chunk out of the buffer.
PollFrame(r) ==
  /\ pc[r] = "stream"
  /\ left[r] > 0
  /\ left' = [left EXCEPT ![r] = left[r] - 1]
  /\ UNCHANGED <<avail, queue, pc, late, size, buf, outcome>>

\* Faulty variant for EveryRequestEnds: is_end_stream is off by one.
EndStreamOffByOne(r) ==
  /\ pc[r] = "stream"
  /\ left[r] < 0
  /\ ReleasePermit(r)
  /\ buf' = [buf EXCEPT ![r] = 0]
  /\ UNCHANGED <<late, size, left, outcome>>

\* is_end_stream: hyper drops the body, and with it buffer and permit.
EndStream(r) ==
  /\ pc[r] = "stream"
  /\ left[r] = 0
  /\ ReleasePermit(r)
  /\ buf' = [buf EXCEPT ![r] = 0]
  /\ UNCHANGED <<late, size, left, outcome>>

\* The client goes away while the handler awaits its permit: the acquire
\* future is dropped, and gives back a permit it was already assigned.  Not during
\* a poll: a request whose timeout was seen to elapse is answered first.
DisconnectWaiting(r) ==
  /\ \/ pc[r] = "wait" /\ LeaveQueue(r)
     \/ pc[r] = "granted" /\ ReleasePermit(r)
  /\ outcome' = [outcome EXCEPT ![r] = "gone"]
  /\ UNCHANGED <<late, size, buf, left>>

\* The client goes away while the body streams: the body is dropped.
DisconnectStreaming(r) ==
  /\ pc[r] = "stream"
  /\ ReleasePermit(r)
  /\ buf' = [buf EXCEPT ![r] = 0]
  /\ left' = [left EXCEPT ![r] = 0]
  /\ outcome' = [outcome EXCEPT ![r] = "gone"]
  /\ UNCHANGED <<late, size>>

\* What the server does by itself once a request is there.
ServerStep(r) ==
  \/ FirstPoll(r)
  \/ Deadline(r)
  \/ PollGranted(r)
  \/ PollElapsed(r)
  \/ DropAcquire(r)
  \/ AllocBuffer(r)
  \/ \E n \in 1 .. MaxChunks : AssembleOk(r, n)
  \/ AssembleErr(r)
  \/ EndStream(r)

Next ==
  \E r \in Requests :
    \/ \E n \in 1 .. MaxSegmentSize : Arrive(r, n)
    \/ ServerStep(r)
    \/ PollFrame(r)
    \/ DisconnectWaiting(r)
    \/ DisconnectStreaming(r)

Spec == Init /\ [][Next]_vars

(***************************************************************************)
(* The runtime polls what is ready and fires timers.  Nothing is assumed   *)
(* of the clients: a client may stop reading for ever without going away.  *)
(***************************************************************************)
FairSpec == Spec /\ \A r \in Requests : WF_vars(ServerStep(r))

\* Every client keeps reading what it is sent, or goes away.
ClientsRead == \A r \in Requests : WF_vars(PollFrame(r))

-----------------------------------------------------------------------------
\* Every variable has its type.
TypeOK ==
  /\ avail \in Nat
  /\ queue \in Seq(Requests)
  /\ pc \in [Requests -> {"idle", "start", "wait", "granted", "elapsed",
                          "elapsedGranted", "permit", "assemble", "stream"}]
  /\ late \in [Requests -> BOOLEAN]
  /\ size \in [Requests -> 0 .. MaxSegmentSize]
  /\ buf \in [Requests -> 0 .. MaxSegmentSize]
  /\ left \in [Requests -> 0 .. MaxChunks]
  /\ outcome \in [Requests -> {"none", "Ok", "ServiceUnavailable", "Internal", "gone"}]

\* No permit is lost or made up on any path: completion, assembly error, or a
\* timeout or a disconnect that races the assignment of a permit.
PermitsConserved == avail + Cardinality(Holders) = Permits

\* A permit never lies free while a request waits: a waiter is not forgotten
\* when the permit it waits for comes back.
NoIdlePermit == avail > 0 => Waiting = {}

\* The queue holds each waiting request once, and nothing else: a request that
\* was answered 503 or went away cannot be assigned a permit later.
QueueIsWaiting ==
  /\ \A i, j \in DOMAIN queue : queue[i] = queue[j] => i = j
  /\ {queue[i] : i \in DOMAIN queue} = Waiting

\* The assembly buffers of all requests stay within
\* max_inflight_segments x max_segment_size, however slow the clients are.
RamBound == FoldFunction(+, 0, buf) <= Permits * MaxSegmentSize

\* Requests that were answered 503.
Refused == {r \in Requests : outcome[r] = "ServiceUnavailable"}

TheGate == INSTANCE Gate WITH Clients <- Requests, Places <- Permits, inside <- Holders,
                              line <- queue, expired <- Elapsed, refused <- Refused

\* Semaphore, timers, assembly and streaming together implement the gate: whoever holds a
\* permit is in the room, from the assignment until the body is dropped.  No permit lies
\* free beside a waiting request, nobody is overtaken, and 503 is answered only to a
\* request that still waited, with every permit taken, when its poll saw the timer elapse.
\* It may have been assigned a permit since; then the next in the queue gets that permit.
KeepsGate == TheGate!GateSpec

\* Every request that waits for a permit gets to use one, is answered 503, or goes away,
\* even if every client that holds a permit stops reading for ever.
WaitersAnswered == \A r \in Requests : r \in Waiting ~> pc[r] \in {"permit", "idle"}

\* If the clients keep reading, every request ends and its permit comes back.
EveryRequestEnds ==
  ClientsRead => \A r \in Requests : pc[r] # "idle" ~> pc[r] = "idle"

=============================================================================
