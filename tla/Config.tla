------------------------------- MODULE Config -------------------------------
(***************************************************************************)
(* Startup of cmafly-serve: how the two capacity knobs are resolved from   *)
(* the flags and the host (crates/server/src/config.rs) and what main does *)
(* with them (crates/server/src/main.rs).                                  *)
(*                                                                         *)
(* The constants of config.rs are CONSTANTS here, so that the arithmetic   *)
(* of a machine word can be checked on small words.                        *)
(***************************************************************************)
EXTENDS Integers

CONSTANTS
  WordMax,            \* usize::MAX and u64::MAX (a 64-bit host)
  VmaReserve,         \* VMA_RESERVE
  WorstCaseSegment,   \* WORST_CASE_SEGMENT_BYTES
  FractionNum, FractionDen,               \* SEGMENT_RAM_FRACTION_NUM, _DEN
  OpenFloor, OpenCeil,                    \* MAX_OPEN_ARCHIVES_FLOOR, _CEIL
  InflightFloor, InflightCeil,            \* MAX_INFLIGHT_FLOOR, _CEIL
  FallbackOpen, FallbackInflight,         \* FALLBACK_MAX_OPEN_ARCHIVES, _INFLIGHT
  Kib,                \* bytes per kB of /proc/meminfo
  MaxPermits,         \* tokio's Semaphore::MAX_PERMITS
  OpenFlags,          \* values of --max-open-archives given
  InflightFlags,      \* values of --max-inflight-segments given
  MapCounts,          \* values of vm.max_map_count
  MemTotals,          \* values of MemTotal, in kB
  None                \* a flag that is not given

ASSUME ConfigAssumption ==
  /\ {WordMax, VmaReserve, OpenCeil, InflightFloor, InflightCeil,
      FallbackOpen, FallbackInflight, MaxPermits} \subseteq Nat
  /\ {OpenFloor, WorstCaseSegment, FractionDen, Kib} \subseteq Nat \ {0}
  /\ FractionNum \in 0 .. FractionDen
  /\ OpenFloor <= OpenCeil /\ InflightFloor <= InflightCeil
  /\ VmaReserve + 2 * OpenCeil <= WordMax
  /\ UNION {OpenFlags, InflightFlags, MapCounts, MemTotals} \subseteq 0 .. WordMax

VARIABLES
  open, inflight,   \* the flags: a number or None
  timeoutValid,     \* whether --permit-wait-timeout is a duration
  host,             \* "linux", "fallback" (no /proc) or "unreadable"
  mapCount, memKb,  \* what /proc says
  stage,            \* where main is
  memTotal,         \* HostInputs::Linux.mem_total
  maxOpen,          \* Config.max_open_archives
  maxInflight,      \* Config.max_inflight_segments
  capacity          \* entries the cache of the registry may hold; 0 before there is one

input == <<open, inflight, timeoutValid, host, mapCount, memKb>>
configVars == <<input, stage, memTotal, maxOpen, maxInflight, capacity>>

Clamp(x, lo, hi) == IF x < lo THEN lo ELSE IF x > hi THEN hi ELSE x

AutoMaxOpenArchives(n) ==
  LET avail == IF n < VmaReserve THEN 0 ELSE n - VmaReserve
  IN  Clamp(avail \div 2, OpenFloor, OpenCeil)

\* Faulty variant for RamBudget: the quotient is rounded up.
AutoMaxInflightUp(mem) ==
  Clamp(((mem * FractionNum) \div FractionDen) \div WorstCaseSegment + 1,
        InflightFloor, InflightCeil)

\* saturating_mul, then the share of RAM in worst-case segments.
AutoMaxInflight(mem) ==
  LET product == IF mem * FractionNum > WordMax THEN WordMax ELSE mem * FractionNum
  IN  Clamp((product \div FractionDen) \div WorstCaseSegment, InflightFloor, InflightCeil)

-----------------------------------------------------------------------------
ConfigInit ==
  /\ open \in OpenFlags \cup {None}
  /\ inflight \in InflightFlags \cup {None}
  /\ timeoutValid \in BOOLEAN
  /\ host \in {"linux", "fallback", "unreadable"}
  /\ mapCount \in MapCounts
  /\ memKb \in MemTotals
  /\ stage = "gather"
  /\ memTotal = 0 /\ maxOpen = 0 /\ maxInflight = 0 /\ capacity = 0

\* gather_host_inputs: read and parse /proc; kB to bytes with overflow check.
GatherHostInputs ==
  /\ stage = "gather"
  /\ \/ /\ host = "unreadable" \/ (host = "linux" /\ memKb * Kib > WordMax)
        /\ stage' = "noHost"
        /\ UNCHANGED memTotal
     \/ /\ host = "linux"
        /\ memKb * Kib <= WordMax
        /\ memTotal' = memKb * Kib
        /\ stage' = "resolve"
     \/ /\ host = "fallback"
        /\ stage' = "resolve"
        /\ UNCHANGED memTotal
  /\ UNCHANGED <<input, maxOpen, maxInflight, capacity>>

\* resolve_with_host: a flag wins over what the host suggests.
ResolveKnobs ==
  /\ stage = "resolve"
  /\ maxOpen' = IF open # None THEN open
                ELSE IF host = "linux" THEN AutoMaxOpenArchives(mapCount)
                ELSE FallbackOpen
  /\ maxInflight' = IF inflight # None THEN inflight
                    ELSE IF host = "linux" THEN AutoMaxInflight(memTotal)
                    ELSE FallbackInflight
  /\ stage' = "verify"
  /\ UNCHANGED <<input, memTotal, capacity>>

\* Faulty variant for MapBudget: the sum wraps around.
TunableOKWraps ==
  mapCount >= (maxOpen * 2 + VmaReserve) % (WordMax + 1)

\* verify_tunable, with checked arithmetic.
TunableOK ==
  /\ maxOpen * 2 <= WordMax
  /\ maxOpen * 2 + VmaReserve <= WordMax
  /\ mapCount >= maxOpen * 2 + VmaReserve

VerifyTunable ==
  /\ stage = "verify"
  /\ stage' = IF host = "linux" /\ ~TunableOK THEN "tooLow" ELSE "timeout"
  /\ UNCHANGED <<input, memTotal, maxOpen, maxInflight, capacity>>

\* resolve_permit_wait_timeout.
ResolvePermitWaitTimeout ==
  /\ stage = "timeout"
  /\ stage' = IF timeoutValid THEN "build" ELSE "badTimeout"
  /\ UNCHANGED <<input, memTotal, maxOpen, maxInflight, capacity>>

\* IndexRegistry::new: the cache holds at least one archive.
RegistryCapacity(n) == IF n = 0 THEN 1 ELSE n

\* main builds the registry and the semaphore; Semaphore::new panics above its
\* maximum.
BuildState ==
  /\ stage = "build"
  /\ capacity' = RegistryCapacity(maxOpen)
  /\ stage' = IF maxInflight > MaxPermits THEN "panic" ELSE "bind"
  /\ UNCHANGED <<input, memTotal, maxOpen, maxInflight>>

\* Binding the socket succeeds or ends main.
Bind ==
  /\ stage = "bind"
  /\ stage' \in {"serve", "noSocket"}
  /\ UNCHANGED <<input, memTotal, maxOpen, maxInflight, capacity>>

ConfigNext ==
  \/ GatherHostInputs \/ ResolveKnobs \/ VerifyTunable
  \/ ResolvePermitWaitTimeout \/ BuildState \/ Bind

ConfigSpec == ConfigInit /\ [][ConfigNext]_configVars

-----------------------------------------------------------------------------
\* A Linux server that serves has room for two mappings per archive that its registry
\* may hold beside its reserve, also if a flag set max_open_archives and at the word's
\* limit.  Only with --max-open-archives 0 it may lack the two mappings of the one archive
\* that the registry holds all the same.  And auto-sizing never asks for more than the
\* host has: without a flag, only a host without room for the knob's floor is refused.
MapBudget ==
  /\ stage = "serve" /\ host = "linux" =>
       2 * capacity + VmaReserve <= mapCount + (IF open = 0 THEN 2 ELSE 0)
  /\ stage = "tooLow" /\ open = None => mapCount < 2 * OpenFloor + VmaReserve

\* The auto-sized segment buffers take at most their fraction of RAM, unless
\* the knob is at its floor.
RamBudget ==
  stage = "verify" /\ host = "linux" /\ inflight = None /\ maxInflight # InflightFloor =>
    FractionDen * maxInflight * WorstCaseSegment <= FractionNum * memTotal

=============================================================================
