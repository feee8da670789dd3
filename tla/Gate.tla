-------------------------------- MODULE Gate --------------------------------
(***************************************************************************)
(* What segment admission promises, without semaphores, timers, buffers or *)
(* streams: a room with Places places and a line in front of it.           *)
(*                                                                         *)
(* Nobody stands in line while there is a place, nobody overtakes the      *)
(* line, who leaves the room is replaced by the first in line, and only    *)
(* somebody whose time was up while it stood before a full room is         *)
(* refused.  It may be let in before it hears so; it does not stay.        *)
(***************************************************************************)
EXTENDS Integers, Sequences, FiniteSets

CONSTANTS Clients, Places

VARIABLES
  inside,   \* who has a place
  line,     \* who waits for one, first come first
  expired,  \* whose time was up in line, and who has not heard so yet
  refused   \* whose last visit ended with a refusal

gateVars == <<inside, line, expired, refused>>

Full == Cardinality(inside) = Places

InLine(c) == \E k \in DOMAIN line : line[k] = c

\* The list s without its k-th element.
Minus(s, k) == [j \in 1 .. Len(s) - 1 |-> IF j < k THEN s[j] ELSE s[j + 1]]

GateInit == inside = {} /\ line = <<>> /\ expired = {} /\ refused = {}

\* A new visit; nothing is known of it yet.
Come(c) ==
  /\ c \notin inside /\ ~InLine(c)
  /\ refused' = refused \ {c}
  /\ UNCHANGED <<inside, line, expired>>

Enter(c) ==
  /\ c \notin inside /\ c \notin refused
  /\ line = <<>> /\ Cardinality(inside) < Places
  /\ inside' = inside \cup {c}
  /\ UNCHANGED <<line, expired, refused>>

LineUp(c) ==
  /\ c \notin inside /\ ~InLine(c) /\ c \notin refused
  /\ Full
  /\ line' = Append(line, c)
  /\ UNCHANGED <<inside, expired, refused>>

\* The place goes to the first in line.
GiveBack(c) ==
  /\ c \in inside
  /\ \/ /\ line = <<>>
        /\ inside' = inside \ {c}
        /\ UNCHANGED line
     \/ /\ line # <<>>
        /\ inside' = (inside \ {c}) \cup {line[1]}
        /\ line' = Minus(line, 1)

StepOut(c) ==
  /\ \E k \in DOMAIN line : line[k] = c /\ line' = Minus(line, k)
  /\ UNCHANGED inside

Leave(c) ==
  /\ c \notin expired
  /\ GiveBack(c)
  /\ UNCHANGED <<expired, refused>>

\* Out of the line without an answer.
GiveUp(c) ==
  /\ c \notin expired
  /\ StepOut(c)
  /\ UNCHANGED <<expired, refused>>

\* c's time is up, in line before a full room.
Expire(c) ==
  /\ Full /\ InLine(c) /\ c \notin expired
  /\ expired' = expired \cup {c}
  /\ UNCHANGED <<inside, line, refused>>

\* c hears so: it leaves the line, or the place it was given since.
Refuse(c) ==
  /\ c \in expired
  /\ StepOut(c) \/ GiveBack(c)
  /\ expired' = expired \ {c}
  /\ refused' = refused \cup {c}

GateNext ==
  \E c \in Clients :
    \/ Come(c) \/ Enter(c) \/ LineUp(c) \/ Leave(c)
    \/ GiveUp(c) \/ Expire(c) \/ Refuse(c)

GateSpec == GateInit /\ [][GateNext]_gateVars
=============================================================================
