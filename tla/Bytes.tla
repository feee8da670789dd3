------------------------------- MODULE Bytes --------------------------------
(***************************************************************************)
(* Byte strings, and the boxes in them.                                    *)
(*                                                                         *)
(* A byte string has a length, and values at the offsets where a number or *)
(* a four-character code starts.  All its other bytes are zero.            *)
(***************************************************************************)
EXTENDS Integers, Sequences, TLC

CONSTANT Ascii  \* a code that is read as a number: larger than any file

Empty == [len |-> 0, num |-> <<>>, code |-> <<>>]

Zeros(m) == [Empty EXCEPT !.len = m]
Number(width, v) == [len |-> width, num |-> 0 :> v, code |-> <<>>]
FourCC(c) == [len |-> 4, num |-> <<>>, code |-> 0 :> c]

NumAt(f, o) ==
  IF o \in DOMAIN f.num THEN f.num[o] ELSE IF o \in DOMAIN f.code THEN Ascii ELSE 0

CodeAt(f, o) == IF o \in DOMAIN f.code THEN f.code[o] ELSE "none"

\* g, with every offset o of it at o + d.
Moved(g, d) == [o \in {p + d : p \in DOMAIN g} |-> g[o - d]]

\* a, then b.
Cat(a, b) ==
  [len |-> a.len + b.len,
   num |-> a.num @@ Moved(b.num, a.len),
   code |-> a.code @@ Moved(b.code, a.len)]

Within(g, o, l) == LET D == {p \in DOMAIN g : o <= p /\ p < o + l}
                   IN  Moved([p \in D |-> g[p]], -o)

\* The l bytes from offset o.
Slice(f, o, l) == [len |-> l, num |-> Within(f.num, o, l), code |-> Within(f.code, o, l)]

-----------------------------------------------------------------------------
(***************************************************************************)
(* What ISO/IEC 14496-12 makes of a byte string: the boxes in a range.  It *)
(* is not part of the program; the properties compare the program with it. *)
(***************************************************************************)
HeaderAt(f, o, e) ==
  LET large == NumAt(f, o) = 1
  IN  [type |-> CodeAt(f, o + 4), start |-> o, header |-> IF large THEN 16 ELSE 8,
       size |-> IF large THEN NumAt(f, o + 8)
                ELSE IF NumAt(f, o) = 0 THEN e - o ELSE NumAt(f, o)]

\* The boxes of [s, e) up to the first that does not fit, and whether all do.
Children(f, s, e) ==
  LET from[o \in s .. e] ==
        LET b == HeaderAt(f, o, e)
            rest == from[b.start + b.size]
        IN  IF o = e THEN [boxes |-> <<>>, whole |-> TRUE]
            ELSE IF ~(b.header <= b.size /\ b.size <= e - o) THEN [boxes |-> <<>>, whole |-> FALSE]
            ELSE IF b.type = "uuid" THEN rest
            ELSE [rest EXCEPT !.boxes = <<b>> \o @]
  IN  from[s]

Kids(f, b) == Children(f, b.start + b.header, b.start + b.size)
At(k, t) == {i \in DOMAIN k.boxes : k.boxes[i].type = t}
FirstOf(k, t) == k.boxes[CHOOSE i \in At(k, t) : \A m \in At(k, t) : i <= m]
LastOf(k, t) == k.boxes[CHOOSE i \in At(k, t) : \A m \in At(k, t) : m <= i]

=============================================================================
