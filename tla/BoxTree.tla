------------------------------ MODULE BoxTree -------------------------------
(***************************************************************************)
(* Writing boxes (crates/packager/src/fmp4/boxes.rs): what BoxWriter makes *)
(* of boxes that are opened and finished inside each other.                *)
(***************************************************************************)
EXTENDS Bytes, SequencesExt

\* The byte strings of parts, one after the other.
Flatten(parts) == FoldLeft(Cat, Empty, parts)

\* BoxWriter::open ... finish: a box starts with its size, which finish patches to the
\* bytes written since open, and its type; then comes what is written in between.
BoxWriter(fourcc, parts) ==
  LET body == Flatten(parts)
  IN  Cat([len |-> 8, num |-> 0 :> 8 + body.len, code |-> 4 :> fourcc], body)

\* write_full_box_header: one byte of version, three of flags.
FullBoxHeader(version, flags) ==
  [len |-> 4, num |-> (0 :> version) @@ (1 :> flags), code |-> <<>>]

=============================================================================
