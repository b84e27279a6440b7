------------------------------- MODULE Structs -------------------------------
(* How the compiler lays out a struct that is not packed, field after field *)
(* as <<alignment, size>>; fields of one type are one run.                  *)
EXTENDS Integers, Sequences, SequencesExt

Fields(bytes, count) == << bytes, bytes * count >>

Padded(offset, alignment) == ((offset + alignment - 1) \div alignment) * alignment

OffsetAfter(fields) == FoldLeft(LAMBDA o, f : Padded(o, f[1]) + f[2], 0, fields)
=============================================================================
