------------------------------- MODULE Buffer -------------------------------
(***************************************************************************)
(* Buffer of src/buffer.cc as the server uses it: a sequence of bytes and  *)
(* a capacity. Every buffer of the server has one owner, so that Clone     *)
(* returns at once, and realloc does not fail (both callers that look at   *)
(* the result free the client). The byte after the last is the terminator, *)
(* for which every allocation has one byte more than the capacity.         *)
(***************************************************************************)
EXTENDS Integers, Sequences

(* Buffer(0) and clear. *)
EmptyBuffer == [data |-> <<>>, cap |-> 0]

(* resize: the allocation is cut or extended to n bytes. *)
resize(b, n) ==
  [data |-> SubSeq(b.data, 1, IF Len(b.data) < n THEN Len(b.data) ELSE n), cap |-> n]

(* reserve: at least doubled whenever n bytes do not fit below the end. *)
reserve(b, n) ==
  IF n < b.cap THEN b ELSE resize(b, IF 2 * b.cap > n THEN 2 * b.cap ELSE n)

append(b, bytes) ==
  IF bytes = <<>> THEN b
  ELSE [reserve(b, Len(b.data) + Len(bytes)) EXCEPT !.data = @ \o bytes]

(* Mutant: the allocation is never given back. *)
remove_frontNoShrink(b, n) == [b EXCEPT !.data = SubSeq(@, n + 1, Len(@))]

(* remove_front: shrinks to the size when more than half is unused. *)
remove_front(b, n) ==
  IF n = 0 THEN b
  ELSE LET size == Len(b.data) - n
           moved == [b EXCEPT !.data = SubSeq(@, n + 1, Len(@))]
       IN  IF 2 * size < b.cap THEN resize(moved, size) ELSE moved
============================================================================
