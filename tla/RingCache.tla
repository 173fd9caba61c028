------------------------------- MODULE RingCache -------------------------------
(***************************************************************************)
(* RingKVCache and the attention over it (modules/transformer.py): what a  *)
(* query sees, row by row of the batch.  A cache is a record: the slots of *)
(* each row, and end_offset, how many steps the row was given.  A row that *)
(* the exec mask leaves out still writes its keys, and so does not advance.*)
(*                                                                         *)
(* An entry is a key and its value together: the position rope rotated the *)
(* key to, and the input it was projected from.                            *)
(***************************************************************************)
EXTENDS Integers

CONSTANTS
  Rows,         \* the rows of the batch
  Capacity,     \* RingKVCache.capacity, which is the attention's context
  RespectMask   \* respect_exec_mask: FALSE with weights_per_step

Places == 0 .. Capacity - 1

Unwritten == [pos |-> -1, of |-> <<>>]

NewRing == [slots |-> [r \in Rows |-> [i \in Places |-> Unwritten]],
            end   |-> [r \in Rows |-> 0]]

\* The keys stay where they are: only their number is forgotten.
ResetEnd(ring, fresh) ==
  [slots |-> ring.slots, end |-> [r \in Rows |-> IF r \in fresh THEN 0 ELSE ring.end[r]]]

\* complete: the entries of a chunk of T steps, ks[r] a sequence, go to the
\* places after end_offset.  T is at most the capacity: with more, scatter_
\* would write a place twice.
AdvanceAll(ring, mask, T) == [r \in Rows |-> ring.end[r] + T]

Advance(ring, mask, T) ==
  [r \in Rows |-> IF RespectMask /\ r \notin mask THEN ring.end[r] ELSE ring.end[r] + T]

Complete(ring, ks, mask, T) ==
  LET Written(r, i) == {t \in 1 .. T : (ring.end[r] + t - 1) % Capacity = i}
  IN [slots |-> [r \in Rows |-> [i \in Places |->
                   IF Written(r, i) = {} THEN ring.slots[r][i]
                   ELSE ks[r][CHOOSE t \in Written(r, i) : TRUE]]],
      end   |-> Advance(ring, mask, T)]

\* The positions complete returns, for the ring it was given: that of the last
\* key written, and one less for each place before it, round the ring.
Position(ring, mask, T, r, i) ==
  LET last  == ring.end[r] + T - 1
      delta == i - (last % Capacity)
  IN CASE i >= Advance(ring, mask, T)[r] -> -1
       [] i < Advance(ring, mask, T)[r] /\ delta <= 0 -> last + delta
       [] OTHER -> last + delta - Capacity

\* attn_bias of the causal attention with a context: the places a query at
\* position q looks at.
Attended(ring, mask, T, r, q) ==
  {i \in Places : LET p == Position(ring, mask, T, r, i)
                  IN p >= 0 /\ q - p >= 0 /\ q - p < Capacity}

\* What the query takes from there: the distance rope gives the key, and the
\* value.
Seen(ring, after, mask, T, r, q) ==
  {<<q - after.slots[r][i].pos, after.slots[r][i].of>> : i \in Attended(ring, mask, T, r, q)}

-------------------------------------------------------------------------------
(* StreamingTransformer: a ring, the offset of the queries (_MHAState), and  *)
(* that of the layers' positions (_TransformerState)                         *)

NewTransformer ==
  [ring |-> NewRing, offset |-> [r \in Rows |-> 0], offsets |-> [r \in Rows |-> 0]]

ResetOffset(offset, fresh) == [r \in Rows |-> IF r \in fresh THEN 0 ELSE offset[r]]

ResetTransformer(tr, fresh) ==
  [ring    |-> ResetEnd(tr.ring, fresh),
   offset  |-> ResetOffset(tr.offset, fresh),
   offsets |-> ResetOffset(tr.offsets, fresh)]

\* A chunk of T inputs x[r][1 .. T] of each row, as rope rotates their keys.
Entries(tr, x, T) ==
  [r \in Rows |-> [t \in 1 .. T |-> [pos |-> tr.offset[r] + t - 1, of |-> x[r][t]]]]

OffsetStep(offset, mask, T) ==
  [r \in Rows |-> IF r \in mask THEN offset[r] + T ELSE offset[r]]

TransformerStep(tr, x, mask, T) ==
  [ring    |-> Complete(tr.ring, Entries(tr, x, T), mask, T),
   offset  |-> OffsetStep(tr.offset, mask, T),
   offsets |-> OffsetStep(tr.offsets, mask, T)]

Attention(x, seen) == <<"attention", x, seen>>

\* The output of a layer: its input, and what the attention adds to it.
TransformerOutput(tr, x, mask, T) ==
  LET after == Complete(tr.ring, Entries(tr, x, T), mask, T)
  IN [r \in Rows |-> [t \in 1 .. T |->
        Attention(x[r][t], Seen(tr.ring, after, mask, T, r, tr.offset[r] + t - 1))]]
===============================================================================
