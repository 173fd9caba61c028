------------------------------ MODULE ArcEncoder ------------------------------
(***************************************************************************)
(* The ARC encoder (conditioners/arc_encoder.py), by what each vector it   *)
(* returns is pooled from.  Several texts go through it in one sequence,   *)
(* told apart by their lengths; the last layer replaces the tokens of a    *)
(* text by fewer vectors.                                                  *)
(*                                                                         *)
(* A hidden state is the set of the places of the input it stands for.     *)
(* What a vector makes of the rest of its own text, through attention, is  *)
(* left out: attention is block diagonal, one block for each text.         *)
(***************************************************************************)
EXTENDS Integers, Sequences, SequencesExt

Abs(n) == IF n < 0 THEN -n ELSE n

Sum(s) == FoldLeft(LAMBDA a, b : a + b, 0, s)

\* x in so many pieces, the first ones the longer by one.
Even(x, pieces) ==
  [i \in 1 .. pieces |-> (x \div pieces) + (IF i <= x % pieces THEN 1 ELSE 0)]

\* Mutant: the pieces have the length asked, and what is left is dropped.
SplitInFull(x, n) == IF n > 0 THEN Even(x, n) ELSE [i \in 1 .. x \div (-n) |-> -n]

\* split_integer: x in n pieces, or in as few as can be of at most -n.
SplitInteger(x, n) ==
  IF n > 0 THEN Even(x, n) ELSE Even(x, (x + (-n) - 1) \div (-n))

\* PoolingModule.forward, of a text of so many tokens.
PoolSizes(size, rate) ==
  CASE rate = -1              -> [i \in 1 .. size |-> 1]  \* no pooling
    [] rate = 0               -> <<size>>
    [] rate > 0 /\ size < rate -> [i \in 1 .. size |-> 1]
    [] rate < -1 /\ size < Abs(rate) -> <<size>>
    [] OTHER                  -> SplitInteger(size, rate)

\* torch.block_diag: the pools follow one another over the sequence.
Pooled(h, sizes) ==
  [j \in DOMAIN sizes |->
     LET before == Sum(SubSeq(sizes, 1, j - 1))
     IN UNION {h[i] : i \in before + 1 .. before + sizes[j]}]

\* forward_embedder: the vectors, and how many of them each text has.
Embedder(tokens, seqlens, rate) ==
  LET pools == [t \in DOMAIN seqlens |-> PoolSizes(seqlens[t], rate)]
  IN [vectors |-> Pooled([i \in DOMAIN tokens |-> {tokens[i]}], FlattenSeq(pools)),
      seqlens |-> [t \in DOMAIN seqlens |-> Len(pools[t])]]
===============================================================================
