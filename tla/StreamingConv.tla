----------------------------- MODULE StreamingConv -----------------------------
(***************************************************************************)
(* The causal convolutions of modules/conv.py: what each output is         *)
(* computed from.  In streaming mode a convolution keeps the end of its    *)
(* input, a transposed one the end of its output; a row that the exec mask *)
(* leaves out keeps what it had.                                           *)
(*                                                                         *)
(* A value is a tuple that says what made it, and of what.  An output of a *)
(* convolution is the window of inputs under the kernel.  One of a         *)
(* transposed convolution is the set of its terms, an input and the tap of *)
(* the kernel, and how often the bias is in it.                            *)
(***************************************************************************)
EXTENDS Integers, Sequences, FiniteSets

CONSTANT Rows

Zero == <<"zero">>
Window(inputs) == <<"conv", inputs>>
Sum(terms, bias) == <<"convtr", terms, bias>>

Repeat(x, n) == [i \in 1 .. n |-> x]

LastOf(s, n) == SubSeq(s, Len(s) - n + 1, Len(s))

-------------------------------------------------------------------------------
(* StreamingConv1d, with effective kernel K and stride S: it keeps K - S inputs *)

\* Out of streaming mode a call makes itself such a state, and drops it.
NewConv(K, S) == [previous |-> [r \in Rows |-> Repeat(Zero, K - S)],
                  first    |-> [r \in Rows |-> TRUE]]

ResetConv(conv, fresh, K, S) ==
  [previous |-> [r \in Rows |-> IF r \in fresh THEN Repeat(Zero, K - S) ELSE conv.previous[r]],
   first    |-> [r \in Rows |-> conv.first[r] \/ r \in fresh]]

\* pad_mode = "replicate": a row that starts repeats its first input.
Padding(conv, x, mask, K, S, replicate) ==
  [r \in Rows |-> IF replicate /\ conv.first[r] /\ r \in mask
                  THEN Repeat(x[r][1], K - S) ELSE conv.previous[r]]

Padded(conv, x, mask, K, S, replicate) ==
  [r \in Rows |-> Padding(conv, x, mask, K, S, replicate)[r] \o x[r]]

\* As many windows as fit; the chunk is a multiple of the stride.
ConvOutput(conv, x, mask, K, S, replicate) ==
  LET in == Padded(conv, x, mask, K, S, replicate)
  IN [r \in Rows |-> [j \in 1 .. (Len(in[r]) - K) \div S + 1 |->
                        Window(SubSeq(in[r], (j - 1) * S + 1, (j - 1) * S + K))]]

\* Without the mask, a row that is left out keeps the end of a frame that is
\* not its own.
ConvStepOfAll(conv, x, mask, K, S, replicate) ==
  LET in == Padded(conv, x, mask, K, S, replicate)
  IN [previous |-> [r \in Rows |-> LastOf(in[r], K - S)],
      first    |-> [r \in Rows |-> conv.first[r] /\ ~(replicate /\ r \in mask)]]

ConvStep(conv, x, mask, K, S, replicate) ==
  LET in == Padded(conv, x, mask, K, S, replicate)
  IN [previous |-> [r \in Rows |-> IF r \in mask THEN LastOf(in[r], K - S) ELSE conv.previous[r]],
      first    |-> [r \in Rows |-> conv.first[r] /\ ~(replicate /\ r \in mask)]]

-------------------------------------------------------------------------------
(* StreamingConvTranspose1d, with kernel K and stride S; bias is 1 with a bias *)

NoSum == Sum({}, 0)
Plus(a, b) == Sum(a[2] \cup b[2], a[3] + b[3])

NewConvTr(K, S) == [r \in Rows |-> Repeat(NoSum, K - S)]

ResetConvTr(partial, fresh, K, S) ==
  [r \in Rows |-> IF r \in fresh THEN Repeat(NoSum, K - S) ELSE partial[r]]

\* The transposed convolution of a chunk: input i reaches K outputs from
\* (i - 1) * S + 1 on, and each output has the bias.
Transposed(x, K, S, bias) ==
  [o \in 1 .. (Len(x) - 1) * S + K |->
     Sum({<<x[i], o - (i - 1) * S>> : i \in {i \in DOMAIN x : o - (i - 1) * S \in 1 .. K}},
         bias)]

\* Out of streaming mode the K - S last ones are removed.
Unpadded(x, K, S, bias) == SubSeq(Transposed(x, K, S, bias), 1, Len(x) * S)

\* What the chunk before left is added in front; the last K - S sums are not
\* complete.
Overlapped(partial, x, K, S, bias) ==
  [r \in Rows |-> [o \in DOMAIN Transposed(x[r], K, S, bias) |->
     IF o \in DOMAIN partial[r] THEN Plus(Transposed(x[r], K, S, bias)[o], partial[r][o])
     ELSE Transposed(x[r], K, S, bias)[o]]]

ConvTrOutput(partial, x, K, S, bias) ==
  [r \in Rows |-> SubSeq(Overlapped(partial, x, K, S, bias)[r], 1, Len(x[r]) * S)]

\* They are kept without the bias, which the next chunk brings again.
ConvTrStep(partial, x, mask, K, S, bias) ==
  [r \in Rows |->
     IF r \notin mask THEN partial[r]
     ELSE LET tail == LastOf(Overlapped(partial, x, K, S, bias)[r], K - S)
          IN [o \in DOMAIN tail |-> Sum(tail[o][2], tail[o][3] - bias)]]
===============================================================================
