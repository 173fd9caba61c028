-------------------------------- MODULE SEANet ---------------------------------
(***************************************************************************)
(* The encoder and the decoder of the codec (modules/seanet.py): a chain   *)
(* of streaming convolutions, each with the state of StreamingConv, around *)
(* a residual block.  One block and one change of rate stand for those     *)
(* that the ratios list; the kernels are small.                            *)
(***************************************************************************)
EXTENDS StreamingConv

\* SEANetResnetBlock: the input and what the convolution makes of it.  With
\* true_skip the input passes as it is.
Residual(x, y) == [r \in Rows |-> [t \in DOMAIN x[r] |-> <<"residual", x[r][t], y[r][t]>>]]

NewBlock == NewConv(2, 1)

BlockOutput(block, x, mask) == Residual(x, ConvOutput(block, x, mask, 2, 1, FALSE))

BlockStep(block, x, mask) == ConvStep(block, x, mask, 2, 1, FALSE)

-------------------------------------------------------------------------------
(* SEANetEncoder: two samples make a step *)

Hop == 2

NewEncoder == [inner |-> NewConv(2, 1), block |-> NewBlock, down |-> NewConv(2 * Hop, Hop)]

ResetEncoder(enc, fresh) ==
  [inner |-> ResetConv(enc.inner, fresh, 2, 1),
   block |-> ResetConv(enc.block, fresh, 2, 1),
   down  |-> ResetConv(enc.down, fresh, 2 * Hop, Hop)]

\* What each layer is given, and what the last one returns.
EncoderChain(enc, x, mask) ==
  LET h == ConvOutput(enc.inner, x, mask, 2, 1, FALSE)
      b == BlockOutput(enc.block, h, mask)
  IN [inner |-> x, block |-> h, down |-> b,
      output |-> ConvOutput(enc.down, b, mask, 2 * Hop, Hop, FALSE)]

EncoderStep(enc, x, mask) ==
  LET in == EncoderChain(enc, x, mask)
  IN [inner |-> ConvStep(enc.inner, in.inner, mask, 2, 1, FALSE),
      block |-> BlockStep(enc.block, in.block, mask),
      down  |-> ConvStep(enc.down, in.down, mask, 2 * Hop, Hop, FALSE)]

-------------------------------------------------------------------------------
(* SEANetDecoder: a step makes two samples *)

NewDecoder == [inner |-> NewConv(2, 1), up |-> NewConvTr(2 * Hop, Hop), block |-> NewBlock]

ResetDecoder(dec, fresh) ==
  [inner |-> ResetConv(dec.inner, fresh, 2, 1),
   up    |-> ResetConvTr(dec.up, fresh, 2 * Hop, Hop),
   block |-> ResetConv(dec.block, fresh, 2, 1)]

DecoderChain(dec, x, mask) ==
  LET h == ConvOutput(dec.inner, x, mask, 2, 1, FALSE)
      u == ConvTrOutput(dec.up, h, 2 * Hop, Hop, 1)
  IN [inner |-> x, up |-> h, block |-> u, output |-> BlockOutput(dec.block, u, mask)]

DecoderStep(dec, x, mask) ==
  LET in == DecoderChain(dec, x, mask)
  IN [inner |-> ConvStep(dec.inner, in.inner, mask, 2, 1, FALSE),
      up    |-> ConvTrStep(dec.up, in.up, mask, 2 * Hop, Hop, 1),
      block |-> BlockStep(dec.block, in.block, mask)]
===============================================================================
