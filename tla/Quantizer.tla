------------------------------ MODULE Quantizer -------------------------------
(***************************************************************************)
(* SplitResidualVectorQuantizer (quantization/vq.py, core_vq.py), out of   *)
(* training: the first codebooks quantize one projection of a latent, the  *)
(* others another, each level what the levels before it left.  How many of *)
(* the codebooks are in use is set as the language model is loaded.        *)
(*                                                                         *)
(* A vector is an integer, a linear map a factor, and a codebook the       *)
(* sequence of its centroids.  Training (k-means, the moving averages, the *)
(* codes that expire, dropout) is left out.                                *)
(***************************************************************************)
EXTENDS Integers, Sequences, Sums

CONSTANTS
  NSemantic,  \* n_q_semantic: the levels of rvq_first
  NAcoustic,  \* those of rvq_rest
  Bins,       \* the codes of a codebook
  MaxCentroid, MaxLatent \* bounds on a centroid and on a latent

ASSUME QuantizerAssumption ==
  /\ {NSemantic, NAcoustic, Bins} \subseteq Nat \ {0}
  /\ MaxCentroid \in Nat /\ MaxLatent \in Nat

VARIABLES
  codebooks, \* the weights
  nq,        \* n_q of rvq_rest
  quantized  \* the last latent, the codebooks then in use, its codes and what they decode to

quantizerVars == <<codebooks, nq, quantized>>

Centroids == -MaxCentroid .. MaxCentroid
Latents == -MaxLatent .. MaxLatent
Distance(x, y) == IF x < y THEN y - x ELSE x - y

\* input_proj and output_proj of the two.
RvqFirst == [in |-> 1, out |-> 2, layers |-> SubSeq(codebooks, 1, NSemantic)]
RvqRest  == [in |-> 2, out |-> 1, layers |-> SubSeq(codebooks, NSemantic + 1, Len(codebooks))]

\* EuclideanCodebook._quantize: the nearest centroid, the first of those.
Nearest(codebook, x) ==
  CHOOSE c \in DOMAIN codebook :
    \A d \in DOMAIN codebook :
      \/ Distance(x, codebook[c]) < Distance(x, codebook[d])
      \/ Distance(x, codebook[c]) = Distance(x, codebook[d]) /\ c <= d

\* n_q or len(self.layers): with 0, all of the levels.
Levels(rvq, n) == IF n = 0 THEN rvq.layers ELSE SubSeq(rvq.layers, 1, n)

\* Mutant: each level quantizes the latent itself.
LeftWhole(residual, centroid) == residual

Left(residual, centroid) == residual - centroid

\* ResidualVectorQuantization.encode: each level quantizes what is left.
EncodeLevel(acc, codebook) ==
  LET c == Nearest(codebook, acc.residual)
  IN [residual |-> Left(acc.residual, codebook[c]), codes |-> Append(acc.codes, c)]

EncodeLevels(rvq, n, x) ==
  LET levels == Levels(rvq, n)
      acc[i \in 0 .. Len(levels)] ==
        IF i = 0 THEN [residual |-> rvq.in * x, codes |-> <<>>] ELSE EncodeLevel(acc[i - 1], levels[i])
  IN acc[Len(levels)].codes

\* ResidualVectorQuantization.decode
DecodeLevels(rvq, codes) == rvq.out * SumTo([i \in DOMAIN codes |-> rvq.layers[i][codes[i]]], Len(codes))

\* ResidualVectorQuantization.forward does both on the way.
ForwardLevel(acc, codebook) ==
  LET c == Nearest(codebook, acc.residual)
  IN [residual |-> acc.residual - codebook[c], out |-> acc.out + codebook[c], codes |-> Append(acc.codes, c)]

ForwardLevels(rvq, n, x) ==
  LET levels == Levels(rvq, n)
      acc[i \in 0 .. Len(levels)] ==
        IF i = 0 THEN [residual |-> rvq.in * x, out |-> 0, codes |-> <<>>]
        ELSE ForwardLevel(acc[i - 1], levels[i])
  IN [x |-> rvq.out * acc[Len(levels)].out, codes |-> acc[Len(levels)].codes]

NumCodebooks   == NSemantic + nq
TotalCodebooks == NSemantic + NAcoustic

\* Mutant: the other codebooks are always used.
EncodeAlways(x) == EncodeLevels(RvqFirst, NSemantic, x) \o EncodeLevels(RvqRest, nq, x)

EncodeSplit(x) ==
  EncodeLevels(RvqFirst, NSemantic, x)
    \o (IF NumCodebooks > NSemantic THEN EncodeLevels(RvqRest, nq, x) ELSE <<>>)

DecodeSplit(codes) ==
  DecodeLevels(RvqFirst, SubSeq(codes, 1, NSemantic))
    + (IF Len(codes) > NSemantic THEN DecodeLevels(RvqRest, SubSeq(codes, NSemantic + 1, Len(codes))) ELSE 0)

ForwardSplit(x) ==
  LET semantic == ForwardLevels(RvqFirst, NSemantic, x)
      acoustic == ForwardLevels(RvqRest, nq, x)
  IN IF NumCodebooks = NSemantic THEN semantic
     ELSE [x |-> semantic.x + acoustic.x, codes |-> semantic.codes \o acoustic.codes]

NotYet == [latent |-> 0, n |-> 0, codes |-> <<>>, decoded |-> 0]

QuantizerInit ==
  /\ codebooks \in [1 .. TotalCodebooks -> [1 .. Bins -> Centroids]]
  /\ nq = NAcoustic /\ quantized = NotYet

\* set_num_codebooks asserts that the semantic codebooks stay.
SetNumCodebooks(n) ==
  /\ n \in NSemantic .. TotalCodebooks
  /\ nq' = n - NSemantic
  /\ UNCHANGED <<codebooks, quantized>>

\* MimiModel.encode, then decode_latent of the codes.
Quantize(x) ==
  LET codes == EncodeSplit(x)
  IN /\ quantized' = [latent |-> x, n |-> NumCodebooks, codes |-> codes, decoded |-> DecodeSplit(codes)]
     /\ UNCHANGED <<codebooks, nq>>

QuantizerNext ==
  \/ \E n \in NSemantic .. TotalCodebooks : SetNumCodebooks(n)
  \/ \E x \in Latents : Quantize(x)

QuantizerSpec == QuantizerInit /\ [][QuantizerNext]_quantizerVars

\* There are as many codes as there are codebooks in use; using fewer leaves out
\* the last ones and changes none; they decode as forward does on its way; and at
\* each level no other code would decode to something nearer.
CodesAreSound ==
  quantized.n > 0 =>
    LET x == quantized.latent
        n == quantized.n
        full == EncodeLevels(RvqFirst, NSemantic, x) \o EncodeLevels(RvqRest, NAcoustic, x)
        Error(rvq, codes) == Distance(rvq.out * rvq.in * x, DecodeLevels(rvq, codes))
        Greedy(rvq, codes) ==
          \A k \in DOMAIN codes : \A c \in 1 .. Bins :
            Error(rvq, SubSeq(codes, 1, k)) <= Error(rvq, Append(SubSeq(codes, 1, k - 1), c))
    IN /\ quantized.codes = SubSeq(full, 1, n)
       /\ NumCodebooks = n =>
            ForwardSplit(x) = [x |-> quantized.decoded, codes |-> quantized.codes]
       /\ Greedy(RvqFirst, SubSeq(quantized.codes, 1, NSemantic))
       /\ Greedy(RvqRest, SubSeq(quantized.codes, NSemantic + 1, n))
===============================================================================
