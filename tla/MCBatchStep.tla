------------------------------ MODULE MCBatchStep ------------------------------
(* Model checking of what a step of the batch runs, a part at a time: the slots   *)
(* with LMGen, the codec in streaming mode, and its quantizer; and the other      *)
(* network that is run as a stream, the denoiser of the voices.                   *)
EXTENDS BatchSlots, MimiStream, Quantizer, DemucsStream, TLC

VARIABLE part

NoCodec ==
  /\ mask = {} /\ enc = <<>> /\ att = Ring!NewTransformer /\ down = <<>> /\ up = <<>>
  /\ dec = <<>> /\ graph = 0 /\ static = Nothing
  /\ past = [r \in Rows |-> [session |-> 1, frames |-> 0, played |-> 0]]
  /\ since = 0 /\ encoded = {} /\ latent = <<>> /\ pcm = <<NoPcm, NoPcm>>

NoQuantizer == codebooks = <<>> /\ nq = 0 /\ quantized = NotYet

Parts ==
  \/ part = "slots" /\ NoCodec /\ NoQuantizer
  \/ part = "codec" /\ CodecInit /\ NoQuantizer
  \/ part = "quantizer" /\ NoCodec /\ QuantizerInit
  \/ part = "denoiser" /\ NoCodec /\ NoQuantizer

BatchInit == Init /\ DemucsInit /\ Parts

BatchSpec ==
  /\ BatchInit
  /\ [][/\ UNCHANGED part
        /\ \/ part = "slots" /\ Next /\ UNCHANGED <<codecVars, quantizerVars, demucsVars>>
           \/ part = "codec" /\ CodecNext /\ UNCHANGED <<vars, quantizerVars, demucsVars>>
           \/ part = "quantizer" /\ QuantizerNext /\ UNCHANGED <<vars, codecVars, demucsVars>>
           \/ part = "denoiser" /\ DemucsNext /\ UNCHANGED <<vars, codecVars, quantizerVars>>
     ]_<<vars, codecVars, quantizerVars, demucsVars, part>>

\* What comes out of a network that is run as a stream is the row's own, and what the
\* network gives out of streaming mode: the latents, the audio, and the audio without
\* noise.
CodecIsSound == LatentIsOwn /\ PcmIsOwn /\ DenoisedAsForward

Symmetry == Permutations(Occupants) \union Permutations(Rows)
===============================================================================
