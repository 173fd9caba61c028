------------------------------ MODULE MimiStream -------------------------------
(***************************************************************************)
(* MimiModel in streaming mode (models/compression.py): a frame of each    *)
(* row goes through the encoder, its transformer and the downsampling; the *)
(* codes of a frame go through the upsampling and the decoder.  Rows start *)
(* a new session (a reset) and are left out of a step (the exec mask)      *)
(* independently of one another, as BatchRunner and the script             *)
(* test_missing_data.py drive it.                                          *)
(*                                                                         *)
(* Data are symbolic: a sample is a session and an index in it, and each   *)
(* layer keeps what it was computed from, so that the outputs can be       *)
(* compared with what the same layers compute out of streaming mode.  The  *)
(* quantizer has no state: the code of a frame stands for it.  The         *)
(* decoder's transformer, of the class of the encoder's, is left out.      *)
(***************************************************************************)
EXTENDS Integers, Sequences, FiniteSets

CONSTANTS
  Rows,
  Capacity,       \* context of the transformer
  MaxSession,     \* bound on the sessions of a row
  MaxCodecFrames, \* bound on the frames of a session
  Delay           \* frames before the language model answers a row, or anybody

ASSUME CodecAssumption ==
  /\ Capacity \in Nat /\ Capacity >= 2
  /\ MaxSession \in Nat \ {0} /\ MaxCodecFrames \in Nat /\ Delay \in Nat

Ring == INSTANCE RingCache WITH RespectMask <- TRUE
Net  == INSTANCE SEANet

Stride    == 2                  \* of the resampling between encoder and quantizer
Chunk     == Stride             \* steps of the encoder in a frame
FrameSize == Net!Hop * Stride

VARIABLES
  mask,    \* exec_mask, the same in every module of the codec
  enc,     \* the convolutions of the encoder
  att,     \* _TransformerState and _MHAState of its transformer
  down,    \* _StreamingConv1dState of ConvDownsample1d
  up,      \* _StreamingConvTr1dState of ConvTrUpsample1d
  dec,     \* the convolutions of the decoder
  graph,   \* CUDAGraphed around the decoder: calls so far, up to 2
  static,  \* ... and the output tensor of its graph
  past,    \* the session of each row, the frames it gave and those it was given
  since,   \* steps since the last reset of any row, up to Delay
  encoded, \* the rows of the last encode
  latent,  \* what it returned for each row
  pcm      \* what the last two calls of decode returned, and for which frames

stateVars == <<enc, att, down, up, dec>>
codecVars == <<mask, stateVars, graph, static, past, since, encoded, latent, pcm>>

Nothing == "nothing"
NoPcm == [result |-> [static |-> FALSE, value |-> Nothing], of |-> <<>>]

\* ConvDownsample1d and ConvTrUpsample1d, learnt or not: the kernel is twice the
\* stride, and only the first has a pad_mode, "replicate".
NewDownsample == Net!NewConv(2 * Stride, Stride)
NewUpsample == Net!NewConvTr(2 * Stride, Stride)

CodecInit ==
  /\ mask = Rows
  /\ enc = Net!NewEncoder /\ att = Ring!NewTransformer
  /\ down = NewDownsample /\ up = NewUpsample /\ dec = Net!NewDecoder
  /\ graph = 0 /\ static = Nothing
  /\ past = [r \in Rows |-> [session |-> 1, frames |-> 0, played |-> 0]]
  /\ since = 0 /\ encoded = {} /\ latent = [r \in Rows |-> Nothing]
  /\ pcm = <<NoPcm, NoPcm>>

\* reset_streaming(reset_mask): the state of every module, for these rows.
ResetStreaming(fresh) ==
  /\ mask' = mask \cup fresh
  /\ enc' = Net!ResetEncoder(enc, fresh)
  /\ att' = Ring!ResetTransformer(att, fresh)
  /\ down' = Net!ResetConv(down, fresh, 2 * Stride, Stride)
  /\ up' = Net!ResetConvTr(up, fresh, 2 * Stride, Stride)
  /\ dec' = Net!ResetDecoder(dec, fresh)
  /\ past' = [r \in Rows |-> IF r \in fresh
                             THEN [session |-> past[r].session + 1, frames |-> 0, played |-> 0]
                             ELSE past[r]]
  /\ since' = 0 /\ encoded' = encoded \ fresh
  /\ UNCHANGED <<graph, static, latent, pcm>>

-------------------------------------------------------------------------------
(* A step *)

NoSession == 0
SampleOf(s, i) == <<"sample", s, i>>

\* What the row's part of the batch holds: its next frame, or anything.
Frame(r, given) ==
  [t \in 1 .. FrameSize |->
     IF r \in given THEN SampleOf(past[r].session, past[r].frames * FrameSize + t)
     ELSE SampleOf(NoSession, t)]

\* CUDAGraphed.__call__: the first call runs the function, the second records
\* and replays it, the later ones replay it.  Once there is a graph, the output
\* is its own tensor, which the next call overwrites.
GraphedCall(output) ==
  /\ graph' = IF graph < 2 THEN graph + 1 ELSE graph
  /\ static' = IF graph = 0 THEN static ELSE output

\* Without the copy, what decode returns is the tensor of the graph.
ReturnedAsIs(output) ==
  IF graph = 0 THEN [static |-> FALSE, value |-> output] ELSE [static |-> TRUE, value |-> Nothing]

\* decode clones it.
Returned(output) == [static |-> FALSE, value |-> output]

ValueOf(result) == IF result.static THEN static ELSE result.value

ToFramerate(a, given) == Net!ConvOutput(down, a, given, 2 * Stride, Stride, TRUE)

\* _encode_to_unquantized_latent
Encode(given, x) ==
  LET h == Net!EncoderChain(enc, x, given).output
      a == Ring!TransformerOutput(att, h, given, Chunk)
  IN /\ enc' = Net!EncoderStep(enc, x, given)
     /\ att' = Ring!TransformerStep(att, h, given, Chunk)
     /\ down' = Net!ConvStep(down, a, given, 2 * Stride, Stride, TRUE)
     /\ latent' = [r \in Rows |-> ToFramerate(a, given)[r][1]]

Code(r, heard) ==
  <<IF r \in heard THEN SampleOf(past[r].session, past[r].played + 1)
                   ELSE SampleOf(NoSession, 1)>>

ToEncoderFramerate(codes) == Net!ConvTrOutput(up, codes, 2 * Stride, Stride, 0)

Decode(heard) ==
  LET codes == [r \in Rows |-> Code(r, heard)]
      emb   == ToEncoderFramerate(codes)
      out   == Net!DecoderChain(dec, emb, heard).output
  IN /\ up' = Net!ConvTrStep(up, codes, heard, 2 * Stride, Stride, 0)
     /\ dec' = Net!DecoderStep(dec, emb, heard)
     /\ GraphedCall(out)
     /\ pcm' = <<[result |-> Returned(out),
                  of |-> [r \in heard |-> <<past[r].session, past[r].played + 1>>]], pcm[1]>>

NoDecode == UNCHANGED <<up, dec, graph, static, pcm>>

\* The model answers None for a while after a reset; then the rows have a code
\* that gave enough frames.
Answers == since = Delay
Answered(given) == {r \in given : past[r].frames >= Delay}

\* run_step: encode with the mask of the rows that gave a frame; then, unless
\* the model answers None, decode with that of the rows it has codes for.
CodecStep(given) ==
  /\ given # {}
  /\ \A r \in given : past[r].frames < MaxCodecFrames
  /\ Encode(given, [r \in Rows |-> Frame(r, given)])
  /\ IF Answers THEN mask' = Answered(given) /\ Decode(Answered(given))
                ELSE mask' = given /\ NoDecode
  /\ past' = [r \in Rows |->
       [session |-> past[r].session,
        frames  |-> IF r \in given THEN past[r].frames + 1 ELSE past[r].frames,
        played  |-> IF Answers /\ r \in Answered(given) THEN past[r].played + 1
                                                        ELSE past[r].played]]
  /\ since' = (IF Answers THEN since ELSE since + 1)
  /\ encoded' = given

NewSessions ==
  \E fresh \in SUBSET Rows \ {{}} :
    /\ \A r \in fresh : past[r].session < MaxSession
    /\ ResetStreaming(fresh)

CodecNext == NewSessions \/ \E given \in SUBSET Rows : CodecStep(given)

CodecSpec == CodecInit /\ [][CodecNext]_codecVars

-------------------------------------------------------------------------------
(* What the same layers compute out of streaming mode, of a whole session *)

WholeInput(s, n) == [i \in 1 .. n |-> SampleOf(s, i)]

\* Here the streaming transformer differs: a query sees what its chunk left in
\* the ring, the context up to the end of the chunk.
WholeAttention(h) ==
  [i \in DOMAIN h |->
     LET last == ((i - 1) \div Chunk) * Chunk + Chunk
         from == IF last - Capacity > 0 THEN last - Capacity + 1 ELSE 1
     IN Ring!Attention(h[i], {<<i - k, h[k]>> : k \in from .. i})]

WholeLatents ==
  LET fedRows == {r \in Rows : past[r].frames > 0}
      x == [r \in Rows |-> WholeInput(past[r].session, past[r].frames * FrameSize)]
      h == Net!EncoderChain(Net!NewEncoder, x, fedRows).output
      a == [r \in Rows |-> WholeAttention(h[r])]
      new == Net!NewConv(2 * Stride, Stride)
  IN [r \in fedRows |-> Net!ConvOutput(new, a, fedRows, 2 * Stride, Stride, TRUE)[r]]

WholePcm(s, n) ==
  LET emb == Net!Unpadded(WholeInput(s, n), 2 * Stride, Stride, 0)
      h == Net!ConvOutput(Net!NewConv(2, 1), [r \in Rows |-> emb], Rows, 2, 1, FALSE)
      u == [r \in Rows |-> Net!Unpadded(h[r], 2 * Net!Hop, Net!Hop, 1)]
  IN Net!BlockOutput(Net!NewBlock, u, Rows)

\* The latent of a frame is the one that the row's session, run as a whole and
\* alone, has there: whatever the other rows do, however often the row itself
\* was left out, and whoever had it before.
LatentIsOwn ==
  \A r \in encoded : latent[r] = WholeLatents[r][past[r].frames]

\* So is the audio; and the audio of one call is still there after the next, for
\* whoever has not sent it yet.
PcmIsOwn ==
  \A k \in 1 .. 2 : \A r \in DOMAIN pcm[k].of :
    LET s == pcm[k].of[r][1]
        n == pcm[k].of[r][2]
    IN ValueOf(pcm[k].result)[r]
         = SubSeq(WholePcm(s, n)[r], (n - 1) * FrameSize + 1, n * FrameSize)

\* The three counters of a row, of the ring, the attention and the transformer,
\* are the steps of its session, whatever the resets and the masks of its
\* neighbours: the offset sets the angle of rope, the end of the ring the place
\* of the key, and a row in which they differ would look at the wrong keys.
InStep ==
  \A r \in Rows : /\ att.offset[r] = past[r].frames * Chunk
                  /\ att.ring.end[r] = att.offset[r]
                  /\ att.offsets[r] = att.offset[r]

CodecTypeOK ==
  /\ mask \in SUBSET Rows /\ encoded \in SUBSET Rows
  /\ past \in [Rows -> [session : 1 .. MaxSession, frames : 0 .. MaxCodecFrames, played : Nat]]
  /\ att.offset \in [Rows -> Nat] /\ att.offsets \in [Rows -> Nat]
  /\ att.ring.end \in [Rows -> Nat]
  /\ graph \in 0 .. 2 /\ since \in 0 .. Delay
===============================================================================
