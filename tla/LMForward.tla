------------------------------- MODULE LMForward -------------------------------
(***************************************************************************)
(* The two ways to run LMModel (models/lm.py): forward, on the whole of a  *)
(* delayed sequence at once, as in training, and the steps of LMGen, with  *)
(* the depth transformer run one codebook after another.                   *)
(*                                                                         *)
(* The streams are numbered 0 .. n, 0 the text.  What a codebook is        *)
(* sampled from is the sequence of the inputs of the depth transformer up  *)
(* to it: each an input layer with the output of the main transformer at a *)
(* position, and an embedding with a token.  Sampling is any token.        *)
(***************************************************************************)
EXTENDS Integers, Sequences

CONSTANTS
  DepQ,      \* dep_q: codebooks the model samples; as many more are given
  MaxFrames, \* bound on the frames of a sequence
  MaxLag     \* bound on the delays

ASSUME ForwardAssumption == DepQ \in Nat \ {0} /\ MaxFrames \in Nat \ {0} /\ MaxLag \in Nat

Depth    == 1 .. DepQ
Cards    == {0, 1}  \* the tokens of a codebook
ZeroCode == -1      \* zero_token_id
Invalid  == <<>>    \* NaN

VARIABLES
  lags,     \* delays, of the text and of each codebook
  frames,   \* T, of the sequence of codes given to forward
  zeros,    \* which of its codes are zero tokens
  schedule, \* depformer_weights_per_step_schedule
  row,      \* the tokens of the frame LMGen is sampling
  inputs    \* what the depth transformer was given for them

forwardVars == <<lags, frames, zeros, schedule, row, inputs>>

-------------------------------------------------------------------------------
(* LMGen.depformer_step *)

\* forward_depformer: the layers for this codebook, and the token before it.
DepformerInput(cb, token) == [layer |-> schedule[cb], embedding |-> cb, token |-> token]

\* Mutant: the weights of the steps are those of the codebook before.
WeightBehind(step) == schedule[IF step = 1 THEN 1 ELSE step - 1]

\* apply_weights_per_step: the offset of the transformer's own state says the step.
WeightOfStep(step) == schedule[step]

\* What is sampled for a codebook depends on the inputs so far.
Attended(given) == [i \in DOMAIN given |-> [input |-> given[i], weights |-> WeightOfStep(i)]]

\* The depth transformer starts a new stream for each frame.
NextCodebook(token) ==
  /\ Len(row) <= DepQ
  /\ inputs' = Append(inputs, DepformerInput(Len(row), row[Len(row)]))
  /\ row' = Append(row, token)
  /\ UNCHANGED <<lags, frames, zeros, schedule>>

-------------------------------------------------------------------------------
(* LMModel.forward *)

\* forward_depformer_training: one input for each codebook, all at once.
TrainingInputs(tokens) ==
  [cb \in 1 .. Len(tokens) - 1 |->
     [layer |-> schedule[cb], embedding |-> cb, token |-> tokens[cb]]]

\* In training, the depth transformer is causal, and its offset is 0 at the start.
TrainingAttended(tokens, cb) ==
  [i \in 1 .. cb |-> [input |-> TrainingInputs(tokens)[i], weights |-> schedule[i]]]

\* _delay_sequence, with the initial token put before it: the code at position p,
\* if it is one of the sequence.
DelayedCode(k, p) == IF p = 0 \/ p - 1 < lags[k] THEN Invalid ELSE <<k, p - 1 - lags[k]>>

\* forward reads all the positions but the last one, and at each one it predicts
\* the next: the code that the logits at this index are for.
LogitsAt(k, i) == DelayedCode(k, i + 1)

\* Mutant: the sequence is rolled the other way.
RolledForward(k, t) == (t - lags[k]) % frames

Rolled(k, t) == (t + lags[k]) % frames

\* _undelay_sequence: the index of the logits for frame t, unless it is filled in.
IsFilled(k, t) == lags[k] > 0 /\ t >= frames - lags[k]
Undelayed(k, t) == IF IsFilled(k, t) THEN Invalid ELSE LogitsAt(k, Rolled(k, t))

\* logits_mask
LogitsMask(k, t) == ~IsFilled(k, t) /\ <<k, t>> \notin zeros

-------------------------------------------------------------------------------

ForwardInit ==
  /\ lags \in [0 .. DepQ -> 0 .. MaxLag]
  /\ frames \in 1 .. MaxFrames
  /\ zeros \in {{}} \cup {{<<k, t>>} : k \in 0 .. DepQ, t \in 0 .. frames - 1}
  /\ schedule \in [Depth -> Depth]
  /\ \E text \in Cards : row = <<text>>
  /\ inputs = <<>>

ForwardNext == \E token \in Cards : NextCodebook(token)

\* A codebook is sampled from the very inputs that forward, given the frame,
\* computes its logits from.
SampledAsTrained ==
  \A cb \in DOMAIN inputs : Attended(SubSeq(inputs, 1, cb)) = TrainingAttended(row, cb)

\* The logits given for a frame are those that predict its code, and they count
\* only where the delayed sequence still holds it.
LogitsAreAligned ==
  \A k \in DOMAIN lags : \A t \in 0 .. frames - 1 :
    IF LogitsMask(k, t) THEN Undelayed(k, t) = <<k, t>>
    ELSE <<k, t>> \in zeros \/ \A i \in 0 .. frames - 1 : LogitsAt(k, i) # <<k, t>>

ForwardIsSound == SampledAsTrained /\ LogitsAreAligned
===============================================================================
