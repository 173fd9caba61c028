------------------------------ MODULE LMService -------------------------------
(***************************************************************************)
(* What every server around LMGen does with it: a step resets some rows,   *)
(* then executes some.  BatchRunner (inference_utils/batch_runner.py) does *)
(* so for the dialogue; ASRServer and TTSServer for the two services that  *)
(* rust/moshi-server runs.  The model of a behaviour is chosen once.       *)
(***************************************************************************)
EXTENDS LMStream, Sequences, FiniteSets

CONSTANTS
  Delay,       \* of the codebooks after the first, in the model that speaks
  Prepend,     \* length of its prepended condition
  MaxSession,  \* bound on the sessions of a row
  MaxSteps     \* bound on the steps of a session of the dialogue

ASSUME LMServiceAssumption ==
  /\ Rows \subseteq Nat
  /\ Delay \in Nat /\ Prepend \in Nat /\ MaxSession \in Nat \ {0} /\ MaxSteps \in Nat

VARIABLES
  service,  \* which server this is
  lm,       \* LMGen and its _LMGenState
  session,  \* the session of each row: how often it was reset
  since,    \* its steps since a reset of any row, up to MaxDelay + 2
  ran,      \* the rows of the last step, what the model read for them,
  input,
  output,   \* and what the step returned
  stepped   \* the loop around the step has not used it yet

lmVars == <<lm, session, since, ran, input, output, stepped>>

Nothing == <<>>

\* The delays of a model of two codebooks: the user's are delayed alike.
Codebooks == [first |-> 0, rest |-> Delay]
Dialogue  == NewLM([text |-> 0, first |-> 0, rest |-> Delay, userFirst |-> 0, userRest |-> Delay],
                   {"userFirst", "userRest"}, Prepend, 0, FALSE)

LMInit(model) ==
  /\ lm = model
  /\ session = [r \in Rows |-> 0] /\ since = [r \in Rows |-> 0]
  /\ ran = {} /\ input = Nothing /\ output = Nothing
  /\ stepped = FALSE

\* The rows fresh are reset, nothing is executed.
ResetOnly(fresh) ==
  /\ lm' = ResetLM(lm, fresh)
  /\ session' = [r \in Rows |-> IF r \in fresh THEN session[r] + 1 ELSE session[r]]
  /\ since' = [r \in Rows |-> IF fresh = {} THEN since[r] ELSE 0]
  /\ ran' = {} /\ input' = Nothing /\ output' = Nothing

\* The rows fresh are reset, those of mask are executed.
ResetAndRun(fresh, mask, textOnly) ==
  LET start  == ResetLM(lm, fresh)
      tokens == Tokens(start, session', textOnly)
      before == [r \in Rows |-> IF fresh = {} THEN since[r] ELSE 0]
  IN /\ session' = [r \in Rows |-> IF r \in fresh THEN session[r] + 1 ELSE session[r]]
     /\ lm' = StepLM(start, mask, tokens)
     /\ since' = [r \in Rows |-> IF r \in mask /\ before[r] < MaxDelayOf(lm) + 2
                                 THEN before[r] + 1 ELSE before[r]]
     /\ ran' = mask
     /\ input' = Inputs(start, mask, tokens)
     /\ output' = IF Returns(lm') THEN Output(lm', mask) ELSE Nothing

\* run_step: a frame of each of these rows, the first one of those that are fresh.
DialogueStep ==
  \E mask \in SUBSET Rows \ {{}}, fresh \in SUBSET Rows :
    /\ fresh \subseteq mask
    /\ \A r \in mask : IF r \in fresh THEN session[r] < MaxSession
                                      ELSE session[r] > 0 /\ lm.offsets[r] < MaxSteps
    /\ ResetAndRun(fresh, mask, FALSE) /\ UNCHANGED stepped

-------------------------------------------------------------------------------
(* Properties *)

\* The steps of r before the last one, since the cache was wiped.
Intact(r) == since[r] - 1

\* What the model reads for a row is the sequence of the row's session that it was
\* trained on, with the delay of each stream, whatever the other rows do and
\* however often the row is left out (_step, against LMModel.forward).  A reset of
\* another row costs what was in the cache: the tokens generated by one step, the
\* user's by as many as their delay.
InputIsDelayed ==
  \A r \in ran : \A k \in Streams(lm) :
    LET n      == lm.offsets[r] - 1
        needed == IF k \in lm.given THEN lm.delays[k] ELSE 1
    IN input[r][k] = IF Intact(r) < needed /\ Delayed(lm, k, session[r], n) # Initial
                     THEN Wiped ELSE Delayed(lm, k, session[r], n)

\* What a step returns for a row is all the codebooks of one frame, the one that
\* was begun MaxDelay steps before; after a reset of another row, those of them
\* that are sampled again are.
FrameIsWhole ==
  \A r \in ran \cap DOMAIN output : lm.offsets[r] > MaxDelayOf(lm) =>
    \A k \in DOMAIN output[r] :
      output[r][k] = IF Intact(r) < MaxDelayOf(lm) - lm.delays[k] THEN Wiped
                     ELSE Code(lm, k, session[r], lm.offsets[r] - 1 - MaxDelayOf(lm))

\* The transformer has been given the prepended condition once in a session, then
\* a position for each of the row's own steps (_reset_callback).
PrependedOnce == \A r \in Rows : lm.position[r] = lm.prepend + lm.offsets[r]
===============================================================================
