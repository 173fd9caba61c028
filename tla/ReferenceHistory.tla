--------------------------- MODULE ReferenceHistory ---------------------------
(***************************************************************************)
(* The references a conversation has been given, as later prompts show     *)
(* them.  RAGManager keeps a history of pairs (number of turns, text);     *)
(* LLMReferenceGenerator walks the turns of the conversation and the       *)
(* history side by side and writes each reference after its turn.          *)
(*                                                                         *)
(* The conversation is its lines, alternately of user and model; a         *)
(* reference is its number of turns.  Triggers, the speculative slot and   *)
(* cancellations are those of module Conditioning, reduced to the          *)
(* retrieval that is in flight.                                            *)
(***************************************************************************)
EXTENDS Integers, Sequences

CONSTANTS
  MaxLines,  \* bound on the lines of the conversation
  MaxShots   \* rag_max_shots_per_turn

ASSUME HistoryAssumption == MaxLines \in Nat /\ MaxShots \in Nat

Speaker == {"user", "model"}

\* "wait" and "fresh" are a confirmed retrieval before and after its wait for
\* STT, "adopted" is a guess that a confirmed trigger awaits.
Run == {"none", "wait", "fresh", "guess", "adopted"}

VARIABLES
  first,    \* init_active_speaker, who has the first line
  lines,    \* number of lines of conversation_context
  history,  \* RAGManager._history, the number of turns of each reference
  run,      \* the retrieval in flight
  turns,    \* num_turns of the retrieval in flight
  slot,     \* SpeculativeSlot: "none", "running", "text" or "empty"
  trigger,  \* PredictiveTrigger: "armed" or "fired"
  shots,    \* MultiShotGate._shots_this_turn
  asked,    \* confirmed triggers since the last line began
  seen      \* TRUE if the loop that does the bookkeeping saw that line begin

historyVars == <<first, lines, history, run, turns, slot, trigger, shots, asked, seen>>

HistoryInit ==
  /\ first \in Speaker
  /\ lines = 0 /\ history = <<>>
  /\ run = "none" /\ turns = 0 /\ slot = "none" /\ trigger = "armed"
  /\ shots = 0 /\ asked = 0 /\ seen = FALSE

\* Who has line n.
SpeakerOf(n) == IF (n % 2 = 1) <=> (first = "user") THEN "user" ELSE "model"

-------------------------------------------------------------------------------
(* process_reference_text *)

\* Mutant: with a last line of the model the question before it is dropped too.
NumTurnsBefore ==
  LET kept == IF lines > 1 /\ SpeakerOf(lines) = "model" THEN lines - 2 ELSE lines
  IN  IF kept > 0 /\ first = "model" THEN kept - 1 ELSE kept

\* The turns of the prompt: a last line of the model is dropped, then a first.
NumTurns ==
  LET kept == IF lines > 0 /\ SpeakerOf(lines) = "model" THEN lines - 1 ELSE lines
  IN  IF kept > 0 /\ first = "model" THEN kept - 1 ELSE kept

\* Mutant: turns are compared from 0.
ShowFromZero(h, j, i) == IF j < Len(h) /\ h[j + 1] = i - 1 THEN j + 1 ELSE j

\* After turn i, of which j references were shown before.
Show(h, j, i) == IF j < Len(h) /\ h[j + 1] = i THEN j + 1 ELSE j

\* How many references of h a prompt of n turns shows.
Shown(h, n) ==
  LET shown[i \in 0 .. n] == IF i = 0 THEN 0 ELSE Show(h, shown[i - 1], i) IN shown[n]

-------------------------------------------------------------------------------
(* Turns *)

\* SpeculativeSlot.clear.
ClearSpeculative ==
  /\ slot' = "none"
  /\ run' = IF run = "guess" THEN "none" ELSE run

\* The conversation begins with the line of init_active_speaker; then TurnManager
\* gives the floor to the other speaker.  The bookkeeping of the new turn is done
\* if the loop that looks for it has made the switch.
Line(noticed) ==
  /\ lines < MaxLines
  /\ noticed => lines > 0
  /\ lines' = lines + 1
  /\ asked' = 0 /\ seen' = noticed
  /\ LET to == SpeakerOf(lines + 1) IN
        \/ ~noticed /\ UNCHANGED <<trigger, slot, run, shots>>
        \/ noticed /\ to = "user" /\ trigger' = "armed" /\ ClearSpeculative /\ UNCHANGED shots
        \/ noticed /\ to = "model" /\ shots' = 0 /\ UNCHANGED <<trigger, slot, run>>
  /\ UNCHANGED <<first, history, turns>>

-------------------------------------------------------------------------------
(* Triggers *)

\* The predictive trigger fires; a guess starts unless there is one, or a
\* confirmed retrieval is in flight.
Guess ==
  /\ lines > 0 /\ SpeakerOf(lines) = "user" /\ trigger = "armed"
  /\ trigger' = "fired"
  /\ IF run = "none" /\ slot = "none"
     THEN run' = "guess" /\ turns' = NumTurns /\ slot' = "running"
     ELSE UNCHANGED <<run, turns, slot>>
  /\ UNCHANGED <<first, lines, history, shots, asked, seen>>

\* Mutant: the shot is allowed, but not recorded.
RagTokenFree ==
  /\ shots < MaxShots
  /\ asked' = asked + 1
  /\ slot' = "none" /\ run' = "wait"
  /\ UNCHANGED <<first, lines, history, turns, trigger, shots, seen>>

\* The model emits rag_token_id and the gate allows it.  The confirmed retrieval
\* in flight is cancelled and the guess in the slot adopted.
RagToken ==
  /\ shots < MaxShots
  /\ shots' = shots + 1 /\ asked' = asked + 1
  /\ slot' = "none"
  /\ run' = CASE slot = "running" -> "adopted"
              [] slot = "text"    -> "none"
              [] OTHER            -> "wait"
  /\ UNCHANGED <<first, lines, history, turns, trigger, seen>>

\* Mutant: the lines of the context are counted, not those the prompt keeps.
RetrieveLines ==
  /\ run = "wait"
  /\ run' = "fresh" /\ turns' = lines
  /\ UNCHANGED <<first, lines, history, slot, trigger, shots, asked, seen>>

\* The wait for STT is over and the prompt is built.
Retrieve ==
  /\ run = "wait"
  /\ run' = "fresh" /\ turns' = NumTurns
  /\ UNCHANGED <<first, lines, history, slot, trigger, shots, asked, seen>>

\* Mutant: a reference is kept whatever the number of turns.
ReturnUnasked(text) ==
  /\ run \in {"fresh", "guess", "adopted"}
  /\ history' = IF text THEN Append(history, turns) ELSE history
  /\ run' = "none" /\ slot' = "none"
  /\ UNCHANGED <<first, lines, turns, trigger, shots, asked, seen>>

\* get_reference_text returns: without turns there is no text, and only a text
\* becomes part of the history.
Return(text) ==
  /\ run \in {"fresh", "guess", "adopted"}
  /\ text => turns > 0
  /\ history' = IF text THEN Append(history, turns) ELSE history
  /\ run' = IF run = "adopted" /\ ~text THEN "wait" ELSE "none"
  /\ slot' = IF run = "guess" THEN (IF text THEN "text" ELSE "empty") ELSE slot
  /\ UNCHANGED <<first, lines, turns, trigger, shots, asked, seen>>

HistoryNext ==
  \/ \E noticed \in BOOLEAN : Line(noticed)
  \/ Guess \/ RagToken \/ Retrieve
  \/ \E text \in BOOLEAN : Return(text)

-------------------------------------------------------------------------------
(* Properties *)

\* The history is in the order of the conversation whatever was guessed,
\* cancelled or adopted: a reference out of order would never be shown, nor any
\* after it.
HistoryAscends ==
  \A i, j \in 1 .. Len(history) : i < j => history[i] <= history[j]

\* No reference stands after a turn that the prompt does not have.
HistoryFits ==
  \A i \in 1 .. Len(history) : history[i] <= NumTurns

\* A prompt shows the references one by one up to the first that is of the same turn as
\* the one before it.  The walk waits for the turn of that one to come again, so that it is
\* hidden, and so is every reference after it (process_reference_text).
ShownUntilRepeat ==
  LET n == Shown(history, NumTurns) IN
    /\ \A i, j \in 1 .. n : i < j => history[i] # history[j]
    /\ n = Len(history) \/ (0 < n /\ n < Len(history) /\ history[n + 1] = history[n])

\* So what the prompts show is in order, and ends with the first repeat.
HistoryIsSound == HistoryAscends /\ HistoryFits /\ ShownUntilRepeat

\* From its first text on a response never gets more shots than its budget.  Those that the
\* model has asked for before that text, for the same answer, are charged to the response
\* before.  A response has its whole budget if the output loop saw it begin, and only then:
\* otherwise the reset is missed, and it is charged with those too (channel.py:623-630).
BudgetIsCharged ==
  /\ asked <= shots /\ shots <= MaxShots
  /\ lines > 0 /\ SpeakerOf(lines) = "model" /\ seen => shots = asked

-------------------------------------------------------------------------------
(* What the repository's text says and the code does not do *)

\* "Format the context with the reference history"
\* (llm_reference_generator.py:162): a prompt shows every reference given.
HistoryIsShown == Shown(history, NumTurns) = Len(history)

\* "Call when a new model response/turn begins" (multishot.py:36): the shots of a response
\* are all that its budget is charged with.
BudgetPerResponse == lines > 0 /\ SpeakerOf(lines) = "model" => shots = asked

===============================================================================
