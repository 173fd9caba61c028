------------------------------- MODULE Retrieval -------------------------------
(***************************************************************************)
(* Asking language models for a reference: generate_reference_text of      *)
(* LLMReferenceGenerator, with the profiles of retrieval_profiles.py.      *)
(* LLMClient.generate blocks, so each call runs in a thread of the default *)
(* executor, which all channels share.  Giving up on a call takes it from  *)
(* the queue, but cannot stop a thread that runs it.                       *)
(*                                                                         *)
(* A text is the model that wrote it; the prompt is in ReferenceHistory.   *)
(***************************************************************************)
EXTENDS Integers, Sequences, FiniteSets

CONSTANTS
  Ids,            \* what profiles are named
  Threads,        \* of the executor
  LlmTimeout,     \* llm_call_timeout, in ticks
  MaxRetrievals,  \* bound on the retrievals, of all channels
  MaxElapsed      \* bound on the ticks of one

ASSUME RetrievalAssumption ==
  /\ Threads \in Nat \ {0} /\ LlmTimeout \in Nat \ {0}
  /\ MaxRetrievals \in Nat /\ MaxElapsed \in Nat

VARIABLES
  profiles,       \* retrieval_profiles: a sequence of [id, default]
  summarization, \* BOOLEAN
  retrievals,     \* those begun: [state, profile, elapsed, text, label]
  calls           \* of generate: [of, role, llm, state, left, text]

retrievalVars == <<profiles, summarization, retrievals, calls>>

generator == <<profiles, summarization>>

ENV     == "env"    \* the one model of get_llm
NOTHING == "none"   \* no text, no label
UNKNOWN == "gone"   \* a profile that a client asks for and the server does not have

-------------------------------------------------------------------------------
(* MOSHI_RETRIEVAL_LLMS_JSON *)

\* A flag is a boolean, one of the two strings, or an error.
Flags == {"true", "false", "other"}

Defaults(entries) == {i \in DOMAIN entries : entries[i].default = "true"}

ValidFlags(entries) == Len(entries) < 2 \/ Cardinality(Defaults(entries)) = 1

\* load_retrieval_env raises on every other input.
Loads(entries) ==
  /\ \A i \in DOMAIN entries : entries[i].default # "other"
  /\ \A i, j \in DOMAIN entries : i # j => entries[i].id # entries[j].id
  /\ ValidFlags(entries)

Multi == Len(profiles) >= 2

DefaultProfileId == profiles[CHOOSE i \in Defaults(profiles) : TRUE].id

KnownProfiles == {profiles[i].id : i \in DOMAIN profiles}

RetrievalInit ==
  /\ profiles \in {e \in UNION {[1..n -> [id : Ids, default : Flags]] : n \in 0..2} : Loads(e)}
  /\ summarization \in BOOLEAN
  /\ retrievals = <<>> /\ calls = <<>>

-------------------------------------------------------------------------------
(* The executor *)

Queued(c)  == calls[c].state = "queued"
Busy       == {c \in DOMAIN calls : calls[c].state \in {"running", "abandoned"}}
Awaited(c) == calls[c].state \in {"queued", "running"}

Call(r, role, llm) ==
  [of |-> r, role |-> role, llm |-> llm, state |-> "queued",
   left |-> IF role = "summary" THEN MaxElapsed + 1 ELSE LlmTimeout, text |-> NOTHING]

\* A thread takes the call that has waited longest.
RunCall(c) ==
  /\ Queued(c) /\ \A d \in DOMAIN calls : Queued(d) => c <= d
  /\ Cardinality(Busy) < Threads
  /\ calls' = [calls EXCEPT ![c].state = "running"]
  /\ UNCHANGED <<generator, retrievals>>

\* generate returns the first line of what the model wrote, which may be empty, or
\* raises.  _run_one makes "" of both, get_reference_text does where there is no
\* _run_one.
Answer(c, writes) ==
  /\ c \in Busy
  /\ calls' = [calls EXCEPT
       ![c].state = IF @ = "running" THEN "answered" ELSE "over", ![c].left = 0,
       ![c].text  = IF calls[c].state = "running" /\ writes THEN calls[c].llm ELSE NOTHING]
  /\ UNCHANGED <<generator, retrievals>>

\* The future is cancelled: by wait_for, or with the task that awaits it.
GiveUp(c) == [c EXCEPT !.state = IF @ = "queued" THEN "dropped" ELSE "abandoned"]

Expire(c) ==
  /\ Awaited(c) /\ calls[c].left = 0
  /\ calls' = [calls EXCEPT ![c] = GiveUp(@)]
  /\ UNCHANGED <<generator, retrievals>>

-------------------------------------------------------------------------------
(* generate_reference_text *)

CallsOf(r) == {c \in DOMAIN calls : calls[c].of = r}

\* Mutants: only the profile asked for is called; the default is the one preferred.
OneCall(r, profile) ==
  <<Call(r, "primary", IF ~Multi THEN ENV
                       ELSE IF profile \in KnownProfiles THEN profile ELSE DefaultProfileId)>>

DefaultFirst(r, profile) ==
  IF ~Multi \/ profile = DefaultProfileId THEN OneCall(r, profile)
  ELSE <<Call(r, "fallback", DefaultProfileId), OneCall(r, profile)[1]>>

\* An unknown profile falls back to the default, which is then asked twice.
CallsFor(r, profile) ==
  IF ~Multi THEN <<Call(r, "primary", ENV)>>
  ELSE IF profile = DefaultProfileId THEN <<Call(r, "primary", DefaultProfileId)>>
  ELSE <<Call(r, "primary", IF profile \in KnownProfiles THEN profile ELSE DefaultProfileId),
         Call(r, "fallback", DefaultProfileId)>>

\* Without turns no model is asked.
Ask(profile, hasTurns) ==
  LET r == Len(retrievals) + 1
  IN  /\ r <= MaxRetrievals
      /\ retrievals' = Append(retrievals,
           [state |-> IF hasTurns THEN "waiting" ELSE "done", profile |-> profile, elapsed |-> 0,
            text |-> NOTHING, label |-> NOTHING])
      /\ calls' = IF hasTurns THEN calls \o CallsFor(r, profile) ELSE calls
      /\ UNCHANGED generator

Ready(r) ==
  /\ retrievals[r].state \in {"waiting", "summarizing"}
  /\ \A c \in CallsOf(r) : ~Awaited(c)

\* The call whose text is the reference: the active profile's if that wrote one.
Chosen(r) ==
  LET wrote == {c \in CallsOf(r) : calls[c].text # NOTHING}
  IN  IF wrote = {} THEN 0 ELSE CHOOSE c \in wrote : \A d \in wrote : c <= d

\* Mutant: the label is the active profile's in any case.
ActiveLabel(r) == retrievals[r].profile

\* The model that the client is told.
Label(r) == calls[Chosen(r)].llm

Gathered(r) ==
  /\ Ready(r) /\ retrievals[r].state = "waiting"
  /\ IF Chosen(r) = 0
     THEN /\ retrievals' = [retrievals EXCEPT ![r].state = "done"]
          /\ UNCHANGED calls
     ELSE /\ retrievals' = [retrievals EXCEPT
                ![r].state = IF summarization THEN "summarizing" ELSE "done",
                ![r].text = calls[Chosen(r)].llm, ![r].label = Label(r)]
          /\ calls' = IF summarization THEN Append(calls, Call(r, "summary", Label(r))) ELSE calls
  /\ UNCHANGED generator

\* The summary replaces the text, with the same model's name even if it is empty; a
\* call for it that fails leaves neither.
Summarized(r) ==
  /\ Ready(r) /\ retrievals[r].state = "summarizing"
  /\ LET c == CHOOSE c \in CallsOf(r) : calls[c].role = "summary"
     IN  \E label \in {calls[c].llm, NOTHING} :
           /\ calls[c].text # NOTHING => label = calls[c].llm
           /\ retrievals' = [retrievals EXCEPT ![r].state = "done", ![r].text = calls[c].text,
                                               ![r].label = label]
  /\ UNCHANGED <<generator, calls>>

\* The task of the retrieval is cancelled: superseded, or its channel ends.
CancelRetrieval(r) ==
  /\ retrievals[r].state \in {"waiting", "summarizing"}
  /\ retrievals' = [retrievals EXCEPT ![r].state = "cancelled"]
  /\ calls' = [c \in DOMAIN calls |-> IF c \in CallsOf(r) /\ Awaited(c) THEN GiveUp(calls[c]) ELSE calls[c]]
  /\ UNCHANGED generator

\* Time passes when the event loop has nothing to do.
Tick ==
  /\ \E r \in DOMAIN retrievals : retrievals[r].state \in {"waiting", "summarizing"}
  /\ \A r \in DOMAIN retrievals : ~Ready(r) /\ retrievals[r].elapsed < MaxElapsed
  /\ \A c \in DOMAIN calls : Awaited(c) => calls[c].left > 0
  /\ calls' = [c \in DOMAIN calls |->
       IF Awaited(c) THEN [calls[c] EXCEPT !.left = @ - 1] ELSE calls[c]]
  /\ retrievals' = [r \in DOMAIN retrievals |->
       IF retrievals[r].state \in {"waiting", "summarizing"}
       THEN [retrievals[r] EXCEPT !.elapsed = @ + 1] ELSE retrievals[r]]
  /\ UNCHANGED generator

RetrievalNext ==
  \/ \E profile \in IF Multi THEN KnownProfiles \union {UNKNOWN} ELSE {UNKNOWN}, hasTurns \in BOOLEAN : Ask(profile, hasTurns)
  \/ \E c \in DOMAIN calls : RunCall(c) \/ Expire(c) \/ \E writes \in BOOLEAN : Answer(c, writes)
  \/ \E r \in DOMAIN retrievals : Gathered(r) \/ Summarized(r) \/ CancelRetrieval(r)
  \/ Tick

RetrievalSpec == RetrievalInit /\ [][RetrievalNext]_retrievalVars

-------------------------------------------------------------------------------
(* Properties *)

\* What is shown as the source is the model that wrote the reference, and it is the
\* active profile's model whenever that has answered: the default's answer to the same
\* question never takes its place, whichever comes first.
SourceIsTold ==
  \A r \in DOMAIN retrievals :
    retrievals[r].state = "done" =>
      /\ retrievals[r].text # NOTHING => retrievals[r].label = retrievals[r].text
      /\ \A c \in CallsOf(r) :
           calls[c].role = "primary" /\ calls[c].text # NOTHING /\ ~summarization
             => /\ retrievals[r].text = calls[c].llm
                /\ Multi /\ retrievals[r].profile \in KnownProfiles
                     => retrievals[r].text = retrievals[r].profile

\* A retrieval is over when llm_call_timeout has passed, with whatever profile, however
\* many models are asked, and whatever keeps the threads of the executor; and the
\* default was asked if the active profile had no answer.
ReturnsInTime ==
  \A r \in DOMAIN retrievals :
    /\ ~summarization => retrievals[r].elapsed <= LlmTimeout
    /\ retrievals[r].state = "done" /\ retrievals[r].text = NOTHING /\ CallsOf(r) # {} /\ Multi =>
         \E c \in CallsOf(r) : calls[c].llm = DefaultProfileId

-------------------------------------------------------------------------------
(* What the repository's text says and the code does not do *)

\* "Per-LLM ``generate`` deadline" (llm_reference_generator.py:191): the time a call
\* waits for a thread counts too, so that a model may be given up that was never asked.
DeadlineIsTheModels == \A c \in DOMAIN calls : calls[c].state # "dropped" \/ calls[c].left > 0
===============================================================================
