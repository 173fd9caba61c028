------------------------------- MODULE Sidecar --------------------------------
(***************************************************************************)
(* CognitiveSidecar and TaskRegistry: requests of several conversations    *)
(* are dispatched to services as asyncio tasks, each identified by its     *)
(* conversation, the turn it was asked in and a task number.  A circuit    *)
(* breaker per service, shared by all conversations, suspends a service    *)
(* that keeps failing; a result of a superseded turn is withheld.          *)
(*                                                                         *)
(* One event loop: an action is the code between two awaits.  Time is a    *)
(* count of ticks since a breaker opened, no further than its cooldown.    *)
(***************************************************************************)
EXTENDS Integers, FiniteSets

CONSTANTS
  Convs,           \* conversation ids; every connection has one of its own
  Services,        \* names of the registered services
  MaxTasks,        \* bound on the tasks ever dispatched
  MaxTurn,         \* bound on the turns of a conversation
  Threshold,       \* _CircuitBreaker.failure_threshold
  Cooldown,        \* _CircuitBreaker.cooldown_seconds, in ticks
  Urgencies,       \* the urgency classes in use
  Cancels,         \* which of cancel, cancel_stale and cancel_all are in use
  CancelMayBeLost, \* TRUE on Python 3.11: wait_for may swallow a cancellation
  ForgetAnytime    \* TRUE if a conversation is forgotten while tasks still run

Unknown == "unknown"
Urgency == {"critical", "normal", "background"}

ASSUME ConstantsAssumption ==
  /\ MaxTasks \in Nat /\ MaxTurn \in Nat
  /\ Threshold \in Nat \ {0} /\ Cooldown \in Nat
  /\ Urgencies \subseteq Urgency /\ Cancels \subseteq {"one", "stale", "all"}
  /\ CancelMayBeLost \in BOOLEAN /\ ForgetAnytime \in BOOLEAN
  /\ Unknown \notin Services

Tasks  == 1 .. MaxTasks
Closed == -1
Ended  == {"answered", "cancelled"}
PC     == {"unused", "ready", "handling", "delivering"} \cup Ended
Answer == {"none", "result", "nothing"}

VARIABLES
  turn,       \* TaskRegistry: turn_id of each conversation
  live,       \* TaskRegistry: live_task_ids of each conversation
  gone,       \* conversations whose channel is closed
  last,       \* number of tasks minted so far (_task_id_counter)
  task,       \* the handle of each task, and the urgency of its request
  pc,         \* where the task is suspended
  cancelling, \* tasks whose cancel() has not taken effect yet
  answer,     \* what on_result is called with
  failures,   \* _CircuitBreaker._consecutive_failures
  age         \* ticks since _opened_at, Closed when that is None

registryVars == <<turn, live, gone>>
breakerVars  == <<failures, age>>
sidecarVars == <<registryVars, last, task, pc, cancelling, answer, breakerVars>>

-------------------------------------------------------------------------------
InUse(t)     == pc[t] # "unused"
Unfinished(t) == pc[t] \notin Ended \cup {"unused"}

\* Mutant: turns are not compared.
AnyTurn(t) == TRUE

\* TaskRegistry.is_current
IsCurrent(t) == task[t].turn = turn[task[t].conv]

\* effective_deadline is not None, which also means that wait_for is used.
HasDeadline(t) == task[t].urgency # "background"

SidecarInit ==
  /\ turn = [c \in Convs |-> 0]
  /\ live = [c \in Convs |-> {}]
  /\ gone = {}
  /\ last = 0
  /\ task = [t \in Tasks |->
               [conv |-> Unknown, turn |-> 0, service |-> Unknown, urgency |-> "normal"]]
  /\ pc = [t \in Tasks |-> "unused"]
  /\ cancelling = {}
  /\ answer = [t \in Tasks |-> "none"]
  /\ failures = [s \in Services |-> 0]
  /\ age = [s \in Services |-> Closed]

-------------------------------------------------------------------------------
(* The callers: channels, which dispatch, take turns and close *)

\* dispatch; a "critical" request stands for dispatch_and_wait, whose caller
\* awaits the answer.
Dispatch(c, s, u) ==
  /\ last < MaxTasks /\ c \notin gone
  /\ last' = last + 1
  /\ task' = [task EXCEPT ![last + 1] =
                [conv |-> c, turn |-> turn[c], service |-> s, urgency |-> u]]
  /\ live' = [live EXCEPT ![c] = @ \cup {last + 1}]
  /\ pc' = [pc EXCEPT ![last + 1] = "ready"]
  /\ UNCHANGED <<turn, gone, cancelling, answer, breakerVars>>

\* Mutant: the live tasks of the previous turn are kept.
AdvanceKeeping(c) == turn' = [turn EXCEPT ![c] = @ + 1] /\ UNCHANGED live

\* TaskRegistry.advance_turn
Advance(c) ==
  /\ turn' = [turn EXCEPT ![c] = @ + 1]
  /\ live' = [live EXCEPT ![c] = {}]

AdvanceTurn(c) ==
  /\ turn[c] < MaxTurn /\ c \notin gone
  /\ Advance(c)
  /\ UNCHANGED <<gone, last, task, pc, cancelling, answer, breakerVars>>

\* cancel, cancel_stale and cancel_all request the cancellation of the tasks
\* they select that have not finished.
RequestCancel(selected) ==
  /\ selected # {}
  /\ cancelling' = cancelling \cup selected
  /\ UNCHANGED <<registryVars, last, task, pc, answer, breakerVars>>

Cancel(t) ==
  /\ "one" \in Cancels /\ Unfinished(t)
  /\ RequestCancel({t})

CancelStale(c) ==
  /\ "stale" \in Cancels
  /\ RequestCancel({t \in Tasks :
                      Unfinished(t) /\ task[t].conv = c /\ task[t].turn # turn[c]})

CancelAll(c) ==
  /\ "all" \in Cancels
  /\ RequestCancel({t \in Tasks : Unfinished(t) /\ task[t].conv = c})

\* TaskRegistry.forget_conversation, on teardown.  The entry is created afresh,
\* at turn 0, when a late task asks for it.
Forget(c) ==
  /\ c \notin gone
  /\ ForgetAnytime \/ \A t \in Tasks : Unfinished(t) => task[t].conv # c
  /\ gone' = gone \cup {c}
  /\ turn' = [turn EXCEPT ![c] = 0]
  /\ live' = [live EXCEPT ![c] = {}]
  /\ UNCHANGED <<last, task, pc, cancelling, answer, breakerVars>>

-------------------------------------------------------------------------------
(* The breaker *)

\* Mutant: the cooldown ends a tick early.
IsOpenShort(s) == age[s] # Closed /\ age[s] + 1 < Cooldown

\* is_open, without its side effect.
IsOpen(s) == age[s] # Closed /\ age[s] < Cooldown

\* Mutant: half-opening forgets to reset the failure count.
HalfOpenKeeping(s) == age' = [age EXCEPT ![s] = Closed] /\ UNCHANGED failures

\* The side effect of is_open once the cooldown is over.
HalfOpen(s) ==
  /\ failures' = [failures EXCEPT ![s] = IF age[s] = Closed THEN @ ELSE 0]
  /\ age' = [age EXCEPT ![s] = Closed]

\* Mutant: a success makes up for one failure only.
SuccessForgivesOne(s) ==
  /\ failures' = [failures EXCEPT ![s] = @ - 1]
  /\ age' = [age EXCEPT ![s] = Closed]

RecordSuccess(s) ==
  /\ failures' = [failures EXCEPT ![s] = 0]
  /\ age' = [age EXCEPT ![s] = Closed]

RecordFailure(s) ==
  /\ failures' = [failures EXCEPT ![s] = @ + 1]
  /\ age' = [age EXCEPT ![s] = IF failures[s] + 1 >= Threshold THEN 0 ELSE @]

Tick ==
  /\ \E s \in Services : IsOpen(s)
  /\ age' = [s \in Services |-> IF IsOpen(s) THEN age[s] + 1 ELSE age[s]]
  /\ UNCHANGED <<registryVars, last, task, pc, cancelling, answer, failures>>

-------------------------------------------------------------------------------
(* The tasks: CognitiveSidecar._run *)

\* on_result is called; that of dispatch_and_wait returns at once.
Deliver(t, a) ==
  /\ pc' = [pc EXCEPT ![t] = IF task[t].urgency = "critical" THEN "answered"
                                                           ELSE "delivering"]
  /\ answer' = [answer EXCEPT ![t] = a]

\* Up to the first await: refused, or the service is called.
Refuse(t) ==
  /\ pc[t] = "ready" /\ t \notin cancelling
  /\ task[t].service # Unknown => IsOpen(task[t].service)
  /\ Deliver(t, "nothing")
  /\ UNCHANGED <<registryVars, last, task, cancelling, breakerVars>>

Call(t) ==
  /\ pc[t] = "ready" /\ t \notin cancelling
  /\ task[t].service # Unknown /\ ~IsOpen(task[t].service)
  /\ HalfOpen(task[t].service)
  /\ pc' = [pc EXCEPT ![t] = "handling"]
  /\ UNCHANGED <<registryVars, last, task, cancelling, answer>>

\* A service that answers or fails as its caller is cancelled may win.
NotCancelled(t) == t \in cancelling => CancelMayBeLost /\ HasDeadline(t)

\* The service returns: its result is withheld if the turn has moved on.
Succeed(t) ==
  /\ pc[t] = "handling" /\ NotCancelled(t)
  /\ RecordSuccess(task[t].service)
  /\ Deliver(t, IF IsCurrent(t) THEN "result" ELSE "nothing")
  /\ cancelling' = cancelling \ {t}
  /\ UNCHANGED <<registryVars, last, task>>

\* The service raises an exception.
Fail(t) ==
  /\ pc[t] = "handling" /\ NotCancelled(t)
  /\ RecordFailure(task[t].service)
  /\ Deliver(t, "nothing")
  /\ cancelling' = cancelling \ {t}
  /\ UNCHANGED <<registryVars, last, task>>

\* Mutant: every request waits without a deadline.
NeverTimesOut(t) == FALSE

\* The deadline of the request passes.
TimesOut(t) == HasDeadline(t)

Timeout(t) ==
  /\ pc[t] = "handling" /\ t \notin cancelling
  /\ TimesOut(t)
  /\ RecordFailure(task[t].service)
  /\ Deliver(t, "nothing")
  /\ UNCHANGED <<registryVars, last, task, cancelling>>

\* on_result returns.
Answered(t) ==
  /\ pc[t] = "delivering" /\ t \notin cancelling
  /\ pc' = [pc EXCEPT ![t] = "answered"]
  /\ UNCHANGED <<registryVars, last, task, cancelling, answer, breakerVars>>

\* CancelledError at the await, or before the first step: nothing is delivered.
Unwind(t) ==
  /\ Unfinished(t) /\ t \in cancelling
  /\ pc' = [pc EXCEPT ![t] = "cancelled"]
  /\ cancelling' = cancelling \ {t}
  /\ UNCHANGED <<registryVars, last, task, answer, breakerVars>>

-------------------------------------------------------------------------------
Caller ==
  \/ \E c \in Convs, s \in Services \cup {Unknown}, u \in Urgencies : Dispatch(c, s, u)
  \/ \E c \in Convs : AdvanceTurn(c) \/ CancelStale(c) \/ CancelAll(c) \/ Forget(c)
  \/ \E t \in Tasks : Cancel(t)

\* What asyncio alone does with a task, the service's answer apart.
TaskStep(t) == Refuse(t) \/ Call(t) \/ Timeout(t) \/ Answered(t) \/ Unwind(t)

ServiceReturns(t) == Succeed(t) \/ Fail(t)

SidecarNext ==
  \/ Caller
  \/ \E t \in Tasks : TaskStep(t) \/ ServiceReturns(t)
  \/ Tick

SidecarSpec == SidecarInit /\ [][SidecarNext]_sidecarVars

\* The event loop runs every task that is ready and fires its timers; nothing
\* is assumed of the services, of the callers or of the clock of a breaker.
SidecarFairness == \A t \in Tasks : WF_sidecarVars(TaskStep(t))

-------------------------------------------------------------------------------
(* Properties *)

SidecarTypeOK ==
  /\ turn \in [Convs -> Nat]
  /\ live \in [Convs -> SUBSET Tasks]
  /\ gone \subseteq Convs
  /\ last \in 0 .. MaxTasks
  /\ task \in [Tasks -> [conv : Convs \cup {Unknown}, turn : Nat,
                         service : Services \cup {Unknown}, urgency : Urgency]]
  /\ pc \in [Tasks -> PC]
  /\ cancelling \subseteq Tasks
  /\ answer \in [Tasks -> Answer]
  /\ failures \in [Services -> Nat]
  /\ age \in [Services -> {Closed} \cup 0 .. Cooldown]

\* The circuit of a service is open exactly while it has failed Threshold times
\* in a row, although calls that started before it opened still report their
\* outcome afterwards (record_failure, record_success, is_open).
OpenIffFailing ==
  \A s \in Services : age[s] # Closed <=> failures[s] >= Threshold

\* The registry's two records of what is current agree: a task that still runs is
\* in live_task_ids of its conversation exactly if its turn is the current one
\* (new_task, advance_turn, forget_conversation).
LiveIsCurrent ==
  \A t \in Tasks : Unfinished(t) => (t \in live[task[t].conv] <=> IsCurrent(t))

\* No result is handed over once a request for a later turn of the conversation
\* has been dispatched, however long the service took (is_current in _run).
NewestTurnOnly ==
  [][\A t \in Tasks :
       answer'[t] = "result" /\ answer[t] = "none" =>
         \A u \in Tasks :
           InUse(u) /\ task[u].conv = task[t].conv => task[u].turn <= task[t].turn]_sidecarVars

\* During the cooldown only the success of a call made before the circuit opened
\* closes it; no call is made meanwhile (is_open, record_success).
CooldownHolds ==
  [][\A s \in Services :
       (age[s] # Closed /\ age[s] < Cooldown) =>
         /\ age'[s] = Closed =>
              \E t \in Tasks : /\ pc[t] = "handling" /\ pc'[t] # "handling"
                               /\ task[t].service = s
         /\ \A t \in Tasks : task[t].service = s /\ pc'[t] = "handling" => pc[t] = "handling"]_sidecarVars

\* The requests with a deadline settle whatever their services do: each is answered, or
\* somebody cancelled it (_run, wait_for).  Only MaxTasks are ever made, so that there
\* comes a time when all have.
DeadlineSettles ==
  []<>(\A t \in Tasks : InUse(t) /\ HasDeadline(t) => pc[t] \in Ended)

-------------------------------------------------------------------------------
(* What the repository's text says and the code does not do *)

\* dispatch_and_wait "still returns None rather than raising on failure/timeout/
\* breaker-open" (sidecar.py:168): its caller always gets an answer.
WaiterReturns ==
  \A t \in Tasks : InUse(t) /\ task[t].urgency = "critical" ~> pc[t] = "answered"

===============================================================================
