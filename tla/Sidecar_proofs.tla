---------------------------- MODULE Sidecar_proofs -----------------------------
(***************************************************************************)
(* Proofs about Sidecar, for any number of conversations, services and     *)
(* tasks and for every threshold and cooldown.                             *)
(***************************************************************************)
EXTENDS Sidecar, TLAPS

\* The tasks in use are the first "last" ones, and each has a conversation.
Table ==
  /\ \A t \in Tasks : pc[t] = "unused" <=> t > last
  /\ \A t \in Tasks : InUse(t) => task[t].conv \in Convs
  /\ \A t \in Tasks : pc[t] = "handling" => task[t].service \in Services

Base == SidecarTypeOK /\ Table

USE ConstantsAssumption
    DEF Tasks, Closed, Ended, PC, Answer, Urgency, InUse, Unfinished, registryVars, breakerVars

LEMMA InitBase == SidecarInit => Base
  BY DEF SidecarInit, Base, SidecarTypeOK, Table

\* A dispatched task takes the first unused number.
LEMMA DispatchFacts ==
  ASSUME Base, NEW c \in Convs, NEW s \in Services \cup {Unknown}, NEW u \in Urgencies,
         Dispatch(c, s, u)
  PROVE  /\ last \in Nat /\ last + 1 \in Tasks /\ last' = last + 1 /\ last' \in 0 .. MaxTasks
         /\ pc[last + 1] = "unused" /\ pc'[last + 1] = "ready"
         /\ task'[last + 1].conv = c /\ task'[last + 1].turn = turn[c]
         /\ task' \in [Tasks -> [conv : Convs \cup {Unknown}, turn : Nat,
                                 service : Services \cup {Unknown}, urgency : Urgency]]
         /\ pc' \in [Tasks -> PC]
         /\ \A t \in Tasks : t # last + 1 => task'[t] = task[t] /\ pc'[t] = pc[t]
<1>1. last \in Nat /\ last + 1 \in Tasks /\ pc[last + 1] = "unused"
  BY DEF Dispatch, Base, SidecarTypeOK, Table
<1> DEFINE new == [conv |-> c, turn |-> turn[c], service |-> s, urgency |-> u]
<1>2. new \in [conv : Convs \cup {Unknown}, turn : Nat,
               service : Services \cup {Unknown}, urgency : Urgency]
  BY DEF Base, SidecarTypeOK
<1>3. /\ last' = last + 1 /\ task' = [task EXCEPT ![last + 1] = new]
      /\ pc' = [pc EXCEPT ![last + 1] = "ready"] /\ last < MaxTasks
  BY DEF Dispatch
<1>4. new.conv = c /\ new.turn = turn[c]
  OBVIOUS
<1> HIDE DEF new
<1> QED
  BY <1>1, <1>2, <1>3, <1>4 DEF Base, SidecarTypeOK

LEMMA StepBase == Base /\ [SidecarNext]_sidecarVars => Base'
<1> SUFFICES ASSUME Base, [SidecarNext]_sidecarVars PROVE Base'
  OBVIOUS
<1> USE DEF Base, SidecarTypeOK, Table
<1>1. ASSUME NEW c \in Convs, NEW s \in Services \cup {Unknown}, NEW u \in Urgencies,
             Dispatch(c, s, u)
      PROVE  Base'
  <2>1. /\ last \in Nat /\ last + 1 \in Tasks /\ last' = last + 1 /\ last' \in 0 .. MaxTasks
        /\ pc[last + 1] = "unused" /\ pc'[last + 1] = "ready"
        /\ task'[last + 1].conv = c
        /\ task' \in [Tasks -> [conv : Convs \cup {Unknown}, turn : Nat,
                                service : Services \cup {Unknown}, urgency : Urgency]]
        /\ pc' \in [Tasks -> PC]
        /\ \A t \in Tasks : t # last + 1 => task'[t] = task[t] /\ pc'[t] = pc[t]
    BY <1>1, DispatchFacts
  <2>2. /\ live' = [live EXCEPT ![c] = @ \cup {last + 1}]
        /\ UNCHANGED <<turn, gone, cancelling, answer, failures, age>>
    BY <1>1 DEF Dispatch
  <2>3. SidecarTypeOK'
    BY <2>1, <2>2
  <2>4. ASSUME NEW t \in Tasks
        PROVE  /\ pc'[t] = "unused" <=> t > last'
               /\ pc'[t] # "unused" => task'[t].conv \in Convs
               /\ pc'[t] = "handling" => task'[t].service \in Services
    <3>1. CASE t = last + 1
      BY <2>1, <3>1
    <3>2. CASE t # last + 1
      <4>1. t > last <=> t > last'
        BY <2>1, <3>2
      <4> QED
        BY <2>1, <3>2, <4>1
    <3> QED
      BY <3>1, <3>2
  <2> QED
    BY <2>3, <2>4 DEF Table
<1>2. ASSUME NEW c \in Convs, AdvanceTurn(c) PROVE Base'
  BY <1>2 DEF AdvanceTurn, Advance
<1>3. ASSUME NEW c \in Convs, Forget(c) PROVE Base'
  BY <1>3 DEF Forget
<1>4. ASSUME NEW selected \in SUBSET Tasks, RequestCancel(selected) PROVE Base'
  BY <1>4 DEF RequestCancel
<1>5. ASSUME NEW t \in Tasks, TaskStep(t) \/ ServiceReturns(t) PROVE Base'
  <2>1. CASE Refuse(t)
    BY <2>1 DEF Refuse, Deliver
  <2>2. CASE Call(t)
    <3>1. failures' \in [Services -> Nat] /\ age' \in [Services -> {Closed} \cup 0 .. Cooldown]
      BY <2>2 DEF Call, HalfOpen
    <3>2. /\ pc' \in [Tasks -> PC] /\ \A u \in Tasks : u # t => pc'[u] = pc[u]
          /\ pc[t] = "ready" /\ task[t].service \in Services
      BY <2>2 DEF Call
    <3> QED
      BY <2>2, <3>1, <3>2 DEF Call
  <2>3. CASE Timeout(t)
    <3>1. task[t].service \in Services /\ pc[t] = "handling"
      BY <2>3 DEF Timeout
    <3>2. failures' \in [Services -> Nat] /\ age' \in [Services -> {Closed} \cup 0 .. Cooldown]
      BY <2>3, <3>1 DEF Timeout, RecordFailure
    <3>3. /\ pc' \in [Tasks -> PC] /\ answer' \in [Tasks -> Answer]
          /\ pc'[t] \in {"answered", "delivering"}
          /\ \A u \in Tasks : u # t => pc'[u] = pc[u]
      BY <2>3 DEF Timeout, Deliver
    <3> QED
      BY <2>3, <3>1, <3>2, <3>3 DEF Timeout
  <2>4. CASE Answered(t)
    BY <2>4 DEF Answered
  <2>5. CASE Unwind(t)
    BY <2>5 DEF Unwind
  <2>6. CASE Succeed(t)
    <3>1. failures' \in [Services -> Nat] /\ age' \in [Services -> {Closed} \cup 0 .. Cooldown]
      BY <2>6 DEF Succeed, RecordSuccess
    <3>2. /\ pc' \in [Tasks -> PC] /\ answer' \in [Tasks -> Answer]
          /\ pc[t] = "handling" /\ pc'[t] \in {"answered", "delivering"}
          /\ \A u \in Tasks : u # t => pc'[u] = pc[u]
      BY <2>6 DEF Succeed, Deliver
    <3> QED
      BY <2>6, <3>1, <3>2 DEF Succeed
  <2>7. CASE Fail(t)
    <3>1. task[t].service \in Services /\ pc[t] = "handling"
      BY <2>7 DEF Fail
    <3>2. failures' \in [Services -> Nat] /\ age' \in [Services -> {Closed} \cup 0 .. Cooldown]
      BY <2>7, <3>1 DEF Fail, RecordFailure
    <3>3. /\ pc' \in [Tasks -> PC] /\ answer' \in [Tasks -> Answer]
          /\ pc'[t] \in {"answered", "delivering"}
          /\ \A u \in Tasks : u # t => pc'[u] = pc[u]
      BY <2>7 DEF Fail, Deliver
    <3> QED
      BY <2>7, <3>1, <3>2, <3>3 DEF Fail
  <2> QED
    BY <1>5, <2>1, <2>2, <2>3, <2>4, <2>5, <2>6, <2>7 DEF TaskStep, ServiceReturns
<1>6. CASE Tick
  BY <1>6 DEF Tick, IsOpen
<1>7. CASE UNCHANGED sidecarVars
  BY <1>7 DEF sidecarVars
<1> QED
  BY <1>1, <1>2, <1>3, <1>4, <1>5, <1>6, <1>7 DEF SidecarNext, Caller, Cancel, CancelStale, CancelAll

LEMMA SpecBase == SidecarSpec => []Base
  BY InitBase, StepBase, PTL DEF SidecarSpec

\* Every variable of the registry, the breakers and the tasks keeps its type.
THEOREM TypeOKHolds == SidecarSpec => []SidecarTypeOK
  BY SpecBase, PTL DEF Base

-------------------------------------------------------------------------------
(* The circuit breakers *)

\* Whatever late successes and failures arrive after the circuit opened, it is
\* open exactly while the service has failed Threshold times in a row.
THEOREM OpenIffFailingHolds == SidecarSpec => []OpenIffFailing
<1>1. SidecarInit => OpenIffFailing
  BY DEF SidecarInit, OpenIffFailing
<1>2. Base /\ OpenIffFailing /\ [SidecarNext]_sidecarVars => OpenIffFailing'
  <2> SUFFICES ASSUME Base, OpenIffFailing, [SidecarNext]_sidecarVars PROVE OpenIffFailing'
    OBVIOUS
  <2> USE DEF OpenIffFailing, Base, SidecarTypeOK
  <2>1. CASE UNCHANGED breakerVars
    BY <2>1
  <2>2. CASE Tick
    BY <2>2 DEF Tick, IsOpen
  <2>3. ASSUME NEW t \in Tasks, Call(t) PROVE OpenIffFailing'
    BY <2>3 DEF Call, HalfOpen
  <2>4. ASSUME NEW t \in Tasks, Succeed(t) PROVE OpenIffFailing'
    BY <2>4 DEF Succeed, RecordSuccess
  <2>5. ASSUME NEW t \in Tasks, Fail(t) \/ Timeout(t) PROVE OpenIffFailing'
    BY <2>5 DEF Fail, Timeout, RecordFailure
  <2> QED
    BY <2>1, <2>2, <2>3, <2>4, <2>5
    DEF SidecarNext, Caller, Dispatch, AdvanceTurn, Cancel, CancelStale, CancelAll, RequestCancel,
        Forget, TaskStep, ServiceReturns, Refuse, Answered, Unwind, sidecarVars
<1> QED
  BY <1>1, <1>2, SpecBase, PTL DEF SidecarSpec

\* The steps that reach a breaker, and those that call a service.
LEMMA BreakerSteps ==
  ASSUME Base, [SidecarNext]_sidecarVars
  PROVE  \/ UNCHANGED age \/ Tick
         \/ \E t \in Tasks : Call(t) \/ Succeed(t) \/ Fail(t) \/ Timeout(t)
  BY DEF SidecarNext, Caller, Dispatch, AdvanceTurn, Cancel, CancelStale, CancelAll, RequestCancel,
         Forget, TaskStep, ServiceReturns, Refuse, Answered, Unwind, sidecarVars

LEMMA CallingSteps ==
  ASSUME Base, [SidecarNext]_sidecarVars, NEW t \in Tasks, pc'[t] = "handling", pc[t] # "handling"
  PROVE  Call(t)
<1>1. \A k \in Tasks : TaskStep(k) \/ ServiceReturns(k) => k = t /\ Call(k)
  BY DEF TaskStep, ServiceReturns, Refuse, Call, Timeout, Answered, Unwind, Succeed, Fail,
         Deliver, Base, SidecarTypeOK
<1>2. (\E k \in Tasks : TaskStep(k) \/ ServiceReturns(k)) \/ pc' = pc
      \/ \E n \in Nat : pc' = [pc EXCEPT ![n] = "ready"]
  BY DEF SidecarNext, Caller, Dispatch, AdvanceTurn, Cancel, CancelStale, CancelAll, RequestCancel,
         Forget, Tick, sidecarVars, Base, SidecarTypeOK
<1>3. ~(pc' = pc \/ \E n \in Nat : pc' = [pc EXCEPT ![n] = "ready"])
  BY DEF Base, SidecarTypeOK
<1> QED
  BY <1>1, <1>2, <1>3

\* However many conversations share a service, and whatever they do: while its circuit
\* is open and the cooldown runs, nobody calls it, and only an answer to a call that was
\* made before closes the circuit (is_open, record_success, record_failure).
THEOREM CooldownHoldsHolds == SidecarSpec => CooldownHolds
<1> DEFINE Cools(s) ==
      (age[s] # Closed /\ age[s] < Cooldown) =>
        /\ age'[s] = Closed => \E t \in Tasks : /\ pc[t] = "handling" /\ pc'[t] # "handling"
                                                /\ task[t].service = s
        /\ \A t \in Tasks : task[t].service = s /\ pc'[t] = "handling" => pc[t] = "handling"
<1>1. Base /\ [SidecarNext]_sidecarVars => \A s \in Services : Cools(s)
  <2> SUFFICES ASSUME Base, [SidecarNext]_sidecarVars, NEW s \in Services, IsOpen(s)
               PROVE  /\ age'[s] = Closed =>
                           \E t \in Tasks : /\ pc[t] = "handling" /\ pc'[t] # "handling"
                                            /\ task[t].service = s
                      /\ \A t \in Tasks :
                           task[t].service = s /\ pc'[t] = "handling" => pc[t] = "handling"
    BY DEF IsOpen
  <2>1. \A t \in Tasks : task[t].service = s /\ pc'[t] = "handling" => pc[t] = "handling"
    BY CallingSteps DEF Call
  <2>2. ASSUME age'[s] = Closed
        PROVE  \E t \in Tasks : /\ pc[t] = "handling" /\ pc'[t] # "handling"
                                /\ task[t].service = s
    <3>1. age[s] \in 0 .. Cooldown /\ age[s] < Cooldown /\ age \in [Services -> {Closed} \cup 0 .. Cooldown]
      BY DEF Base, SidecarTypeOK, IsOpen
    <3>2. CASE UNCHANGED age
      BY <2>2, <3>1, <3>2
    <3>3. CASE Tick
      BY <2>2, <3>1, <3>3 DEF Tick
    <3>4. ASSUME NEW t \in Tasks, Call(t) PROVE FALSE
      BY <2>2, <3>1, <3>4 DEF Call, HalfOpen
    <3>5. ASSUME NEW t \in Tasks, Fail(t) \/ Timeout(t) PROVE FALSE
      BY <2>2, <3>1, <3>5 DEF Fail, Timeout, RecordFailure
    <3>6. ASSUME NEW t \in Tasks, Succeed(t)
          PROVE  pc[t] = "handling" /\ pc'[t] # "handling" /\ task[t].service = s
      <4>1. task[t].service = s
        BY <2>2, <3>1, <3>6 DEF Succeed, RecordSuccess
      <4> QED
        BY <3>6, <4>1 DEF Succeed, Deliver, Base, SidecarTypeOK
    <3> QED
      BY <3>2, <3>3, <3>4, <3>5, <3>6, BreakerSteps
  <2> QED
    BY <2>1, <2>2
<1> QED
  BY <1>1, SpecBase, PTL DEF SidecarSpec, CooldownHolds

-------------------------------------------------------------------------------
(* Turns *)

\* No task outlives its conversation, and no task comes from a later turn.
Turns ==
  /\ \A t \in Tasks : Unfinished(t) => task[t].conv \notin gone
  /\ \A t \in Tasks : InUse(t) /\ task[t].conv \notin gone => task[t].turn <= turn[task[t].conv]
  /\ \A t \in Tasks, c \in Convs : t \in live[c] => t <= last
  /\ LiveIsCurrent

\* What the task actions leave alone, and which tasks they may finish.
LEMMA TaskStepFacts ==
  ASSUME Base, NEW t \in Tasks, TaskStep(t) \/ ServiceReturns(t)
  PROVE  /\ UNCHANGED <<turn, live, gone, last, task>>
         /\ \A u \in Tasks : (Unfinished(u)' => Unfinished(u)) /\ (InUse(u)' <=> InUse(u))
  BY DEF Base, SidecarTypeOK, TaskStep, ServiceReturns, Refuse, Call, Timeout, Answered, Unwind,
         Succeed, Fail, Deliver

LEMMA StepTurns ==
  ASSUME ~ForgetAnytime, Base, Turns, [SidecarNext]_sidecarVars PROVE Turns'
<1> USE DEF Turns, LiveIsCurrent, IsCurrent
<1>1. ASSUME NEW c \in Convs, NEW s \in Services \cup {Unknown}, NEW u \in Urgencies,
             Dispatch(c, s, u)
      PROVE  Turns'
  <2>1. /\ last \in Nat /\ last + 1 \in Tasks /\ last' = last + 1
        /\ pc[last + 1] = "unused" /\ pc'[last + 1] = "ready"
        /\ task'[last + 1].conv = c /\ task'[last + 1].turn = turn[c]
        /\ \A t \in Tasks : t # last + 1 => task'[t] = task[t] /\ pc'[t] = pc[t]
    BY <1>1, DispatchFacts
  <2>2. /\ live' = [live EXCEPT ![c] = @ \cup {last + 1}]
        /\ UNCHANGED <<turn, gone>> /\ c \notin gone
    BY <1>1 DEF Dispatch
  <2>3. \A d \in Convs : live'[d] = IF d = c THEN live[c] \cup {last + 1} ELSE live[d]
    BY <2>2 DEF Base, SidecarTypeOK
  <2>4. turn[c] \in Nat
    BY DEF Base, SidecarTypeOK
  <2>5. \A t \in Tasks, d \in Convs : t \in live'[d] => t <= last'
    BY <2>1, <2>3
  <2>6. ASSUME NEW t \in Tasks
        PROVE  /\ Unfinished(t)' => task'[t].conv \notin gone'
               /\ InUse(t)' /\ task'[t].conv \notin gone'
                    => task'[t].turn <= turn'[task'[t].conv]
               /\ Unfinished(t)' => (t \in live'[task'[t].conv] <=> IsCurrent(t)')
    <3>1. CASE t = last + 1
      BY <2>1, <2>2, <2>3, <2>4, <3>1
    <3>2. CASE t # last + 1
      BY <2>1, <2>2, <2>3, <3>2 DEF Base, Table
    <3> QED
      BY <3>1, <3>2
  <2> QED
    BY <2>5, <2>6
<1>2. ASSUME NEW c \in Convs, AdvanceTurn(c) PROVE Turns'
  <2>1. /\ \A d \in Convs : d # c => turn'[d] = turn[d] /\ live'[d] = live[d]
        /\ turn'[c] = turn[c] + 1 /\ live'[c] = {} /\ turn[c] \in Nat
        /\ UNCHANGED <<gone, last, task, pc>>
    BY <1>2 DEF AdvanceTurn, Advance, Base, SidecarTypeOK
  <2>2. \A t \in Tasks : task[t].turn \in Nat
    BY DEF Base, SidecarTypeOK
  <2> QED
    BY <2>1, <2>2 DEF Base, Table
<1>3. ASSUME NEW c \in Convs, Forget(c) PROVE Turns'
  <2>1. /\ \A d \in Convs : d # c => turn'[d] = turn[d] /\ live'[d] = live[d]
        /\ live'[c] = {} /\ gone' = gone \cup {c}
        /\ \A t \in Tasks : Unfinished(t) => task[t].conv # c
        /\ UNCHANGED <<last, task, pc>>
    BY <1>3 DEF Forget, Base, SidecarTypeOK
  <2> QED
    BY <2>1 DEF Base, Table
<1>4. ASSUME NEW t \in Tasks, TaskStep(t) \/ ServiceReturns(t) PROVE Turns'
  BY <1>4, TaskStepFacts
<1>5. CASE UNCHANGED <<registryVars, last, task, pc>>
  BY <1>5
<1> QED
  BY <1>1, <1>2, <1>3, <1>4, <1>5
  DEF SidecarNext, Caller, Cancel, CancelStale, CancelAll, RequestCancel, Tick, sidecarVars

LEMMA SpecTurns == ASSUME ~ForgetAnytime PROVE SidecarSpec => []Turns
<1>1. SidecarInit => Turns
  BY DEF SidecarInit, Turns, LiveIsCurrent
<1> QED
  BY <1>1, SpecBase, StepTurns, PTL DEF SidecarSpec

\* If a conversation is forgotten only when its tasks have ended, the registry's
\* set of live tasks and its turn number always agree about what is current.
THEOREM LiveIsCurrentHolds == ~ForgetAnytime => (SidecarSpec => []LiveIsCurrent)
<1> SUFFICES ASSUME ~ForgetAnytime PROVE SidecarSpec => []LiveIsCurrent
  OBVIOUS
<1>1. Turns => LiveIsCurrent
  BY DEF Turns
<1> QED
  BY <1>1, SpecTurns, PTL

\* Under the same condition no result is handed over once a request for a later
\* turn has been dispatched.
THEOREM NewestTurnOnlyHolds == ~ForgetAnytime => (SidecarSpec => NewestTurnOnly)
<1> SUFFICES ASSUME ~ForgetAnytime PROVE SidecarSpec => NewestTurnOnly
  OBVIOUS
<1> DEFINE NewestOnly ==
      \A t \in Tasks :
        answer'[t] = "result" /\ answer[t] = "none" =>
          \A u \in Tasks :
            InUse(u) /\ task[u].conv = task[t].conv => task[u].turn <= task[t].turn
<1>1. Base /\ Turns /\ [SidecarNext]_sidecarVars => NewestOnly
  <2> SUFFICES ASSUME Base, Turns, [SidecarNext]_sidecarVars, NEW t \in Tasks,
                      answer'[t] = "result", answer[t] = "none",
                      NEW u \in Tasks, InUse(u), task[u].conv = task[t].conv
               PROVE  task[u].turn <= task[t].turn
    OBVIOUS
  <2>1. PICK k \in Tasks : Succeed(k)
    BY DEF SidecarNext, Caller, Dispatch, AdvanceTurn, Cancel, CancelStale, CancelAll,
        RequestCancel, Forget, TaskStep, ServiceReturns, Refuse, Call, Timeout, Fail,
        Answered, Unwind, Deliver, Tick, sidecarVars, Base, SidecarTypeOK
  <2>2. k = t /\ IsCurrent(t) /\ Unfinished(t)
    BY <2>1 DEF Succeed, Deliver, Base, SidecarTypeOK
  <2> QED
    BY <2>2 DEF Turns, IsCurrent
<1> QED
  BY <1>1, SpecBase, SpecTurns, PTL DEF SidecarSpec, NewestTurnOnly

===============================================================================
