--------------------------- MODULE Connection_proofs ---------------------------
(***************************************************************************)
(* Of what the connection of a client runs: TypeOK and NoWorkAfterRelease  *)
(* of ChannelLifecycle for any number of spawned tasks, whether            *)
(* cancellations may be lost or not; FlushIsComplete of GradiumSTT, for    *)
(* any amount of audio and any number of flushes; NoDanglingSocket of      *)
(* RemoteSTT, for any number of messages of the service; and OwnTranscript *)
(* of LocalSTT, for frames of any size, chunks of any length, and any      *)
(* delay of the recognizer.                                                *)
(***************************************************************************)
EXTENDS ChannelLifecycle, GradiumSTT, RemoteSTT, LocalSTT, SequenceTheorems,
        WellFoundedInduction, TLAPS

-------------------------------------------------------------------------------
(* The lifecycle of the connection *)

\* The task group is there exactly while run is in its "async with".
Grouped == group \in {"open", "aborting"} <=> phase = "running"

\* All tasks of the connection belong to the group.
Inside == \A t \in Tasks : Live(t) => phase = "running"

\* The slot is held from acquire_slot to release_slot.
Held == phase \notin {"new", "over"} => slot = "held"

Holding == TypeOK /\ Grouped /\ Inside /\ Held

-------------------------------------------------------------------------------
(* Lemmas about the tasks *)

\* A task that ends, or raises, leaves the others as they are.
LEMMA RaiseFacts ==
  ASSUME TypeOK, NEW t \in Tasks, NEW e \in Error, Raise(t, e)
  PROVE  /\ task' \in [Tasks -> {"none", "live", "ended"}]
         /\ cancelling' \subseteq Tasks /\ errors' \subseteq Error
         /\ \A u \in Tasks : Live(u)' => Live(u)
BY DEF TypeOK, Raise, End, Live

LEMMA EndFacts ==
  ASSUME TypeOK, NEW t \in Tasks, End(t)
  PROVE  /\ task' \in [Tasks -> {"none", "live", "ended"}]
         /\ cancelling' \subseteq Tasks
         /\ \A u \in Tasks : Live(u)' => Live(u)
BY DEF TypeOK, End, Live

\* A task is only created in a group that is open; otherwise its creator ends.
LEMMA CreateFacts ==
  ASSUME TypeOK, NEW t \in Tasks, NEW j \in Jobs, NEW k \in Kind, Create(t, j, k)
  PROVE  /\ group \in {"open", "aborting"}
         /\ task' \in [Tasks -> {"none", "live", "ended"}]
         /\ kind' \in [Jobs -> Kind]
         /\ cancelling' \subseteq Tasks /\ errors' \subseteq Error
<1>1. CASE group = "open"
  BY <1>1 DEF TypeOK, Create, Tasks
<1>2. CASE group = "aborting" /\ Raise(t, "other") /\ UNCHANGED kind
  <2>1. "other" \in Error
    BY DEF Error
  <2> QED
    BY <1>2, <2>1, RaiseFacts DEF TypeOK
<1> QED
  BY <1>1, <1>2 DEF Create

-------------------------------------------------------------------------------
(* Steps that leave the handler where it is *)

\* What a step of a task keeps: the connection, the group, and it wakes nobody.
Quiet == UNCHANGED <<connVars, group>> /\ \A u \in Tasks : Live(u)' => Live(u)

LEMMA QuietKeeps ==
  ASSUME Holding, Quiet, TypeOK'
  PROVE  Holding'
BY DEF Holding, Quiet, Grouped, Inside, Held, connVars

\* So does the creation of a task, since the group is still there.
LEMMA CreationKeeps ==
  ASSUME Holding, UNCHANGED <<connVars, group>>, group \in {"open", "aborting"}, TypeOK'
  PROVE  Holding'
BY DEF Holding, Grouped, Inside, Held, connVars, Live

\* A step of the handler outside of run, which no task survives.
LEMMA HandlerKeeps ==
  ASSUME Holding, tasksUnchanged, phase # "running", phase' # "running", TypeOK', Held'
  PROVE  Holding'
BY DEF Holding, tasksUnchanged, Grouped, Inside, Live

-------------------------------------------------------------------------------
(* The inductive invariant *)

LEMMA InitHolding == Init => Holding
BY DEF Init, Holding, TypeOK, Grouped, Inside, Held, Live, Phase, Kind

\* Steps of tasks that end, fail, are cancelled or lose a cancellation.
LEMMA TaskStepsKeep ==
  ASSUME Holding,
         \/ RecvEnds
         \/ \E t \in Tasks : JobStep(t) \/ SendFails(t) \/ LoopFails(t)
         \/ \E j \in Jobs : CancelIsLost(j)
         \/ TriggerCancels
  PROVE  Holding'
<1>0. TypeOK
  BY DEF Holding
<1>1. Recv \in Tasks
  BY DEF Tasks, Loops
<1>2. {"closed", "connection", "other"} \subseteq Error
  BY DEF Error
<1>3. CASE RecvEnds
  <2>1. Raise(Recv, "closed") /\ UNCHANGED <<connVars, group, kind, pending, awaited>>
    BY <1>3 DEF RecvEnds
  <2>2. Quiet /\ TypeOK'
    BY <1>0, <1>1, <1>2, <2>1, RaiseFacts DEF Quiet, TypeOK, connVars
  <2> QED
    BY <2>2, QuietKeeps
<1>4. ASSUME NEW t \in Tasks, SendFails(t) \/ LoopFails(t) PROVE Holding'
  <2>1. PICK e \in {"connection", "other"} :
          Raise(t, e) /\ UNCHANGED <<connVars, group, kind, pending, awaited>>
    BY <1>4 DEF SendFails, LoopFails
  <2>2. Quiet /\ TypeOK'
    BY <1>0, <1>2, <2>1, RaiseFacts DEF Quiet, TypeOK, connVars
  <2> QED
    BY <2>2, QuietKeeps
<1>5. ASSUME NEW t \in Tasks, JobStep(t) PROVE Holding'
  <2>1. End(t) /\ UNCHANGED <<connVars, group, kind, pending, awaited, errors>>
    BY <1>5 DEF JobStep, Unwind, JobEnds
  <2>2. Quiet /\ TypeOK'
    BY <1>0, <2>1, EndFacts DEF Quiet, TypeOK, connVars
  <2> QED
    BY <2>2, QuietKeeps
<1>6. ASSUME NEW j \in Jobs, CancelIsLost(j) PROVE Holding'
  <2>1. Quiet /\ TypeOK'
    BY <1>0, <1>6 DEF CancelIsLost, Quiet, TypeOK, connVars, Live
  <2> QED
    BY <2>1, QuietKeeps
<1>7. CASE TriggerCancels
  <2>1. pending \in Jobs /\ pending \in Tasks
    BY <1>0, <1>7 DEF TypeOK, TriggerCancels, Tasks
  <2>2. Quiet /\ TypeOK'
    BY <1>0, <1>7, <2>1 DEF TriggerCancels, Quiet, TypeOK, connVars, Live
  <2> QED
    BY <2>2, QuietKeeps
<1> QED
  BY <1>3, <1>4, <1>5, <1>6, <1>7

\* Steps that create a task.
LEMMA CreationsKeep ==
  ASSUME Holding, NEW j \in Jobs,
         \/ \E t \in Tasks : Spawn(t, j)
         \/ \E k \in Kind : Trigger(j, k) \/ TriggerResumes(j, k)
  PROVE  Holding'
<1>0. TypeOK
  BY DEF Holding
<1>1. Out \in Tasks /\ "bare" \in Kind
  BY DEF Tasks, Loops, Kind
<1>2. PICK t \in Tasks, k \in Kind : Create(t, j, k)
  BY <1>1 DEF Spawn, Trigger, TriggerResumes
<1>3. UNCHANGED <<connVars, group>>
  BY DEF Spawn, Trigger, TriggerResumes
<1>4. pending' \in Jobs \cup {None} /\ awaited' \in Jobs \cup {None}
  BY <1>0 DEF TypeOK, Spawn, Trigger, TriggerResumes
<1>5. group \in {"open", "aborting"} /\ TypeOK'
  BY <1>0, <1>2, <1>3, <1>4, CreateFacts DEF TypeOK, connVars
<1> QED
  BY <1>3, <1>5, CreationKeeps

\* Steps of the handler, of the client and of the group.
LEMMA HandlerStepsKeep ==
  ASSUME Holding, ClientLeaves \/ Reject \/ Acquire \/ ServerStops \/ Handler
  PROVE  Holding'
<1> USE DEF Holding
<1>1. CASE ClientLeaves
  BY <1>1 DEF ClientLeaves, tasksUnchanged, TypeOK, Grouped, Inside, Held, Live
<1>2. CASE Reject \/ Acquire \/ StartUp \/ StartUpFails
  <2>1. TypeOK'
    BY <1>2 DEF Reject, Acquire, StartUp, StartUpFails, tasksUnchanged, TypeOK, Phase
  <2>2. Held'
    BY <1>2 DEF Reject, Acquire, StartUp, StartUpFails, Held
  <2>3. tasksUnchanged /\ phase # "running" /\ phase' # "running"
    BY <1>2 DEF Reject, Acquire, StartUp, StartUpFails
  <2> QED
    BY <2>1, <2>2, <2>3, HandlerKeeps
<1>3. CASE SttShutDown \/ Release
  <2>1. TypeOK'
    BY <1>3 DEF SttShutDown, Release, tasksUnchanged, TypeOK, Phase
  <2>2. Held'
    BY <1>3 DEF SttShutDown, Release, Held
  <2>3. tasksUnchanged /\ phase # "running" /\ phase' # "running"
    BY <1>3 DEF SttShutDown, Release
  <2> QED
    BY <2>1, <2>2, <2>3, HandlerKeeps
<1>4. CASE RagExit
  BY <1>4 DEF RagExit, TypeOK, Grouped, Inside, Held, Live, Phase
<1>5. CASE Run
  BY <1>5 DEF Run, TypeOK, Grouped, Inside, Held, Live, Phase
<1>6. CASE Abort \/ ServerStops
  BY <1>6 DEF Abort, ServerStops, connVars, TypeOK, Grouped, Inside, Held, Live
<1>7. CASE Join
  BY <1>7 DEF Join, Joined, TypeOK, Grouped, Inside, Held, Live, Phase
<1> QED
  BY <1>1, <1>2, <1>3, <1>4, <1>5, <1>6, <1>7 DEF Handler

LEMMA NextHolding == Holding /\ [Next]_vars => Holding'
<1> SUFFICES ASSUME Holding, [Next]_vars PROVE Holding'
  OBVIOUS
<1>1. CASE UNCHANGED vars
  BY <1>1 DEF vars, connVars, Holding, TypeOK, Grouped, Inside, Held, Live
<1>2. CASE Next
  <2>1. CASE ClientLeaves \/ Reject \/ Acquire \/ ServerStops \/ Handler
    BY <2>1, HandlerStepsKeep
  <2>2. CASE \/ RecvEnds \/ TriggerCancels
             \/ \E t \in Tasks : JobStep(t) \/ SendFails(t) \/ LoopFails(t)
             \/ \E j \in Jobs : CancelIsLost(j)
    BY <2>2, TaskStepsKeep
  <2>3. CASE \/ Resume
             \/ \E t \in Tasks, j \in Jobs : IsNext(j) /\ Spawn(t, j)
             \/ \E j \in Jobs, k \in Kind : IsNext(j) /\ Trigger(j, k)
    BY <2>3, CreationsKeep DEF Resume
  <2> QED
    BY <1>2, <2>1, <2>2, <2>3 DEF Next
<1> QED
  BY <1>1, <1>2

-------------------------------------------------------------------------------
(* Theorems *)

\* Type correctness: in particular a cancellation is only ever requested of a
\* task of the connection, never of the None of RAGManager._pending_task.
THEOREM TypeOKHolds == Spec => []TypeOK
<1>1. Holding => TypeOK
  BY DEF Holding
<1> QED
  BY InitHolding, NextHolding, <1>1, PTL DEF Spec

\* However many tasks the loops have spawned, and whichever of them swallow a
\* cancellation, none is alive once the slot may have another occupant
\* (Channel.run, __aexit__).
THEOREM NoWorkAfterReleaseHolds == Spec => []NoWorkAfterRelease
<1>1. Holding => NoWorkAfterRelease
  BY DEF Holding, Inside, Held, NoWorkAfterRelease
<1> QED
  BY InitHolding, NextHolding, <1>1, PTL DEF Spec

-------------------------------------------------------------------------------
(* The speech-to-text services *)

-------------------------------------------------------------------------------
(* A stream of numbers with flushes among them *)

HasFlush(q) == \E i \in DOMAIN q : q[i] = FLUSH

\* What comes after a flush is greater than n; no second flush is.
Behind(q, n) == \A i, k \in DOMAIN q : i < k /\ q[i] = FLUSH => q[k] > n

\* The numbers of q are those above low up to high, in their order.
Ascends(q, low, high) ==
  /\ \A i \in DOMAIN q : q[i] # FLUSH => low < q[i] /\ q[i] <= high
  /\ \A i, k \in DOMAIN q : i < k /\ q[i] # FLUSH /\ q[k] # FLUSH => q[i] < q[k]
  /\ \A n \in low + 1 .. high : \E i \in DOMAIN q : q[i] = n

\* The elements of a sequence with one more, and with one less.
LEMMA AppendAt ==
  ASSUME NEW q \in Seq(Nat), NEW x \in Nat
  PROVE  /\ Append(q, x) \in Seq(Nat) /\ DOMAIN Append(q, x) = 1 .. Len(q) + 1
         /\ DOMAIN q = 1 .. Len(q) /\ Len(q) \in Nat
         /\ \A i \in DOMAIN q : Append(q, x)[i] = q[i]
         /\ Append(q, x)[Len(q) + 1] = x
OBVIOUS

LEMMA TailAt ==
  ASSUME NEW q \in Seq(Nat), q # <<>>
  PROVE  /\ Tail(q) \in Seq(Nat) /\ DOMAIN Tail(q) = 1 .. Len(q) - 1
         /\ DOMAIN q = 1 .. Len(q) /\ Len(q) \in Nat /\ Len(q) >= 1 /\ q[1] \in Nat
         /\ \A i \in DOMAIN Tail(q) : Tail(q)[i] = q[i + 1] /\ i + 1 \in DOMAIN q
OBVIOUS

LEMMA TailHas ==
  ASSUME NEW q \in Seq(Nat), q # <<>>
  PROVE  /\ \A i \in DOMAIN q : i = 1 \/ \E k \in DOMAIN Tail(q) : Tail(q)[k] = q[i]
         /\ \A k \in DOMAIN Tail(q) : \E i \in DOMAIN q : Tail(q)[k] = q[i]
<1> DEFINE rest == Tail(q)
<1>1. /\ DOMAIN rest = 1 .. Len(q) - 1 /\ DOMAIN q = 1 .. Len(q) /\ Len(q) \in Nat
      /\ \A i \in DOMAIN rest : rest[i] = q[i + 1] /\ i + 1 \in DOMAIN q
  BY TailAt
<1> HIDE DEF rest
<1>2. \A i \in DOMAIN q : i = 1 \/ (i - 1 \in DOMAIN rest /\ rest[i - 1] = q[i])
  BY <1>1
<1>3. \A k \in DOMAIN rest : \E i \in DOMAIN q : rest[k] = q[i]
  BY <1>1
<1> QED
  BY <1>2, <1>3 DEF rest

LEMMA AppendFacts ==
  ASSUME NEW q \in Seq(Nat), NEW x \in Nat, NEW n \in Nat
  PROVE  /\ HasFlush(Append(q, x)) => HasFlush(q) \/ x = FLUSH
         /\ Behind(q, n) /\ x > n => Behind(Append(q, x), n)
         /\ ~HasFlush(q) => Behind(Append(q, x), n)
<1> USE AppendAt
<1>1. HasFlush(Append(q, x)) => HasFlush(q) \/ x = FLUSH
  BY DEF HasFlush
<1>2. Behind(q, n) /\ x > n => Behind(Append(q, x), n)
  BY DEF Behind
<1>3. ~HasFlush(q) => Behind(Append(q, x), n)
  BY DEF Behind, HasFlush
<1> QED
  BY <1>1, <1>2, <1>3

LEMMA TailFacts ==
  ASSUME NEW q \in Seq(Nat), q # <<>>, NEW n \in Nat
  PROVE  /\ HasFlush(Tail(q)) => HasFlush(q)
         /\ Behind(q, n) => Behind(Tail(q), n)
         /\ Behind(q, n) /\ q[1] = FLUSH =>
              ~HasFlush(Tail(q)) /\ \A i \in DOMAIN Tail(q) : Tail(q)[i] > n
<1> USE TailAt
<1>1. HasFlush(Tail(q)) => HasFlush(q)
  BY DEF HasFlush
<1>2. Behind(q, n) => Behind(Tail(q), n)
  BY DEF Behind
<1>3. ASSUME Behind(q, n), q[1] = FLUSH, NEW i \in DOMAIN Tail(q) PROVE Tail(q)[i] > n
  BY <1>3 DEF Behind
<1> QED
  BY <1>1, <1>2, <1>3 DEF HasFlush, FLUSH

\* One more piece of audio, a flush behind it, and what is taken from the front.
LEMMA AscendsAppend ==
  ASSUME NEW q \in Seq(Nat), NEW low \in Nat, NEW high \in Nat, low <= high, Ascends(q, low, high)
  PROVE  Ascends(Append(q, high + 1), low, high + 1) /\ Ascends(Append(q, FLUSH), low, high)
<1>1. high + 1 \in Nat /\ FLUSH \in Nat
  BY DEF FLUSH
<1>2. Ascends(Append(q, high + 1), low, high + 1)
  <2> DEFINE more == Append(q, high + 1)
  <2>1. /\ DOMAIN more = 1 .. Len(q) + 1 /\ DOMAIN q = 1 .. Len(q) /\ Len(q) \in Nat
        /\ \A i \in DOMAIN q : more[i] = q[i]
        /\ more[Len(q) + 1] = high + 1
    BY <1>1, AppendAt
  <2> HIDE DEF more
  <2>2. \A i \in DOMAIN more : i \in DOMAIN q \/ i = Len(q) + 1
    BY <2>1
  <2>3. \A i \in DOMAIN q : q[i] \in Nat
    OBVIOUS
  <2>4. \A i \in DOMAIN more : more[i] # FLUSH => low < more[i] /\ more[i] <= high + 1
    BY <2>1, <2>2, <2>3 DEF Ascends
  <2>5. \A i, k \in DOMAIN more :
          i < k /\ more[i] # FLUSH /\ more[k] # FLUSH => more[i] < more[k]
    <3> SUFFICES ASSUME NEW i \in DOMAIN more, NEW k \in DOMAIN more, i < k,
                        more[i] # FLUSH, more[k] # FLUSH
                 PROVE  more[i] < more[k]
      OBVIOUS
    <3>1. i \in DOMAIN q /\ more[i] = q[i]
      BY <2>1, <2>2
    <3>2. CASE k \in DOMAIN q
      BY <2>1, <3>1, <3>2 DEF Ascends
    <3>3. CASE k = Len(q) + 1
      <4>1. q[i] <= high /\ more[k] = high + 1
        BY <2>1, <3>1, <3>3 DEF Ascends
      <4> QED
        BY <2>3, <3>1, <4>1
    <3> QED
      BY <2>2, <3>2, <3>3
  <2>6. ASSUME NEW n \in low + 1 .. high + 1 PROVE \E i \in DOMAIN more : more[i] = n
    <3>1. CASE n = high + 1
      BY <2>1, <3>1
    <3>2. CASE n \in low + 1 .. high
      <4>1. PICK i \in DOMAIN q : q[i] = n
        BY <3>2 DEF Ascends
      <4>2. i \in DOMAIN more /\ more[i] = n
        BY <2>1, <4>1
      <4> QED
        BY <4>2
    <3> QED
      BY <3>1, <3>2
  <2> QED
    BY <2>4, <2>5, <2>6 DEF Ascends, more
<1>3. Ascends(Append(q, FLUSH), low, high)
  <2> DEFINE more == Append(q, FLUSH)
  <2>1. /\ DOMAIN more = 1 .. Len(q) + 1 /\ DOMAIN q = 1 .. Len(q) /\ Len(q) \in Nat
        /\ \A i \in DOMAIN q : more[i] = q[i]
        /\ more[Len(q) + 1] = FLUSH
    BY <1>1, AppendAt
  <2> HIDE DEF more
  <2>2. \A i \in DOMAIN more : i \in DOMAIN q \/ i = Len(q) + 1
    BY <2>1
  <2>3. \A i \in DOMAIN more : more[i] # FLUSH => low < more[i] /\ more[i] <= high
    BY <2>1, <2>2 DEF Ascends
  <2>4. \A i, k \in DOMAIN more :
          i < k /\ more[i] # FLUSH /\ more[k] # FLUSH => more[i] < more[k]
    BY <2>1, <2>2 DEF Ascends
  <2>5. \A n \in low + 1 .. high : \E i \in DOMAIN more : more[i] = n
    <3>1. \A i \in DOMAIN q : i \in DOMAIN more /\ more[i] = q[i]
      BY <2>1
    <3> QED
      BY <3>1 DEF Ascends
  <2> QED
    BY <2>3, <2>4, <2>5 DEF Ascends, more
<1> QED
  BY <1>2, <1>3

LEMMA AscendsTail ==
  ASSUME NEW q \in Seq(Nat), q # <<>>, NEW low \in Nat, NEW high \in Nat, Ascends(q, low, high)
  PROVE  /\ q[1] = FLUSH => Ascends(Tail(q), low, high)
         /\ q[1] # FLUSH => /\ low < q[1] /\ q[1] <= high
                            /\ Ascends(Tail(q), q[1], high)
<1> DEFINE rest == Tail(q)
<1>1. /\ DOMAIN rest = 1 .. Len(q) - 1 /\ DOMAIN q = 1 .. Len(q) /\ Len(q) \in Nat /\ Len(q) >= 1
      /\ \A i \in DOMAIN rest : rest[i] = q[i + 1] /\ i + 1 \in DOMAIN q
      /\ \A i \in DOMAIN q : q[i] \in Nat
  BY TailAt
<1> HIDE DEF rest
<1>2. \A i \in DOMAIN q : i = 1 \/ (i - 1 \in DOMAIN rest /\ rest[i - 1] = q[i])
  BY <1>1
<1>3. \A i, k \in DOMAIN rest : i < k /\ rest[i] # FLUSH /\ rest[k] # FLUSH => rest[i] < rest[k]
  <2> SUFFICES ASSUME NEW i \in DOMAIN rest, NEW k \in DOMAIN rest, i < k,
                      rest[i] # FLUSH, rest[k] # FLUSH
               PROVE  rest[i] < rest[k]
    OBVIOUS
  <2>1. i + 1 \in DOMAIN q /\ k + 1 \in DOMAIN q /\ i + 1 < k + 1
    BY <1>1
  <2> QED
    BY <1>1, <2>1 DEF Ascends
<1>4. ASSUME NEW least \in Nat, q[1] = FLUSH => least = low, q[1] # FLUSH => least = q[1],
             NEW n \in least + 1 .. high, low <= least
      PROVE  \E i \in DOMAIN rest : rest[i] = n
  <2>1. n \in low + 1 .. high
    BY <1>4
  <2>2. PICK i \in DOMAIN q : q[i] = n
    BY <2>1 DEF Ascends
  <2>3. i # 1
    BY <1>4, <2>2 DEF FLUSH
  <2> QED
    BY <1>2, <2>2, <2>3
<1>5. CASE q[1] = FLUSH
  <2>1. \A i \in DOMAIN rest : rest[i] # FLUSH => low < rest[i] /\ rest[i] <= high
    BY <1>1 DEF Ascends
  <2>2. \A n \in low + 1 .. high : \E i \in DOMAIN rest : rest[i] = n
    BY <1>4, <1>5
  <2> QED
    BY <1>3, <1>5, <2>1, <2>2 DEF Ascends, rest
<1>6. CASE q[1] # FLUSH
  <2>1. 1 \in DOMAIN q /\ q[1] \in Nat /\ low < q[1] /\ q[1] <= high
    BY <1>1, <1>6 DEF Ascends
  <2>2. \A i \in DOMAIN rest : rest[i] # FLUSH => q[1] < rest[i] /\ rest[i] <= high
    <3>1. \A i \in DOMAIN rest : 1 < i + 1
      BY <1>1
    <3> QED
      BY <1>1, <1>6, <2>1, <3>1 DEF Ascends
  <2>3. \A n \in q[1] + 1 .. high : \E i \in DOMAIN rest : rest[i] = n
    BY <1>4, <1>6, <2>1
  <2> QED
    BY <1>3, <1>6, <2>1, <2>2, <2>3 DEF Ascends, rest
<1> QED
  BY <1>5, <1>6

\* Two sequences, the second of which is behind the first.
LEMMA Associative == \A a, b, c \in Seq(Nat) : (a \o b) \o c = a \o (b \o c)
BY ConcatAssociative

LEMMA JoinFacts ==
  ASSUME NEW s \in Seq(Nat), NEW q \in Seq(Nat)
  PROVE  /\ s \o q \in Seq(Nat)
         /\ \A x \in Nat : s \o Append(q, x) = Append(s \o q, x)
         /\ q # <<>> => /\ q[1] \in Nat /\ Tail(q) \in Seq(Nat)
                        /\ Append(s, q[1]) \o Tail(q) = s \o q
         /\ s # <<>> => /\ s \o q # <<>> /\ (s \o q)[1] = s[1]
                        /\ s[1] \in Nat /\ Tail(s) \in Seq(Nat)
                        /\ Tail(s \o q) = Tail(s) \o q
<1>1. s \o q \in Seq(Nat) /\ Len(s \o q) = Len(s) + Len(q)
      /\ \A i \in 1 .. Len(s) + Len(q) : (s \o q)[i] = IF i <= Len(s) THEN s[i] ELSE q[i - Len(s)]
  BY ConcatProperties
<1>2. ASSUME NEW x \in Nat PROVE s \o Append(q, x) = Append(s \o q, x)
  <2>1. Append(q, x) = q \o <<x>> /\ Append(s \o q, x) = (s \o q) \o <<x>>
    BY <1>1, AppendIsConcat
  <2>2. <<x>> \in Seq(Nat)
    OBVIOUS
  <2>3. (s \o q) \o <<x>> = s \o (q \o <<x>>)
    BY <2>2, Associative, Zenon
  <2> QED
    BY <2>1, <2>3, Zenon
<1>3. ASSUME q # <<>>
      PROVE  q[1] \in Nat /\ Tail(q) \in Seq(Nat) /\ Append(s, q[1]) \o Tail(q) = s \o q
  <2>1. q[1] \in Nat /\ Tail(q) \in Seq(Nat) /\ <<q[1]>> \in Seq(Nat)
    BY <1>3, TailAt
  <2>2. Append(s, q[1]) = s \o <<q[1]>>
    BY <2>1, AppendIsConcat
  <2>3. <<q[1]>> \o Tail(q) = q
    BY <1>3, <2>1
  <2>4. (s \o <<q[1]>>) \o Tail(q) = s \o (<<q[1]>> \o Tail(q))
    BY <2>1, Associative, Zenon
  <2> QED
    BY <2>1, <2>2, <2>3, <2>4, Zenon
<1>4. ASSUME s # <<>>
      PROVE  /\ s \o q # <<>> /\ (s \o q)[1] = s[1] /\ s[1] \in Nat /\ Tail(s) \in Seq(Nat)
             /\ Tail(s \o q) = Tail(s) \o q
  <2>1. s[1] \in Nat /\ Tail(s) \in Seq(Nat) /\ Len(s) \in Nat /\ Len(s) >= 1
        /\ Len(Tail(s)) = Len(s) - 1 /\ Len(q) \in Nat
    BY <1>4, TailAt
  <2>2. Len(s \o q) >= 1 /\ s \o q # <<>> /\ (s \o q)[1] = s[1]
    BY <1>1, <2>1
  <2> DEFINE one == Tail(s \o q)
             two == Tail(s) \o q
  <2>3. one \in Seq(Nat) /\ Len(one) = Len(s) + Len(q) - 1
        /\ \A i \in 1 .. Len(s) + Len(q) - 1 : one[i] = (s \o q)[i + 1]
    BY <1>1, <2>2, HeadTailProperties
  <2>4. two \in Seq(Nat) /\ Len(two) = Len(s) + Len(q) - 1
        /\ \A i \in 1 .. Len(s) + Len(q) - 1 :
             two[i] = IF i <= Len(s) - 1 THEN Tail(s)[i] ELSE q[i - (Len(s) - 1)]
    BY <2>1, ConcatProperties
  <2>5. \A i \in 1 .. Len(s) - 1 : Tail(s)[i] = s[i + 1]
    BY <1>4, <2>1, HeadTailProperties
  <2> HIDE DEF one, two
  <2>6. ASSUME NEW i \in 1 .. Len(s) + Len(q) - 1 PROVE one[i] = two[i]
    <3>1. i + 1 \in 1 .. Len(s) + Len(q)
      BY <2>1
    <3>2. one[i] = IF i + 1 <= Len(s) THEN s[i + 1] ELSE q[i + 1 - Len(s)]
      BY <1>1, <2>3, <3>1
    <3>3. CASE i + 1 <= Len(s)
      <4>1. i \in 1 .. Len(s) - 1
        BY <2>1, <3>3
      <4> QED
        BY <2>4, <2>5, <3>2, <3>3, <4>1
    <3>4. CASE ~(i + 1 <= Len(s))
      <4>1. ~(i <= Len(s) - 1) /\ i + 1 - Len(s) = i - (Len(s) - 1)
        BY <2>1, <3>4
      <4> QED
        BY <2>4, <3>2, <3>4, <4>1
    <3> QED
      BY <3>3, <3>4
  <2>7. one = two
    BY <2>3, <2>4, <2>6, SeqEqual
  <2> QED
    BY <2>1, <2>2, <2>7 DEF one, two
<1> QED
  BY <1>1, <1>2, <1>3, <1>4

-------------------------------------------------------------------------------
(* The flow of audio and of flushes *)

\* Until the channel or its iterator ends.
Flowing == channel \in {"entering", "running"} /\ iterator \in {"none", "reading", "handling"}

\* What is on the way to the service, or is there and is not recognized.
Pipe == spoken.in \o audioQueue

Types ==
  /\ spoken \in [state : {"none", "open", "broken"}, in : Seq(Nat), out : Seq(Nat),
                 received : Nat, said : Nat]
  /\ audioQueue \in Seq(Nat) /\ tokens \in Nat /\ asking \in BOOLEAN /\ sounds \in Nat
  /\ asked \in [sounds : Nat, count : Nat] /\ asked.sounds <= sounds
  /\ words \in [said : SUBSET Nat, handled : SUBSET Nat]

Stages ==
  /\ iterator = "none" => pusher = "none" /\ spoken.state = "none"
  /\ iterator # "none" => spoken.state # "none"
  /\ iterator = "handling" => spoken.out # <<>> /\ spoken.out[1] # FLUSH

\* As long as the connection stands: what was sent and is not recognized is in the pipe,
\* in order, and so is a flush that is not answered, behind the audio before it.
Supplied ==
  spoken.state # "broken" =>
    /\ Ascends(Pipe, spoken.received, sounds) /\ spoken.received <= sounds
    /\ Behind(Pipe, asked.sounds)
    /\ HasFlush(Pipe) => asking /\ tokens = 0 /\ ~HasFlush(spoken.out)

\* There is an answer only to the flush that is asked for, behind the words before it.
Answered ==
  /\ ~asking => tokens = 0 /\ ~HasFlush(spoken.out)
  /\ tokens > 0 => /\ tokens = 1 /\ spoken.said >= asked.sounds /\ ~HasFlush(spoken.out)
                   /\ \A i \in DOMAIN spoken.out : spoken.out[i] > asked.sounds
  /\ HasFlush(spoken.out) => tokens = 0 /\ spoken.said >= asked.sounds
  /\ Behind(spoken.out, asked.sounds)
  /\ FLUSH \notin words.said
  /\ \A n \in words.said : n \in words.handled \/ \E i \in DOMAIN spoken.out : spoken.out[i] = n

Flow == Types /\ Stages /\ Supplied /\ Answered

IfFlowing == Flowing => Flow

LEMMA InitFlow == GradiumInit => Flow
<1> SUFFICES ASSUME GradiumInit PROVE Flow
  OBVIOUS
<1>1. <<>> \in Seq(Nat) /\ DOMAIN <<>> = {} /\ 0 \in Nat
  OBVIOUS
<1>2. /\ spoken.state = "none" /\ spoken.in = <<>> /\ spoken.out = <<>> /\ spoken.received = 0
      /\ spoken.said = 0 /\ audioQueue = <<>> /\ sounds = 0 /\ asked.sounds = 0
      /\ words.said = {}
  BY DEF GradiumInit
<1>3. Pipe = <<>>
  BY <1>1, <1>2, ConcatEmptySeq DEF Pipe
<1>4. Types
  <2>1. spoken \in [state : {"none", "open", "broken"}, in : Seq(Nat), out : Seq(Nat),
                     received : Nat, said : Nat]
    BY <1>1 DEF GradiumInit
  <2>2. words \in [said : SUBSET Nat, handled : SUBSET Nat]
    BY DEF GradiumInit
  <2>3. asked \in [sounds : Nat, count : Nat] /\ asked.sounds <= sounds
    BY DEF GradiumInit
  <2>4. tokens \in Nat /\ asking \in BOOLEAN /\ sounds \in Nat
    BY DEF GradiumInit
  <2> QED
    BY <1>1, <1>2, <2>1, <2>2, <2>3, <2>4 DEF Types
<1>5. Stages
  BY DEF GradiumInit, Stages
<1>6. ~HasFlush(<<>>) /\ Behind(<<>>, 0) /\ Ascends(<<>>, 0, 0)
  BY <1>1 DEF HasFlush, Behind, Ascends
<1>7. Supplied
  BY <1>2, <1>3, <1>6 DEF Supplied
<1>8. Answered
  BY <1>1, <1>2, <1>6 DEF Answered, GradiumInit
<1> QED
  BY <1>4, <1>5, <1>7, <1>8 DEF Flow

\* The parts of the session, and of the record of what was asked.
LEMMA Parts ==
  ASSUME Types
  PROVE  /\ spoken.state \in {"none", "open", "broken"} /\ spoken.in \in Seq(Nat)
         /\ spoken.out \in Seq(Nat) /\ spoken.received \in Nat /\ spoken.said \in Nat
         /\ asked.sounds \in Nat /\ asked.count \in Nat
         /\ words.said \subseteq Nat /\ words.handled \subseteq Nat
         /\ Pipe \in Seq(Nat)
<1>1. spoken.in \in Seq(Nat) /\ audioQueue \in Seq(Nat)
  BY DEF Types
<1>2. Pipe \in Seq(Nat)
  BY <1>1, JoinFacts DEF Pipe
<1> QED
  BY <1>2 DEF Types

-------------------------------------------------------------------------------
(* One lemma for each place where something enters or leaves the flow *)

LEMMA SendAudioFlow == ASSUME Flow, SendAudioGradium PROVE Flow'
<1> USE Parts DEF Flow
<1>1. sounds + 1 \in Nat /\ sounds' = sounds + 1 /\ audioQueue' = Append(audioQueue, sounds + 1)
      /\ UNCHANGED <<spoken, tokens, asking, asked, words, iterator, pusher>>
  BY DEF SendAudioGradium, Types
<1>2. Pipe' = Append(Pipe, sounds + 1)
  <2>1. spoken.in \in Seq(Nat) /\ audioQueue \in Seq(Nat)
    BY DEF Types
  <2>2. spoken.in \o Append(audioQueue, sounds + 1) = Append(spoken.in \o audioQueue, sounds + 1)
    <3>1. \A x \in Nat : spoken.in \o Append(audioQueue, x) = Append(spoken.in \o audioQueue, x)
      BY <2>1, JoinFacts
    <3> QED
      BY <1>1, <3>1, Zenon
  <2>3. spoken'.in = spoken.in
    BY <1>1
  <2> QED
    BY <1>1, <2>2, <2>3, Zenon DEF Pipe
<1>3. Types'
  BY <1>1 DEF Types
<1>4. Supplied'
  <2> SUFFICES ASSUME spoken.state # "broken"
               PROVE  /\ Ascends(Pipe', spoken.received, sounds + 1) /\ spoken.received <= sounds + 1
                      /\ Behind(Pipe', asked.sounds)
                      /\ HasFlush(Pipe') => asking /\ tokens = 0 /\ ~HasFlush(spoken.out)
    BY <1>1 DEF Supplied
  <2>1. Ascends(Pipe', spoken.received, sounds + 1)
    BY <1>2, AscendsAppend DEF Supplied, Types
  <2>2. Behind(Pipe', asked.sounds)
    BY <1>1, <1>2, AppendFacts DEF Supplied, Types
  <2>3. HasFlush(Pipe') => HasFlush(Pipe)
    BY <1>1, <1>2, AppendFacts DEF FLUSH, Types
  <2> QED
    BY <2>1, <2>2, <2>3 DEF Supplied, Types
<1> QED
  BY <1>1, <1>3, <1>4 DEF Stages, Answered

LEMMA FlushFlow == ASSUME Flow, Flush PROVE Flow'
<1> USE Parts DEF Flow
<1>1. /\ ~asking /\ asking' = TRUE /\ asked'.sounds = sounds
      /\ asked' = [sounds |-> sounds, count |-> asked.count + 1]
      /\ audioQueue' = Append(audioQueue, FLUSH) /\ FLUSH \in Nat /\ sounds \in Nat
      /\ UNCHANGED <<spoken, tokens, sounds, words, iterator, pusher>>
  BY DEF Flush, Requested, FLUSH, Types
<1>2. Pipe' = Append(Pipe, FLUSH)
  <2>1. spoken.in \in Seq(Nat) /\ audioQueue \in Seq(Nat)
    BY DEF Types
  <2>2. spoken.in \o Append(audioQueue, FLUSH) = Append(spoken.in \o audioQueue, FLUSH)
    <3>1. \A x \in Nat : spoken.in \o Append(audioQueue, x) = Append(spoken.in \o audioQueue, x)
      BY <2>1, JoinFacts
    <3> QED
      BY <1>1, <3>1, Zenon
  <2>3. spoken'.in = spoken.in
    BY <1>1
  <2> QED
    BY <1>1, <2>2, <2>3, Zenon DEF Pipe
<1>3. Types'
  BY <1>1 DEF Types
<1>4. tokens = 0 /\ ~HasFlush(spoken.out)
  BY <1>1 DEF Answered
<1>5. Supplied'
  <2> SUFFICES ASSUME spoken.state # "broken"
               PROVE  /\ Ascends(Pipe', spoken.received, sounds) /\ spoken.received <= sounds
                      /\ Behind(Pipe', sounds)
    BY <1>1, <1>4 DEF Supplied
  <2>1. Ascends(Pipe', spoken.received, sounds)
    BY <1>1, <1>2, AscendsAppend DEF Supplied, Types
  <2>2. ~HasFlush(Pipe)
    BY <1>1 DEF Supplied
  <2>3. Behind(Pipe', sounds)
    BY <1>1, <1>2, <2>2, AppendFacts
  <2> QED
    BY <2>1, <2>3 DEF Supplied
<1>6. Behind(spoken.out, sounds)
  BY <1>4 DEF Behind, HasFlush
<1>7. Answered'
  BY <1>1, <1>4, <1>6 DEF Answered
<1> QED
  BY <1>1, <1>3, <1>5, <1>7 DEF Stages

LEMMA FlushReturnsFlow == ASSUME Flow, FlushReturns PROVE Flow'
<1> USE Parts DEF Flow
<1>1. /\ asking /\ asking' = FALSE /\ tokens > 0 /\ tokens' = tokens - 1
      /\ UNCHANGED <<spoken, audioQueue, asked, sounds, words, iterator, pusher>>
  BY DEF FlushReturns
<1>2. tokens = 1 /\ ~HasFlush(spoken.out)
  BY <1>1 DEF Answered
<1>3. Types'
  <2>1. tokens' \in Nat
    <3>1. tokens' = 0
      BY <1>1, <1>2
    <3> QED
      BY <3>1
  <2>2. asking' \in BOOLEAN
    BY <1>1
  <2> QED
    BY <1>1, <2>1, <2>2, Zenon DEF Types
<1>4. Supplied'
  BY <1>1, <1>2 DEF Supplied, Pipe
<1>5. Answered'
  BY <1>1, <1>2 DEF Answered
<1> QED
  BY <1>1, <1>3, <1>4, <1>5 DEF Stages

LEMMA PushFlow == ASSUME Flow, Push PROVE Flow'
<1> USE Parts DEF Flow
<1>1. /\ pusher = "running" /\ audioQueue # <<>> /\ audioQueue' = Tail(audioQueue)
      /\ spoken' = (IF spoken.state = "open"
                    THEN [spoken EXCEPT !.in = Append(@, audioQueue[1])] ELSE spoken)
      /\ UNCHANGED <<tokens, asking, asked, sounds, words, iterator, pusher>>
  BY DEF Push, AfterSendFlush
<1>2. audioQueue[1] \in Nat /\ Tail(audioQueue) \in Seq(Nat)
  BY <1>1, TailAt DEF Types
<1>3. spoken'.state = spoken.state /\ spoken'.out = spoken.out /\ spoken'.said = spoken.said
      /\ spoken'.received = spoken.received
      /\ spoken.state = "open" => spoken'.in = Append(spoken.in, audioQueue[1])
  BY <1>1 DEF Types
<1>4. Types'
  <2>1. Append(spoken.in, audioQueue[1]) \in Seq(Nat)
    BY <1>2, AppendAt
  <2> QED
    BY <1>1, <1>2, <2>1 DEF Types
<1>5. Stages'
  BY <1>1, <1>3 DEF Stages
<1>6. Supplied'
  <2>1. CASE spoken.state = "open"
    <3>1. Pipe' = Pipe
      BY <1>1, <1>3, <2>1, JoinFacts DEF Pipe, Types
    <3> QED
      BY <1>1, <1>3, <3>1 DEF Supplied
  <2>2. CASE spoken.state # "open"
    <3>1. iterator # "none"
      BY <1>1 DEF Stages
    <3> QED
      BY <1>1, <1>3, <2>2, <3>1 DEF Supplied, Types, Stages
  <2> QED
    BY <2>1, <2>2
<1> QED
  BY <1>1, <1>3, <1>4, <1>5, <1>6 DEF Answered

\* What changes neither the flow nor the tasks.
LEMMA AsideFlow ==
  ASSUME Flow,
         UNCHANGED <<spoken, audioQueue, tokens, asking, asked, sounds, words>>,
         UNCHANGED <<iterator, pusher>>
            \/ /\ iterator = "reading" /\ iterator' = "handling" /\ UNCHANGED pusher
               /\ spoken.out # <<>> /\ spoken.out[1] # FLUSH
  PROVE  Flow'
<1> USE DEF Flow
<1>1. Types'
  BY DEF Types
<1>2. Supplied' /\ Answered'
  BY DEF Supplied, Answered, Pipe
<1>3. Stages'
  BY DEF Stages
<1> QED
  BY <1>1, <1>2, <1>3

LEMMA OpenSessionFlow == ASSUME Flow, OpenSession PROVE Flow'
<1> USE Parts DEF Flow
<1>1. /\ iterator = "none" /\ iterator' = "reading" /\ pusher' = "running"
      /\ spoken' = [spoken EXCEPT !.state = "open"]
      /\ UNCHANGED <<audioQueue, tokens, asking, asked, sounds, words>>
  BY DEF OpenSession
<1>2. spoken.state = "none"
  BY <1>1 DEF Stages
<1>3. spoken'.state = "open" /\ spoken'.in = spoken.in /\ spoken'.out = spoken.out
      /\ spoken'.received = spoken.received /\ spoken'.said = spoken.said
  BY <1>1 DEF Types
<1>4. Types'
  BY <1>1 DEF Types
<1>5. Supplied' /\ Answered'
  BY <1>1, <1>2, <1>3 DEF Supplied, Answered, Pipe
<1> QED
  BY <1>1, <1>3, <1>4, <1>5 DEF Stages

LEMMA HandledFlow == ASSUME Flow, Handled PROVE Flow'
<1> USE Parts DEF Flow
<1>1. /\ iterator = "handling" /\ iterator' = "reading"
      /\ spoken' = [spoken EXCEPT !.out = Tail(@)]
      /\ words' = [words EXCEPT !.handled = @ \union {spoken.out[1]}]
      /\ UNCHANGED <<audioQueue, tokens, asking, asked, sounds, pusher>>
  BY DEF Handled
<1>2. spoken.out # <<>> /\ spoken.out \in Seq(Nat)
  BY <1>1 DEF Stages
<1> DEFINE rest == Tail(spoken.out)
<1>3. /\ rest \in Seq(Nat) /\ spoken.out[1] \in Nat
      /\ \A i \in DOMAIN spoken.out : i = 1 \/ \E k \in DOMAIN rest : rest[k] = spoken.out[i]
      /\ \A k \in DOMAIN rest : \E i \in DOMAIN spoken.out : rest[k] = spoken.out[i]
  BY <1>2, TailAt, TailHas
<1>4. /\ spoken'.state = spoken.state /\ spoken'.in = spoken.in /\ spoken'.out = rest
      /\ spoken'.received = spoken.received /\ spoken'.said = spoken.said
      /\ words'.said = words.said /\ words'.handled = words.handled \union {spoken.out[1]}
  BY <1>1 DEF Types
<1>5. Types'
  BY <1>1, <1>3 DEF Types
<1>6. HasFlush(rest) => HasFlush(spoken.out)
  BY <1>2, TailFacts, <1>3 DEF HasFlush
<1>7. Behind(rest, asked.sounds)
  BY <1>2, TailFacts DEF Answered
<1> HIDE DEF rest
<1>8. Supplied'
  BY <1>1, <1>4, <1>6 DEF Supplied, Pipe
<1>9. Answered'
  <2>1. ASSUME NEW n \in words.said
        PROVE  n \in words'.handled \/ \E i \in DOMAIN rest : rest[i] = n
    <3>1. n \in words.handled \/ \E i \in DOMAIN spoken.out : spoken.out[i] = n
      BY DEF Answered
    <3>2. words'.handled = words.handled \union {spoken.out[1]}
      BY <1>4
    <3> QED
      BY <1>3, <3>1, <3>2
  <2>2. tokens > 0 => \A i \in DOMAIN rest : rest[i] > asked.sounds
    BY <1>3 DEF Answered
  <2> QED
    BY <1>1, <1>4, <1>6, <1>7, <2>1, <2>2 DEF Answered
<1> QED
  BY <1>1, <1>4, <1>5, <1>8, <1>9 DEF Stages

LEMMA ReadFlushedFlow == ASSUME Flow, ReadFlushed PROVE Flow'
<1> USE Parts DEF Flow
<1>1. /\ iterator = "reading" /\ spoken.out # <<>> /\ spoken.out[1] = FLUSH
      /\ spoken' = [spoken EXCEPT !.out = Tail(@)] /\ tokens' = tokens + 1
      /\ UNCHANGED <<audioQueue, asking, asked, sounds, words, iterator, pusher>>
  BY DEF ReadFlushed, AfterFlushed
<1> DEFINE rest == Tail(spoken.out)
<1>2. /\ spoken'.state = spoken.state /\ spoken'.in = spoken.in /\ spoken'.out = rest
      /\ spoken'.received = spoken.received /\ spoken'.said = spoken.said
  BY <1>1 DEF Types
<1>3. HasFlush(spoken.out)
  BY <1>1, TailAt DEF HasFlush
<1>4. asking /\ tokens = 0 /\ spoken.said >= asked.sounds /\ Behind(spoken.out, asked.sounds)
  BY <1>3 DEF Answered
<1>5. ~HasFlush(rest) /\ \A i \in DOMAIN rest : rest[i] > asked.sounds
  BY <1>1, <1>4, TailFacts
<1>6. Behind(rest, asked.sounds)
  BY <1>1, <1>4, TailFacts
<1>7. Types'
  <2>1. rest \in Seq(Nat) /\ tokens' \in Nat
    BY <1>1, <1>4, TailAt
  <2> QED
    BY <1>1, <2>1 DEF Types
<1>8. \A i \in DOMAIN spoken.out : i = 1 \/ \E k \in DOMAIN rest : rest[k] = spoken.out[i]
  BY <1>1, TailHas
<1> HIDE DEF rest
<1>9. Supplied'
  BY <1>1, <1>2, <1>3 DEF Supplied, Pipe
<1>10. Answered'
  <2>1. ASSUME NEW n \in words.said
        PROVE  n \in words.handled \/ \E i \in DOMAIN rest : rest[i] = n
    <3>1. n # FLUSH /\ (n \in words.handled \/ \E i \in DOMAIN spoken.out : spoken.out[i] = n)
      BY DEF Answered
    <3> QED
      BY <1>1, <1>8, <3>1
  <2>2. FLUSH \notin words.said
    BY DEF Answered
  <2>3. tokens' = 1
    BY <1>1, <1>4
  <2> QED
    BY <1>1, <1>2, <1>4, <1>5, <1>6, <2>1, <2>2, <2>3 DEF Answered
<1> QED
  BY <1>1, <1>2, <1>7, <1>9, <1>10 DEF Stages

LEMMA RecognizeFlow == ASSUME Flow, Recognize PROVE Flow'
<1> USE Parts DEF Flow
<1>1. /\ spoken.state = "open" /\ spoken.in # <<>> /\ spoken.in[1] # FLUSH
      /\ spoken' = [spoken EXCEPT !.in = Tail(@), !.received = spoken.in[1]]
      /\ UNCHANGED <<audioQueue, tokens, asking, asked, sounds, words, iterator, pusher>>
  BY DEF Recognize
<1>2. /\ Pipe # <<>> /\ Pipe[1] = spoken.in[1] /\ spoken.in[1] \in Nat
      /\ Tail(spoken.in) \in Seq(Nat) /\ Tail(Pipe) = Tail(spoken.in) \o audioQueue
  BY <1>1, JoinFacts DEF Pipe, Types
<1>3. /\ spoken'.state = spoken.state /\ spoken'.in = Tail(spoken.in) /\ spoken'.out = spoken.out
      /\ spoken'.received = spoken.in[1] /\ spoken'.said = spoken.said
  BY <1>1 DEF Types
<1>4. Pipe' = Tail(Pipe)
  BY <1>1, <1>2, <1>3, Zenon DEF Pipe
<1>5. Types'
  BY <1>1, <1>2 DEF Types
<1>6. Ascends(Pipe', spoken.in[1], sounds) /\ spoken.in[1] <= sounds
  BY <1>1, <1>2, <1>4, AscendsTail DEF Supplied, Types
<1>7. Behind(Pipe', asked.sounds) /\ (HasFlush(Pipe') => HasFlush(Pipe))
  BY <1>1, <1>2, <1>4, TailFacts DEF Supplied
<1>8. Supplied'
  BY <1>1, <1>3, <1>6, <1>7 DEF Supplied
<1> QED
  BY <1>1, <1>3, <1>5, <1>8 DEF Stages, Answered

LEMMA SayFlow == ASSUME Flow, Say PROVE Flow'
<1> USE Parts DEF Flow
<1>1. /\ spoken.state = "open" /\ UNCHANGED <<audioQueue, tokens, asking, asked, sounds, iterator, pusher>>
  BY DEF Say
<1>2. spoken.said + 1 \in Nat /\ spoken.said + 1 # FLUSH
  BY DEF FLUSH
<1>3. CASE spoken' = [spoken EXCEPT !.said = @ + 1] /\ UNCHANGED words
  <2>1. /\ spoken'.state = spoken.state /\ spoken'.in = spoken.in /\ spoken'.out = spoken.out
        /\ spoken'.received = spoken.received /\ spoken'.said = spoken.said + 1
    BY <1>3 DEF Types
  <2>2. Types'
    BY <1>1, <1>2, <1>3 DEF Types
  <2>3. Supplied' /\ Stages'
    BY <1>1, <2>1 DEF Supplied, Pipe, Stages
  <2>4. Answered'
    BY <1>1, <1>3, <2>1 DEF Answered
  <2> QED
    BY <2>2, <2>3, <2>4
<1>4. CASE /\ spoken' = [spoken EXCEPT !.said = @ + 1, !.out = Append(@, spoken.said + 1)]
           /\ words' = [words EXCEPT !.said = @ \union {spoken.said + 1}]
  <2> DEFINE more == Append(spoken.out, spoken.said + 1)
  <2>1. /\ spoken'.state = spoken.state /\ spoken'.in = spoken.in /\ spoken'.out = more
        /\ spoken'.received = spoken.received /\ spoken'.said = spoken.said + 1
        /\ words'.said = words.said \union {spoken.said + 1} /\ words'.handled = words.handled
    BY <1>4 DEF Types
  <2>2. /\ more \in Seq(Nat) /\ DOMAIN more = 1 .. Len(spoken.out) + 1
        /\ DOMAIN spoken.out = 1 .. Len(spoken.out) /\ Len(spoken.out) \in Nat
        /\ \A i \in DOMAIN spoken.out : more[i] = spoken.out[i]
        /\ more[Len(spoken.out) + 1] = spoken.said + 1
    BY <1>2, AppendAt
  <2>3. HasFlush(more) => HasFlush(spoken.out)
    BY <1>2, AppendFacts
  <2>4. Behind(more, asked.sounds)
    <3>1. CASE HasFlush(spoken.out)
      <4>1. spoken.said + 1 > asked.sounds /\ Behind(spoken.out, asked.sounds)
        BY <3>1 DEF Answered
      <4> QED
        BY <1>2, <4>1, AppendFacts
    <3>2. CASE ~HasFlush(spoken.out)
      BY <1>2, <3>2, AppendFacts
    <3> QED
      BY <3>1, <3>2
  <2> HIDE DEF more
  <2>5. Types'
    BY <1>1, <1>2, <1>4, <2>2 DEF Types, more
  <2>6. more # <<>> /\ (spoken.out # <<>> => more[1] = spoken.out[1])
    <3>1. Len(spoken.out) + 1 \in DOMAIN more /\ DOMAIN <<>> = {}
      BY <2>2
    <3>2. spoken.out # <<>> => 1 \in DOMAIN spoken.out
      BY <2>2, EmptySeq
    <3> QED
      BY <2>2, <3>1, <3>2
  <2>7. Stages'
    BY <1>1, <2>1, <2>6 DEF Stages
  <2>8. Supplied'
    BY <1>1, <2>1, <2>3 DEF Supplied, Pipe
  <2>9. Answered'
    <3>1. ASSUME NEW n \in words'.said
          PROVE  n \in words.handled \/ \E i \in DOMAIN more : more[i] = n
      <4>1. CASE n = spoken.said + 1
        <5>1. Len(spoken.out) + 1 \in DOMAIN more /\ more[Len(spoken.out) + 1] = n
          BY <2>2, <4>1
        <5> QED
          BY <5>1, Zenon
      <4>2. CASE n \in words.said
        <5>1. \A i \in DOMAIN spoken.out : i \in DOMAIN more
          BY <2>2
        <5>2. n \in words.handled \/ \E i \in DOMAIN spoken.out : spoken.out[i] = n
          BY <4>2 DEF Answered
        <5> QED
          BY <2>2, <5>1, <5>2, Zenon
      <4> QED
        BY <2>1, <4>1, <4>2
    <3>2. FLUSH \notin words'.said
      BY <1>2, <2>1 DEF Answered
    <3>3. tokens > 0 => \A i \in DOMAIN more : more[i] > asked.sounds
      <4>1. \A i \in DOMAIN more : i \in DOMAIN spoken.out \/ i = Len(spoken.out) + 1
        BY <2>2
      <4>2. tokens > 0 => spoken.said + 1 > asked.sounds
        BY DEF Answered
      <4> QED
        BY <2>2, <4>1, <4>2 DEF Answered
    <3> QED
      BY <1>1, <2>1, <2>3, <2>4, <3>1, <3>2, <3>3 DEF Answered
  <2> QED
    BY <2>5, <2>7, <2>8, <2>9
<1> QED
  BY <1>3, <1>4 DEF Say

LEMMA AnswerFlushFlow == ASSUME Flow, AnswerFlush PROVE Flow'
<1> USE Parts DEF Flow
<1>1. /\ spoken.state = "open" /\ spoken.in # <<>> /\ spoken.in[1] = FLUSH
      /\ spoken.said = spoken.received
      /\ spoken' = [spoken EXCEPT !.in = Tail(@), !.out = Append(@, FLUSH)]
      /\ UNCHANGED <<audioQueue, tokens, asking, asked, sounds, words, iterator, pusher>>
  BY DEF AnswerFlush
<1>2. /\ Pipe # <<>> /\ Pipe[1] = FLUSH
      /\ Tail(spoken.in) \in Seq(Nat) /\ Tail(Pipe) = Tail(spoken.in) \o audioQueue
  BY <1>1, JoinFacts DEF Pipe, Types
<1> DEFINE more == Append(spoken.out, FLUSH)
<1>3. /\ spoken'.state = spoken.state /\ spoken'.in = Tail(spoken.in) /\ spoken'.out = more
      /\ spoken'.received = spoken.received /\ spoken'.said = spoken.said
  BY <1>1 DEF Types
<1>4. Pipe' = Tail(Pipe)
  BY <1>1, <1>2, <1>3, Zenon DEF Pipe
<1>5. HasFlush(Pipe)
  BY <1>2, TailAt DEF HasFlush
<1>6. /\ asking /\ tokens = 0 /\ ~HasFlush(spoken.out)
      /\ Ascends(Pipe, spoken.received, sounds) /\ spoken.received <= sounds
      /\ Behind(Pipe, asked.sounds)
  BY <1>1, <1>5 DEF Supplied
<1>7. spoken.said >= asked.sounds
  <2>1. CASE spoken.received < asked.sounds
    <3>1. asked.sounds \in spoken.received + 1 .. sounds
      BY <2>1 DEF Types
    <3>2. PICK i \in DOMAIN Pipe : Pipe[i] = asked.sounds
      BY <1>6, <3>1 DEF Ascends
    <3>3. asked.sounds # FLUSH
      BY <2>1 DEF FLUSH
    <3>4. i \in Nat /\ 1 \in DOMAIN Pipe /\ 1 < i
      <4>1. DOMAIN Pipe = 1 .. Len(Pipe) /\ Len(Pipe) \in Nat /\ Len(Pipe) >= 1
        BY <1>2, TailAt
      <4>2. i # 1
        BY <1>2, <3>2, <3>3
      <4> QED
        BY <3>2, <4>1, <4>2
    <3>5. Pipe[i] > asked.sounds
      BY <1>2, <1>6, <3>2, <3>4 DEF Behind
    <3> QED
      BY <3>2, <3>5
  <2> QED
    BY <1>1, <2>1
<1>8. /\ Ascends(Pipe', spoken.received, sounds) /\ Behind(Pipe', asked.sounds) /\ ~HasFlush(Pipe')
  BY <1>2, <1>4, <1>6, AscendsTail, TailFacts DEF Types
<1>9. Supplied'
  BY <1>1, <1>3, <1>6, <1>8 DEF Supplied
<1>10. FLUSH \in Nat
  BY DEF FLUSH
<1>11. /\ more \in Seq(Nat) /\ DOMAIN more = 1 .. Len(spoken.out) + 1
       /\ DOMAIN spoken.out = 1 .. Len(spoken.out) /\ Len(spoken.out) \in Nat
       /\ \A i \in DOMAIN spoken.out : more[i] = spoken.out[i]
  BY <1>10, AppendAt
<1>12. Behind(more, asked.sounds)
  BY <1>6, <1>10, AppendFacts
<1> HIDE DEF more
<1>13. Types'
  BY <1>1, <1>2, <1>11 DEF Types, more
<1>14. Answered'
  <2>1. ASSUME NEW n \in words.said
        PROVE  n \in words.handled \/ \E i \in DOMAIN more : more[i] = n
    <3>1. \A i \in DOMAIN spoken.out : i \in DOMAIN more
      BY <1>11
    <3>2. n \in words.handled \/ \E i \in DOMAIN spoken.out : spoken.out[i] = n
      BY DEF Answered
    <3> QED
      BY <1>11, <3>1, <3>2
  <2>2. FLUSH \notin words.said
    BY DEF Answered
  <2>3. asking' /\ tokens' = 0 /\ ~(tokens' > 0)
    BY <1>1, <1>6
  <2>4. spoken'.said >= asked'.sounds /\ Behind(spoken'.out, asked'.sounds)
    BY <1>1, <1>3, <1>7, <1>12
  <2>5. \A n \in words'.said :
          n \in words'.handled \/ \E i \in DOMAIN spoken'.out : spoken'.out[i] = n
    BY <1>1, <1>3, <2>1
  <2>6. FLUSH \notin words'.said
    BY <1>1, <2>2
  <2> QED
    BY <2>3, <2>4, <2>5, <2>6, Zenon DEF Answered
<1>15. Stages'
  <2>1. more # <<>> /\ (spoken.out # <<>> => more[1] = spoken.out[1])
    <3>1. Len(spoken.out) + 1 \in DOMAIN more /\ DOMAIN <<>> = {}
      BY <1>11
    <3>2. spoken.out # <<>> => 1 \in DOMAIN spoken.out
      BY <1>11, EmptySeq
    <3> QED
      BY <1>11, <3>1, <3>2
  <2> QED
    BY <1>1, <1>3, <2>1 DEF Stages
<1> QED
  BY <1>9, <1>13, <1>14, <1>15

LEMMA BreakFlow == ASSUME Flow, Break PROVE Flow'
<1> USE Parts DEF Flow
<1>1. /\ spoken.state = "open" /\ spoken' = [spoken EXCEPT !.state = "broken"]
      /\ UNCHANGED <<audioQueue, tokens, asking, asked, sounds, words, iterator, pusher>>
  BY DEF Break
<1>2. /\ spoken'.state = "broken" /\ spoken'.in = spoken.in /\ spoken'.out = spoken.out
      /\ spoken'.received = spoken.received /\ spoken'.said = spoken.said
  BY <1>1 DEF Types
<1>3. Types'
  BY <1>1 DEF Types
<1>4. Stages' /\ Supplied' /\ Answered'
  BY <1>1, <1>2 DEF Stages, Supplied, Answered
<1> QED
  BY <1>3, <1>4

-------------------------------------------------------------------------------
(* Every step *)

LEMMA FlowStep == ASSUME IfFlowing, [GradiumNext]_gradiumVars PROVE IfFlowing'
<1> SUFFICES ASSUME Flowing' PROVE Flow'
  BY DEF IfFlowing
<1>1. Flowing
  BY DEF Flowing, GradiumNext, gradiumVars, Session, Service, Closing, EndIterator,
         StartUpGradium, SendAudioGradium, Flush, FlushReturns, OpenSession, Push, PushFails,
         ReadText, Handled, ReadFlushed, ReadStep, ReadFails, Recognize, Say, AnswerFlush, Break,
         ChannelAborts, FlushCancelled, IterationCancelled, IteratorCloses, ShutdownGradium
<1>2. Flow
  BY <1>1 DEF IfFlowing
<1>3. CASE StartUpGradium \/ ReadStep \/ UNCHANGED gradiumVars
  <2>1. UNCHANGED <<spoken, audioQueue, tokens, asking, asked, sounds, words, iterator, pusher>>
    BY <1>3 DEF StartUpGradium, ReadStep, AfterStep, gradiumVars
  <2> QED
    BY <1>2, <2>1, AsideFlow
<1>16. CASE ReadText
  <2>1. /\ UNCHANGED <<spoken, audioQueue, tokens, asking, asked, sounds, words, pusher>>
        /\ iterator = "reading" /\ iterator' = "handling"
        /\ spoken.out # <<>> /\ spoken.out[1] # FLUSH
    BY <1>16 DEF ReadText
  <2> QED
    BY <1>2, <2>1, AsideFlow
<1>4. CASE SendAudioGradium
  BY <1>2, <1>4, SendAudioFlow
<1>5. CASE Flush
  BY <1>2, <1>5, FlushFlow
<1>6. CASE FlushReturns
  BY <1>2, <1>6, FlushReturnsFlow
<1>7. CASE OpenSession
  BY <1>2, <1>7, OpenSessionFlow
<1>8. CASE Push
  BY <1>2, <1>8, PushFlow
<1>9. CASE Handled
  BY <1>2, <1>9, HandledFlow
<1>10. CASE ReadFlushed
  BY <1>2, <1>10, ReadFlushedFlow
<1>11. CASE Recognize
  BY <1>2, <1>11, RecognizeFlow
<1>12. CASE Say
  BY <1>2, <1>12, SayFlow
<1>13. CASE AnswerFlush
  BY <1>2, <1>13, AnswerFlushFlow
<1>14. CASE Break
  BY <1>2, <1>14, BreakFlow
<1>15. CASE PushFails \/ ReadFails \/ ChannelAborts \/ Closing
  BY <1>1, <1>15 DEF Flowing, PushFails, ReadFails, ChannelAborts, Closing, EndIterator,
         FlushCancelled, IterationCancelled, IteratorCloses, ShutdownGradium
<1> QED
  BY <1>3, <1>4, <1>5, <1>6, <1>7, <1>8, <1>9, <1>10, <1>11, <1>12, <1>13, <1>14, <1>15, <1>16, Zenon
     DEF GradiumNext, Session, Service

\* stt/gradium_stt.py, flush and __aiter__: when flush returns while the words are being
\* read, the service has recognized all audio before the call, and each of its words was
\* handled, however many pieces of audio and flushes there are, and however they and the
\* answers interleave.
THEOREM FlushIsCompleteHolds == GradiumSpec => FlushIsComplete
<1>1. GradiumInit => IfFlowing
  BY InitFlow DEF IfFlowing
<1>2. IfFlowing /\ [GradiumNext]_gradiumVars => IfFlowing'
  BY FlowStep
<1> DEFINE Complete ==
      (asking /\ ~asking' /\ channel = "running" /\ iterator \in {"reading", "handling"}) =>
        /\ spoken.said >= asked.sounds
        /\ \A n \in words.said : n <= asked.sounds => n \in words.handled
<1>3. IfFlowing /\ [GradiumNext]_gradiumVars => [Complete]_gradiumVars
  <2> SUFFICES ASSUME IfFlowing, [GradiumNext]_gradiumVars, asking, ~asking',
                      channel = "running", iterator \in {"reading", "handling"}
               PROVE  /\ spoken.said >= asked.sounds
                      /\ \A n \in words.said : n <= asked.sounds => n \in words.handled
    OBVIOUS
  <2>1. Flow
    BY DEF IfFlowing, Flowing
  <2>2. FlushReturns
    BY DEF GradiumNext, gradiumVars, Session, Service, Closing, EndIterator,
           StartUpGradium, SendAudioGradium, Flush, OpenSession, Push, PushFails,
           ReadText, Handled, ReadFlushed, ReadStep, ReadFails, Recognize, Say, AnswerFlush,
           Break, ChannelAborts, FlushCancelled, IterationCancelled, IteratorCloses,
           ShutdownGradium
  <2>3. /\ spoken.said >= asked.sounds
        /\ \A i \in DOMAIN spoken.out : spoken.out[i] > asked.sounds
    BY <2>1, <2>2 DEF Flow, Answered, FlushReturns
  <2>4. ASSUME NEW n \in words.said, n <= asked.sounds PROVE n \in words.handled
    <3>1. n \in words.handled \/ \E i \in DOMAIN spoken.out : spoken.out[i] = n
      BY <2>1 DEF Flow, Answered
    <3>2. n \in Nat /\ asked.sounds \in Nat
      BY <2>1, Parts DEF Flow
    <3> QED
      BY <2>3, <2>4, <3>1, <3>2
  <2> QED
    BY <2>3, <2>4
<1> QED
  BY <1>1, <1>2, <1>3, PTL DEF GradiumSpec, FlushIsComplete

-------------------------------------------------------------------------------
(* SpeechToText *)

\* Before a connection is made there is none, and once it is given up it is closed.
Given ==
  /\ websocket \in BOOLEAN
  /\ user = "new" => ~websocket /\ link = "none"
  /\ NoDanglingSocket

\* stt/stt.py, start_up and shutdown: a caller that was refused or that has shut the
\* service down has no open connection, whatever the service sent, and whichever way its
\* iterator ended.
THEOREM NoDanglingSocketHolds == RemoteSpec => []NoDanglingSocket
<1>1. RemoteInit => Given
  BY DEF RemoteInit, Given, NoDanglingSocket
<1>2. ASSUME Given, [RemoteNext]_remoteVars PROVE Given'
  <2> USE DEF Given, NoDanglingSocket
  <2>1. CASE Connect
    <3>1. user = "new" /\ websocket = FALSE /\ link = "none"
      BY <1>2, <2>1 DEF Connect
    <3>2. CASE user' = "starting" /\ websocket' = TRUE
      BY <3>2
    <3>3. CASE user' = "refused" /\ UNCHANGED <<websocket, link>>
      BY <3>1, <3>3
    <3> QED
      BY <2>1, <3>2, <3>3, Zenon DEF Connect
  <2>2. CASE Started
    <3> DEFINE ready == inbox # <<>> /\ inbox[1] = "ready"
    <3>1. /\ user' = (IF ready THEN "up" ELSE "refused") /\ websocket' = (~~ready)
          /\ link' = IF websocket' THEN link ELSE "closed"
      BY <2>2, Zenon DEF Started, SocketAfter
    <3> HIDE DEF ready
    <3>2. CASE ready
      BY <3>1, <3>2
    <3>3. CASE ~ready
      BY <3>1, <3>3
    <3> QED
      BY <3>2, <3>3
  <2>3. CASE StartCancelled \/ SendRaises
    BY <1>2, <2>3 DEF StartCancelled, SendRaises
  <2>4. CASE Iterate \/ Read \/ ReadClosed \/ ReaderResumes \/ ReaderCancelled
    BY <1>2, <2>4 DEF Iterate, Read, ReadClosed, ReaderResumes, ReaderCancelled, ReaderEnds
  <2>5. CASE Shutdown
    BY <1>2, <2>5 DEF Shutdown
  <2>6. CASE ShutdownWoken \/ ShutdownTimesOut
    BY <1>2, <2>6 DEF ShutdownWoken, ShutdownTimesOut
  <2>7. CASE ServiceSays \/ ServiceCloses
    BY <1>2, <2>7 DEF ServiceSays, ServiceCloses
  <2>8. CASE UNCHANGED remoteVars
    BY <1>2, <2>8 DEF remoteVars
  <2> QED
    BY <1>2, <2>1, <2>2, <2>3, <2>4, <2>5, <2>6, <2>7, <2>8 DEF RemoteNext
<1> QED
  BY <1>1, <1>2, PTL DEF RemoteSpec, Given

-------------------------------------------------------------------------------
(* The local recognizer *)

LEMMA LeastOf ==
  ASSUME NEW S \in SUBSET Nat, S # {}
  PROVE  \E m \in S : \A n \in S : m <= n
<1> DEFINE R == OpToRel(<, Nat)
<1>1. IsWellFoundedOn(R, Nat)
  BY NatLessThanWellFounded
<1>2. R = {ss \in Nat \X Nat : ss[1] < ss[2]}
  BY DEF OpToRel
<1> HIDE DEF R
<1>3. PICK m \in S : \A n \in S : <<n, m>> \notin R
  BY <1>1, WFMin
<1>4. ASSUME NEW n \in S PROVE m <= n
  <2>1. m \in Nat /\ n \in Nat
    OBVIOUS
  <2>2. n < m => <<n, m>> \in R
    BY <1>2, <2>1
  <2> QED
    BY <1>3, <2>1, <2>2
<1> QED
  BY <1>4

\* A loop over what is said of each frame, from acc on.
IsRun(f, l, says, n) ==
  f = [i \in 0..n |-> IF i = 0 THEN [l |-> l, words |-> <<>>, ok |-> TRUE]
                      ELSE RunFrame(f[i - 1], says[i])]

\* It has a result after each frame.
LEMMA RunExists ==
  ASSUME NEW l, NEW says, NEW n \in Nat
  PROVE  \E f : IsRun(f, l, says, n)
<1> DEFINE S == {k \in Nat : ~ \E f : IsRun(f, l, says, k)}
<1> SUFFICES S = {}
  OBVIOUS
<1> SUFFICES ASSUME S # {} PROVE FALSE
  OBVIOUS
<1>1. PICK k \in S : \A j \in S : k <= j
  BY LeastOf
<1> DEFINE first == [l |-> l, words |-> <<>>, ok |-> TRUE]
<1>2. CASE k = 0
  <2> DEFINE f == [i \in 0..0 |-> first]
  <2>1. f = [i \in 0..0 |-> IF i = 0 THEN first ELSE RunFrame(f[i - 1], says[i])]
    OBVIOUS
  <2> HIDE DEF f
  <2>2. IsRun(f, l, says, 0)
    BY <2>1 DEF IsRun
  <2> QED
    BY <1>2, <2>2
<1>3. CASE k # 0
  <2>1. k - 1 \in Nat /\ k - 1 \notin S
    BY <1>1, <1>3
  <2>2. PICK f : IsRun(f, l, says, k - 1)
    BY <2>1
  <2> DEFINE last == RunFrame(f[k - 1], says[k])
             g == [i \in 0..k |-> IF i = k THEN last ELSE f[i]]
  <2>3. f = [i \in 0..k - 1 |-> IF i = 0 THEN first ELSE RunFrame(f[i - 1], says[i])]
    BY <2>2 DEF IsRun
  <2>4. \A i \in 0..k : g[i] = IF i = 0 THEN first ELSE RunFrame(g[i - 1], says[i])
    <3> SUFFICES ASSUME NEW i \in 0..k PROVE g[i] = IF i = 0 THEN first ELSE RunFrame(g[i - 1], says[i])
      OBVIOUS
    <3>1. k \in Nat /\ i \in Nat
      OBVIOUS
    <3> HIDE DEF first
    <3>2. CASE i = k
      <4>1. g[i] = last /\ g[i - 1] = f[k - 1]
        BY <1>3, <3>1, <3>2
      <4> QED
        BY <1>3, <3>2, <4>1
    <3>3. CASE i # k /\ i # 0
      <4>1. i \in 0..k - 1 /\ i - 1 \in 0..k
        BY <3>1, <3>3
      <4>2. g[i] = f[i] /\ g[i - 1] = f[i - 1]
        BY <3>1, <3>3, <4>1
      <4>3. f[i] = RunFrame(f[i - 1], says[i])
        BY <2>3, <3>3, <4>1
      <4> QED
        BY <3>3, <4>2, <4>3
    <3>4. CASE i # k /\ i = 0
      <4>1. i \in 0..k - 1
        BY <3>1, <3>4
      <4> QED
        BY <2>3, <3>4, <4>1
    <3> QED
      BY <3>2, <3>3, <3>4
  <2>5. g = [i \in 0..k |-> g[i]]
    OBVIOUS
  <2> HIDE DEF g
  <2>6. g = [i \in 0..k |-> IF i = 0 THEN first ELSE RunFrame(g[i - 1], says[i])]
    BY <2>4, <2>5
  <2>7. IsRun(g, l, says, k)
    BY <2>6 DEF IsRun
  <2> QED
    BY <2>7
<1> QED
  BY <1>2, <1>3

LEMMA RunFact ==
  ASSUME NEW l, NEW says, Len(says) \in Nat
  PROVE  \E f : IsRun(f, l, says, Len(says)) /\ RunFrames(l, says) = f[Len(says)]
<1> DEFINE f == CHOOSE g : IsRun(g, l, says, Len(says))
<1>1. IsRun(f, l, says, Len(says))
  BY RunExists
<1>2. RunFrames(l, says) = f[Len(says)]
  BY DEF RunFrames, IsRun
<1> QED
  BY <1>1, <1>2

\* The sound of a frame of a session, and a word that is said of one.
FrameOf(s, n) == [k \in 1..FrameSize |-> <<s, n * FrameSize + k>>]
Word == [frame : Seq(Nat \X Nat), start : Nat]

\* What is pending follows the frames that were run; the recognizer counts as its LMGen
\* does, and is primed when it has run once.
Listening(l, s) ==
  /\ l \in [pending : Seq(Nat \X Nat), sent : Nat, frameId : Nat, playhead : Nat, lmOffset : Nat]
  /\ l.sent = l.playhead * FrameSize + Len(l.pending)
  /\ \A i \in 1..Len(l.pending) : l.pending[i] = <<s, l.playhead * FrameSize + i>>
  /\ l.lmOffset = l.frameId /\ (l.frameId = 0 \/ l.frameId > PrimeCap)

\* The words of a queue are of the frames from low to high, each after those before it.
InTurn(q, s, low, high) ==
  /\ q \in Seq(Word \cup {EndMark})
  /\ \A i \in 1..Len(q) : q[i] # EndMark =>
       /\ q[i] \in Word /\ low <= q[i].start /\ q[i].start < high
       /\ q[i].frame = FrameOf(s, q[i].start)
       /\ \A j \in 1..i - 1 : q[j] # EndMark => q[j].start < q[i].start

LEMMA LocalParameters == FrameSize \in Nat \ {0} /\ PrimeCap \in Nat
BY LocalSTTAssumption

LEMMA SumFact == \A u, v, w \in Int : (u + w) + (v - w) = u + v
OBVIOUS

LEMMA CutFact ==
  ASSUME NEW S, NEW q \in Seq(S), NEW n \in Nat, n <= Len(q)
  PROVE  /\ SubSeq(q, n + 1, Len(q)) \in Seq(S)
         /\ Len(SubSeq(q, n + 1, Len(q))) = Len(q) - n
         /\ \A i \in 1..Len(q) - n : SubSeq(q, n + 1, Len(q))[i] = q[n + i]
<1> DEFINE m == n + 1
<1>1. m \in 1..Len(q) + 1 /\ Len(q) \in m - 1..Len(q)
  OBVIOUS
<1>2. Len(q) - m + 1 = Len(q) - n /\ \A i \in Nat : m + i - 1 = n + i
  OBVIOUS
<1> HIDE DEF m
<1>3. /\ SubSeq(q, m, Len(q)) \in Seq(S)
      /\ Len(SubSeq(q, m, Len(q))) = IF m <= Len(q) THEN Len(q) - m + 1 ELSE 0
      /\ \A i \in 1..Len(q) - m + 1 : SubSeq(q, m, Len(q))[i] = q[m + i - 1]
  BY <1>1, SubSeqProperties
<1>4. Len(SubSeq(q, m, Len(q))) = Len(q) - n
  BY <1>1, <1>2, <1>3
<1>5. ASSUME NEW i \in 1..Len(q) - n PROVE SubSeq(q, m, Len(q))[i] = q[n + i]
  BY <1>2, <1>3
<1> QED
  BY <1>3, <1>4, <1>5 DEF m

\* A frame can be taken off what is pending.
Ready(acc, s) ==
  acc.ok = TRUE /\ Listening(acc.l, s) /\ Len(acc.l.pending) >= FrameSize

\* r is what is there after one was, of which the recognizer said a word or nothing.
Taken(acc, r, s) ==
  /\ Listening(r.l, s) /\ r.l.sent = acc.l.sent /\ r.l.playhead = acc.l.playhead + 1
  /\ r.ok = TRUE
  /\ \/ r.words = acc.words
     \/ r.words = Append(acc.words, [frame |-> FrameOf(s, acc.l.playhead), start |-> acc.l.playhead])

LEMMA FrameFact ==
  ASSUME NEW s \in Nat, NEW acc, Ready(acc, s), NEW says, NEW r, r = RunFrame(acc, says)
  PROVE  Taken(acc, r, s)
<1> DEFINE l == acc.l
           prior == acc.words
<1>1. l = acc.l /\ prior = acc.words
  OBVIOUS
<1> HIDE DEF l, prior
<1>2. acc.ok = TRUE /\ Listening(l, s) /\ Len(l.pending) >= FrameSize
  BY <1>1 DEF Ready
<1> DEFINE primed == IF l.frameId < PrimeCap THEN PrimeCap ELSE l.frameId
           x == primed + 1
           y == l.lmOffset + (primed - l.frameId) + 1
           m == RunCodes(l)
           rest == SubSeq(l.pending, FrameSize + 1, Len(l.pending))
           frame == SubSeq(l.pending, 1, FrameSize)
           h == l.playhead * FrameSize
           extended == IF says THEN Append(prior, [frame |-> frame, start |-> l.playhead]) ELSE prior
<1>3. /\ l.frameId \in Nat /\ l.lmOffset = l.frameId /\ l.playhead \in Nat /\ l.sent \in Nat
      /\ l.pending \in Seq(Nat \X Nat) /\ PrimeCap \in Nat /\ FrameSize \in Nat /\ FrameSize > 0
  BY <1>2, LocalParameters DEF Listening
<1>4. (l.playhead + 1) * FrameSize = h + FrameSize
  BY <1>3
<1>5. h \in Nat
  BY <1>3
<1>6. FrameOf(s, l.playhead) = [k \in 1..FrameSize |-> <<s, h + k>>]
  BY DEF FrameOf
<1>7. l.sent = h + Len(l.pending)
  BY <1>2 DEF Listening
<1>8. \A i \in 1..Len(l.pending) : l.pending[i] = <<s, h + i>>
  BY <1>2 DEF Listening
<1>9. Len(l.pending) \in Nat
  BY <1>3
<1> HIDE DEF h
<1>10. x \in Nat /\ x > PrimeCap /\ y = x
  <2>1. primed \in Nat /\ primed >= PrimeCap
    BY <1>3
  <2>2. y = primed + 1
    <3> HIDE DEF primed
    <3> QED
      BY <1>3, <2>1
  <2> HIDE DEF primed, y
  <2> QED
    BY <1>3, <2>1, <2>2
<1>11. m = [l EXCEPT !.frameId = x, !.lmOffset = y]
  BY DEF RunCodes
<1>12. r = [l |-> [m EXCEPT !.pending = SubSeq(m.pending, FrameSize + 1, Len(m.pending)), !.playhead = m.playhead + 1],
           words |-> IF says THEN Append(prior, [frame |-> frame, start |-> m.playhead]) ELSE prior,
           ok |-> acc.ok /\ HasResult(m)]
  BY <1>1 DEF RunFrame
<1> HIDE DEF x, y, m
<1>13. m = [pending |-> l.pending, sent |-> l.sent, frameId |-> x, playhead |-> l.playhead, lmOffset |-> x]
  BY <1>10, <1>11, <1>2 DEF Listening
<1>14. HasResult(m) = TRUE
  BY <1>3, <1>10, <1>13 DEF HasResult
<1>15. m.playhead = l.playhead /\ m.pending = l.pending
  BY <1>13
<1>16. r = [l |-> [m EXCEPT !.pending = rest, !.playhead = l.playhead + 1], words |-> extended,
            ok |-> acc.ok /\ HasResult(m)]
  BY <1>12, <1>15
<1>17. /\ rest \in Seq(Nat \X Nat) /\ Len(rest) = Len(l.pending) - FrameSize
       /\ \A i \in 1..Len(rest) : rest[i] = l.pending[FrameSize + i]
  <2>1. FrameSize \in Nat /\ FrameSize <= Len(l.pending) /\ l.pending \in Seq(Nat \X Nat)
    BY <1>3, <1>2
  <2> QED
    BY <2>1, CutFact
<1>18. frame = FrameOf(s, l.playhead)
  <2>1. frame = [i \in 1..FrameSize |-> l.pending[i]]
    BY <1>3
  <2>2. \A i \in 1..FrameSize : l.pending[i] = <<s, h + i>>
    <3>1. \A i \in 1..FrameSize : i \in 1..Len(l.pending)
      BY <1>3, <1>9, <1>2
    <3> QED
      BY <1>8, <3>1
  <2> QED
    BY <1>6, <2>1, <2>2
<1> HIDE DEF rest, frame, extended
<1>19. /\ r.l = [pending |-> rest, sent |-> l.sent, frameId |-> x, playhead |-> l.playhead + 1, lmOffset |-> x]
       /\ r.words = extended /\ r.ok = (acc.ok /\ HasResult(m))
  <2>1. r.l = [m EXCEPT !.pending = rest, !.playhead = l.playhead + 1]
    BY <1>16
  <2>2. r.words = extended /\ r.ok = (acc.ok /\ HasResult(m))
    BY <1>16
  <2> DEFINE p == l.playhead + 1
             new == r.l
  <2>3. new = [m EXCEPT !.pending = rest, !.playhead = p]
    BY <2>1
  <2> HIDE DEF p, new
  <2>4. new = [pending |-> rest, sent |-> l.sent, frameId |-> x, playhead |-> p, lmOffset |-> x]
    BY <1>13, <2>3
  <2> QED
    BY <2>2, <2>4 DEF p, new
<1>20. r.ok = TRUE
  BY <1>14, <1>19, <1>2
<1>21. Listening(r.l, s)
  <2>1. l.sent = (h + FrameSize) + Len(rest)
    <3>1. Len(rest) = Len(l.pending) - FrameSize
      BY <1>17
    <3>2. FrameSize \in Int /\ h \in Int /\ Len(l.pending) \in Int
      BY <1>3, <1>9, <1>5
    <3>3. (h + FrameSize) + (Len(l.pending) - FrameSize) = h + Len(l.pending)
      BY <3>2, SumFact, Zenon
    <3> QED
      BY <1>7, <3>1, <3>3
  <2>2. ASSUME NEW i \in 1..Len(rest) PROVE rest[i] = <<s, (h + FrameSize) + i>>
    <3>1. Len(rest) \in Nat /\ i \in Nat /\ FrameSize + i <= Len(l.pending) /\ FrameSize + i >= 1
      BY <1>3, <1>17, <1>9
    <3>2. FrameSize + i \in 1..Len(l.pending)
      BY <1>3, <1>9, <3>1
    <3>3. h + (FrameSize + i) = (h + FrameSize) + i
      BY <1>3, <1>5, <3>1
    <3>4. l.pending[FrameSize + i] = <<s, h + (FrameSize + i)>>
      BY <1>8, <3>2
    <3> QED
      BY <1>17, <3>3, <3>4
  <2>3. l.playhead + 1 \in Nat
    BY <1>3
  <2>4. r.l \in [pending : Seq(Nat \X Nat), sent : Nat, frameId : Nat, playhead : Nat, lmOffset : Nat]
    <3>1. rest \in Seq(Nat \X Nat)
      BY <1>17
    <3> DEFINE p == l.playhead + 1
    <3> HIDE DEF p
    <3>2. [pending |-> rest, sent |-> l.sent, frameId |-> x, playhead |-> p, lmOffset |-> x]
            \in [pending : Seq(Nat \X Nat), sent : Nat, frameId : Nat, playhead : Nat, lmOffset : Nat]
      BY <1>3, <1>10, <2>3, <3>1 DEF p
    <3> QED
      BY <1>19, <3>2 DEF p
  <2>5. /\ r.l.sent = l.sent /\ r.l.playhead = l.playhead + 1 /\ r.l.pending = rest
        /\ r.l.lmOffset = x /\ r.l.frameId = x
    BY <1>19
  <2> QED
    BY <1>4, <1>10, <2>1, <2>2, <2>4, <2>5 DEF Listening
<1>22. r.words = prior \/ r.words = Append(prior, [frame |-> FrameOf(s, l.playhead), start |-> l.playhead])
  BY <1>18, <1>19 DEF extended
<1>23. r.l.sent = l.sent /\ r.l.playhead = l.playhead + 1
  BY <1>19
<1> QED
  BY <1>20, <1>21, <1>22, <1>23, <1>1 DEF Taken

LEMMA FrameIsSound ==
  ASSUME NEW s \in Nat, NEW n \in Nat
  PROVE  FrameOf(s, n) \in Seq(Nat \X Nat)
<1> DEFINE h == n * FrameSize
<1>1. h \in Nat
  BY LocalParameters
<1> HIDE DEF h
<1>2. \A k \in 1..FrameSize : <<s, h + k>> \in Nat \X Nat
  BY <1>1, LocalParameters
<1>3. [k \in 1..FrameSize |-> <<s, h + k>>] \in [1..FrameSize -> Nat \X Nat]
  BY <1>2
<1>4. FrameOf(s, n) \in [1..FrameSize -> Nat \X Nat]
  BY <1>3 DEF FrameOf, h
<1> QED
  BY <1>4, LocalParameters

LEMMA WideFact ==
  ASSUME NEW s, NEW q, NEW low \in Nat, NEW high \in Nat, NEW bottom \in Nat, NEW top \in Nat,
         bottom <= low, high <= top, InTurn(q, s, low, high)
  PROVE  InTurn(q, s, bottom, top)
<1> SUFFICES ASSUME NEW i \in 1..Len(q), q[i] # EndMark
             PROVE  bottom <= q[i].start /\ q[i].start < top
  BY DEF InTurn
<1>1. q[i].start \in Nat /\ low <= q[i].start /\ q[i].start < high
  BY DEF InTurn, Word
<1> QED
  BY <1>1

\* Something is put after what a queue holds.
LEMMA PutFact ==
  ASSUME NEW s, NEW q, NEW low \in Nat, NEW high \in Nat, InTurn(q, s, low, high),
         NEW w \in Word \cup {EndMark},
         w # EndMark => /\ w \in Word /\ low <= w.start /\ w.start < high
                        /\ w.frame = FrameOf(s, w.start)
                        /\ \A j \in 1..Len(q) : q[j] # EndMark => q[j].start < w.start
  PROVE  InTurn(Append(q, w), s, low, high)
<1>1. q \in Seq(Word \cup {EndMark}) /\ Len(q) \in Nat
  BY DEF InTurn
<1> DEFINE p == Append(q, w)
<1>2. /\ p \in Seq(Word \cup {EndMark}) /\ Len(p) = Len(q) + 1 /\ p[Len(q) + 1] = w
      /\ \A i \in 1..Len(q) : p[i] = q[i]
  BY <1>1
<1> HIDE DEF p
<1>3. InTurn(p, s, low, high)
  <2> SUFFICES ASSUME NEW i \in 1..Len(p), p[i] # EndMark
               PROVE  /\ p[i] \in Word /\ low <= p[i].start /\ p[i].start < high
                      /\ p[i].frame = FrameOf(s, p[i].start)
                      /\ \A j \in 1..i - 1 : p[j] # EndMark => p[j].start < p[i].start
    BY <1>2 DEF InTurn
  <2>1. CASE i = Len(q) + 1
    <3>1. p[i] = w
      BY <1>2, <2>1
    <3>2. \A j \in 1..i - 1 : j \in 1..Len(q) /\ p[j] = q[j]
      BY <1>1, <1>2, <2>1
    <3> QED
      BY <3>1, <3>2
  <2>2. CASE i # Len(q) + 1
    <3>1. i \in 1..Len(q) /\ p[i] = q[i]
      BY <1>1, <1>2, <2>2
    <3>2. \A j \in 1..i - 1 : j \in 1..Len(q) /\ p[j] = q[j]
      BY <1>1, <1>2, <3>1
    <3> QED
      BY <3>1, <3>2 DEF InTurn
  <2> QED
    BY <2>1, <2>2
<1> QED
  BY <1>3 DEF p

\* What is said of the next frame is put after what was said of those before it.
LEMMA AppendFact ==
  ASSUME NEW s \in Nat, NEW low \in Nat, NEW n \in Nat, low <= n,
         NEW q, InTurn(q, s, low, n), NEW w, w = [frame |-> FrameOf(s, n), start |-> n]
  PROVE  InTurn(Append(q, w), s, low, n + 1) /\ InTurn(q, s, low, n + 1)
<1>1. FrameOf(s, n) \in Seq(Nat \X Nat)
  BY FrameIsSound
<1>2. w \in Word /\ w.start = n /\ w.frame = FrameOf(s, n)
  BY <1>1 DEF Word
<1>3. InTurn(q, s, low, n + 1)
  BY DEF InTurn, Word
<1>4. \A j \in 1..Len(q) : q[j] # EndMark => q[j].start < n
  BY DEF InTurn
<1>5. n + 1 \in Nat /\ n < n + 1
  OBVIOUS
<1> QED
  BY <1>2, <1>3, <1>4, <1>5, PutFact

\* All words of p are of frames before those of q.
Before(p, q) ==
  \A i \in 1..Len(p), j \in 1..Len(q) :
    p[i] # EndMark /\ q[j] # EndMark => p[i].start < q[j].start

LEMMA ChainFact ==
  ASSUME NEW s, NEW p, NEW q, NEW low \in Nat, NEW high \in Nat,
         InTurn(p, s, low, high), InTurn(q, s, low, high), Before(p, q)
  PROVE  InTurn(p \o q, s, low, high)
<1>1. /\ p \in Seq(Word \cup {EndMark}) /\ Len(p) \in Nat
      /\ q \in Seq(Word \cup {EndMark}) /\ Len(q) \in Nat
  BY DEF InTurn
<1> DEFINE c == p \o q
<1>2. /\ c \in Seq(Word \cup {EndMark}) /\ Len(c) = Len(p) + Len(q)
      /\ \A i \in 1..Len(p) : c[i] = p[i]
      /\ \A i \in Len(p) + 1..Len(p) + Len(q) : c[i] = q[i - Len(p)]
  BY <1>1
<1> HIDE DEF c
<1>3. InTurn(c, s, low, high)
  <2> SUFFICES ASSUME NEW i \in 1..Len(c), c[i] # EndMark
               PROVE  /\ c[i] \in Word /\ low <= c[i].start /\ c[i].start < high
                      /\ c[i].frame = FrameOf(s, c[i].start)
                      /\ \A j \in 1..i - 1 : c[j] # EndMark => c[j].start < c[i].start
    BY <1>2 DEF InTurn
  <2>1. CASE i <= Len(p)
    <3>1. i \in 1..Len(p) /\ c[i] = p[i]
      BY <1>1, <1>2, <2>1
    <3>2. \A j \in 1..i - 1 : j \in 1..Len(p) /\ c[j] = p[j]
      BY <1>1, <1>2, <3>1
    <3> QED
      BY <3>1, <3>2 DEF InTurn
  <2>2. CASE i > Len(p)
    <3> DEFINE k == i - Len(p)
    <3>1. i \in Nat /\ i <= Len(p) + Len(q)
      BY <1>1, <1>2
    <3>2. k \in Nat /\ k = i - Len(p) /\ i \in Len(p) + 1..Len(p) + Len(q)
      BY <1>1, <2>2, <3>1
    <3>3. k \in 1..Len(q) /\ c[i] = q[k]
      BY <1>1, <1>2, <3>2
    <3>4. ASSUME NEW j \in 1..i - 1, c[j] # EndMark PROVE c[j].start < c[i].start
      <4>1. CASE j <= Len(p)
        <5>1. j \in 1..Len(p) /\ c[j] = p[j]
          BY <1>1, <1>2, <4>1
        <5> HIDE DEF k
        <5> QED
          BY <3>3, <3>4, <5>1 DEF Before
      <4>2. CASE j > Len(p)
        <5>1. j \in Nat /\ j < i /\ j \in Len(p) + 1..Len(p) + Len(q)
          BY <1>1, <3>1, <4>2
        <5> HIDE DEF k
        <5>2. j - Len(p) \in 1..k - 1
          BY <1>1, <3>1, <3>2, <5>1
        <5>3. j - Len(p) \in 1..k - 1 /\ c[j] = q[j - Len(p)]
          BY <1>2, <5>1, <5>2
        <5> QED
          BY <3>3, <3>4, <5>3 DEF InTurn
      <4> QED
        BY <1>1, <4>1, <4>2
    <3> HIDE DEF k
    <3> QED
      BY <3>3, <3>4 DEF InTurn
  <2> QED
    BY <1>1, <2>1, <2>2
<1> QED
  BY <1>3 DEF c

\* What is left of a queue whose first was taken.
LEMMA RestFact ==
  ASSUME NEW s, NEW q, NEW low \in Nat, NEW high \in Nat, InTurn(q, s, low, high), q # <<>>
  PROVE  /\ InTurn(Tail(q), s, low, high)
         /\ \A j \in 1..Len(Tail(q)) : j + 1 \in 1..Len(q) /\ Tail(q)[j] = q[j + 1]
         /\ Before(<<q[1]>>, Tail(q)) /\ q[1] \in Word \cup {EndMark}
<1>1. q \in Seq(Word \cup {EndMark}) /\ Len(q) \in Nat
  BY DEF InTurn
<1> DEFINE t == Tail(q)
<1>2. /\ t \in Seq(Word \cup {EndMark}) /\ Len(t) = Len(q) - 1
      /\ \A j \in 1..Len(t) : j + 1 \in 1..Len(q) /\ t[j] = q[j + 1]
  BY <1>1, Len(q) # 0
<1>3. 1 \in 1..Len(q)
  BY <1>1, Len(q) # 0
<1> HIDE DEF t
<1>4. InTurn(t, s, low, high)
  <2> SUFFICES ASSUME NEW i \in 1..Len(t), t[i] # EndMark
               PROVE  /\ t[i] \in Word /\ low <= t[i].start /\ t[i].start < high
                      /\ t[i].frame = FrameOf(s, t[i].start)
                      /\ \A j \in 1..i - 1 : t[j] # EndMark => t[j].start < t[i].start
    BY <1>2 DEF InTurn
  <2>1. \A j \in 1..i - 1 : j + 1 \in 1..(i + 1) - 1 /\ t[j] = q[j + 1]
    BY <1>1, <1>2
  <2>2. i + 1 \in 1..Len(q) /\ t[i] = q[i + 1]
    BY <1>2
  <2> QED
    BY <2>1, <2>2 DEF InTurn
<1>5. Before(<<q[1]>>, t)
  <2> SUFFICES ASSUME NEW j \in 1..Len(t), q[1] # EndMark, t[j] # EndMark
               PROVE  q[1].start < t[j].start
    BY DEF Before
  <2>1. 1 \in 1..(j + 1) - 1 /\ j + 1 \in 1..Len(q) /\ t[j] = q[j + 1]
    BY <1>2
  <2> QED
    BY <2>1 DEF InTurn
<1>6. q[1] \in Word \cup {EndMark}
  BY <1>1, <1>3
<1> QED
  BY <1>2, <1>4, <1>5, <1>6 DEF t

LEMMA HeardFact ==
  ASSUME NEW s, NEW l, Listening(l, s)
  PROVE  l.playhead \in Nat /\ l.pending \in Seq(Nat \X Nat) /\ Len(l.pending) \in Nat
<1>1. l.playhead \in Nat /\ l.pending \in Seq(Nat \X Nat)
  BY DEF Listening
<1> QED
  BY <1>1

LEMMA DivFact ==
  ASSUME NEW n \in Nat, NEW d \in Nat, d > 0
  PROVE  n \div d \in Nat /\ (n \div d) * d <= n
OBVIOUS

LEMMA MulFact ==
  ASSUME NEW a \in Nat, NEW b \in Nat, NEW d \in Nat, a < b
  PROVE  a * d + d <= b * d
OBVIOUS

LEMMA AddFact ==
  ASSUME NEW a \in Nat, NEW b \in Nat, NEW d \in Nat
  PROVE  (a + b) * d = a * d + b * d
OBVIOUS

\* After k frames of the audio that the recognizer has from l on.
Ran(acc, l, s, k) ==
  /\ acc.ok = TRUE
  /\ Listening(acc.l, s) /\ acc.l.sent = l.sent /\ acc.l.playhead = l.playhead + k
  /\ InTurn(acc.words, s, l.playhead, l.playhead + k)

\* As long as there are frames left, the next one is there.
LEMMA EnoughFact ==
  ASSUME NEW s \in Nat, NEW l, Listening(l, s), NEW k \in Nat, k < Len(l.pending) \div FrameSize,
         NEW acc, Ran(acc, l, s, k)
  PROVE  Len(acc.l.pending) >= FrameSize
<1> DEFINE frames == Len(l.pending) \div FrameSize
           a == l.playhead
           n == Len(l.pending)
           m == Len(acc.l.pending)
           F == FrameSize
<1>1. a \in Nat /\ n \in Nat /\ m \in Nat /\ F \in Nat /\ F > 0
  <2>1. Listening(acc.l, s)
    BY DEF Ran
  <2> QED
    BY <2>1, LocalParameters, HeardFact
<1>2. l.sent = a * F + n /\ l.sent = (a + k) * F + m
  BY DEF Listening, Ran
<1>3. k < frames
  OBVIOUS
<1> HIDE DEF a, n, m
<1>4. frames \in Nat /\ frames * F <= n
  BY <1>1, DivFact DEF n
<1> HIDE DEF frames, F
<1>5. k * F + F <= frames * F
  BY <1>1, <1>3, <1>4, MulFact
<1>6. (a + k) * F = a * F + k * F
  BY <1>1, AddFact
<1> DEFINE x == a * F
           y == k * F
           z == frames * F
<1>7. x \in Nat /\ y \in Nat /\ z \in Nat
  BY <1>1, <1>4
<1> HIDE DEF x, y, z
<1>8. x + n = (x + y) + m
  BY <1>2, <1>6 DEF x, y
<1>9. y + F <= z /\ z <= n
  BY <1>4, <1>5 DEF y, z
<1>10. m >= F
  BY <1>1, <1>7, <1>8, <1>9
<1> QED
  BY <1>10 DEF m, F

LEMMA NextFrame ==
  ASSUME NEW s \in Nat, NEW l, Listening(l, s), NEW k \in Nat, k < Len(l.pending) \div FrameSize,
         NEW acc, Ran(acc, l, s, k), NEW says, NEW r, r = RunFrame(acc, says)
  PROVE  Ran(r, l, s, k + 1)
<1>1. Len(acc.l.pending) >= FrameSize
  BY EnoughFact
<1>2. Ready(acc, s)
  BY <1>1 DEF Ran, Ready
<1>3. Taken(acc, r, s)
  BY <1>2, FrameFact, Zenon
<1>4. l.playhead \in Nat
  BY DEF Listening
<1> DEFINE n == l.playhead + k
<1>5. n \in Nat /\ l.playhead <= n /\ n + 1 = l.playhead + (k + 1) /\ acc.l.playhead = n
  BY <1>4 DEF Ran
<1>6. InTurn(acc.words, s, l.playhead, n) /\ acc.l.sent = l.sent
  BY DEF Ran
<1> HIDE DEF n
<1>7. InTurn(r.words, s, l.playhead, n + 1)
  <2>1. InTurn(acc.words, s, l.playhead, n + 1)
    BY <1>5, <1>4, <1>6, WideFact
  <2>2. InTurn(Append(acc.words, [frame |-> FrameOf(s, n), start |-> n]), s, l.playhead, n + 1)
    BY <1>4, <1>5, <1>6, AppendFact
  <2> QED
    BY <1>3, <1>5, <2>1, <2>2 DEF Taken
<1> QED
  BY <1>3, <1>5, <1>6, <1>7 DEF Ran, Taken

\* All frames of the audio are run.
LEMMA LoopFact ==
  ASSUME NEW s \in Nat, NEW l, Listening(l, s),
         NEW says \in [1..Len(l.pending) \div FrameSize -> BOOLEAN]
  PROVE  \E k \in Nat : Ran(RunFrames(l, says), l, s, k)
<1> DEFINE n == Len(l.pending) \div FrameSize
<1>1. n \in Nat
  <2>1. Len(l.pending) \in Nat /\ FrameSize \in Nat /\ FrameSize > 0
    BY LocalParameters, HeardFact
  <2> QED
    BY <2>1, DivFact
<1>2. Len(says) = n
  BY <1>1
<1>3. PICK f : IsRun(f, l, says, n) /\ RunFrames(l, says) = f[n]
  BY <1>1, <1>2, RunFact
<1> HIDE DEF n
<1>4. f = [i \in 0..n |-> IF i = 0 THEN [l |-> l, words |-> <<>>, ok |-> TRUE] ELSE RunFrame(f[i - 1], says[i])]
  BY <1>3 DEF IsRun
<1> DEFINE S == {k \in Nat : k <= n /\ ~ Ran(f[k], l, s, k)}
<1>5. S = {}
  <2> SUFFICES ASSUME S # {} PROVE FALSE
    OBVIOUS
  <2>1. PICK k \in S : \A j \in S : k <= j
    BY LeastOf
  <2>2. k \in Nat /\ k <= n /\ ~ Ran(f[k], l, s, k)
    OBVIOUS
  <2>3. CASE k = 0
    <3>1. f[k] = [l |-> l, words |-> <<>>, ok |-> TRUE]
      <4>1. k \in 0..n
        BY <1>1, <2>2
      <4>2. f[k] = IF k = 0 THEN [l |-> l, words |-> <<>>, ok |-> TRUE] ELSE RunFrame(f[k - 1], says[k])
        BY <1>4, <4>1
      <4> QED
        BY <2>3, <4>2
    <3>2. l.playhead \in Nat
      BY DEF Listening
    <3>3. InTurn(<<>>, s, l.playhead, l.playhead + k)
      BY DEF InTurn
    <3> QED
      BY <2>2, <2>3, <3>1, <3>2, <3>3 DEF Ran
  <2>4. CASE k # 0
    <3>1. k - 1 \in Nat /\ k - 1 < n /\ k - 1 \notin S /\ k \in 1..n
      BY <1>1, <2>1, <2>2, <2>4
    <3>2. Ran(f[k - 1], l, s, k - 1)
      <4> DEFINE j == k - 1
      <4>1. j \in Nat /\ j <= n /\ j \notin S
        BY <1>1, <3>1
      <4> HIDE DEF j
      <4>2. Ran(f[j], l, s, j)
        BY <4>1
      <4> QED
        BY <4>2 DEF j
    <3>3. f[k] = RunFrame(f[k - 1], says[k]) /\ says[k] \in BOOLEAN
      <4>1. k \in 0..n
        BY <1>1, <2>2
      <4>2. f[k] = IF k = 0 THEN [l |-> l, words |-> <<>>, ok |-> TRUE] ELSE RunFrame(f[k - 1], says[k])
        BY <1>4, <4>1
      <4>3. says \in [1..n -> BOOLEAN]
        BY DEF n
      <4> QED
        BY <2>4, <3>1, <4>2, <4>3
    <3> DEFINE j == k - 1
    <3>4. j + 1 = k
      BY <2>2
    <3>5. j \in Nat /\ j < Len(l.pending) \div FrameSize /\ Ran(f[j], l, s, j) /\ f[k] = RunFrame(f[j], says[k])
      BY <3>1, <3>2, <3>3 DEF n
    <3> HIDE DEF j
    <3>6. Ran(f[k], l, s, j + 1)
      BY <3>3, <3>5, NextFrame
    <3> QED
      BY <2>2, <3>4, <3>6
  <2> QED
    BY <2>3, <2>4
<1>6. Ran(f[n], l, s, n)
  BY <1>1, <1>5
<1> QED
  BY <1>1, <1>3, <1>6

\* n new samples of the session, and the recognizer before it runs with them.
Sound(s, l, n) == [i \in 1..n |-> <<s, l.sent + i>>]
WithSound(l, audio, n) == [l EXCEPT !.pending = WithPending(l.pending, audio), !.sent = l.sent + n]

LEMMA AudioFact ==
  ASSUME NEW s \in Nat, NEW l, Listening(l, s), NEW n \in Nat
  PROVE  /\ Listening(WithSound(l, Sound(s, l, n), n), s)
         /\ WithSound(l, Sound(s, l, n), n).playhead = l.playhead
<1> DEFINE audio == Sound(s, l, n)
           new == WithSound(l, audio, n)
           h == l.playhead * FrameSize
           old == l.pending
           both == WithPending(old, audio)
           sum == l.sent + n
<1>1. /\ l.frameId \in Nat /\ l.lmOffset = l.frameId /\ l.playhead \in Nat /\ l.sent \in Nat
      /\ old \in Seq(Nat \X Nat) /\ Len(old) \in Nat
      /\ l.frameId = 0 \/ l.frameId > PrimeCap
  BY HeardFact DEF Listening
<1>2. h \in Nat
  BY <1>1, LocalParameters
<1>3. l.sent = h + Len(old) /\ \A i \in 1..Len(old) : old[i] = <<s, h + i>>
  BY DEF Listening
<1>4. sum \in Nat /\ sum = l.sent + n
  BY <1>1
<1> HIDE DEF h, old, sum
<1>5. audio \in Seq(Nat \X Nat) /\ Len(audio) = n /\ \A i \in 1..n : audio[i] = <<s, l.sent + i>>
  <2>1. \A i \in 1..n : <<s, l.sent + i>> \in Nat \X Nat
    BY <1>1
  <2>2. audio \in [1..n -> Nat \X Nat]
    BY <2>1 DEF Sound
  <2>3. audio \in Seq(Nat \X Nat) /\ Len(audio) = n
    BY <2>2
  <2>4. \A i \in 1..n : audio[i] = <<s, l.sent + i>>
    BY DEF Sound
  <2> QED
    BY <2>3, <2>4
<1>6. /\ both \in Seq(Nat \X Nat) /\ Len(both) = Len(old) + n
      /\ \A i \in 1..Len(old) : both[i] = old[i]
      /\ \A i \in Len(old) + 1..Len(old) + n : both[i] = audio[i - Len(old)]
  <2>1. old \in Seq(Nat \X Nat) /\ audio \in Seq(Nat \X Nat) /\ Len(audio) = n /\ both = old \o audio
    BY <1>1, <1>5 DEF WithPending
  <2> HIDE DEF both
  <2> QED
    BY <2>1, ConcatProperties
<1>7. new = [l EXCEPT !.pending = both, !.sent = sum]
  BY DEF old, sum, WithSound
<1> HIDE DEF both, new
<1>8. new = [pending |-> both, sent |-> sum, frameId |-> l.frameId, playhead |-> l.playhead, lmOffset |-> l.lmOffset]
  <2>1. l \in [pending : Seq(Nat \X Nat), sent : Nat, frameId : Nat, playhead : Nat, lmOffset : Nat]
    BY DEF Listening
  <2> QED
    BY <1>7, <2>1
<1>9. ASSUME NEW i \in 1..Len(both) PROVE both[i] = <<s, h + i>>
  <2>1. CASE i <= Len(old)
    <3>1. i \in 1..Len(old)
      BY <1>1, <1>6, <2>1
    <3> QED
      BY <1>3, <1>6, <3>1
  <2>2. CASE i > Len(old)
    <3>1. i \in Len(old) + 1..Len(old) + n /\ i - Len(old) \in 1..n
      <4>1. Len(old) \in Nat /\ n \in Nat /\ i \in Nat /\ i <= Len(old) + n
        BY <1>1, <1>6
      <4> QED
        BY <2>2, <4>1
    <3>2. l.sent + (i - Len(old)) = h + i
      <4>1. h \in Int /\ i \in Int /\ Len(old) \in Int
        BY <1>1, <1>2
      <4>2. (h + Len(old)) + (i - Len(old)) = h + i
        BY <4>1, SumFact, Zenon
      <4> QED
        BY <1>3, <4>2
    <3> QED
      BY <1>5, <1>6, <3>1, <3>2
  <2> QED
    BY <1>1, <2>1, <2>2
<1>10. sum = h + Len(both)
  BY <1>1, <1>2, <1>3, <1>4, <1>6
<1>11. new \in [pending : Seq(Nat \X Nat), sent : Nat, frameId : Nat, playhead : Nat, lmOffset : Nat]
  BY <1>1, <1>4, <1>6, <1>8
<1>12. /\ new.pending = both /\ new.sent = sum /\ new.playhead = l.playhead
       /\ new.frameId = l.frameId /\ new.lmOffset = l.lmOffset
  <2> DEFINE a == l.frameId
             b == l.playhead
             c == l.lmOffset
  <2>1. new = [pending |-> both, sent |-> sum, frameId |-> a, playhead |-> b, lmOffset |-> c]
    BY <1>8
  <2> HIDE DEF a, b, c
  <2>2. new.pending = both /\ new.sent = sum /\ new.frameId = a /\ new.playhead = b /\ new.lmOffset = c
    BY <2>1
  <2> QED
    BY <2>2 DEF a, b, c
<1>13. Listening(new, s) /\ new.playhead = l.playhead
  BY <1>1, <1>9, <1>10, <1>11, <1>12 DEF Listening, h
<1> QED
  BY <1>13 DEF new

\* The words that were heard, and those in the queue, are of frames that were run, in
\* their turn.
Transcribed ==
  /\ InTurn(heard, sttSession, 0, local.playhead) /\ InTurn(outQueue, sttSession, 0, local.playhead)
  /\ \A i \in 1..Len(heard) : heard[i] # EndMark
  /\ Before(heard, outQueue)

LocalInv ==
  /\ sttSession \in Nat /\ asserted = FALSE
  /\ Listening(local, sttSession)
  /\ Transcribed

LEMMA FreshFact == \A s : InTurn(<<>>, s, 0, 0) /\ Before(<<>>, <<>>)
BY DEF InTurn, Before

LEMMA RestartFact ==
  ASSUME NEW s
  PROVE  Listening([pending |-> <<>>, sent |-> 0, frameId |-> 0, playhead |-> 0, lmOffset |-> 0], s)
<1>1. 0 = 0 * FrameSize + 0
  BY LocalParameters
<1> QED
  BY <1>1 DEF Listening

LEMMA LocalInitInv == LocalInit => LocalInv
<1> SUFFICES ASSUME LocalInit PROVE LocalInv
  OBVIOUS
<1>1. local.playhead = 0
  BY DEF LocalInit
<1>2. Listening(local, sttSession)
  BY RestartFact DEF LocalInit
<1> QED
  BY <1>1, <1>2, FreshFact DEF LocalInit, LocalInv, Transcribed

LEMMA StartUpLocalInv == ASSUME LocalInv, StartUpLocal PROVE LocalInv'
<1>1. /\ local' = [pending |-> <<>>, sent |-> 0, frameId |-> 0, playhead |-> 0, lmOffset |-> 0]
      /\ outQueue' = <<>> /\ heard' = <<>> /\ asserted' = asserted /\ sttSession' = sttSession + 1
  BY DEF StartUpLocal, Restart, ResetFrameId, ResetRecognizer, NewQueue
<1>2. Listening(local, sttSession)'
  BY <1>1, RestartFact
<1>3. local'.playhead = 0
  BY <1>1
<1>4. Transcribed'
  BY <1>1, <1>3, FreshFact DEF Transcribed
<1>5. sttSession' \in Nat /\ asserted' = FALSE
  BY <1>1 DEF LocalInv
<1> QED
  BY <1>2, <1>4, <1>5 DEF LocalInv

LEMMA SendAudioLocalInv == ASSUME LocalInv, SendAudioLocal PROVE LocalInv'
<1> DEFINE s == sttSession
           low == local.playhead
<1>1. PICK n \in 1 .. MaxSamples - local.sent :
        LET audio  == [i \in 1..n |-> <<sttSession, local.sent + i>>]
            before == [local EXCEPT !.pending = WithPending(local.pending, audio), !.sent = local.sent + n]
        IN  \E says \in [1 .. Len(before.pending) \div FrameSize -> BOOLEAN] :
              LET after == RunFrames(before, says)
              IN  /\ local' = after.l
                  /\ outQueue' = outQueue \o after.words
                  /\ asserted' = (asserted \/ ~after.ok)
  BY DEF SendAudioLocal
<1> DEFINE audio  == [i \in 1..n |-> <<s, local.sent + i>>]
           before == [local EXCEPT !.pending = WithPending(local.pending, audio), !.sent = local.sent + n]
<1>2. PICK says \in [1 .. Len(before.pending) \div FrameSize -> BOOLEAN] :
        LET after == RunFrames(before, says)
        IN  /\ local' = after.l
            /\ outQueue' = outQueue \o after.words
            /\ asserted' = (asserted \/ ~after.ok)
  BY <1>1
<1> DEFINE after == RunFrames(before, says)
<1>3. local' = after.l /\ outQueue' = outQueue \o after.words /\ asserted' = (asserted \/ ~after.ok)
  BY <1>2
<1>4. sttSession' = s /\ heard' = heard
  BY DEF SendAudioLocal
<1>5. s \in Nat /\ asserted = FALSE /\ Listening(local, s) /\ Transcribed /\ low \in Nat
  BY DEF LocalInv, Listening
<1>6. n \in Nat
  OBVIOUS
<1>7. Listening(before, s) /\ before.playhead = low
  <2> HIDE DEF s, low
  <2> DEFINE new == WithSound(local, Sound(s, local, n), n)
  <2>1. Listening(new, s) /\ new.playhead = local.playhead
    <3> HIDE DEF new
    <3> QED
      BY <1>5, <1>6, AudioFact DEF new
  <2>2. before = new
    BY DEF WithSound, Sound
  <2> HIDE DEF before, new
  <2> QED
    BY <2>1, <2>2 DEF low
<1> HIDE DEF before, audio
<1>8. PICK k \in Nat : Ran(after, before, s, k)
  BY <1>5, <1>7, LoopFact
<1> HIDE DEF after
<1> DEFINE high == low + k
<1>9. /\ high \in Nat /\ low <= high
      /\ after.ok = TRUE /\ Listening(after.l, s) /\ after.l.playhead = high
      /\ InTurn(after.words, s, low, high)
  BY <1>5, <1>7, <1>8 DEF Ran
<1> HIDE DEF high
<1>10. InTurn(heard, s, 0, low) /\ InTurn(outQueue, s, 0, low) /\ Before(heard, outQueue)
  BY <1>5 DEF Transcribed
<1> HIDE DEF low, s
<1>11. InTurn(heard, s, 0, high) /\ InTurn(outQueue, s, 0, high) /\ InTurn(after.words, s, 0, high)
  BY <1>5, <1>9, <1>10, WideFact
<1>12. \A q : InTurn(q, s, 0, low) => Before(q, after.words)
  <2> SUFFICES ASSUME NEW q, InTurn(q, s, 0, low), NEW i \in 1..Len(q), NEW j \in 1..Len(after.words),
                      q[i] # EndMark, after.words[j] # EndMark
               PROVE  q[i].start < after.words[j].start
    BY DEF Before
  <2>1. q[i].start \in Nat /\ q[i].start < low
    BY DEF InTurn, Word
  <2>2. after.words[j].start \in Nat /\ low <= after.words[j].start
    BY <1>9 DEF InTurn, Word
  <2> QED
    BY <1>5, <2>1, <2>2
<1>13. InTurn(outQueue \o after.words, s, 0, high)
  BY <1>9, <1>10, <1>11, <1>12, ChainFact
<1>14. Before(heard, outQueue \o after.words)
  <2>1. /\ outQueue \in Seq(Word \cup {EndMark}) /\ Len(outQueue) \in Nat
        /\ after.words \in Seq(Word \cup {EndMark}) /\ Len(after.words) \in Nat
    BY <1>11 DEF InTurn
  <2> DEFINE c == outQueue \o after.words
  <2>2. /\ Len(c) = Len(outQueue) + Len(after.words)
        /\ \A i \in 1..Len(outQueue) : c[i] = outQueue[i]
        /\ \A i \in Len(outQueue) + 1..Len(outQueue) + Len(after.words) : c[i] = after.words[i - Len(outQueue)]
    BY <2>1
  <2> HIDE DEF c
  <2>3. Before(heard, c)
    <3> SUFFICES ASSUME NEW i \in 1..Len(heard), NEW j \in 1..Len(c), heard[i] # EndMark, c[j] # EndMark
                 PROVE  heard[i].start < c[j].start
      BY DEF Before
    <3>1. CASE j <= Len(outQueue)
      <4>1. j \in 1..Len(outQueue) /\ c[j] = outQueue[j]
        BY <2>1, <2>2, <3>1
      <4> QED
        BY <1>10, <4>1 DEF Before
    <3>2. CASE j > Len(outQueue)
      <4>1. j - Len(outQueue) \in 1..Len(after.words) /\ c[j] = after.words[j - Len(outQueue)]
        BY <2>1, <2>2, <3>2
      <4>2. Before(heard, after.words)
        BY <1>10, <1>12
      <4> QED
        BY <4>1, <4>2 DEF Before
    <3> QED
      BY <2>1, <3>1, <3>2
  <2> QED
    BY <2>3 DEF c
<1>15. asserted' = FALSE
  BY <1>3, <1>5, <1>9
<1>16. Transcribed'
  <2>1. \A i \in 1..Len(heard) : heard[i] # EndMark
    BY <1>5 DEF Transcribed
  <2> QED
    BY <1>3, <1>4, <1>9, <1>11, <1>13, <1>14, <2>1 DEF Transcribed, s
<1> QED
  BY <1>3, <1>4, <1>5, <1>9, <1>15, <1>16 DEF LocalInv, s

\* Only the words and the queue change.
LEMMA QueueStepInv ==
  ASSUME LocalInv, UNCHANGED <<sttSession, local, asserted>>, Transcribed'
  PROVE  LocalInv'
BY DEF LocalInv

LEMMA ConsumeWordInv == ASSUME LocalInv, ConsumeWord PROVE LocalInv'
<1> DEFINE s == sttSession
           high == local.playhead
           w == outQueue[1]
           t == Tail(outQueue)
<1>1. /\ InTurn(heard, s, 0, high) /\ InTurn(outQueue, s, 0, high) /\ Before(heard, outQueue)
      /\ \A i \in 1..Len(heard) : heard[i] # EndMark
      /\ high \in Nat
  BY DEF LocalInv, Transcribed, Listening
<1>2. /\ outQueue # <<>> /\ w # EndMark /\ heard' = Append(heard, w) /\ outQueue' = t
      /\ UNCHANGED <<sttSession, local, asserted>>
  BY DEF ConsumeWord
<1>3. /\ InTurn(t, s, 0, high) /\ Before(<<w>>, t) /\ w \in Word \cup {EndMark}
      /\ \A j \in 1..Len(t) : j + 1 \in 1..Len(outQueue) /\ t[j] = outQueue[j + 1]
  BY <1>1, <1>2, RestFact
<1>4. outQueue \in Seq(Word \cup {EndMark}) /\ 1 \in 1..Len(outQueue)
  <2>1. outQueue \in Seq(Word \cup {EndMark})
    BY <1>1 DEF InTurn
  <2> QED
    BY <1>2, <2>1
<1>5. w \in Word /\ 0 <= w.start /\ w.start < high /\ w.frame = FrameOf(s, w.start)
  BY <1>1, <1>2, <1>4 DEF InTurn
<1>6. \A i \in 1..Len(heard) : heard[i].start < w.start
  BY <1>1, <1>2, <1>4 DEF Before
<1>7. heard \in Seq(Word \cup {EndMark}) /\ Len(heard) \in Nat
  BY <1>1 DEF InTurn
<1> HIDE DEF w, t, s, high
<1>8. InTurn(Append(heard, w), s, 0, high)
  BY <1>1, <1>3, <1>5, <1>6, PutFact
<1> DEFINE h == Append(heard, w)
<1>9. Len(h) = Len(heard) + 1 /\ h[Len(heard) + 1] = w /\ \A i \in 1..Len(heard) : h[i] = heard[i]
  BY <1>3, <1>7
<1> HIDE DEF h
<1>10. \A i \in 1..Len(h) : h[i] # EndMark
  <2> SUFFICES ASSUME NEW i \in 1..Len(h) PROVE h[i] # EndMark
    OBVIOUS
  <2>1. i \in 1..Len(heard) \/ i = Len(heard) + 1
    BY <1>7, <1>9
  <2> QED
    BY <1>1, <1>2, <1>9, <2>1
<1>11. Before(h, t)
  <2> SUFFICES ASSUME NEW i \in 1..Len(h), NEW j \in 1..Len(t), h[i] # EndMark, t[j] # EndMark
               PROVE  h[i].start < t[j].start
    BY DEF Before
  <2>1. i \in 1..Len(heard) \/ i = Len(heard) + 1
    BY <1>7, <1>9
  <2>2. CASE i \in 1..Len(heard)
    <3>1. h[i] = heard[i] /\ heard[i] # EndMark /\ t[j] = outQueue[j + 1] /\ j + 1 \in 1..Len(outQueue)
      BY <1>1, <1>3, <1>9, <2>2
    <3> QED
      BY <1>1, <2>2, <3>1 DEF Before
  <2>3. CASE i = Len(heard) + 1
    <3>1. h[i] = w /\ <<w>>[1] = w /\ 1 \in 1..Len(<<w>>)
      BY <1>9, <2>3
    <3> QED
      BY <1>2, <1>3, <3>1 DEF Before
  <2> QED
    BY <2>1, <2>2, <2>3
<1>12. Transcribed'
  <2>1. /\ sttSession' = s /\ local'.playhead = high /\ heard' = h /\ outQueue' = t
    BY <1>2 DEF h, s, high
  <2>2. InTurn(h, s, 0, high)
    BY <1>8 DEF h
  <2> QED
    BY <1>3, <1>10, <1>11, <2>1, <2>2 DEF Transcribed
<1> QED
  BY <1>2, <1>12, QueueStepInv

LEMMA ConsumeEndInv == ASSUME LocalInv, ConsumeEnd PROVE LocalInv'
<1> DEFINE t == Tail(outQueue)
<1>1. /\ InTurn(heard, sttSession, 0, local.playhead) /\ InTurn(outQueue, sttSession, 0, local.playhead)
      /\ Before(heard, outQueue)
      /\ \A i \in 1..Len(heard) : heard[i] # EndMark
      /\ local.playhead \in Nat
  BY DEF LocalInv, Transcribed, Listening
<1>2. /\ outQueue # <<>> /\ heard' = heard /\ outQueue' = t
      /\ UNCHANGED <<sttSession, local, asserted>>
  BY DEF ConsumeEnd
<1>3. /\ InTurn(t, sttSession, 0, local.playhead)
      /\ \A j \in 1..Len(t) : j + 1 \in 1..Len(outQueue) /\ t[j] = outQueue[j + 1]
  BY <1>1, <1>2, RestFact
<1> HIDE DEF t
<1>4. Before(heard, t)
  BY <1>1, <1>3 DEF Before
<1>5. Transcribed'
  BY <1>1, <1>2, <1>3, <1>4 DEF Transcribed
<1> QED
  BY <1>2, <1>5, QueueStepInv

LEMMA MarkInv ==
  ASSUME LocalInv, outQueue' = Append(outQueue, EndMark),
         UNCHANGED <<sttSession, local, heard, asserted>>
  PROVE  LocalInv'
<1> DEFINE p == Append(outQueue, EndMark)
<1>1. /\ InTurn(heard, sttSession, 0, local.playhead) /\ InTurn(outQueue, sttSession, 0, local.playhead)
      /\ Before(heard, outQueue)
      /\ \A i \in 1..Len(heard) : heard[i] # EndMark
      /\ local.playhead \in Nat
  BY DEF LocalInv, Transcribed, Listening
<1>2. InTurn(p, sttSession, 0, local.playhead)
  BY <1>1, PutFact
<1>3. outQueue \in Seq(Word \cup {EndMark}) /\ Len(outQueue) \in Nat
  BY <1>1 DEF InTurn
<1>4. Len(p) = Len(outQueue) + 1 /\ p[Len(outQueue) + 1] = EndMark /\ \A i \in 1..Len(outQueue) : p[i] = outQueue[i]
  BY <1>3
<1> HIDE DEF p
<1>5. Before(heard, p)
  <2> SUFFICES ASSUME NEW i \in 1..Len(heard), NEW j \in 1..Len(p), p[j] # EndMark
               PROVE  heard[i].start < p[j].start
    BY DEF Before
  <2>1. j \in 1..Len(outQueue) /\ p[j] = outQueue[j]
    BY <1>3, <1>4
  <2> QED
    BY <1>1, <2>1 DEF Before
<1>6. Transcribed'
  BY <1>1, <1>2, <1>5 DEF Transcribed, p
<1> QED
  BY <1>6, QueueStepInv

LEMMA LocalStep == LocalInv /\ [LocalNext]_localVars => LocalInv'
<1> SUFFICES ASSUME LocalInv, [LocalNext]_localVars PROVE LocalInv'
  OBVIOUS
<1>1. CASE StartUpLocal
  BY <1>1, StartUpLocalInv
<1>2. CASE SendAudioLocal
  BY <1>2, SendAudioLocalInv
<1>3. CASE ConsumeWord
  BY <1>3, ConsumeWordInv
<1>4. CASE ConsumeEnd
  BY <1>4, ConsumeEndInv
<1>5. CASE FinishLocal \/ FailLocal
  BY <1>5, MarkInv DEF FinishLocal, FailLocal
<1>6. CASE ShutdownLocal \/ UNCHANGED localVars
  <2>1. UNCHANGED <<sttSession, local, outQueue, heard, asserted>>
    BY <1>6 DEF ShutdownLocal, localVars
  <2>2. Transcribed'
    BY <2>1 DEF LocalInv, Transcribed
  <2> QED
    BY <2>1, <2>2, QueueStepInv
<1> QED
  BY <1>1, <1>2, <1>3, <1>4, <1>5, <1>6 DEF LocalNext

\* OwnTranscript, however send_audio is given the audio of a session and whatever is
\* said of its frames: a word that the iteration yields is of one frame of the session
\* under way, at its place, once, and the recognizer never lacks a result.
THEOREM OwnTranscriptHolds == LocalSpec => []OwnTranscript
<1>1. LocalInv => OwnTranscript
  <2> SUFFICES ASSUME LocalInv PROVE OwnTranscript
    OBVIOUS
  <2>1. /\ InTurn(heard, sttSession, 0, local.playhead) /\ asserted = FALSE
        /\ \A i \in 1..Len(heard) : heard[i] # EndMark
    BY DEF LocalInv, Transcribed
  <2>2. heard \in Seq(Word \cup {EndMark}) /\ DOMAIN heard = 1..Len(heard) /\ Len(heard) \in Nat
    BY <2>1 DEF InTurn
  <2>3. ASSUME NEW i \in DOMAIN heard
        PROVE  /\ heard[i] # EndMark
               /\ heard[i].frame = FrameOf(sttSession, heard[i].start)
               /\ \A j \in 1..i - 1 : heard[j].start < heard[i].start
    <3>1. i \in 1..Len(heard) /\ \A j \in 1..i - 1 : j \in 1..Len(heard)
      BY <2>2
    <3> QED
      BY <2>1, <3>1 DEF InTurn
  <2> QED
    BY <2>1, <2>3 DEF OwnTranscript, FrameOf
<1> QED
  BY <1>1, LocalInitInv, LocalStep, PTL DEF LocalSpec
===============================================================================
