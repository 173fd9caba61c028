--------------------------- MODULE ChannelLifecycle ---------------------------
(***************************************************************************)
(* One connection from handle_chat to its end: Channel.__aenter__ takes a  *)
(* batch slot and starts the services, run() lets three loops and the      *)
(* tasks they spawn work in one asyncio.TaskGroup, and __aexit__ unwinds   *)
(* the exit stack, which gives the slot back.  What the loops do is in the *)
(* other modules; here a task runs, ends, fails or is cancelled.           *)
(***************************************************************************)
EXTENDS Integers, FiniteSets

CONSTANTS
  MaxJobs,         \* bound on the tasks the loops spawn
  CancelMayBeLost  \* TRUE on Python 3.11, see Conditioning

ASSUME LifecycleAssumption == MaxJobs \in Nat \ {0, 1} /\ CancelMayBeLost \in BOOLEAN

Recv  == 0 - 1   \* _recv_loop
Stt   == 0 - 2   \* _stt_recv_loop
Out   == 0 - 3   \* _output_loop
Loops == {Recv, Stt, Out}
Jobs  == 1 .. MaxJobs
Tasks == Loops \cup Jobs
None  == 0

\* "guarded" is _background_task, which logs its exceptions; a guess, a confirm,
\* a memory lookup and an ARC request are "bare".
Kind  == {"guarded", "bare"}
Error == {"closed", "connection", "other"}
Phase == {"new", "starting", "greeting", "running", "stt", "rag", "release", "over"}

VARIABLES
  client,     \* "on" or "gone"
  phase,      \* where handle_chat is
  slot,       \* "free" (not ours) or "held"
  group,      \* the TaskGroup: "none", "open", "aborting" or "joined"
  task,       \* task[t]: "none", "live" or "ended"
  kind,       \* kind[j] of a job
  cancelling, \* tasks with a cancellation that has not been thrown yet
  pending,    \* RAGManager._pending_task
  awaited,    \* the old job _output_loop awaits in _cancel_and_await_pending
  errors,     \* what failed tasks have raised into the group
  outcome     \* how handle_chat ended: "none", "quiet", "error", "cancelled"

connVars == <<client, phase, slot, outcome>>
vars == <<connVars, group, task, kind, cancelling, pending, awaited, errors>>

Live(t) == task[t] = "live"

Init ==
  /\ client = "on" /\ phase = "new" /\ slot = "free" /\ outcome = "none"
  /\ group = "none"
  /\ task = [t \in Tasks |-> "none"]
  /\ kind = [j \in Jobs |-> "bare"]
  /\ cancelling = {} /\ pending = None /\ awaited = None /\ errors = {}

-------------------------------------------------------------------------------
(* handle_chat, Channel.__aenter__ and the start of run *)

tasksUnchanged == UNCHANGED <<group, task, kind, cancelling, pending, awaited, errors>>

ClientLeaves ==
  /\ client = "on" /\ phase # "over"
  /\ client' = "gone"
  /\ UNCHANGED <<phase, slot, outcome>> /\ tasksUnchanged

\* acquire_slot raises HTTPServiceUnavailable, which handle_chat logs and raises.
Reject ==
  /\ phase = "new"
  /\ phase' = "over" /\ outcome' = "error"
  /\ UNCHANGED <<client, slot>> /\ tasksUnchanged

Acquire ==
  /\ phase = "new"
  /\ phase' = "starting" /\ slot' = "held"
  /\ UNCHANGED <<client, outcome>> /\ tasksUnchanged

StartUp ==
  /\ phase = "starting"
  /\ phase' = "greeting"
  /\ UNCHANGED <<client, slot, outcome>> /\ tasksUnchanged

\* stt.start_up raises in __aenter__, so __aexit__ is never called.
StartUpFails ==
  /\ phase = "starting"
  /\ phase' = "over" /\ outcome' = "error"
  /\ UNCHANGED <<client, slot>> /\ tasksUnchanged

\* run sends its first byte; then the group starts the three loops.
Run ==
  /\ phase = "greeting"
  /\ \/ /\ client = "on"
        /\ phase' = "running" /\ group' = "open"
        /\ task' = [t \in Tasks |-> IF t \in Loops THEN "live" ELSE task[t]]
        /\ UNCHANGED outcome
     \/ /\ client = "gone"
        /\ phase' = "stt" /\ outcome' = "error"
        /\ UNCHANGED <<group, task>>
  /\ UNCHANGED <<client, slot, kind, cancelling, pending, awaited, errors>>

-------------------------------------------------------------------------------
(* Tasks *)

End(t) == task' = [task EXCEPT ![t] = "ended"] /\ cancelling' = cancelling \ {t}

\* The task is not suspended in the await of _cancel_and_await_pending.
Acts(t) == Live(t) /\ t \notin cancelling /\ (t = Out => awaited = None)

\* An exception leaves task t; _background_task logs its own.
Raise(t, e) ==
  /\ End(t)
  /\ errors' = IF t \in Jobs /\ kind[t] = "guarded" THEN errors ELSE errors \cup {e}

\* _recv_loop sees the end of the connection, of the client's or of the STT
\* service's, and raises _ChannelClosed.
RecvEnds ==
  /\ Acts(Recv)
  /\ Raise(Recv, "closed")
  /\ UNCHANGED <<connVars, group, kind, pending, awaited>>

\* Sending to a client that is gone raises ConnectionResetError.
SendFails(t) ==
  /\ Acts(t) /\ t # Recv /\ client = "gone"
  /\ Raise(t, "connection")
  /\ UNCHANGED <<connVars, group, kind, pending, awaited>>

\* The STT iterator fails, or a frame cannot be decoded.
LoopFails(t) ==
  /\ t \in Loops /\ Acts(t)
  /\ Raise(t, "other")
  /\ UNCHANGED <<connVars, group, kind, pending, awaited>>

JobEnds(j) ==
  /\ Acts(j)
  /\ End(j)
  /\ UNCHANGED <<connVars, group, kind, pending, awaited, errors>>

\* Jobs are numbered as they are created.
IsNext(j) == task[j] = "none" /\ \A i \in 1 .. j - 1 : task[i] # "none"

\* The trigger that awaits an old job keeps its place under the bound MaxJobs.
Room == awaited = None \/ task[MaxJobs - 1] = "none"

\* Mutant: the group is not asked, the task is simply created.
CreateAnyway(t, j, k) ==
  /\ task' = [task EXCEPT ![j] = "live"]
  /\ kind' = [kind EXCEPT ![j] = k]
  /\ cancelling' = cancelling \ {t}
  /\ UNCHANGED errors

\* TaskGroup.create_task, called by t: a group that is shutting down raises
\* RuntimeError into t.
Create(t, j, k) ==
  \/ /\ group = "open"
     /\ task' = [task EXCEPT ![j] = "live"]
     /\ kind' = [kind EXCEPT ![j] = k]
     /\ cancelling' = cancelling \ {t}
     /\ UNCHANGED errors
  \/ /\ group = "aborting"
     /\ Raise(t, "other")
     /\ UNCHANGED kind

\* A loop starts a memory lookup or a guess, a retrieval starts an ARC request.
Spawn(t, j) ==
  /\ Acts(t) /\ t # Recv /\ Room
  /\ Create(t, j, "bare")
  /\ UNCHANGED <<connVars, group, pending, awaited>>

\* RAGManager.trigger when no confirmed retrieval is in flight.
Trigger(j, k) ==
  /\ Acts(Out)
  /\ pending # None => ~Live(pending)
  /\ Create(Out, j, k)
  /\ pending' = IF group = "open" THEN j ELSE pending
  /\ UNCHANGED <<connVars, group, awaited>>

\* Mutant: the old retrieval is cancelled and awaited without asking for one.
TriggerCancelsAnyway ==
  /\ Acts(Out)
  /\ task[MaxJobs] = "none"
  /\ cancelling' = cancelling \cup {pending}
  /\ awaited' = pending /\ pending' = None
  /\ UNCHANGED <<connVars, group, task, kind, errors>>

\* RAGManager.trigger cancels the confirmed retrieval in flight and awaits it.
TriggerCancels ==
  /\ Acts(Out) /\ pending # None /\ Live(pending)
  /\ task[MaxJobs] = "none"
  /\ cancelling' = cancelling \cup {pending}
  /\ awaited' = pending /\ pending' = None
  /\ UNCHANGED <<connVars, group, task, kind, errors>>

\* The awaited job has ended.  suppress(CancelledError) also swallows a
\* cancellation of the output loop itself, and trigger goes on.
TriggerResumes(j, k) ==
  /\ Live(Out) /\ awaited # None /\ ~Live(awaited)
  /\ awaited' = None
  /\ Create(Out, j, k)
  /\ pending' = IF group = "open" THEN j ELSE pending
  /\ UNCHANGED <<connVars, group>>

\* CancelledError is thrown into the task.  The await of the output loop in
\* _cancel_and_await_pending is the one place that does not pass it on.
Unwind(t) ==
  /\ Live(t) /\ t \in cancelling
  /\ t = Out => awaited = None
  /\ End(t)
  /\ UNCHANGED <<connVars, group, kind, pending, awaited, errors>>

\* wait_for returns the result of a call that finished at that moment.
CancelIsLost(j) ==
  /\ CancelMayBeLost /\ Live(j) /\ j \in cancelling
  /\ cancelling' = cancelling \ {j}
  /\ UNCHANGED <<connVars, group, task, kind, pending, awaited, errors>>

-------------------------------------------------------------------------------
(* The end of the group and of the connection *)

\* The done callback of a task that failed cancels all its siblings.
Abort ==
  /\ group = "open" /\ errors # {}
  /\ group' = "aborting"
  /\ cancelling' = {t \in Tasks : Live(t)}
  /\ UNCHANGED <<connVars, task, kind, pending, awaited, errors>>

\* The server stops: the handler is cancelled, and the group with it.
ServerStops ==
  /\ group = "open" /\ errors = {}
  /\ group' = "aborting"
  /\ cancelling' = {t \in Tasks : Live(t)}
  /\ UNCHANGED <<connVars, task, kind, pending, awaited, errors>>

\* Mutant: only the three loops are waited for.
LoopsJoined == \A t \in Loops : ~Live(t)

Joined == \A t \in Tasks : ~Live(t)

\* What the except clauses of run catch, and what a group with errors raises.
Caught == {"_ChannelClosed", "ConnectionError", "IncompleteReadError"}
Raised == "ExceptionGroup"

\* All tasks of the group have ended, which leaves run.
Join ==
  /\ group = "aborting" /\ Joined
  /\ group' = "joined"
  /\ phase' = "stt"
  /\ outcome' = CASE errors = {}        -> "cancelled"
                  [] Raised \in Caught  -> "quiet"
                  [] OTHER              -> "error"
  /\ UNCHANGED <<client, slot, task, kind, cancelling, pending, awaited, errors>>

\* LocalSpeechToText.shutdown waits for an iterator that has been cancelled,
\* and gives up after two seconds.
SttShutDown ==
  /\ phase = "stt"
  /\ phase' = "rag"
  /\ UNCHANGED <<client, slot, outcome>> /\ tasksUnchanged

\* RAGManager.__aexit__: whatever its task, it is cancelled and awaited.
RagExit ==
  /\ phase = "rag"
  /\ phase' = "release" /\ pending' = None
  /\ UNCHANGED <<client, slot, outcome, group, task, kind, cancelling, awaited, errors>>

Release ==
  /\ phase = "release"
  /\ phase' = "over" /\ slot' = "free"
  /\ UNCHANGED <<client, outcome>> /\ tasksUnchanged

-------------------------------------------------------------------------------
JobStep(t) == Unwind(t) \/ (t \in Jobs /\ JobEnds(t))

Handler == StartUp \/ StartUpFails \/ Run \/ Abort \/ Join \/ SttShutDown \/ RagExit \/ Release

Resume == \E j \in Jobs, k \in Kind : IsNext(j) /\ TriggerResumes(j, k)

Next ==
  \/ ClientLeaves \/ Reject \/ Acquire \/ ServerStops \/ Handler \/ Resume
  \/ RecvEnds \/ TriggerCancels
  \/ \E t \in Tasks : JobStep(t) \/ SendFails(t) \/ LoopFails(t)
  \/ \E t \in Tasks, j \in Jobs : IsNext(j) /\ Spawn(t, j)
  \/ \E j \in Jobs, k \in Kind : IsNext(j) /\ Trigger(j, k)
  \/ \E j \in Jobs : CancelIsLost(j)

Spec == Init /\ [][Next]_vars

\* The event loop runs every task that is ready: a cancellation is thrown, a
\* job ends since each of its awaits is bounded, the receive loop notices that
\* the client is gone, and the handler goes on.  Nobody has to leave.
Fairness ==
  /\ WF_vars(Handler) /\ WF_vars(Resume)
  /\ WF_vars(client = "gone" /\ RecvEnds)
  /\ \A t \in Tasks : WF_vars(JobStep(t))

FairSpec == Spec /\ Fairness

-------------------------------------------------------------------------------
(* Properties *)

TypeOK ==
  /\ client \in {"on", "gone"} /\ phase \in Phase /\ slot \in {"free", "held"}
  /\ outcome \in {"none", "quiet", "error", "cancelled"}
  /\ group \in {"none", "open", "aborting", "joined"}
  /\ task \in [Tasks -> {"none", "live", "ended"}]
  /\ kind \in [Jobs -> Kind]
  /\ cancelling \subseteq Tasks
  /\ pending \in Jobs \cup {None} /\ awaited \in Jobs \cup {None}
  /\ errors \subseteq Error

\* No task of a connection lives once its slot may belong to somebody else: an
\* ARC request still under way would write its reference into the slot of the
\* next occupant (_async_update_reference uses slot_idx without asking again).
NoWorkAfterRelease ==
  (\E t \in Tasks : Live(t)) => slot = "held" /\ phase = "running"

\* A connection that has come to run and whose client leaves gives its slot
\* back, also when the cancellation of the output loop is swallowed and jobs
\* keep working after theirs.
SlotIsFreed ==
  (phase = "running" /\ client = "gone") ~> slot = "free"

-------------------------------------------------------------------------------
(* What the repository's text says and the code does not do *)

\* "only truly unexpected errors propagate" (channel.py:347): a connection that
\* has run and was only closed ends without an error.
DisconnectIsQuiet ==
  group = "joined" /\ errors \subseteq {"closed", "connection"} => outcome # "error"

===============================================================================
