------------------------- MODULE Conditioning_proofs --------------------------
(***************************************************************************)
(* Proofs about Conditioning, for every value of its constants.            *)
(***************************************************************************)
EXTENDS Conditioning, TLAPS

\* The table of jobs: rows up to "last" are in use, and only a "confirm" job
\* adopts, always a guess of an earlier row.
Table ==
  /\ \A j \in Jobs : pc[j] = "unused" <=> j > last
  /\ \A j \in Jobs : j > last => arc[j] = "none" /\ adopts[j] = None
  /\ \A j \in Jobs : pc[j] \in {"adopt", "wait"} => Confirmed(j)
  /\ \A j \in Jobs : pc[j] = "adopt" => adopts[j] # None
  /\ \A j \in Jobs : adopts[j] # None => adopts[j] <= last /\ job[adopts[j]].kind = "guess"

\* The fields that refer to jobs refer to rows in use, of the right kind.
References ==
  /\ outPc # "idle" => last < MaxJobs
  /\ pending # None => pending <= last /\ Confirmed(pending)
  /\ outPc = "cancel" => pending = None /\ outJob # None /\ outJob <= last
  /\ slot # None => slot <= last /\ job[slot].kind = "guess"

Base == TypeOK /\ Table /\ References

USE BoundsAssumption DEF Jobs, None, Speaker, PC, Ended, Kind, Arc, Live, Confirmed,
    turnVars, outVars, taskVars, waitVars, PendingLive

LEMMA InitBase == Init => Base
  BY DEF Init, Base, TypeOK, Table, References

-------------------------------------------------------------------------------
(* Creating a job *)

\* A created job takes the first unused row of the table and touches no other.
LEMMA CreateFacts ==
  ASSUME Base, last < MaxJobs, NEW kind \in Kind, NEW seq \in Nat, Create(kind, seq)
  PROVE  /\ last \in Nat /\ last + 1 \in Jobs /\ pc[last + 1] = "unused"
         /\ last' = last + 1 /\ last' \in 0 .. MaxJobs
         /\ job' \in [Jobs -> [kind : Kind, seq : Nat, turn : Nat]]
         /\ pc' \in [Jobs -> PC]
         /\ job'[last + 1] = [kind |-> kind, seq |-> seq, turn |-> turn]
         /\ pc'[last + 1] = "ready"
         /\ \A j \in Jobs : j # last + 1 => job'[j] = job[j] /\ pc'[j] = pc[j]
         /\ \A j \in Jobs : j <= last => j # last + 1 /\ j <= last'
         /\ UNCHANGED <<cancelling, got, adopts, arc>>
<1>1. last \in Nat /\ last + 1 \in Jobs /\ pc[last + 1] = "unused"
  BY DEF Base, TypeOK, Table
<1> DEFINE new == [kind |-> kind, seq |-> seq, turn |-> turn]
<1>2. new \in [kind : Kind, seq : Nat, turn : Nat]
  BY DEF Base, TypeOK
<1>3. /\ last' = last + 1 /\ job' = [job EXCEPT ![last + 1] = new]
      /\ pc' = [pc EXCEPT ![last + 1] = "ready"]
      /\ UNCHANGED <<cancelling, got, adopts, arc>>
  BY DEF Create
<1> HIDE DEF new
<1>4. /\ job' \in [Jobs -> [kind : Kind, seq : Nat, turn : Nat]]
      /\ job'[last + 1] = new
      /\ \A j \in Jobs : j # last + 1 => job'[j] = job[j]
  BY <1>1, <1>2, <1>3 DEF Base, TypeOK
<1>5. /\ pc' \in [Jobs -> PC] /\ pc'[last + 1] = "ready"
      /\ \A j \in Jobs : j # last + 1 => pc'[j] = pc[j]
  BY <1>1, <1>3 DEF Base, TypeOK
<1>6. last' \in 0 .. MaxJobs /\ \A j \in Jobs : j <= last => j # last + 1 /\ j <= last'
  BY <1>1, <1>3
<1> QED
  BY <1>1, <1>3, <1>4, <1>5, <1>6 DEF new

\* Creating a job keeps the table in order.
LEMMA CreateTable ==
  ASSUME Base, last < MaxJobs, NEW kind \in Kind, NEW seq \in Nat, Create(kind, seq)
  PROVE  Table'
<1> DEFINE new == last + 1
<1>1. /\ last \in Nat /\ new \in Jobs /\ pc[new] = "unused"
      /\ last' = new
      /\ pc'[new] = "ready"
      /\ \A j \in Jobs : j # new => job'[j] = job[j] /\ pc'[j] = pc[j]
      /\ \A j \in Jobs : j <= last => j # new /\ j <= last'
      /\ UNCHANGED <<adopts, arc>>
  BY CreateFacts
<1>2. \A j \in Jobs : j > last' => j > last /\ j # new
  BY <1>1
<1> HIDE DEF new
<1>3. \A j \in Jobs : pc'[j] = "unused" <=> j > last'
  BY <1>1, <1>2 DEF Base, Table, new
<1>4. \A j \in Jobs : j > last' => arc'[j] = "none" /\ adopts'[j] = None
  BY <1>1, <1>2 DEF Base, Table
<1>5. \A j \in Jobs : pc'[j] \in {"adopt", "wait"} => Confirmed(j)'
  BY <1>1 DEF Base, Table
<1>6. ASSUME NEW j \in Jobs, pc'[j] = "adopt" PROVE adopts'[j] # None
  <2>1. j # new /\ pc[j] = "adopt" /\ adopts' = adopts
    BY <1>1, <1>6
  <2> QED
    BY <2>1 DEF Base, Table
<1>7. ASSUME NEW j \in Jobs, adopts'[j] # None
      PROVE  adopts'[j] <= last' /\ job'[adopts'[j]].kind = "guess"
  <2>1. adopts[j] \in Jobs /\ adopts[j] <= last /\ job[adopts[j]].kind = "guess"
    BY <1>1, <1>7 DEF Base, TypeOK, Table
  <2> QED
    BY <2>1, <1>1
<1> QED
  BY <1>3, <1>4, <1>5, <1>6, <1>7 DEF Table

\* The two actions that start a confirmed retrieval share this step.
LEMMA StartConfirmedBase ==
  ASSUME Base, outPc # "idle", NEW seq \in Nat, StartConfirmed(seq),
         outSeq' \in Nat, ragSeq' \in Nat, shots' \in Nat,
         UNCHANGED <<speaker, turn, trigger, sttPc, slot, shownBy>>
  PROVE  Base'
<1>1. last < MaxJobs
  BY DEF Base, References
<1>2. PICK kind \in {"fresh", "confirm"} : Create(kind, seq)
  BY DEF StartConfirmed
<1>3. Table'
  BY <1>1, <1>2, CreateTable
<1> DEFINE new == last + 1
<1>4. /\ last \in Nat /\ new \in Jobs
      /\ last' = new /\ last' \in 0 .. MaxJobs
      /\ job' \in [Jobs -> [kind : Kind, seq : Nat, turn : Nat]]
      /\ pc' \in [Jobs -> PC]
      /\ job'[new] = [kind |-> kind, seq |-> seq, turn |-> turn]
      /\ \A j \in Jobs : j # new => job'[j] = job[j] /\ pc'[j] = pc[j]
      /\ \A j \in Jobs : j <= last => j # new /\ j <= last'
      /\ UNCHANGED <<cancelling, got, adopts, arc>>
  BY <1>1, <1>2, CreateFacts
<1>5. job'[new].kind \in {"fresh", "confirm"}
  BY <1>4
<1>6. outPc' = "idle" /\ outJob' = None /\ pending' = new
  BY DEF StartConfirmed
<1>7. waitSteps' \in Nat /\ waitEvent' \in {"none", "unset", "set"}
  BY DEF StartConfirmed, Step, FreshEvent, Base, TypeOK
<1> HIDE DEF new
<1>8. TypeOK'
  BY <1>4, <1>6, <1>7 DEF Base, TypeOK
<1>9. pending' # None => pending' <= last' /\ Confirmed(pending)'
  BY <1>4, <1>5, <1>6
<1>10. slot' # None => slot' <= last' /\ job'[slot'].kind = "guess"
  BY <1>4 DEF Base, TypeOK, References
<1>11. References'
  BY <1>6, <1>9, <1>10 DEF References
<1> QED
  BY <1>3, <1>8, <1>11 DEF Base

\* A guess that really starts, with the room it needs.
LEMMA GuessBase ==
  ASSUME Base, Guess, Create("guess", ragSeq + 1), Room, slot' = last + 1
  PROVE  Base'
<1>1. last < MaxJobs /\ (outPc # "idle" => last + 1 < MaxJobs)
  BY DEF Base, TypeOK, Room
<1>2. ragSeq + 1 \in Nat /\ "guess" \in Kind
  BY DEF Base, TypeOK
<1>3. Table'
  BY <1>1, <1>2, CreateTable
<1> DEFINE new == last + 1
<1>4. /\ last \in Nat /\ new \in Jobs
      /\ last' = new /\ last' \in 0 .. MaxJobs
      /\ job' \in [Jobs -> [kind : Kind, seq : Nat, turn : Nat]]
      /\ pc' \in [Jobs -> PC]
      /\ job'[new] = [kind |-> "guess", seq |-> ragSeq + 1, turn |-> turn]
      /\ \A j \in Jobs : j # new => job'[j] = job[j] /\ pc'[j] = pc[j]
      /\ \A j \in Jobs : j <= last => j # new /\ j <= last'
      /\ UNCHANGED <<cancelling, got, adopts, arc>>
  BY <1>1, <1>2, CreateFacts
<1>5. /\ ragSeq' = ragSeq + 1 /\ slot' = new
      /\ trigger' = "fired" /\ sttPc' = "recv"
      /\ UNCHANGED <<speaker, turn, shots, outVars, pending, waitVars, shownBy>>
  BY DEF Guess
<1>6. job'[new].kind = "guess"
  BY <1>4
<1> HIDE DEF new
<1>7. TypeOK'
  BY <1>2, <1>4, <1>5 DEF Base, TypeOK
<1>8. outPc' # "idle" => last' < MaxJobs
  BY <1>1, <1>4, <1>5 DEF new
<1>9. pending' # None => pending' <= last' /\ Confirmed(pending)'
  BY <1>4, <1>5 DEF Base, TypeOK, References
<1>10. outPc' = "cancel" => pending' = None /\ outJob' # None /\ outJob' <= last'
  BY <1>4, <1>5 DEF Base, TypeOK, References
<1>11. slot' # None => slot' <= last' /\ job'[slot'].kind = "guess"
  BY <1>4, <1>5, <1>6
<1> QED
  BY <1>3, <1>7, <1>8, <1>9, <1>10, <1>11 DEF Base, References

-------------------------------------------------------------------------------
(* Moving a task on *)

\* A job in use that moves to another state, and may learn a text or an adopted
\* guess on the way, keeps the table in order.
LEMMA MoveTable ==
  ASSUME Base, NEW j \in Jobs, pc[j] # "unused", NEW to \in PC \ {"unused"},
         to \in {"adopt", "wait"} => Confirmed(j), to = "adopt" => adopts'[j] # None,
         pc' = [pc EXCEPT ![j] = to],
         \/ UNCHANGED adopts
         \/ adopts' = [adopts EXCEPT ![j] = slot],
         UNCHANGED <<last, job, arc>>
  PROVE  Table' /\ pc' \in [Jobs -> PC] /\ adopts' \in [Jobs -> Jobs \cup {None}]
<1>1. /\ pc' \in [Jobs -> PC] /\ pc'[j] = to
      /\ \A k \in Jobs : k # j => pc'[k] = pc[k]
  BY DEF Base, TypeOK
<1>2. /\ adopts' \in [Jobs -> Jobs \cup {None}]
      /\ adopts'[j] = adopts[j] \/ adopts'[j] = slot
      /\ \A k \in Jobs : k # j => adopts'[k] = adopts[k]
  BY DEF Base, TypeOK
<1>3. ~(j > last)
  BY DEF Base, Table
<1>4. \A k \in Jobs : pc'[k] = "unused" <=> k > last'
  BY <1>1, <1>3 DEF Base, Table
<1>5. \A k \in Jobs : k > last' => arc'[k] = "none" /\ adopts'[k] = None
  BY <1>2, <1>3 DEF Base, Table
<1>6. ASSUME NEW k \in Jobs PROVE pc'[k] \in {"adopt", "wait"} => Confirmed(k)'
  BY <1>1 DEF Base, Table
<1>7. ASSUME NEW k \in Jobs PROVE pc'[k] = "adopt" => adopts'[k] # None
  BY <1>1, <1>2 DEF Base, Table
<1>8. ASSUME NEW k \in Jobs, adopts'[k] # None
      PROVE  adopts'[k] <= last' /\ job'[adopts'[k]].kind = "guess"
  <2>1. adopts'[k] = adopts[k] \/ adopts'[k] = slot
    BY <1>2
  <2> QED
    BY <1>8, <2>1 DEF Base, Table, References
<1> QED
  BY <1>1, <1>2, <1>4, <1>5, <1>6, <1>7, <1>8 DEF Table

\* Most steps of a task move it and otherwise touch only its text, the cancel
\* requests and the wait for STT.
LEMMA MoveBase ==
  ASSUME Base, NEW j \in Jobs, pc[j] # "unused", NEW to \in PC \ {"unused", "adopt"},
         to = "wait" => Confirmed(j), pc' = [pc EXCEPT ![j] = to],
         cancelling' \subseteq Jobs, got' \in [Jobs -> {"text", "empty"}],
         waitSteps' \in Nat, waitEvent' \in {"none", "unset", "set"},
         UNCHANGED <<turnVars, sttPc, outVars, ragSeq, last, job, adopts, arc,
                     pending, slot, shownBy>>
  PROVE  Base'
<1>1. Table' /\ pc' \in [Jobs -> PC]
  BY MoveTable
<1>2. TypeOK'
  BY <1>1 DEF Base, TypeOK
<1> QED
  BY <1>1, <1>2 DEF Base, References

LEMMA JobStepBase == ASSUME Base, NEW j \in Jobs, JobStep(j) PROVE Base'
<1> USE DEF Base, TypeOK
<1>1. CASE StartFresh(j)
  <2>1. PICK to \in {"wait", "retrieve"} : pc' = [pc EXCEPT ![j] = to]
    BY <1>1 DEF StartFresh, Background
  <2>2. waitEvent' \in {"none", "unset", "set"} /\ Confirmed(j)
    BY <1>1 DEF StartFresh, Background
  <2> QED
    BY <1>1, <2>1, <2>2, MoveBase DEF StartFresh
<1>2. CASE StartGuess(j)
  BY <1>2, MoveBase DEF StartGuess
<1>3. CASE StartConfirm(j)
  <2>1. /\ pc[j] = "ready" /\ job[j].kind = "confirm"
        /\ slot' = None /\ adopts' = [adopts EXCEPT ![j] = slot]
        /\ UNCHANGED <<turnVars, sttPc, outVars, ragSeq, last, job, cancelling, arc,
                       pending, shownBy>>
    BY <1>3 DEF StartConfirm, TakeAttempt
  <2>2. PICK to \in {"adopt", "memory", "wait", "retrieve"} :
          /\ pc' = [pc EXCEPT ![j] = to]
          /\ to = "adopt" => slot # None
    BY <1>3 DEF StartConfirm, Hit, Miss, Background
  <2>3. to = "adopt" => adopts'[j] # None
    BY <2>1, <2>2
  <2>4. Table' /\ pc' \in [Jobs -> PC] /\ adopts' \in [Jobs -> Jobs \cup {None}]
    BY <2>1, <2>2, <2>3, MoveTable
  <2>5. got' \in [Jobs -> {"text", "empty"}]
    BY <1>3 DEF StartConfirm, Hit, Miss
  <2>6. waitSteps' \in Nat /\ waitEvent' \in {"none", "unset", "set"}
    BY <1>3 DEF StartConfirm, Hit, Miss, Background, FreshEvent
  <2>7. TypeOK'
    BY <2>1, <2>4, <2>5, <2>6
  <2> QED
    BY <2>1, <2>4, <2>7 DEF References
<1>4. CASE Adopted(j)
  <2>1. pc[j] = "adopt" /\ Confirmed(j)
    BY <1>4 DEF Adopted, Table
  <2>2. PICK to \in {"memory", "wait", "retrieve"} : pc' = [pc EXCEPT ![j] = to]
    BY <1>4 DEF Adopted, Hit, Miss, Background
  <2>3. got' \in [Jobs -> {"text", "empty"}]
    BY <1>4 DEF Adopted, Hit, Miss
  <2>4. waitSteps' \in Nat /\ waitEvent' \in {"none", "unset", "set"}
    BY <1>4 DEF Adopted, Hit, Miss, Background, FreshEvent
  <2> QED
    BY <1>4, <2>1, <2>2, <2>3, <2>4, MoveBase DEF Adopted
<1>5. CASE Wake(j)
  BY <1>5, MoveBase DEF Wake
<1>6. ASSUME NEW text \in {"text", "empty"}, Retrieved(j, text) PROVE Base'
  <2>1. PICK to \in {"done", "memory"} : pc' = [pc EXCEPT ![j] = to]
    BY <1>6 DEF Retrieved
  <2>2. got' \in [Jobs -> {"text", "empty"}] /\ cancelling' \subseteq Jobs
    BY <1>6 DEF Retrieved
  <2>3. /\ pc[j] = "retrieve"
        /\ UNCHANGED <<turnVars, sttPc, outVars, ragSeq, last, job, adopts, arc,
                       pending, slot, waitVars, shownBy>>
    BY <1>6 DEF Retrieved
  <2> QED
    BY <2>1, <2>2, <2>3, MoveBase
<1>7. ASSUME NEW known \in BOOLEAN, NEW strong \in BOOLEAN, Handled(j, known, strong)
      PROVE  Base'
  <2>1. ~(j > last)
    BY <1>7 DEF Handled, Table
  <2> QED
    BY <1>7, <2>1 DEF Handled, Table, References
<1>8. CASE Unwind(j)
  BY <1>8, MoveBase DEF Unwind
<1> QED
  BY <1>1, <1>2, <1>3, <1>4, <1>5, <1>6, <1>7, <1>8 DEF JobStep

LEMMA StepBase == Base /\ [Next]_vars => Base'
<1> SUFFICES ASSUME Base, [Next]_vars PROVE Base'
  OBVIOUS
<1>1. ASSUME NEW to \in Speaker, SttWord(to) PROVE Base'
  <2>1. slot' \in {slot, None} /\ cancelling' \subseteq cancelling \cup {slot}
        /\ (slot = None => cancelling' = cancelling)
    BY <1>1 DEF SttWord, ClearSpeculative
  <2>2. cancelling' \subseteq Jobs
    BY <2>1 DEF Base, TypeOK
  <2> QED
    BY <1>1, <2>1, <2>2 DEF SttWord, Base, TypeOK, Table, References
<1>2. CASE NoGuess
  BY <1>2 DEF NoGuess, Base, TypeOK, Table, References
<1>3. CASE Guess
  <2>1. CASE UNCHANGED <<taskVars, slot>>
    BY <1>3, <2>1 DEF Guess, Base, TypeOK, Table, References
  <2>2. CASE Create("guess", ragSeq + 1) /\ Room /\ slot' = last + 1
    BY <1>3, <2>2, GuessBase
  <2> QED
    BY <1>3, <2>1, <2>2 DEF Guess
<1>4. ASSUME NEW to \in Speaker, ModelText(to) PROVE Base'
  BY <1>4 DEF ModelText, Step, Base, TypeOK, Table, References
<1>5. CASE RagDeclined
  BY <1>5 DEF RagDeclined, Step, Base, TypeOK, Table, References
<1>6. CASE RagToken
  BY <1>6 DEF RagToken, Base, TypeOK, Table, References
<1>7. CASE TriggerAtOnce
  <2>1. ragSeq' \in Nat /\ outSeq' \in Nat /\ shots' \in Nat
    BY <1>7 DEF TriggerAtOnce, Base, TypeOK
  <2>2. ragSeq + 1 \in Nat /\ outPc # "idle" /\ StartConfirmed(ragSeq + 1)
    BY <1>7 DEF TriggerAtOnce, Base, TypeOK
  <2> QED
    BY <1>7, <2>1, <2>2, StartConfirmedBase DEF TriggerAtOnce
<1>8. CASE TriggerCancelling
  <2>1. pending \in Jobs /\ CancelTarget(pending) \in Jobs
    BY <1>8 DEF TriggerCancelling, CancelTarget, Base, TypeOK, Table
  <2>2. cancelling' \subseteq Jobs
    BY <1>8, <2>1 DEF TriggerCancelling, RequestCancel, Base, TypeOK
  <2>3. /\ shots' \in Nat /\ ragSeq' \in Nat /\ outSeq' \in Nat
        /\ outPc' = "cancel" /\ outJob' \in Jobs /\ pending' = None
    BY <1>8, <2>1 DEF TriggerCancelling, Base, TypeOK
  <2>4. /\ UNCHANGED <<speaker, turn, trigger, sttPc, last, slot, shownBy>>
        /\ UNCHANGED <<job, pc, got, adopts, arc>>
        /\ UNCHANGED <<waitSteps, waitEvent>>
    BY <1>8 DEF TriggerCancelling
  <2>5. TypeOK'
    BY <2>2, <2>3, <2>4 DEF Base, TypeOK
  <2> QED
    BY <1>8, <2>5 DEF TriggerCancelling, Base, Table, References
<1>9. CASE TriggerResumes
  BY <1>9, StartConfirmedBase DEF TriggerResumes, Base, TypeOK
<1>10. ASSUME NEW j \in Jobs, JobStep(j) PROVE Base'
  BY <1>10, JobStepBase
<1>11. ASSUME NEW j \in Jobs, ArcStep(j) PROVE Base'
  <2>1. arc[j] = "request" /\ ~(j > last)
    BY <1>11 DEF ArcStep, ArcFails, ArcReturns, Base, Table
  <2>2. arc' \in [Jobs -> Arc] /\ \A k \in Jobs : k # j => arc'[k] = arc[k]
    BY <1>11 DEF ArcStep, ArcFails, ArcReturns, Base, TypeOK
  <2>3. /\ UNCHANGED <<speaker, turn, trigger, shots, sttPc, outPc, outJob, outSeq, ragSeq>>
        /\ UNCHANGED <<last, job, pc, cancelling, got, adopts, pending, slot>>
        /\ UNCHANGED <<waitSteps, waitEvent>>
    BY <1>11 DEF ArcStep, ArcFails, ArcReturns
  <2>4. shownBy' \in Jobs \cup {None}
    BY <1>11 DEF ArcStep, ArcFails, ArcReturns, Base, TypeOK
  <2>5. TypeOK'
    BY <2>2, <2>3, <2>4 DEF Base, TypeOK
  <2> QED
    BY <1>11, <2>1, <2>2, <2>5 DEF ArcStep, ArcFails, ArcReturns, Base, Table, References
<1>12. CASE UNCHANGED vars
  BY <1>12 DEF vars, Base, TypeOK, Table, References
<1> QED
  BY <1>1, <1>2, <1>3, <1>4, <1>5, <1>6, <1>7, <1>8, <1>9, <1>10, <1>11, <1>12
  DEF Next, SttLoop, OutputLoop

LEMMA SpecBase == Spec => []Base
  BY InitBase, StepBase, PTL DEF Spec

-------------------------------------------------------------------------------
(* The safety properties, each from Base and an invariant of its own. *)

\* A confirmed retrieval that still runs is the one RAGManager remembers, or the
\* one whose end the output loop is awaiting.
OnlyPending ==
  \A j \in Jobs :
    (Live(j) /\ Confirmed(j)) => j = pending \/ (outPc = "cancel" /\ j = outJob)

\* An event that is not set yet still has frames to count down.
WaitCoherent == waitEvent = "unset" => waitSteps > 0

\* Trigger numbers are handed out once: every job has one of its own, and so has
\* the trigger that awaits the end of the old retrieval.
Numbered ==
  /\ \A j \in Jobs : j <= last => job[j].seq > 0 /\ job[j].seq <= ragSeq
  /\ \A i, j \in Jobs : (i <= last /\ j <= last /\ job[i].seq = job[j].seq) => i = j
  /\ outPc = "cancel" => /\ outSeq > 0 /\ outSeq <= ragSeq
                         /\ \A j \in Jobs : j <= last => job[j].seq # outSeq
  /\ shownBy # None => shownBy <= last

-------------------------------------------------------------------------------
(* What a step does to one job *)

\* The new job, with the number it was given.
Created(seq) ==
  /\ last \in Nat /\ last + 1 \in Jobs /\ last' = last + 1
  /\ job'[last + 1].seq = seq
  /\ \A j \in Jobs : j <= last => job'[j] = job[j]

\* Where the numbers of a step come from: a job is created with the next trigger
\* number, or with the number its trigger was given before it had to wait.
LEMMA StepJob ==
  ASSUME Base, [Next]_vars
  PROVE  \/ /\ UNCHANGED <<last, job>>
            /\ \/ ragSeq' = ragSeq
               \/ ragSeq' = ragSeq + 1
            /\ outPc' = "cancel" => \/ outPc = "cancel" /\ outSeq' = outSeq
                                    \/ outSeq' = ragSeq + 1 /\ ragSeq' = ragSeq + 1
         \/ /\ Created(ragSeq + 1) /\ ragSeq' = ragSeq + 1
            /\ outPc' = "cancel" => outPc = "cancel" /\ outSeq' = outSeq
         \/ /\ Created(outSeq) /\ ragSeq' = ragSeq
            /\ outPc = "cancel" /\ outPc' # "cancel"
<1>1. ASSUME NEW kind \in Kind, NEW seq \in Nat, last < MaxJobs, Create(kind, seq)
      PROVE  Created(seq)
  <2>1. job'[last + 1] = [kind |-> kind, seq |-> seq, turn |-> turn]
    BY <1>1, CreateFacts
  <2>2. /\ last \in Nat /\ last + 1 \in Jobs /\ last' = last + 1
        /\ \A j \in Jobs : j <= last => job'[j] = job[j]
    BY <1>1, CreateFacts
  <2> QED
    BY <2>1, <2>2 DEF Created
<1>2. ASSUME NEW seq \in Nat, outPc # "idle", StartConfirmed(seq) PROVE Created(seq)
  <2>1. last < MaxJobs
    BY <1>2 DEF Base, References
  <2>2. Create("confirm", seq) \/ Create("fresh", seq)
    BY <1>2 DEF StartConfirmed
  <2> QED
    BY <1>1, <2>1, <2>2
<1>3. CASE Guess
  <2>1. Room => last < MaxJobs
    BY DEF Base, TypeOK, Room
  <2>2. CASE Create("guess", ragSeq + 1) /\ Room
    BY <1>1, <1>3, <2>1, <2>2 DEF Guess, Base, TypeOK
  <2>3. CASE UNCHANGED taskVars
    BY <1>3, <2>3 DEF Guess
  <2> QED
    BY <1>3, <2>2, <2>3 DEF Guess
<1>4. CASE TriggerAtOnce
  <2>1. Created(ragSeq + 1)
    BY <1>2, <1>4 DEF TriggerAtOnce, Base, TypeOK
  <2> QED
    BY <1>4, <2>1 DEF TriggerAtOnce, StartConfirmed
<1>5. CASE TriggerResumes
  <2>1. Created(outSeq)
    BY <1>2, <1>5 DEF TriggerResumes, Base, TypeOK
  <2> QED
    BY <1>5, <2>1 DEF TriggerResumes, StartConfirmed
<1> QED
  BY <1>3, <1>4, <1>5
  DEF Next, SttLoop, OutputLoop, SttWord, NoGuess, ModelText, RagDeclined, RagToken,
      TriggerCancelling, JobStep, StartFresh, StartGuess, StartConfirm, Adopted, Wake,
      Retrieved, Handled, Unwind, ArcStep, ArcFails, ArcReturns, vars

\* Only a created job becomes live; only the output loop moves pending and outJob.
LEMMA JobStepLive ==
  ASSUME Base, NEW j \in Jobs, JobStep(j)
  PROVE  /\ UNCHANGED <<turnVars, outVars, ragSeq, last, job, pending, shownBy>>
         /\ Live(j)
         /\ \A k \in Jobs : k # j => pc'[k] = pc[k]
<1> USE DEF Base, TypeOK
<1>1. CASE StartFresh(j)
  BY <1>1 DEF StartFresh, Background
<1>2. CASE StartGuess(j)
  BY <1>2 DEF StartGuess
<1>3. CASE StartConfirm(j)
  BY <1>3 DEF StartConfirm, Hit, Miss, Background
<1>4. CASE Adopted(j)
  BY <1>4 DEF Adopted, Hit, Miss, Background
<1>5. CASE Wake(j)
  BY <1>5 DEF Wake
<1>6. ASSUME NEW text \in {"text", "empty"}, Retrieved(j, text)
      PROVE  /\ UNCHANGED <<turnVars, outVars, ragSeq, last, job, pending, shownBy>>
             /\ Live(j)
             /\ \A k \in Jobs : k # j => pc'[k] = pc[k]
  BY <1>6 DEF Retrieved
<1>7. CASE \E known, strong \in BOOLEAN : Handled(j, known, strong)
  BY <1>7 DEF Handled
<1>8. CASE Unwind(j)
  BY <1>8 DEF Unwind
<1> QED
  BY <1>1, <1>2, <1>3, <1>4, <1>5, <1>6, <1>7, <1>8 DEF JobStep

-------------------------------------------------------------------------------
(* At most one confirmed retrieval *)

\* Starting a confirmed retrieval when no other one is live.
LEMMA StartConfirmedOnly ==
  ASSUME Base, outPc # "idle", NEW seq \in Nat, StartConfirmed(seq),
         \A j \in Jobs : ~(Live(j) /\ Confirmed(j))
  PROVE  OnlyPending'
<1>1. last < MaxJobs
  BY DEF Base, References
<1>2. PICK kind \in Kind : Create(kind, seq)
  BY DEF StartConfirmed
<1>3. /\ last + 1 \in Jobs
      /\ \A j \in Jobs : j # last + 1 => job'[j] = job[j] /\ pc'[j] = pc[j]
  BY <1>1, <1>2, CreateFacts
<1>4. pending' = last + 1
  BY DEF StartConfirmed
<1> QED
  BY <1>3, <1>4 DEF OnlyPending

LEMMA StepOnlyPending ==
  ASSUME Base, OnlyPending, [Next]_vars PROVE OnlyPending'
<1> USE DEF OnlyPending
<1>1. CASE Guess
  <2>1. CASE UNCHANGED taskVars
    BY <1>1, <2>1 DEF Guess
  <2>2. CASE Create("guess", ragSeq + 1) /\ Room
    <3>1. last < MaxJobs /\ ragSeq + 1 \in Nat /\ "guess" \in Kind
      BY <2>2 DEF Base, TypeOK, Room
    <3>2. /\ last + 1 \in Jobs
          /\ job'[last + 1] = [kind |-> "guess", seq |-> ragSeq + 1, turn |-> turn]
          /\ \A j \in Jobs : j # last + 1 => job'[j] = job[j] /\ pc'[j] = pc[j]
      BY <2>2, <3>1, CreateFacts
    <3>3. job'[last + 1].kind = "guess"
      BY <3>2
    <3> QED
      BY <1>1, <3>2, <3>3 DEF Guess
  <2> QED
    BY <1>1, <2>1, <2>2 DEF Guess
<1>2. CASE TriggerAtOnce
  <2>1. ragSeq + 1 \in Nat /\ outPc # "idle" /\ StartConfirmed(ragSeq + 1)
    BY <1>2 DEF TriggerAtOnce, Base, TypeOK
  <2>2. \A j \in Jobs : ~(Live(j) /\ Confirmed(j))
    BY <1>2 DEF TriggerAtOnce
  <2> QED
    BY <2>1, <2>2, StartConfirmedOnly
<1>3. CASE TriggerCancelling
  BY <1>3 DEF TriggerCancelling
<1>4. CASE TriggerResumes
  <2>1. outSeq \in Nat /\ outPc # "idle" /\ StartConfirmed(outSeq)
    BY <1>4 DEF TriggerResumes, Base, TypeOK
  <2>2. \A j \in Jobs : ~(Live(j) /\ Confirmed(j))
    BY <1>4 DEF TriggerResumes, Base, References
  <2> QED
    BY <2>1, <2>2, StartConfirmedOnly
<1>5. CASE \E j \in Jobs : JobStep(j)
  BY <1>5, JobStepLive
<1> QED
  BY <1>1, <1>2, <1>3, <1>4, <1>5
  DEF Next, SttLoop, OutputLoop, SttWord, NoGuess, ModelText, RagDeclined, RagToken,
      ArcStep, ArcFails, ArcReturns, vars, Base, TypeOK

\* A trigger awaits the end of the confirmed retrieval before it starts the next:
\* two of them never run at once (rag_manager.py, _cancel_and_await_pending).
THEOREM OneConfirmedHolds == Spec => []OneConfirmed
<1>1. Init => OnlyPending
  BY DEF Init, OnlyPending
<1>2. Base /\ OnlyPending => OneConfirmed
  BY DEF Base, References, OnlyPending, OneConfirmed
<1> QED
  BY <1>1, <1>2, SpecBase, StepOnlyPending, PTL DEF Spec

-------------------------------------------------------------------------------
(* The newest trigger wins *)

\* The answer that is put in place is that of a job in use whose number is the
\* newest one; nothing else changes shownBy.
LEMMA StepShown ==
  ASSUME Base, [Next]_vars, shownBy' # shownBy
  PROVE  /\ UNCHANGED <<last, job, ragSeq, outPc, outSeq>>
         /\ shownBy' \in Jobs /\ shownBy' <= last /\ job[shownBy'].seq = ragSeq
<1>1. PICK j \in Jobs : ArcReturns(j)
  BY DEF Next, SttLoop, OutputLoop, SttWord, NoGuess, Guess, ModelText, RagDeclined,
      RagToken, TriggerAtOnce, TriggerCancelling, TriggerResumes,
      JobStep, StartFresh, StartGuess, StartConfirm, Adopted, Wake,
      Retrieved, Handled, Unwind, ArcStep, ArcFails, vars
<1>2. shownBy' = j /\ arc[j] = "request" /\ job[j].seq = ragSeq
  BY <1>1 DEF ArcReturns, Superseded
<1>3. ~(j > last)
  BY <1>2 DEF Base, Table
<1> QED
  BY <1>1, <1>2, <1>3 DEF ArcReturns, Base, TypeOK

LEMMA StepNumbered ==
  ASSUME Base, Numbered, [Next]_vars PROVE Numbered'
<1>1. shownBy' # None => shownBy' <= last'
  <2>1. CASE shownBy' # shownBy
    BY <2>1, StepShown
  <2>2. CASE shownBy' = shownBy
    BY <2>2, StepJob DEF Created, Numbered, Base, TypeOK
  <2> QED
    BY <2>1, <2>2
<1>2. CASE /\ UNCHANGED <<last, job>>
           /\ ragSeq' = ragSeq \/ ragSeq' = ragSeq + 1
           /\ outPc' = "cancel" => \/ outPc = "cancel" /\ outSeq' = outSeq
                                   \/ outSeq' = ragSeq + 1 /\ ragSeq' = ragSeq + 1
  BY <1>1, <1>2 DEF Numbered, Base, TypeOK
<1>3. ASSUME NEW seq \in Nat, Created(seq), seq > 0, seq <= ragSeq',
             ragSeq <= ragSeq',
             \A j \in Jobs : j <= last => job[j].seq # seq,
             outPc' = "cancel" => outPc = "cancel" /\ outSeq' = outSeq /\ outSeq # seq
      PROVE  Numbered'
  <2>1. \A j \in Jobs : j <= last' => (j <= last /\ job'[j] = job[j]) \/ j = last + 1
    BY <1>3 DEF Created
  <2>2. /\ \A j \in Jobs : job[j].seq \in Nat
        /\ job'[last + 1].seq = seq /\ last + 1 \in Jobs /\ ragSeq \in Nat /\ ragSeq' \in Nat
    BY <1>3, StepBase DEF Created, Base, TypeOK
  <2>3. \A j \in Jobs : j <= last' => job'[j].seq > 0 /\ job'[j].seq <= ragSeq'
    BY <1>3, <2>1, <2>2 DEF Numbered
  <2>4. \A i, j \in Jobs : (i <= last' /\ j <= last' /\ job'[i].seq = job'[j].seq) => i = j
    BY <1>3, <2>1, <2>2 DEF Numbered
  <2>5. outPc' = "cancel" => /\ outSeq' > 0 /\ outSeq' <= ragSeq'
                             /\ \A j \in Jobs : j <= last' => job'[j].seq # outSeq'
    <3> SUFFICES ASSUME outPc' = "cancel"
                 PROVE  /\ outSeq > 0 /\ outSeq <= ragSeq'
                        /\ \A j \in Jobs : j <= last' => job'[j].seq # outSeq
      BY <1>3
    <3>1. outPc = "cancel" /\ outSeq # seq /\ outSeq \in Nat
      BY <1>3 DEF Base, TypeOK
    <3>2. /\ outSeq > 0 /\ outSeq <= ragSeq
          /\ \A j \in Jobs : j <= last => job[j].seq # outSeq
      BY <3>1 DEF Numbered
    <3> QED
      BY <1>3, <2>1, <2>2, <3>1, <3>2
  <2> QED
    BY <1>1, <2>3, <2>4, <2>5 DEF Numbered
<1>4. CASE /\ Created(ragSeq + 1) /\ ragSeq' = ragSeq + 1
           /\ outPc' = "cancel" => outPc = "cancel" /\ outSeq' = outSeq
  BY <1>3, <1>4 DEF Numbered, Base, TypeOK
<1>5. CASE /\ Created(outSeq) /\ ragSeq' = ragSeq
           /\ outPc = "cancel" /\ outPc' # "cancel"
  BY <1>3, <1>5 DEF Numbered, Base, TypeOK
<1> QED
  BY <1>2, <1>4, <1>5, StepJob

LEMMA SpecNumbered == Spec => []Numbered
<1>1. Init => Numbered
  BY DEF Init, Numbered
<1> QED
  BY <1>1, SpecBase, StepNumbered, PTL DEF Spec

\* ARC answers that come back out of order never roll the conditioning back
\* (channel.py, the _rag_seq check of _async_update_reference).
THEOREM NeverRolledBackHolds == Spec => NeverRolledBack
<1> DEFINE NewerOnly ==
      shownBy' # shownBy =>
        shownBy' # None /\ (shownBy = None \/ job'[shownBy'].seq > job[shownBy].seq)
<1>1. Base /\ Numbered /\ [Next]_vars => NewerOnly
  <2> SUFFICES ASSUME Base, Numbered, [Next]_vars, shownBy' # shownBy, shownBy # None
               PROVE  job'[shownBy'].seq > job[shownBy].seq
    BY StepShown
  <2>1. /\ shownBy' \in Jobs /\ shownBy' <= last /\ job'[shownBy'].seq = ragSeq
        /\ job[shownBy'].seq = ragSeq
    BY StepShown
  <2>2. shownBy \in Jobs /\ shownBy <= last
    BY DEF Base, TypeOK, Numbered
  <2>3. job[shownBy].seq <= ragSeq /\ job[shownBy].seq # ragSeq
    BY <2>1, <2>2 DEF Numbered
  <2> QED
    BY <2>1, <2>2, <2>3 DEF Base, TypeOK
<1> QED
  BY <1>1, SpecBase, SpecNumbered, PTL DEF Spec, NeverRolledBack

\* The channel keeps the promise of LatestWins: each of its steps mints a number,
\* puts the answer to the newest trigger in place, or is a stutter.
THEOREM ImplementsLatestWins == Spec => OnlyNewestShown
<1> USE DEF Promise!LatestInit, Promise!LatestNext, Promise!Issue, Promise!Show,
        Promise!latestVars
<1> DEFINE shown == IF shownBy = None THEN 0 ELSE job[shownBy].seq
<1>1. Init => Promise!LatestInit
  BY DEF Init
<1>2. Base /\ Numbered /\ [Next]_vars => [Promise!LatestNext]_Promise!latestVars
  <2> SUFFICES ASSUME Base, Numbered, [Next]_vars
               PROVE  Promise!LatestNext \/ UNCHANGED <<ragSeq, shown>>
    OBVIOUS
  <2>1. CASE shownBy' # shownBy
    <3>1. /\ UNCHANGED <<last, job, ragSeq>>
          /\ shownBy' \in Jobs /\ shownBy' <= last /\ job[shownBy'].seq = ragSeq
      BY <2>1, StepShown
    <3>2. shown' = ragSeq /\ ragSeq > 0
      BY <3>1 DEF Numbered
    <3> QED
      BY <3>1, <3>2
  <2>2. CASE shownBy' = shownBy
    <3>1. shown' = shown
      BY <2>2, StepJob DEF Created, Numbered, Base, TypeOK
    <3>2. ragSeq' = ragSeq \/ ragSeq' = ragSeq + 1
      BY StepJob
    <3> QED
      BY <3>1, <3>2
  <2> QED
    BY <2>1, <2>2
<1> QED
  BY <1>1, <1>2, SpecBase, SpecNumbered, PTL
  DEF Spec, OnlyNewestShown, Promise!LatestSpec

\* Every variable of the channel keeps to the values the code gives it.
THEOREM TypeOKHolds == Spec => []TypeOK
  BY SpecBase, PTL DEF Base

-------------------------------------------------------------------------------
(* The speculative slot *)

\* The slot only gets a guess that has just been created.
LEMMA StepSlot ==
  ASSUME Base, [Next]_vars, slot' # None
  PROVE  slot' = slot \/ (slot' = last + 1 /\ UNCHANGED adopts)
BY DEF Next, SttLoop, OutputLoop, SttWord, ClearSpeculative, NoGuess, Guess, Create,
  ModelText, RagDeclined, RagToken, TriggerAtOnce, TriggerCancelling,
  TriggerResumes, StartConfirmed, JobStep, StartFresh, StartGuess, StartConfirm,
  TakeAttempt, Adopted, Wake, Retrieved, Handled, Unwind, ArcStep, ArcFails,
  ArcReturns, vars

Adopter(j) == \E i \in Jobs : adopts[i] = j

\* A guess that asks is in the slot or adopted, and a job adopts as it starts.
Held ==
  /\ trigger = "armed" => slot = None
  /\ \A j \in Jobs : Asks(j) => slot = j \/ Adopter(j)
  /\ \A j \in Jobs : pc[j] = "ready" => adopts[j] = None

\* A job that is created changes nothing for the others.
LEMMA CreateHeld ==
  ASSUME Base, Held, last < MaxJobs, NEW kind \in Kind, NEW seq \in Nat, Create(kind, seq)
  PROVE  /\ \A j \in Jobs : Asks(j)' => (Asks(j) \/ (kind = "guess" /\ j = last + 1))
         /\ \A j \in Jobs : pc'[j] = "ready" => adopts'[j] = None
<1>1. /\ last + 1 \in Jobs /\ job'[last + 1] = [kind |-> kind, seq |-> seq, turn |-> turn]
      /\ pc[last + 1] = "unused" /\ UNCHANGED <<cancelling, adopts>>
      /\ \A j \in Jobs : j # last + 1 => job'[j] = job[j] /\ pc'[j] = pc[j]
  BY CreateFacts
<1>2. job'[last + 1].kind = kind /\ adopts[last + 1] = None
  BY <1>1 DEF Base, Table
<1> QED
  BY <1>1, <1>2 DEF Held, Asks

LEMMA JobStepHeld ==
  ASSUME Base, Held, NEW j \in Jobs, JobStep(j) PROVE Held'
<1> USE DEF Base, TypeOK, Held
<1>1. UNCHANGED <<trigger, job>> /\ \A k \in Jobs : k # j => pc'[k] = pc[k]
  BY JobStepLive
<1>2. CASE StartConfirm(j)
  <2>1. /\ slot' = None /\ adopts' = [adopts EXCEPT ![j] = slot] /\ UNCHANGED cancelling
        /\ pc[j] = "ready" /\ job[j].kind = "confirm" /\ adopts[j] = None
    BY <1>2 DEF StartConfirm, TakeAttempt
  <2>2. pc'[j] # "ready"
    BY <1>2 DEF StartConfirm, Hit, Miss, Background
  <2>3. ASSUME NEW k \in Jobs, Asks(k)' PROVE Adopter(k)'
    <3>1. k # j /\ Asks(k)
      BY <1>1, <2>1, <2>3 DEF Asks
    <3>2. CASE slot = k
      BY <2>1, <3>2 DEF Adopter
    <3>3. CASE Adopter(k)
      BY <2>1, <3>3 DEF Adopter
    <3> QED
      BY <3>1, <3>2, <3>3
  <2>4. \A k \in Jobs : pc'[k] = "ready" => adopts'[k] = None
    BY <1>1, <2>1, <2>2
  <2> QED
    BY <1>1, <2>1, <2>3, <2>4
<1>3. CASE ~StartConfirm(j)
  <2> DEFINE Still == /\ slot' = slot /\ adopts' = adopts /\ pc'[j] # "ready"
                      /\ \A k \in Jobs : k # j => (k \in cancelling' <=> k \in cancelling)
             StillAsks ==
               /\ job[j].kind = "guess" /\ pc'[j] = "retrieve" /\ j \notin cancelling'
               => pc[j] \in {"ready", "retrieve"} /\ j \notin cancelling
  <2>1. Still /\ StillAsks
    <3>1. CASE StartFresh(j)
      BY <3>1 DEF StartFresh, Background
    <3>2. CASE StartGuess(j)
      BY <3>2 DEF StartGuess
    <3>3. CASE Adopted(j)
      <4>1. /\ slot' = slot /\ adopts' = adopts /\ cancelling' = cancelling
            /\ pc'[j] # "ready" /\ pc[j] = "adopt"
        BY <3>3 DEF Adopted, Hit, Miss, Background
      <4>2. job[j].kind # "guess"
        BY <4>1 DEF Table
      <4> QED
        BY <4>1, <4>2
    <3>4. CASE Wake(j)
      <4>1. pc[j] = "wait" /\ job[j].kind # "guess"
        BY <3>4 DEF Wake, Table
      <4> QED
        BY <3>4, <4>1 DEF Wake
    <3>5. ASSUME NEW text \in {"text", "empty"}, Retrieved(j, text) PROVE Still /\ StillAsks
      BY <3>5 DEF Retrieved
    <3>6. CASE \E known, strong \in BOOLEAN : Handled(j, known, strong)
      BY <3>6 DEF Handled
    <3>7. CASE Unwind(j)
      BY <3>7 DEF Unwind
    <3> QED
      BY <1>3, <3>1, <3>2, <3>3, <3>4, <3>5, <3>6, <3>7 DEF JobStep
  <2>2. ASSUME NEW k \in Jobs, Asks(k)' PROVE Asks(k)
    <3>1. CASE k = j
      <4>1. job[j].kind = "guess" /\ pc'[j] \in {"ready", "retrieve"} /\ j \notin cancelling'
        BY <1>1, <2>2, <3>1 DEF Asks
      <4> QED
        BY <2>1, <3>1, <4>1 DEF Asks
    <3>2. CASE k # j
      BY <1>1, <2>1, <2>2, <3>2 DEF Asks
    <3> QED
      BY <3>1, <3>2
  <2>3. slot' = slot /\ adopts' = adopts
    BY <2>1
  <2>4. ASSUME NEW k \in Jobs, Asks(k)' PROVE slot' = k \/ \E i \in Jobs : adopts'[i] = k
    BY <2>2, <2>3, <2>4 DEF Adopter
  <2>5. \A k \in Jobs : pc'[k] = "ready" => adopts'[k] = None
    BY <1>1, <2>1
  <2>6. trigger' = "armed" => slot' = None
    BY <1>1, <2>3
  <2> QED
    BY <2>4, <2>5, <2>6 DEF Adopter
<1> QED
  BY <1>2, <1>3

LEMMA StepHeld == ASSUME Base, Held, [Next]_vars PROVE Held'
<1> USE DEF Base, TypeOK, Held
<1>1. ASSUME NEW to \in Speaker, SttWord(to) PROVE Held'
  <2>1. UNCHANGED <<pc, job, adopts>>
    BY <1>1 DEF SttWord
  <2>2. CASE ClearSpeculative
    <3>1. /\ slot' = None /\ cancelling \subseteq cancelling'
          /\ slot # None /\ Live(slot) => slot \in cancelling'
      BY <2>2 DEF ClearSpeculative
    <3>2. ASSUME NEW j \in Jobs, Asks(j)' PROVE Asks(j) /\ slot # j
      BY <2>1, <3>1, <3>2 DEF Asks
    <3> QED
      BY <2>1, <3>1, <3>2 DEF Adopter
  <2>3. CASE UNCHANGED <<trigger, slot, cancelling>>
    BY <2>1, <2>3 DEF Asks, Adopter
  <2> QED
    BY <1>1, <2>2, <2>3 DEF SttWord
<1>2. CASE Guess /\ Create("guess", ragSeq + 1) /\ Room /\ slot' = last + 1
  <2>1. last < MaxJobs /\ ragSeq + 1 \in Nat /\ "guess" \in Kind
    BY <1>2 DEF Room
  <2>2. /\ \A j \in Jobs : Asks(j)' => (Asks(j) \/ j = last + 1)
        /\ \A j \in Jobs : pc'[j] = "ready" => adopts'[j] = None
    BY <1>2, <2>1, CreateHeld
  <2>3. slot = None /\ trigger' = "fired" /\ UNCHANGED adopts
    BY <1>2 DEF Guess, Create
  <2>4. \A j \in Jobs : Asks(j)' => slot' = j \/ Adopter(j)'
    BY <1>2, <2>2, <2>3 DEF Adopter
  <2> QED
    BY <2>2, <2>3, <2>4
<1>3. CASE Guess /\ UNCHANGED <<taskVars, slot>>
  BY <1>3 DEF Guess, Asks, Adopter
<1>4. ASSUME outPc # "idle", NEW seq \in Nat, StartConfirmed(seq), UNCHANGED <<trigger, slot>>
      PROVE  Held'
  <2>1. PICK kind \in {"fresh", "confirm"} : Create(kind, seq)
    BY <1>4 DEF StartConfirmed
  <2>2. last < MaxJobs /\ kind \in Kind /\ kind # "guess"
    BY <1>4 DEF References
  <2>3. /\ \A j \in Jobs : Asks(j)' => Asks(j)
        /\ \A j \in Jobs : pc'[j] = "ready" => adopts'[j] = None
    BY <2>1, <2>2, CreateHeld
  <2>4. UNCHANGED adopts
    BY <2>1 DEF Create
  <2> QED
    BY <1>4, <2>3, <2>4 DEF Adopter
<1>5. CASE TriggerAtOnce
  <2>1. ragSeq + 1 \in Nat /\ outPc # "idle" /\ StartConfirmed(ragSeq + 1) /\ UNCHANGED <<trigger, slot>>
    BY <1>5 DEF TriggerAtOnce
  <2> QED
    BY <1>4, <2>1
<1>6. CASE TriggerResumes
  <2>1. outSeq \in Nat /\ outPc # "idle" /\ StartConfirmed(outSeq) /\ UNCHANGED <<trigger, slot>>
    BY <1>6 DEF TriggerResumes
  <2> QED
    BY <1>4, <2>1
<1>7. CASE TriggerCancelling
  BY <1>7 DEF TriggerCancelling, RequestCancel, Asks, Adopter
<1>8. CASE \E j \in Jobs : JobStep(j)
  BY <1>8, JobStepHeld
<1>9. CASE UNCHANGED <<trigger, slot, job, pc, cancelling, adopts>>
  BY <1>9 DEF Asks, Adopter
<1> QED
  BY <1>1, <1>2, <1>3, <1>5, <1>6, <1>7, <1>8, <1>9
  DEF Next, SttLoop, OutputLoop, NoGuess, Guess, ModelText, RagDeclined, RagToken,
      ArcStep, ArcFails, ArcReturns, vars

\* A turn that _stt_recv_loop starts finds nothing of the guess before: its own guess is
\* not refused for it, and what still asks was cancelled or adopted (speculation.py,
\* clear and confirm).
THEOREM RearmedIsClearHolds == Spec => []RearmedIsClear
<1>1. Init => Held
  BY DEF Init, Held, Asks
<1>2. Base /\ Held => RearmedIsClear
  BY DEF Held, Adopter, RearmedIsClear
<1> QED
  BY <1>1, <1>2, SpecBase, StepHeld, PTL DEF Spec

\* Only a confirm job that starts changes adopts, and it empties the slot.
LEMMA StepAdopts ==
  ASSUME Base, [Next]_vars, adopts' # adopts
  PROVE  \E j \in Jobs : adopts' = [adopts EXCEPT ![j] = slot] /\ slot' = None
  BY DEF Next, SttLoop, OutputLoop, SttWord, NoGuess, Guess, Create,
      ModelText, RagDeclined, RagToken, TriggerAtOnce, TriggerCancelling,
      TriggerResumes, StartConfirmed, JobStep, StartFresh, StartGuess, StartConfirm,
      TakeAttempt, Adopted, Wake, Retrieved, Handled, Unwind, ArcStep, ArcFails,
      ArcReturns, vars

\* One guess is adopted by one confirmed trigger at most: confirm takes the
\* attempt out of the slot before it awaits it (speculation.py, confirm).
THEOREM AdoptedOnceHolds == Spec => []AdoptedOnce
<1>1. Init => AdoptedOnce
  BY DEF Init, AdoptedOnce
<1>2. Base /\ AdoptedOnce /\ [Next]_vars => AdoptedOnce'
  <2> SUFFICES ASSUME Base, AdoptedOnce, [Next]_vars PROVE AdoptedOnce'
    OBVIOUS
  <2>1. CASE adopts' # adopts
    <3>1. PICK j \in Jobs : adopts' = [adopts EXCEPT ![j] = slot] /\ slot' = None
      BY <2>1, StepAdopts
    <3> QED
      BY <3>1 DEF AdoptedOnce, Base, TypeOK
  <2>2. CASE adopts' = adopts
    <3>1. \A j \in Jobs : adopts[j] # None => adopts[j] \in Jobs /\ adopts[j] <= last
      BY DEF Base, TypeOK, Table
    <3>2. slot' # None => slot' = slot \/ slot' = last + 1
      BY StepSlot
    <3>3. \A j \in Jobs : adopts[j] # None => adopts[j] # slot'
      BY <3>1, <3>2 DEF AdoptedOnce, Base, TypeOK
    <3> QED
      BY <2>2, <3>3 DEF AdoptedOnce
  <2> QED
    BY <2>1, <2>2
<1> QED
  BY <1>1, <1>2, SpecBase, PTL DEF Spec

-------------------------------------------------------------------------------
(* Waiting for STT *)

\* A retrieval waits only while its wake-up is on its way.
Wakeup == WaitCoherent /\ NoLostWakeup

LEMMA StartConfirmedWakeup ==
  ASSUME Base, outPc # "idle", NEW seq \in Nat, StartConfirmed(seq), Wakeup,
         \A j \in Jobs : ~(Live(j) /\ Confirmed(j))
  PROVE  Wakeup'
<1>1. last < MaxJobs
  BY DEF Base, References
<1>2. PICK kind \in Kind : Create(kind, seq)
  BY DEF StartConfirmed
<1>3. /\ last + 1 \in Jobs /\ pc'[last + 1] = "ready"
      /\ \A j \in Jobs : j # last + 1 => pc'[j] = pc[j]
  BY <1>1, <1>2, CreateFacts
<1>4. \A j \in Jobs : pc'[j] # "wait"
  BY <1>3 DEF Base, Table
<1>5. WaitCoherent'
  BY DEF StartConfirmed, Step, FreshEvent, Wakeup, WaitCoherent, Base, TypeOK
<1> QED
  BY <1>4, <1>5 DEF Wakeup, NoLostWakeup

LEMMA StepWakeup ==
  ASSUME Base, OnlyPending, Wakeup, [Next]_vars PROVE Wakeup'
<1> USE DEF Wakeup, WaitCoherent, NoLostWakeup
<1>1. ASSUME Step(waitSteps, waitEvent), UNCHANGED <<pc, cancelling>> PROVE Wakeup'
  BY <1>1 DEF Step, Base, TypeOK
<1>2. ASSUME NEW j \in Jobs, JobStep(j), Confirmed(j)
      PROVE  \A k \in Jobs : k # j => pc[k] # "wait" /\ pc'[k] # "wait"
  BY <1>2, JobStepLive DEF OnlyPending, Base, Table, References
<1>3. ASSUME NEW j \in Jobs, JobStep(j) PROVE Wakeup'
  <2>1. CASE StartFresh(j)
    BY <1>2, <1>3, <2>1 DEF StartFresh, Background, Base, TypeOK
  <2>2. CASE StartGuess(j)
    BY <2>2 DEF StartGuess, Base, TypeOK
  <2>3. CASE StartConfirm(j)
    BY <1>2, <1>3, <2>3 DEF StartConfirm, Hit, Miss, Background, FreshEvent, Base, TypeOK
  <2>4. CASE Adopted(j)
    <3>1. Confirmed(j)
      BY <2>4 DEF Adopted, Base, Table
    <3>2. \A k \in Jobs : k # j => pc'[k] # "wait"
      BY <1>2, <1>3, <3>1
    <3>3. CASE Hit(j)
      BY <2>4, <3>2, <3>3 DEF Hit, Base, TypeOK
    <3>4. CASE Miss(j)
      BY <2>4, <3>2, <3>4 DEF Miss, Background, FreshEvent, Base, TypeOK
    <3> QED
      BY <2>4, <3>3, <3>4 DEF Adopted
  <2>5. CASE Wake(j)
    BY <1>2, <1>3, <2>5 DEF Wake, Base, TypeOK, Table
  <2>6. ASSUME NEW text \in {"text", "empty"}, Retrieved(j, text) PROVE Wakeup'
    BY <2>6 DEF Retrieved, Base, TypeOK
  <2>7. CASE \E known, strong \in BOOLEAN : Handled(j, known, strong)
    BY <2>7 DEF Handled, Base, TypeOK
  <2>8. CASE Unwind(j)
    BY <2>8 DEF Unwind, Base, TypeOK
  <2> QED
    BY <1>3, <2>1, <2>2, <2>3, <2>4, <2>5, <2>6, <2>7, <2>8 DEF JobStep
<1>4. CASE Guess
  <2>1. CASE UNCHANGED taskVars
    BY <1>4, <2>1 DEF Guess
  <2>2. CASE Create("guess", ragSeq + 1) /\ Room
    <3>1. last < MaxJobs /\ ragSeq + 1 \in Nat /\ "guess" \in Kind
      BY <2>2 DEF Base, TypeOK, Room
    <3>2. /\ last + 1 \in Jobs /\ pc'[last + 1] = "ready"
          /\ \A j \in Jobs : j # last + 1 => pc'[j] = pc[j]
          /\ UNCHANGED cancelling
      BY <2>2, <3>1, CreateFacts
    <3> QED
      BY <1>4, <3>2 DEF Guess
  <2> QED
    BY <1>4, <2>1, <2>2 DEF Guess
<1>5. CASE TriggerAtOnce
  <2>1. ragSeq + 1 \in Nat /\ outPc # "idle" /\ StartConfirmed(ragSeq + 1)
    BY <1>5 DEF TriggerAtOnce, Base, TypeOK
  <2>2. \A j \in Jobs : ~(Live(j) /\ Confirmed(j))
    BY <1>5 DEF TriggerAtOnce, OnlyPending
  <2> QED
    BY <2>1, <2>2, StartConfirmedWakeup
<1>6. CASE TriggerResumes
  <2>1. outSeq \in Nat /\ outPc # "idle" /\ StartConfirmed(outSeq)
    BY <1>6 DEF TriggerResumes, Base, TypeOK
  <2>2. \A j \in Jobs : ~(Live(j) /\ Confirmed(j))
    BY <1>6 DEF TriggerResumes, OnlyPending, Base, References
  <2> QED
    BY <2>1, <2>2, StartConfirmedWakeup
<1>7. ASSUME NEW to \in Speaker, SttWord(to) PROVE Wakeup'
  BY <1>7 DEF SttWord, ClearSpeculative, Base, TypeOK
<1>8. CASE TriggerCancelling
  BY <1>8 DEF TriggerCancelling, RequestCancel, Base, TypeOK
<1> QED
  BY <1>1, <1>3, <1>4, <1>5, <1>6, <1>7, <1>8
  DEF Next, SttLoop, OutputLoop, NoGuess, ModelText, RagDeclined, RagToken,
      ArcStep, ArcFails, ArcReturns, vars

\* A retrieval that waits for STT is always woken although the counter and the
\* event are shared fields that each trigger overwrites: whoever overwrites them
\* finds no other confirmed retrieval (rag_manager.py, trigger and step).
THEOREM NoLostWakeupHolds == Spec => []NoLostWakeup
<1>1. Init => OnlyPending /\ Wakeup
  BY DEF Init, OnlyPending, Wakeup, WaitCoherent, NoLostWakeup
<1>2. Wakeup => NoLostWakeup
  BY DEF Wakeup
<1> QED
  BY <1>1, <1>2, SpecBase, StepOnlyPending, StepWakeup, PTL DEF Spec

-------------------------------------------------------------------------------
(* At most one retrieval *)

\* While a confirmed retrieval is in flight the slot holds a guess only until the
\* confirmed one has taken it.
SlotWaits ==
  PendingLive /\ slot # None => job[pending].kind = "confirm" /\ pc[pending] = "ready"

\* A guess that still runs and is not cancelled is in the slot or is adopted.
GuessHeld ==
  \A g \in Jobs :
    (Live(g) /\ job[g].kind = "guess" /\ g \notin cancelling) =>
      g = slot \/ \E i \in Jobs : adopts[i] = g /\ pc[i] = "adopt"

\* The retrieval whose end the output loop awaits is cancelled, or what it adopted is.
CancelReaches ==
  outPc = "cancel" /\ Live(outJob) =>
    \/ outJob \in cancelling
    \/ pc[outJob] = "adopt" /\ (adopts[outJob] \in cancelling \/ pc[adopts[outJob]] = "cancelled")

\* A retrieval is not cancelled itself while what it adopted runs.
CancelsTheAdopted ==
  \A i \in Jobs : pc[i] = "adopt" /\ i \in cancelling => ~Live(adopts[i])

\* Only a task that runs is asked to stop.
CancelsLive == \A j \in cancelling : Live(j)

Exclusive == SlotWaits /\ GuessHeld /\ CancelReaches /\ CancelsTheAdopted /\ CancelsLive

\* The steps of a task, when no cancellation is lost: it is thrown out by one, it takes
\* the guess out of the slot, or it moves on in some other way.
Takes(j) ==
  /\ pc[j] = "ready" /\ j \notin cancelling /\ job[j].kind = "confirm"
  /\ slot' = None /\ adopts' = [adopts EXCEPT ![j] = slot] /\ UNCHANGED cancelling
  /\ pc'[j] \in PC \ {"ready", "unused"}
  /\ pc'[j] = "adopt" <=> slot # None /\ Live(slot)

MovesOn(j) ==
  /\ j \notin cancelling /\ UNCHANGED <<cancelling, adopts, slot>>
  /\ pc[j] = "ready" => job[j].kind # "confirm"
  /\ pc[j] = "adopt" => pc[adopts[j]] = "done"
  /\ pc'[j] \in PC \ {"ready", "adopt", "unused"}

LEMMA JobStepKind ==
  ASSUME Base, ~CancelMayBeLost, NEW j \in Jobs, JobStep(j)
  PROVE  Unwind(j) \/ Takes(j) \/ MovesOn(j)
<1> USE DEF Base, TypeOK
<1>1. CASE StartFresh(j)
  BY <1>1 DEF StartFresh, Background, MovesOn
<1>2. CASE StartGuess(j)
  BY <1>2 DEF StartGuess, MovesOn
<1>3. CASE StartConfirm(j)
  BY <1>3 DEF StartConfirm, TakeAttempt, Hit, Miss, Background, Takes
<1>4. CASE Adopted(j)
  BY <1>4 DEF Adopted, Hit, Miss, Background, MovesOn
<1>5. CASE Wake(j)
  BY <1>5 DEF Wake, MovesOn
<1>6. ASSUME NEW text \in {"text", "empty"}, Retrieved(j, text) PROVE MovesOn(j)
  <2>1. j \notin cancelling /\ cancelling \ {j} = cancelling
    BY <1>6 DEF Retrieved
  <2> QED
    BY <1>6, <2>1 DEF Retrieved, MovesOn
<1>7. CASE \E known, strong \in BOOLEAN : Handled(j, known, strong)
  BY <1>7 DEF Handled, MovesOn
<1> QED
  BY <1>1, <1>2, <1>3, <1>4, <1>5, <1>6, <1>7 DEF JobStep

LEMMA JobStepExclusive ==
  ASSUME Base, Exclusive, ~CancelMayBeLost, NEW j \in Jobs, JobStep(j)
  PROVE  Exclusive'
<1>1. /\ UNCHANGED <<turnVars, outVars, ragSeq, last, job, pending, shownBy>>
      /\ Live(j)
      /\ \A k \in Jobs : k # j => pc'[k] = pc[k]
  BY JobStepLive
<1>2. /\ \A i \in Jobs : pc[i] = "adopt" => adopts[i] \in Jobs /\ Confirmed(i)
      /\ \A i \in Jobs : adopts[i] # None => job[adopts[i]].kind = "guess"
      /\ pending # None => pending \in Jobs /\ Confirmed(pending)
      /\ slot # None => slot \in Jobs /\ job[slot].kind = "guess"
      /\ outPc = "cancel" => outJob \in Jobs
      /\ pc \in [Jobs -> PC] /\ adopts \in [Jobs -> Jobs \cup {None}] /\ cancelling \subseteq Jobs
  BY DEF Base, TypeOK, Table, References
<1>3. CASE Unwind(j)
  <2>1. /\ pc'[j] = "cancelled" /\ cancelling' = cancelling \ {j} /\ UNCHANGED <<adopts, slot>>
        /\ j \in cancelling \/ (pc[j] = "adopt" /\ pc[adopts[j]] = "cancelled")
    BY <1>2, <1>3 DEF Unwind
  <2>2. SlotWaits'
    BY <1>1, <1>2, <2>1 DEF Exclusive, SlotWaits
  <2>3. GuessHeld'
    BY <1>1, <1>2, <2>1 DEF Exclusive, GuessHeld, CancelsTheAdopted
  <2>4. CancelReaches'
    BY <1>1, <1>2, <2>1 DEF Exclusive, CancelReaches
  <2>5. CancelsTheAdopted'
    BY <1>1, <1>2, <2>1 DEF Exclusive, CancelsTheAdopted
  <2>6. CancelsLive'
    BY <1>1, <1>2, <2>1 DEF Exclusive, CancelsLive
  <2> QED
    BY <2>2, <2>3, <2>4, <2>5, <2>6 DEF Exclusive
<1>4. CASE Takes(j)
  <2>1. /\ slot' = None /\ UNCHANGED cancelling /\ pc[j] = "ready" /\ j \notin cancelling
        /\ job[j].kind = "confirm"
        /\ adopts'[j] = slot /\ (\A k \in Jobs : k # j => adopts'[k] = adopts[k])
        /\ pc'[j] = "adopt" <=> slot # None /\ Live(slot)
        /\ pc'[j] \in PC \ {"ready", "unused"}
    BY <1>2, <1>4 DEF Takes
  <2>2. SlotWaits'
    BY <2>1 DEF SlotWaits
  <2>3. GuessHeld'
    <3> SUFFICES ASSUME NEW g \in Jobs, Live(g)', job[g].kind = "guess", g \notin cancelling
                 PROVE  g = slot' \/ \E i \in Jobs : adopts'[i] = g /\ pc'[i] = "adopt"
      BY <1>1, <2>1 DEF GuessHeld
    <3>1. g # j /\ Live(g)
      BY <1>1, <2>1
    <3>2. CASE g = slot
      <4>1. adopts'[j] = g /\ pc'[j] = "adopt"
        BY <2>1, <3>1, <3>2
      <4> QED
        BY <4>1
    <3>3. ASSUME NEW i \in Jobs, adopts[i] = g, pc[i] = "adopt"
          PROVE  adopts'[i] = g /\ pc'[i] = "adopt"
      BY <1>1, <2>1, <3>3
    <3> QED
      BY <3>1, <3>2, <3>3 DEF Exclusive, GuessHeld
  <2>4. CancelReaches'
    BY <1>1, <1>2, <2>1 DEF Exclusive, CancelReaches
  <2>5. CancelsTheAdopted'
    BY <1>1, <1>2, <2>1 DEF Exclusive, CancelsTheAdopted
  <2>6. CancelsLive'
    BY <1>1, <1>2, <2>1 DEF Exclusive, CancelsLive
  <2> QED
    BY <2>2, <2>3, <2>4, <2>5, <2>6 DEF Exclusive
<1>5. CASE MovesOn(j)
  <2>1. /\ j \notin cancelling /\ UNCHANGED <<cancelling, adopts, slot>>
        /\ pc[j] = "ready" => job[j].kind # "confirm"
        /\ pc[j] = "adopt" => pc[adopts[j]] = "done"
        /\ pc'[j] \in PC \ {"ready", "adopt", "unused"}
    BY <1>5 DEF MovesOn
  <2>2. SlotWaits'
    BY <1>1, <1>2, <2>1 DEF Exclusive, SlotWaits
  <2>3. GuessHeld'
    BY <1>1, <1>2, <2>1 DEF Exclusive, GuessHeld
  <2>4. CancelReaches'
    BY <1>1, <1>2, <2>1 DEF Exclusive, CancelReaches, CancelsLive
  <2>5. CancelsTheAdopted'
    BY <1>1, <1>2, <2>1 DEF Exclusive, CancelsTheAdopted
  <2>6. CancelsLive'
    BY <1>1, <1>2, <2>1 DEF Exclusive, CancelsLive
  <2> QED
    BY <2>2, <2>3, <2>4, <2>5, <2>6 DEF Exclusive
<1> QED
  BY <1>3, <1>4, <1>5, JobStepKind

\* Starting a confirmed retrieval when no other one is live.
LEMMA StartConfirmedExclusive ==
  ASSUME Base, Exclusive, outPc # "idle", NEW seq \in Nat, StartConfirmed(seq), UNCHANGED slot
  PROVE  Exclusive'
<1>1. last < MaxJobs
  BY DEF Base, References
<1>2. PICK kind \in {"fresh", "confirm"} :
        Create(kind, seq) /\ (slot # None => kind = "confirm")
  BY DEF StartConfirmed
<1>3. /\ last + 1 \in Jobs /\ pc[last + 1] = "unused"
      /\ job'[last + 1] = [kind |-> kind, seq |-> seq, turn |-> turn]
      /\ pc'[last + 1] = "ready"
      /\ \A j \in Jobs : j # last + 1 => job'[j] = job[j] /\ pc'[j] = pc[j]
      /\ UNCHANGED <<cancelling, adopts>>
  BY <1>1, <1>2, CreateFacts
<1>4. pending' = last + 1 /\ outPc' = "idle" /\ job'[last + 1].kind = kind
  BY <1>3 DEF StartConfirmed
<1>5. \A i \in Jobs : /\ pc[i] = "adopt" => adopts[i] \in Jobs /\ pc[adopts[i]] # "unused"
                      /\ pc[i] = "adopt" => i # last + 1
  BY <1>3 DEF Base, TypeOK, Table
<1>6. SlotWaits'
  BY <1>2, <1>3, <1>4 DEF SlotWaits
<1>7. GuessHeld'
  BY <1>2, <1>3, <1>4, <1>5 DEF Exclusive, GuessHeld
<1>8. CancelReaches'
  BY <1>4 DEF CancelReaches
<1>9. CancelsTheAdopted'
  BY <1>3, <1>5 DEF Exclusive, CancelsTheAdopted
<1>10. CancelsLive'
  BY <1>3 DEF Exclusive, CancelsLive, Base, TypeOK
<1> QED
  BY <1>6, <1>7, <1>8, <1>9, <1>10 DEF Exclusive

LEMMA StepExclusive ==
  ASSUME Base, Exclusive, ~CancelMayBeLost, [Next]_vars
  PROVE  Exclusive'
<1> DEFINE Parts == <<outPc, outJob, job, pc, cancelling, adopts, pending, slot>>
<1>1. /\ \A i \in Jobs : pc[i] = "adopt" => adopts[i] \in Jobs /\ Confirmed(i)
      /\ \A i \in Jobs : adopts[i] # None => job[adopts[i]].kind = "guess"
      /\ pending # None => pending \in Jobs /\ Confirmed(pending)
      /\ slot # None => slot \in Jobs /\ job[slot].kind = "guess"
      /\ outPc = "cancel" => outJob \in Jobs
      /\ last \in 0 .. MaxJobs
  BY DEF Base, TypeOK, Table, References
<1>2. CASE UNCHANGED Parts
  BY <1>2 DEF Exclusive, SlotWaits, GuessHeld, CancelReaches, CancelsTheAdopted, CancelsLive
<1>3. CASE ClearSpeculative /\ UNCHANGED <<outPc, outJob, job, pc, adopts, pending>>
  <2>1. SlotWaits'
    BY <1>3 DEF ClearSpeculative, SlotWaits
  <2>2. GuessHeld'
    BY <1>1, <1>3 DEF ClearSpeculative, Exclusive, GuessHeld
  <2>3. CancelReaches'
    BY <1>3 DEF ClearSpeculative, Exclusive, CancelReaches
  <2>4. CancelsTheAdopted'
    BY <1>1, <1>3 DEF ClearSpeculative, Exclusive, CancelsTheAdopted
  <2>5. CancelsLive'
    BY <1>3 DEF ClearSpeculative, Exclusive, CancelsLive
  <2> QED
    BY <2>1, <2>2, <2>3, <2>4, <2>5 DEF Exclusive
<1>4. CASE Guess /\ Create("guess", ragSeq + 1)
  <2>1. /\ ~PendingLive /\ slot = None /\ Room /\ Create("guess", ragSeq + 1) /\ slot' = last + 1
        /\ UNCHANGED <<outVars, pending>>
    <3>1. ~UNCHANGED last
      BY <1>1, <1>4 DEF Create
    <3> QED
      BY <1>4, <3>1 DEF Guess
  <2>2. last < MaxJobs /\ ragSeq + 1 \in Nat /\ "guess" \in Kind
    BY <2>1 DEF Base, TypeOK, Room
  <2>3. /\ last + 1 \in Jobs /\ pc[last + 1] = "unused"
        /\ \A j \in Jobs : j # last + 1 => job'[j] = job[j] /\ pc'[j] = pc[j]
        /\ UNCHANGED <<cancelling, adopts>> /\ pc'[last + 1] = "ready"
    BY <2>1, <2>2, CreateFacts
  <2>4. /\ \A i \in Jobs : adopts[i] # None => adopts[i] # last + 1
        /\ pending # last + 1 /\ (outPc = "cancel" => outJob # last + 1)
    BY <1>1, <2>2 DEF Base, TypeOK, Table, References
  <2>5. SlotWaits'
    BY <1>1, <2>1, <2>3, <2>4 DEF SlotWaits
  <2>6. GuessHeld'
    BY <1>1, <2>1, <2>3, <2>4 DEF Exclusive, GuessHeld
  <2>7. CancelReaches'
    <3>1. \A i \in Jobs : pc[i] = "adopt" => pc'[adopts[i]] = pc[adopts[i]]
      BY <1>1, <2>3, <2>4
    <3> QED
      BY <1>1, <2>1, <2>3, <2>4, <3>1 DEF Exclusive, CancelReaches
  <2>8. CancelsTheAdopted'
    BY <1>1, <2>1, <2>3, <2>4 DEF Exclusive, CancelsTheAdopted
  <2>9. CancelsLive'
    BY <2>3 DEF Exclusive, CancelsLive, Base, TypeOK
  <2> QED
    BY <2>5, <2>6, <2>7, <2>8, <2>9 DEF Exclusive
<1>5. CASE TriggerAtOnce
  <2> DEFINE seq == ragSeq + 1
  <2>1. outPc # "idle" /\ StartConfirmed(seq) /\ UNCHANGED slot
    BY <1>5 DEF TriggerAtOnce
  <2>2. seq \in Nat
    BY DEF Base, TypeOK
  <2> HIDE DEF seq
  <2> QED
    BY <2>1, <2>2, StartConfirmedExclusive, Zenon
<1>6. CASE TriggerResumes
  <2>1. outPc # "idle" /\ StartConfirmed(outSeq) /\ UNCHANGED slot
    BY <1>6 DEF TriggerResumes
  <2>2. outSeq \in Nat
    BY DEF Base, TypeOK
  <2> QED
    BY <2>1, <2>2, StartConfirmedExclusive, Zenon
<1>7. CASE TriggerCancelling
  <2>1. /\ pending \in Jobs /\ Live(pending) /\ outPc' = "cancel" /\ outJob' = pending
        /\ pending' = None /\ cancelling' = cancelling \cup {CancelTarget(pending)}
        /\ UNCHANGED <<job, pc, adopts, slot>>
    BY <1>1, <1>7 DEF TriggerCancelling, RequestCancel
  <2>2. SlotWaits'
    BY <2>1 DEF SlotWaits
  <2>3. GuessHeld'
    BY <2>1 DEF Exclusive, GuessHeld
  <2>4. CancelReaches'
    BY <2>1 DEF CancelReaches, CancelTarget
  <2>5. CancelsTheAdopted'
    BY <1>1, <2>1 DEF Exclusive, CancelsTheAdopted, CancelTarget
  <2>6. CancelsLive'
    BY <2>1 DEF Exclusive, CancelsLive, CancelTarget
  <2> QED
    BY <2>2, <2>3, <2>4, <2>5, <2>6 DEF Exclusive
<1>8. CASE \E j \in Jobs : JobStep(j)
  BY <1>8, JobStepExclusive
<1>9. ASSUME NEW to \in Speaker, SttWord(to)
      PROVE  UNCHANGED Parts \/ (ClearSpeculative /\ UNCHANGED <<outPc, outJob, job, pc, adopts, pending>>)
  BY <1>9 DEF SttWord
<1>10. ASSUME Guess PROVE UNCHANGED Parts \/ (Guess /\ Create("guess", ragSeq + 1))
  BY <1>10 DEF Guess
<1> HIDE DEF Parts
<1>11. ASSUME NoGuess \/ (\E to \in Speaker : ModelText(to)) \/ RagDeclined
              \/ (\E j \in Jobs : ArcStep(j)) \/ UNCHANGED vars
       PROVE  UNCHANGED Parts
  BY <1>11 DEF NoGuess, ModelText, RagDeclined, ArcStep, ArcFails, ArcReturns, vars, Parts
<1>12. CASE RagToken
  BY <1>12 DEF RagToken, Exclusive, SlotWaits, GuessHeld, CancelReaches, CancelsTheAdopted, CancelsLive
<1> QED
  BY <1>2, <1>3, <1>4, <1>5, <1>6, <1>7, <1>8, <1>9, <1>10, <1>11, <1>12
  DEF Next, SttLoop, OutputLoop

LEMMA SpecExclusive == ASSUME ~CancelMayBeLost PROVE Spec => []Exclusive
<1>1. Init => Exclusive
  BY DEF Init, Exclusive, SlotWaits, GuessHeld, CancelReaches, CancelsTheAdopted, CancelsLive
<1> QED
  BY <1>1, SpecBase, StepExclusive, PTL DEF Spec

\* If no cancellation is lost, at most one retrieval that nobody has cancelled asks the
\* LLM at any time: a guess never runs beside a confirmed retrieval, and the output
\* loop has stopped the old one before it starts the next (rag_manager.py, trigger).
THEOREM OneRetrievalHolds == ~CancelMayBeLost => (Spec => []OneRetrieval)
<1> SUFFICES ASSUME ~CancelMayBeLost PROVE Spec => []OneRetrieval
  OBVIOUS
<1>1. Init => OnlyPending
  BY DEF Init, OnlyPending
<1>2. Base /\ OnlyPending /\ Exclusive => OneRetrieval
  <2> SUFFICES ASSUME Base, OnlyPending, Exclusive, NEW i \in Jobs, NEW j \in Jobs,
                      pc[i] = "retrieve", i \notin cancelling,
                      pc[j] = "retrieve", j \notin cancelling
               PROVE  i = j
    BY DEF OneRetrieval
  <2> USE DEF Exclusive
  <2>1. \A k \in Jobs : job[k].kind \in Kind
    BY DEF Base, TypeOK
  <2>2. ASSUME NEW c \in Jobs, pc[c] = "retrieve", c \notin cancelling, Confirmed(c)
        PROVE  c = pending /\ slot = None
    BY <2>2 DEF OnlyPending, CancelReaches, SlotWaits, Base, References
  <2>3. ASSUME NEW g \in Jobs, pc[g] = "retrieve", g \notin cancelling, ~Confirmed(g)
        PROVE  \/ g = slot /\ slot # None
               \/ pending # None /\ pc[pending] = "adopt" /\ adopts[pending] = g
    <3>1. job[g].kind = "guess"
      BY <2>1, <2>3
    <3>2. g = slot \/ \E k \in Jobs : adopts[k] = g /\ pc[k] = "adopt"
      BY <2>3, <3>1 DEF GuessHeld
    <3>3. ASSUME NEW k \in Jobs, adopts[k] = g, pc[k] = "adopt" PROVE k = pending
      <4>1. k = pending \/ (outPc = "cancel" /\ k = outJob)
        BY <3>3 DEF OnlyPending, Base, Table
      <4>2. ~(outPc = "cancel" /\ k = outJob)
        BY <2>3, <3>3 DEF CancelReaches, CancelsTheAdopted
      <4> QED
        BY <4>1, <4>2
    <3> QED
      BY <3>2, <3>3
  <2>4. pending # None /\ pc[pending] = "adopt" => slot = None
    BY DEF SlotWaits, Base, References, TypeOK
  <2> QED
    BY <2>2, <2>3, <2>4
<1> QED
  BY <1>1, <1>2, SpecBase, StepOnlyPending, SpecExclusive, PTL DEF Spec
===============================================================================
