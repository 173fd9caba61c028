----------------------------- MODULE Models_proofs -----------------------------
(***************************************************************************)
(* Of what runs the language model, whichever of its services a behaviour  *)
(* is one of: what a job is told of, for any number of files; then that a  *)
(* step reads and returns the delayed sequences of the sessions, for any   *)
(* batch and any delays, and what the two servers of moshi-server send.    *)
(*                                                                         *)
(* LMGen is taken first on its own, as a record: what a reset and a step   *)
(* make of it, and what its circular cache then holds.  The loops come     *)
(* after, each with an invariant of its channels and of its clients.       *)
(***************************************************************************)
EXTENDS MCModels, TLAPS

-------------------------------------------------------------------------------
(* The files, and the jobs *)

\* What is proved of the only slot of a batch.
Slot == INSTANCE BatchSlots_proofs WITH
  Occupants <- Files, BatchSize <- 1, MaxFrames <- 9, MaxDelay <- 1, RefLen <- 1, JobSteps <- 7,
  pending <- references

JobsInv ==
  IF service = "files" THEN Slot!JobInv
  ELSE /\ stepIndex = [f \in Files |-> 0]
       /\ rag = [f \in Files |-> NoRetrieval]

LEMMA OfOneSlot == Slot!ParametersAssumption /\ Slot!JobRetrievalAssumption
BY FilesAssumption, JobRetrievalAssumption
   DEF Slot!ParametersAssumption, Slot!JobRetrievalAssumption, Slot!Nobody, Jobs!Nobody

LEMMA JobsStart == Init => JobsInv
<1> SUFFICES ASSUME Init PROVE JobsInv
  OBVIOUS
<1>1. CASE service = "files"
  <2>1. Jobs!JobInit
    BY <1>1 DEF Init
  <2>2. Slot!JobInit
    BY <2>1 DEF Jobs!JobInit, Jobs!Init, Slot!JobInit, Slot!Init, Jobs!Slots, Slot!Slots,
      Jobs!CT, Slot!CT, Jobs!ZeroToken, Slot!ZeroToken, Jobs!Nobody, Slot!Nobody,
      Jobs!NoReference, Slot!NoReference, Jobs!NoRetrieval, Slot!NoRetrieval,
      Jobs!Never, Slot!Never
  <2> QED
    BY <1>1, <2>2, OfOneSlot, Slot!InitJobInv DEF JobsInv
<1>2. CASE service # "files"
  BY <1>2 DEF Init, NoFiles, JobsInv
<1> QED
  BY <1>1, <1>2

\* What a retrieval is made of does not depend on whose it is.
LEMMA SameRetrieval ==
  /\ Jobs!NoRetrieval = Slot!NoRetrieval
  /\ \A r, t : Jobs!Outcomes(r, t) = Slot!Outcomes(r, t)
  /\ \A r, t : Jobs!Counted(r, t) = Slot!Counted(r, t)
  /\ \A r, t : Jobs!IsDue(r, t) = Slot!IsDue(r, t)
  /\ \A r : Jobs!Settled(r) = Slot!Settled(r)
  /\ \A r, t, e : Jobs!Caught(r, t, e) = Slot!Caught(r, t, e)
BY DEF Jobs!NoRetrieval, Slot!NoRetrieval, Jobs!Never, Slot!Never, Jobs!Outcomes, Slot!Outcomes,
  Jobs!Triggered, Slot!Triggered, Jobs!Counted, Slot!Counted, Jobs!IsDue, Slot!IsDue,
  Jobs!Settled, Slot!Settled, Jobs!Caught, Slot!Caught

\* A step of the jobs, as what is proved of it has it.
LEMMA JobsStep == Jobs!JobNext => Slot!JobNext
<1> USE DEF Jobs!Nobody, Slot!Nobody, Jobs!Slots, Slot!Slots, Jobs!IsFree, Slot!IsFree,
  Jobs!lmVars, Slot!lmVars, Jobs!occVars, Slot!occVars, Jobs!SlotOf, Slot!SlotOf
<1>1. Jobs!Step => Slot!Step
  <2>1. Jobs!Active = Slot!Active /\ Jobs!First = Slot!First
    BY DEF Jobs!Active, Slot!Active, Jobs!First, Slot!First
  <2>2. /\ Jobs!PendingReset(Jobs!First) = Slot!PendingReset(Slot!First)
        /\ Jobs!OffsetsReset(Jobs!First) = Slot!OffsetsReset(Slot!First)
        /\ Jobs!CacheReset(Jobs!First) = Slot!CacheReset(Slot!First)
        /\ Jobs!OffsetCpuReset(Jobs!First) = Slot!OffsetCpuReset(Slot!First)
    BY <2>1 DEF Jobs!PendingReset, Slot!PendingReset, Jobs!OffsetsReset, Slot!OffsetsReset,
      Jobs!CacheReset, Slot!CacheReset, Jobs!OffsetCpuReset, Slot!OffsetCpuReset,
      Jobs!NoReference, Slot!NoReference, Jobs!CT, Slot!CT, Jobs!ZeroToken, Slot!ZeroToken
  <2>3. Jobs!Deliver => Slot!Deliver
    BY <2>1 DEF Jobs!Deliver, Slot!Deliver, Jobs!Delivers, Slot!Delivers, Jobs!Output, Slot!Output,
      Jobs!Ungenerated, Slot!Ungenerated, Jobs!CT, Slot!CT
  <2>4. ASSUME NEW staged PROVE Jobs!ApplyPending(staged) => Slot!ApplyPending(staged)
    BY <2>1 DEF Jobs!ApplyPending, Slot!ApplyPending, Jobs!NoReference, Slot!NoReference
  <2>5. ASSUME NEW start, NEW cells PROVE Jobs!Sample(start, cells) => Slot!Sample(start, cells)
    BY <2>1 DEF Jobs!Sample, Slot!Sample, Jobs!CT, Slot!CT
  <2> QED
    BY <2>1, <2>2, <2>3, <2>4, <2>5 DEF Jobs!Step, Slot!Step
<1>2. ASSUME NEW o \in Files
      PROVE  /\ Jobs!Acquire(o) => Slot!Acquire(o)
             /\ Jobs!StartUp(o) => Slot!StartUp(o)
             /\ Jobs!Feed(o) => Slot!Feed(o)
             /\ Jobs!UpdateReference(o) => Slot!UpdateReference(o)
             /\ Jobs!Release(o) => Slot!Release(o)
             /\ Jobs!Paced(o) => Slot!Paced(o)
             /\ Jobs!JobFails(o) => Slot!JobFails(o)
  BY SameRetrieval DEF Jobs!Acquire, Slot!Acquire, Jobs!StartUp, Slot!StartUp, Jobs!Feed, Slot!Feed,
    Jobs!UpdateReference, Slot!UpdateReference, Jobs!Release, Slot!Release, Jobs!Paced, Slot!Paced,
    Jobs!JobFails, Slot!JobFails, Jobs!Ends, Slot!Ends
<1>3. ASSUME NEW o, NEW r PROVE Jobs!Advance(o, r) => Slot!Advance(o, r)
  BY SameRetrieval DEF Jobs!Advance, Slot!Advance, Jobs!Ends, Slot!Ends
<1>4. ASSUME NEW o \in Files PROVE Jobs!ReadOutput(o) => Slot!ReadOutput(o)
  BY <1>3, SameRetrieval DEF Jobs!ReadOutput, Slot!ReadOutput
<1>5. ASSUME NEW o \in Files PROVE Jobs!Returns(o) => Slot!Returns(o)
  BY SameRetrieval DEF Jobs!Returns, Slot!Returns, Jobs!RetrievalReturns, Slot!RetrievalReturns,
    Jobs!vars, Slot!vars
<1>6. ASSUME NEW o \in Files PROVE Jobs!Conditions(o) => Slot!Conditions(o)
  BY <1>3, SameRetrieval DEF Jobs!Conditions, Slot!Conditions
<1>7. ASSUME NEW o \in Files PROVE Jobs!Job(o) => Slot!Job(o)
  BY <1>2, <1>4, <1>5, <1>6
     DEF Jobs!Job, Slot!Job, Jobs!JobStarts, Slot!JobStarts, Jobs!FeedJob, Slot!FeedJob
<1> QED
  BY <1>1, <1>7 DEF Jobs!JobNext, Slot!JobNext

LEMMA JobsSteps == JobsInv /\ [Next]_vars => JobsInv'
<1> SUFFICES ASSUME JobsInv, [Next]_vars PROVE JobsInv'
  OBVIOUS
<1>1. service' = service
  BY DEF Next, vars
<1>2. CASE service = "files"
  <2>1. Jobs!JobNext \/ UNCHANGED fileVars
    BY <1>2 DEF Next, vars, Server
  <2>2. [Slot!JobNext]_Slot!jobVars
    BY <2>1, JobsStep DEF fileVars, Slot!jobVars, Slot!vars, Slot!occVars, Slot!lmVars
  <2>3. Slot!JobInv'
    BY <1>2, <2>2, OfOneSlot, Slot!NextJobInv DEF JobsInv
  <2> QED
    BY <1>1, <1>2, <2>3 DEF JobsInv
<1>3. CASE service # "files"
  <2>1. stepIndex' = stepIndex /\ rag' = rag
    BY <1>3 DEF Next, vars, fileVars
  <2> QED
    BY <1>1, <1>3, <2>1 DEF JobsInv
<1> QED
  BY <1>2, <1>3

\* The output that a job reads is that of the frame it fed MaxDelay steps before, however
\* many files take turns in the batch; and the references condition a job in the order of
\* its RAG tokens, none of them twice, however long their retrievals last and whichever
\* the encoder fails at (inference_job.py, _output_loop).
THEOREM JobsAreSoundHolds == Spec => []JobsAreSound
<1>1. ASSUME JobsInv PROVE JobsAreSound
  <2>1. CASE service = "files"
    <3>1. Slot!TraceIsAligned /\ Slot!ReferencesInOrder
      BY <1>1, <2>1, OfOneSlot, Slot!AlignedFact, Slot!OrderedFact DEF JobsInv
    <3> QED
      BY <3>1 DEF JobsAreSound, Jobs!TraceIsAligned, Slot!TraceIsAligned,
        Jobs!ReferencesInOrder, Slot!ReferencesInOrder
  <2>2. CASE service # "files"
    <3>1. /\ stepIndex = [f \in Files |-> 0]
          /\ \A f \in Files : rag[f].conditioned = <<>>
      BY <1>1, <2>2 DEF JobsInv, NoRetrieval
    <3> QED
      BY <3>1 DEF JobsAreSound, Jobs!TraceIsAligned, Jobs!ReferencesInOrder
  <2> QED
    BY <2>1, <2>2
<1> QED
  BY <1>1, JobsStart, JobsSteps, PTL DEF Spec

-------------------------------------------------------------------------------
(* LMGen *)

\* What LMGen is, with a delay of each stream up to the longest.
Shape(m) ==
  /\ m = [delays |-> m.delays, given |-> m.given, prepend |-> m.prepend, silent |-> m.silent,
          outOfSync |-> m.outOfSync, offsets |-> m.offsets, offsetCpu |-> m.offsetCpu,
          cache |-> m.cache, position |-> m.position]
  /\ MaxDelayOf(m) \in Nat /\ \A k \in Streams(m) : m.delays[k] \in 0 .. MaxDelayOf(m)
  /\ m.prepend \in Nat /\ m.silent \in Nat
  /\ m.offsets \in [Rows -> Nat] /\ m.position \in [Rows -> Nat]
  /\ \A r \in Rows, k \in Streams(m) : DOMAIN m.cache[r][k] = 0 .. CT(m) - 1

SameModel(m, n) ==
  /\ n.delays = m.delays /\ n.given = m.given /\ n.prepend = m.prepend /\ n.silent = m.silent
  /\ n.outOfSync = m.outOfSync

\* The functions of the delays do not change with the state.
LEMMA SameFact ==
  ASSUME NEW m, NEW n, SameModel(m, n)
  PROVE  Streams(n) = Streams(m) /\ MaxDelayOf(n) = MaxDelayOf(m) /\ CT(n) = CT(m)
BY DEF SameModel, Streams, MaxDelayOf, CT

\* What a reset makes of m.
ResetsTo(m, fresh, n) ==
  /\ SameModel(m, n) /\ Shape(n)
  /\ \A r \in Rows : /\ n.offsets[r] = IF r \in fresh THEN 0 ELSE m.offsets[r]
                     /\ n.position[r] = IF r \in fresh THEN m.prepend ELSE m.position[r]

LEMMA ResetFact ==
  ASSUME NEW m, Shape(m), NEW fresh \in SUBSET Rows
  PROVE  ResetsTo(m, fresh, ResetLM(m, fresh))
<1> DEFINE n == ResetLM(m, fresh)
<1>1. CASE fresh = {}
  BY <1>1 DEF ResetLM, SameModel, Shape, ResetsTo
<1>2. CASE fresh # {}
  <2>1. n = [m EXCEPT
          !.offsets = [r \in Rows |-> IF r \in fresh THEN 0 ELSE m.offsets[r]],
          !.offsetCpu = 0,
          !.cache = [r \in Rows |-> [k \in Streams(m) |-> [i \in 0 .. CT(m) - 1 |-> Wiped]]],
          !.position = [r \in Rows |-> IF r \in fresh THEN m.prepend ELSE m.position[r]]]
    BY <1>2 DEF ResetLM, Prepended, Batch, Shape
  <2> HIDE DEF n
  <2>2. /\ n = [delays |-> m.delays, given |-> m.given, prepend |-> m.prepend, silent |-> m.silent,
                outOfSync |-> m.outOfSync, offsets |-> n.offsets, offsetCpu |-> n.offsetCpu,
                cache |-> n.cache, position |-> n.position]
        /\ n.offsets = [r \in Rows |-> IF r \in fresh THEN 0 ELSE m.offsets[r]]
        /\ n.cache = [r \in Rows |-> [k \in Streams(m) |-> [i \in 0 .. CT(m) - 1 |-> Wiped]]]
        /\ n.position = [r \in Rows |-> IF r \in fresh THEN m.prepend ELSE m.position[r]]
    BY <2>1 DEF Shape
  <2>3. SameModel(m, n)
    BY <2>2 DEF SameModel
  <2>4. Streams(n) = Streams(m) /\ MaxDelayOf(n) = MaxDelayOf(m) /\ CT(n) = CT(m)
    BY <2>3, SameFact
  <2>5. Shape(n)
    BY <2>2, <2>4 DEF Shape
  <2> QED
    BY <2>2, <2>3, <2>5 DEF ResetsTo, n
<1> QED
  BY <1>1, <1>2

LEMMA WipedFact ==
  ASSUME NEW m, Shape(m), NEW fresh \in SUBSET Rows, fresh # {},
         NEW r \in Rows, NEW k \in Streams(m), NEW i \in 0 .. CT(m) - 1
  PROVE  ResetLM(m, fresh).cache[r][k][i] = Wiped
<1> DEFINE C == [q \in Rows |-> [j \in Streams(m) |-> [h \in 0 .. CT(m) - 1 |-> Wiped]]]
<1>1. ResetLM(m, fresh) = [m EXCEPT
          !.offsets = [q \in Rows |-> IF q \in fresh THEN 0 ELSE m.offsets[q]],
          !.offsetCpu = 0, !.cache = C,
          !.position = [q \in Rows |-> IF q \in fresh THEN m.prepend ELSE m.position[q]]]
  BY DEF ResetLM, Prepended, Batch, Shape
<1>2. C[r][k][i] = Wiped
  OBVIOUS
<1> HIDE DEF C
<1>3. ResetLM(m, fresh).cache = C
  BY <1>1 DEF Shape
<1> QED
  BY <1>2, <1>3

\* Where a step writes in the cache of a row: so far ahead of its offset.
Ahead(m, k) == IF k \in m.given THEN m.delays[k] ELSE 1

\* What a step makes of m.
StepsTo(m, mask, coded, n) ==
  /\ SameModel(m, n) /\ Shape(n)
  /\ \A r \in Rows : /\ n.offsets[r] = IF r \in mask THEN m.offsets[r] + 1 ELSE m.offsets[r]
                     /\ n.position[r] = IF r \in mask THEN m.position[r] + 1 ELSE m.position[r]
  /\ \A r \in Rows, k \in Streams(m), i \in 0 .. CT(m) - 1 :
       n.cache[r][k][i] = IF r \in mask /\ i = (m.offsets[r] + Ahead(m, k)) % CT(m)
                          THEN coded[r][k] ELSE m.cache[r][k][i]

LEMMA StepFact ==
  ASSUME NEW m, Shape(m), NEW mask \in SUBSET Rows, NEW coded
  PROVE  StepsTo(m, mask, coded, StepLM(m, mask, coded))
<1> DEFINE n == StepLM(m, mask, coded)
<1> DEFINE O == [r \in Rows |-> IF r \in mask THEN m.offsets[r] + 1 ELSE m.offsets[r]]
           P == [r \in Rows |-> IF r \in mask THEN m.position[r] + 1 ELSE m.position[r]]
           W == Written(m, mask, coded)
           N(r, k) == IF k \notin m.given /\ r \in mask
                      THEN [W[r][k] EXCEPT ![O[r] % CT(m)] = coded[r][k]] ELSE W[r][k]
           C == [r \in Rows |-> [k \in Streams(m) |-> N(r, k)]]
<1>1. n = [m EXCEPT !.offsets = O, !.offsetCpu = n.offsetCpu, !.cache = C, !.position = P]
  BY DEF StepLM, Batch, Shape
<1>2. /\ n = [delays |-> m.delays, given |-> m.given, prepend |-> m.prepend, silent |-> m.silent,
              outOfSync |-> m.outOfSync, offsets |-> n.offsets, offsetCpu |-> n.offsetCpu,
              cache |-> n.cache, position |-> n.position]
      /\ n.offsets = O /\ n.cache = C /\ n.position = P
  <2> HIDE DEF O, P, C
  <2> QED
    BY <1>1 DEF Shape
<1>3. SameModel(m, n)
  BY <1>2 DEF SameModel
<1>4. Streams(n) = Streams(m) /\ MaxDelayOf(n) = MaxDelayOf(m) /\ CT(n) = CT(m)
  BY <1>3, SameFact
<1>5. \A r \in Rows, k \in Streams(m) :
        W[r][k] = IF k \in m.given /\ r \in mask
                  THEN [m.cache[r][k] EXCEPT ![(m.offsets[r] + m.delays[k]) % CT(m)] = coded[r][k]]
                  ELSE m.cache[r][k]
  BY DEF Written, Batch
<1>6. \A r \in Rows, k \in Streams(m) : n.cache[r][k] = N(r, k)
  BY <1>2
<1>7. \A r \in mask : O[r] = m.offsets[r] + 1
  OBVIOUS
<1> HIDE DEF W
<1> HIDE DEF n
<1>8. ASSUME NEW r \in Rows, NEW k \in Streams(m)
      PROVE  n.cache[r][k] =
               IF r \notin mask THEN m.cache[r][k]
               ELSE [m.cache[r][k] EXCEPT ![(m.offsets[r] + Ahead(m, k)) % CT(m)] = coded[r][k]]
  <2>1. CASE r \notin mask
    BY <1>5, <1>6, <2>1
  <2>2. CASE r \in mask /\ k \in m.given
    BY <1>5, <1>6, <2>2 DEF Ahead
  <2>3. CASE r \in mask /\ k \notin m.given
    <3>1. W[r][k] = m.cache[r][k]
      BY <1>5, <2>3
    <3>2. n.cache[r][k] = [W[r][k] EXCEPT ![O[r] % CT(m)] = coded[r][k]]
      BY <1>6, <2>3
    <3> QED
      BY <1>7, <2>3, <3>1, <3>2 DEF Ahead
  <2> QED
    BY <2>1, <2>2, <2>3
<1>9. ASSUME NEW r \in Rows, NEW k \in Streams(m)
      PROVE  /\ DOMAIN n.cache[r][k] = 0 .. CT(m) - 1
             /\ \A i \in 0 .. CT(m) - 1 :
                  n.cache[r][k][i] = IF r \in mask /\ i = (m.offsets[r] + Ahead(m, k)) % CT(m)
                                     THEN coded[r][k] ELSE m.cache[r][k][i]
  <2>1. DOMAIN m.cache[r][k] = 0 .. CT(m) - 1
    BY DEF Shape
  <2> DEFINE target == (m.offsets[r] + Ahead(m, k)) % CT(m)
  <2>2. n.cache[r][k] = IF r \notin mask THEN m.cache[r][k]
                        ELSE [m.cache[r][k] EXCEPT ![target] = coded[r][k]]
    BY <1>8
  <2> HIDE DEF target
  <2>3. /\ DOMAIN n.cache[r][k] = 0 .. CT(m) - 1
        /\ \A i \in 0 .. CT(m) - 1 :
             n.cache[r][k][i] = IF r \in mask /\ i = target THEN coded[r][k] ELSE m.cache[r][k][i]
    BY <2>1, <2>2
  <2> QED
    BY <2>3 DEF target
<1>10. /\ n.offsets \in [Rows -> Nat] /\ n.position \in [Rows -> Nat]
       /\ \A r \in Rows : /\ n.offsets[r] = IF r \in mask THEN m.offsets[r] + 1 ELSE m.offsets[r]
                          /\ n.position[r] = IF r \in mask THEN m.position[r] + 1 ELSE m.position[r]
  <2>1. O \in [Rows -> Nat] /\ P \in [Rows -> Nat]
    BY DEF Shape
  <2> QED
    BY <1>2, <2>1
<1> HIDE DEF O, P, C, N
<1>11. Shape(n)
  BY <1>2, <1>3, <1>4, <1>9, <1>10 DEF Shape, SameModel
<1>12. \A r \in Rows, k \in Streams(m), i \in 0 .. CT(m) - 1 :
         n.cache[r][k][i] = IF r \in mask /\ i = (m.offsets[r] + Ahead(m, k)) % CT(m)
                            THEN coded[r][k] ELSE m.cache[r][k][i]
  BY <1>9
<1> QED
  BY <1>3, <1>10, <1>11, <1>12 DEF StepsTo, n

-------------------------------------------------------------------------------
(* The circular cache *)

\* Two positions less than the length of the cache apart have cells of their own.
LEMMA CellFact ==
  ASSUME NEW C \in Nat \ {0}, NEW p \in Nat, NEW n \in Nat, p < n, n - p < C
  PROVE  p % C # n % C
<1> SUFFICES ASSUME p % C = n % C PROVE FALSE
  OBVIOUS
<1> DEFINE before == p \div C
           after  == n \div C
<1>1. /\ before \in Int /\ after \in Int /\ p % C \in Int
      /\ p = C * before + (p % C) /\ n = C * after + (n % C)
  OBVIOUS
<1> HIDE DEF before, after
<1>2. n - p = C * (after - before)
  BY <1>1
<1>3. after - before \in Int /\ (after - before < 1 \/ after - before >= 1)
  BY <1>1
<1>4. C * (after - before) <= 0 \/ C * (after - before) >= C
  BY <1>3, SMTT(30)
<1> QED
  BY <1>2, <1>4

\* The step at which what stands at a position was written, and what it is.
WrittenAt(m, k, p) == IF k \in m.given THEN p - m.delays[k] ELSE p - 1
Content(m, k, s, p) ==
  IF k \in m.given THEN GivenToken(s, p - m.delays[k])
  ELSE IF k # Text /\ p - 1 < m.delays[k] + m.silent THEN ZeroToken
  ELSE Sampled(s, p - 1)

\* The positions that are to be read: the given ones ahead of the row, the sampled
\* ones behind it.
Kept(m, r, k, p) ==
  IF k \in m.given THEN p >= m.delays[k] /\ m.offsets[r] <= p /\ p < m.offsets[r] + m.delays[k]
  ELSE p >= 1 /\ p <= m.offsets[r] /\ m.offsets[r] < p + CT(m)

\* They hold what was written, unless it was wiped since.
Ring(m, s, n) ==
  \A r \in Rows, k \in Streams(m), p \in Nat :
    Kept(m, r, k, p) =>
      m.cache[r][k][p % CT(m)] =
        IF WrittenAt(m, k, p) >= m.offsets[r] - n[r] THEN Content(m, k, s[r], p) ELSE Wiped

LEMMA KeptFact ==
  ASSUME NEW m, Shape(m), NEW r \in Rows, NEW k \in Streams(m), NEW p \in Nat
  PROVE  /\ m.offsets[r] \in Nat /\ m.delays[k] \in Nat /\ m.delays[k] < CT(m) - 1
         /\ CT(m) \in Nat \ {0, 1} /\ MaxDelayOf(m) \in Nat /\ CT(m) = MaxDelayOf(m) + 2
         /\ p % CT(m) \in DOMAIN m.cache[r][k]
         /\ WrittenAt(m, k, p) \in Int
<1>1. /\ m.offsets[r] \in Nat /\ m.delays[k] \in Nat /\ m.delays[k] < CT(m) - 1
      /\ CT(m) \in Nat \ {0, 1} /\ MaxDelayOf(m) \in Nat /\ CT(m) = MaxDelayOf(m) + 2
      /\ DOMAIN m.cache[r][k] = 0 .. CT(m) - 1
  BY DEF Shape, CT
<1>2. p % CT(m) \in 0 .. CT(m) - 1
  BY <1>1
<1> QED
  BY <1>1, <1>2 DEF WrittenAt

\* What the definitions above say of another state of the same model.
LEMMA SameKept ==
  ASSUME NEW m, NEW n, SameModel(m, n), NEW k, NEW p, NEW s
  PROVE  /\ WrittenAt(n, k, p) = WrittenAt(m, k, p) /\ Content(n, k, s, p) = Content(m, k, s, p)
         /\ CT(n) = CT(m) /\ Streams(n) = Streams(m) /\ MaxDelayOf(n) = MaxDelayOf(m)
BY SameFact DEF SameModel, WrittenAt, Content

\* A reset leaves nothing in the cache, and nothing is kept of the rows reset.
LEMMA ResetRing ==
  ASSUME NEW m, Shape(m), NEW s, NEW since0, Ring(m, s, since0), NEW fresh \in SUBSET Rows,
         NEW n, n = ResetLM(m, fresh),
         NEW t, \A r \in Rows : r \notin fresh => t[r] = s[r],
         NEW since1, since1 = [r \in Rows |-> IF fresh = {} THEN since0[r] ELSE 0]
  PROVE  Ring(n, t, since1)
<1>1. CASE fresh = {}
  BY <1>1 DEF ResetLM, Ring
<1>2. CASE fresh # {}
  <2> SUFFICES ASSUME NEW r \in Rows, NEW k \in Streams(n), NEW p \in Nat, Kept(n, r, k, p)
               PROVE  /\ n.cache[r][k][p % CT(n)] = Wiped
                      /\ ~(WrittenAt(n, k, p) >= n.offsets[r] - since1[r])
    BY DEF Ring
  <2>1. SameModel(m, n) /\ Shape(n)
    BY ResetFact DEF ResetsTo
  <2>2. Streams(n) = Streams(m) /\ CT(n) = CT(m)
    BY <2>1, SameFact
  <2>3. ASSUME NEW i \in 0 .. CT(m) - 1 PROVE n.cache[r][k][i] = Wiped
    BY <1>2, <2>2, WipedFact
  <2>4. n.cache[r][k][p % CT(n)] = Wiped
    <3>1. p % CT(n) \in DOMAIN n.cache[r][k] /\ DOMAIN n.cache[r][k] = 0 .. CT(n) - 1
      <4>1. p % CT(n) \in DOMAIN n.cache[r][k]
        BY <2>1, KeptFact
      <4>2. DOMAIN n.cache[r][k] = 0 .. CT(n) - 1
        BY <2>1 DEF Shape
      <4> QED
        BY <4>1, <4>2
    <3> QED
      BY <2>2, <2>3, <3>1
  <2>5. since1[r] = 0
    BY <1>2
  <2>6. WrittenAt(n, k, p) < n.offsets[r]
    BY <2>1, KeptFact DEF Kept, WrittenAt
  <2> QED
    <3>1. n.offsets[r] \in Nat /\ WrittenAt(n, k, p) \in Int
      BY <2>1, KeptFact
    <3> QED
      BY <2>4, <2>5, <2>6, <3>1
<1> QED
  BY <1>1, <1>2

\* A token is written where it stands for a position of its stream.
LEMMA TokenFact ==
  ASSUME NEW m, Shape(m), NEW s, NEW zeroed \in BOOLEAN,
         NEW r \in Rows, NEW k \in Streams(m), zeroed => m.offsets[r] < m.silent
  PROVE  Tokens(m, s, zeroed)[r][k] = Content(m, k, s[r], m.offsets[r] + Ahead(m, k))
<1>1. Tokens(m, s, zeroed)[r][k] =
        IF k \in m.given THEN GivenToken(s[r], m.offsets[r])
        ELSE IF k # Text /\ (zeroed \/ m.offsets[r] < m.delays[k] + m.silent) THEN ZeroToken
        ELSE Sampled(s[r], m.offsets[r])
  BY DEF Tokens, Batch
<1>2. m.offsets[r] \in Nat /\ m.delays[k] \in Nat /\ m.silent \in Nat
  BY DEF Shape
<1>3. CASE k \in m.given
  <2>1. (m.offsets[r] + m.delays[k]) - m.delays[k] = m.offsets[r]
    BY <1>2
  <2> QED
    BY <1>1, <1>3, <2>1 DEF Content, Ahead
<1>4. CASE k \notin m.given
  <2>1. (m.offsets[r] + 1) - 1 = m.offsets[r]
    BY <1>2
  <2>2. zeroed => m.offsets[r] < m.delays[k] + m.silent
    BY <1>2
  <2> QED
    BY <1>1, <1>4, <2>1, <2>2 DEF Content, Ahead
<1> QED
  BY <1>3, <1>4

\* A step keeps what was kept, and what it writes.
LEMMA StepRing ==
  ASSUME NEW m, Shape(m), NEW s, NEW since0 \in [Rows -> 0 .. CT(m)], Ring(m, s, since0),
         NEW mask \in SUBSET Rows, NEW zeroed \in BOOLEAN,
         zeroed => \A r \in mask : m.offsets[r] < m.silent,
         NEW coded, coded = Tokens(m, s, zeroed), NEW n, n = StepLM(m, mask, coded),
         NEW since1, since1 = [r \in Rows |-> IF r \in mask /\ since0[r] < CT(m) THEN since0[r] + 1
                                              ELSE since0[r]]
  PROVE  Ring(n, s, since1)
<1> SUFFICES ASSUME NEW r \in Rows, NEW k \in Streams(n), NEW p \in Nat, Kept(n, r, k, p)
             PROVE  n.cache[r][k][p % CT(n)] =
                      IF WrittenAt(n, k, p) >= n.offsets[r] - since1[r] THEN Content(n, k, s[r], p)
                      ELSE Wiped
  BY DEF Ring
<1>1. StepsTo(m, mask, coded, n) /\ SameModel(m, n) /\ Shape(n)
  <2>1. StepsTo(m, mask, coded, n)
    BY StepFact
  <2> QED
    BY <2>1 DEF StepsTo
<1>2. /\ Streams(n) = Streams(m) /\ CT(n) = CT(m)
      /\ WrittenAt(n, k, p) = WrittenAt(m, k, p) /\ Content(n, k, s[r], p) = Content(m, k, s[r], p)
  BY <1>1, SameKept
<1>3. n.offsets[r] = IF r \in mask THEN m.offsets[r] + 1 ELSE m.offsets[r]
  BY <1>1 DEF StepsTo
<1> DEFINE o == m.offsets[r]
           d == m.delays[k]
           w == WrittenAt(m, k, p)
           target == o + Ahead(m, k)
<1>4. /\ o \in Nat /\ d \in Nat /\ d < CT(m) - 1 /\ CT(m) \in Nat \ {0, 1} /\ w \in Int
  BY <1>2, KeptFact
<1>5. n.cache[r][k][p % CT(m)] =
        IF r \in mask /\ p % CT(m) = target % CT(m) THEN coded[r][k]
        ELSE m.cache[r][k][p % CT(m)]
  <2>1. p % CT(m) \in 0 .. CT(m) - 1
    BY <1>4
  <2> QED
    BY <1>1, <1>2, <2>1 DEF StepsTo
<1>6. Kept(m, r, k, p) => m.cache[r][k][p % CT(m)] =
        IF w >= o - since0[r] THEN Content(m, k, s[r], p) ELSE Wiped
  BY <1>2 DEF Ring
<1>7. CASE r \notin mask
  <2>1. Kept(m, r, k, p)
    BY <1>1, <1>2, <1>3, <1>7 DEF Kept, SameModel
  <2>2. since1[r] = since0[r]
    BY <1>7
  <2> QED
    BY <1>2, <1>3, <1>5, <1>6, <1>7, <2>1, <2>2
<1>8. CASE r \in mask
  <2>1. since0[r] \in Nat /\ since0[r] <= CT(m)
    BY <1>4
  <2>2. since1[r] = IF since0[r] < CT(m) THEN since0[r] + 1 ELSE since0[r]
    BY <1>8
  <2>3. since1[r] \in Nat /\ since1[r] >= 1 /\ since1[r] <= CT(m)
    BY <1>4, <2>1, <2>2
  <2>4. n.offsets[r] = o + 1
    BY <1>3, <1>8
  <2>5. Kept(n, r, k, p) <=> IF k \in m.given THEN p >= d /\ o + 1 <= p /\ p < (o + 1) + d
                             ELSE p >= 1 /\ p <= o + 1 /\ o + 1 < p + CT(m)
    BY <1>1, <1>2, <2>4 DEF Kept, SameModel
  <2>6. target \in Nat /\ p <= target /\ target - p < CT(m) /\ w = (p - target) + o
    BY <1>4, <2>5 DEF Ahead, WrittenAt
  <2>7. CASE p = target
    <3>1. coded[r][k] = Content(m, k, s[r], p)
      BY <1>2, <1>8, <2>7, TokenFact
    <3>2. w = o
      BY <1>4, <2>6, <2>7
    <3> QED
      BY <1>2, <1>4, <1>5, <1>8, <2>3, <2>4, <2>7, <3>1, <3>2
  <2>8. CASE p # target
    <3>1. p < target
      BY <2>6, <2>8
    <3>2. p % CT(m) # target % CT(m)
      BY <1>4, <2>6, <3>1, CellFact
    <3>3. Kept(m, r, k, p)
      BY <1>4, <2>5, <3>1 DEF Kept, Ahead
    <3>4. w >= o - since0[r] <=> w >= (o + 1) - since1[r]
      <4>1. w >= o - (CT(m) - 1)
        BY <1>4, <2>5, <3>1 DEF WrittenAt
      <4> QED
        BY <1>4, <2>1, <2>2, <4>1
    <3> QED
      BY <1>2, <1>5, <1>6, <2>4, <3>2, <3>3, <3>4
  <2> QED
    BY <2>7, <2>8
<1> QED
  BY <1>7, <1>8

\* What stands at the row's offset is what the sequence has there; it is not the
\* initial token.
LEMMA ContentFact ==
  ASSUME NEW m, Shape(m), NEW k \in Streams(m), NEW s \in Nat, NEW n \in Nat
  PROVE  /\ n > m.delays[k] => /\ Content(m, k, s, n) = Delayed(m, k, s, n)
                               /\ Content(m, k, s, n) # Initial
         /\ n <= m.delays[k] => Delayed(m, k, s, n) = Initial
<1> DEFINE d == m.delays[k]
<1>1. d \in Nat /\ m.silent \in Nat
  BY DEF Shape
<1>2. n <= d => n = 0 \/ n - 1 < d
  BY <1>1
<1>3. ASSUME n > d PROVE Content(m, k, s, n) = Delayed(m, k, s, n)
  <2>1. /\ ~(n = 0 \/ n - 1 < d) /\ (n - 1 - d) + 1 = n - d /\ (n - 1 - d) + d = n - 1
        /\ n - 1 - d < m.silent <=> n - 1 < d + m.silent
    BY <1>1, <1>3
  <2> QED
    BY <2>1 DEF Content, Delayed, Code
<1>4. Content(m, k, s, n) # Initial
  BY <1>1 DEF Content, GivenToken, Sampled, ZeroToken, Initial
<1> QED
  BY <1>2, <1>3, <1>4 DEF Delayed

\* What the model reads for a row.
LEMMA ReadFact ==
  ASSUME NEW m, Shape(m), NEW s, NEW since0 \in [Rows -> 0 .. CT(m)], Ring(m, s, since0),
         NEW mask \in SUBSET Rows, NEW zeroed \in BOOLEAN,
         zeroed => \A r \in mask : m.offsets[r] < m.silent,
         NEW coded, coded = Tokens(m, s, zeroed),
         NEW r \in mask, NEW k \in Streams(m)
  PROVE  Inputs(m, mask, coded)[r][k] =
           IF m.offsets[r] <= m.delays[k] THEN Initial
           ELSE IF since0[r] < (IF k \in m.given THEN m.delays[k] ELSE 1) THEN Wiped
           ELSE Content(m, k, s[r], m.offsets[r])
<1> DEFINE o == m.offsets[r]
           d == m.delays[k]
<1>1. /\ o \in Nat /\ d \in Nat /\ d < CT(m) - 1 /\ CT(m) \in Nat \ {0, 1}
      /\ o % CT(m) \in DOMAIN m.cache[r][k]
  BY KeptFact DEF Shape
<1>2. Inputs(m, mask, coded)[r][k] =
        IF o <= d THEN Initial ELSE Written(m, mask, coded)[r][k][o % CT(m)]
  BY DEF Inputs, Batch, IsInit
<1>3. Written(m, mask, coded)[r][k] =
        IF k \in m.given THEN [m.cache[r][k] EXCEPT ![(o + d) % CT(m)] = coded[r][k]]
        ELSE m.cache[r][k]
  BY DEF Written, Batch
<1>4. since0[r] \in Nat
  BY <1>1
<1>5. Kept(m, r, k, o) => m.cache[r][k][o % CT(m)] =
        IF WrittenAt(m, k, o) >= o - since0[r] THEN Content(m, k, s[r], o) ELSE Wiped
  BY <1>1 DEF Ring
<1> SUFFICES ASSUME o > d
             PROVE  Written(m, mask, coded)[r][k][o % CT(m)] =
                      IF since0[r] < (IF k \in m.given THEN d ELSE 1) THEN Wiped
                      ELSE Content(m, k, s[r], o)
  BY <1>1, <1>2
<1>6. CASE k \notin m.given
  <2>1. Kept(m, r, k, o) /\ (WrittenAt(m, k, o) >= o - since0[r] <=> ~(since0[r] < 1))
    BY <1>1, <1>4, <1>6 DEF Kept, WrittenAt
  <2> QED
    BY <1>3, <1>5, <1>6, <2>1
<1>7. CASE k \in m.given /\ d > 0
  <2>1. Kept(m, r, k, o) /\ (WrittenAt(m, k, o) >= o - since0[r] <=> ~(since0[r] < d))
    BY <1>1, <1>4, <1>7 DEF Kept, WrittenAt
  <2>2. o % CT(m) # (o + d) % CT(m)
    <3>1. o + d \in Nat /\ o < o + d /\ (o + d) - o < CT(m) /\ CT(m) \in Nat \ {0}
      BY <1>1, <1>7
    <3> HIDE DEF o, d
    <3> QED
      BY <1>1, <3>1, CellFact
  <2> QED
    BY <1>1, <1>3, <1>5, <1>7, <2>1, <2>2
<1>8. CASE k \in m.given /\ d = 0
  <2>1. o + d = o /\ ~(since0[r] < d) /\ o + Ahead(m, k) = o
    BY <1>1, <1>4, <1>8 DEF Ahead
  <2>2. coded[r][k] = Content(m, k, s[r], o)
    BY <2>1, TokenFact
  <2> QED
    BY <1>1, <1>3, <1>8, <2>1, <2>2
<1> QED
  BY <1>1, <1>6, <1>7, <1>8

\* What a step returns for a row, after it.
LEMMA ReturnFact ==
  ASSUME NEW n, Shape(n), NEW s \in [Rows -> Nat], NEW since1 \in [Rows -> 0 .. CT(n)],
         Ring(n, s, since1), NEW mask \in SUBSET Rows,
         NEW r \in mask, n.offsets[r] > MaxDelayOf(n), NEW k \in Streams(n) \ n.given
  PROVE  Output(n, mask)[r][k] = IF since1[r] - 1 < MaxDelayOf(n) - n.delays[k] THEN Wiped
                                 ELSE Code(n, k, s[r], n.offsets[r] - 1 - MaxDelayOf(n))
<1> DEFINE o == n.offsets[r]
           d == n.delays[k]
           M == MaxDelayOf(n)
           p == o - M + d
<1>1. /\ o \in Nat /\ d \in Nat /\ d <= M /\ M \in Nat /\ CT(n) = M + 2 /\ n.silent \in Nat
      /\ since1[r] \in Nat
  BY DEF Shape, CT
<1>2. Output(n, mask)[r][k] = n.cache[r][k][p % CT(n)]
  <2>1. ~(o <= M \/ r \notin mask) /\ r \in Rows /\ k \in Streams(n) \ n.given
    BY <1>1
  <2> QED
    BY <2>1 DEF Output, Batch, Aligned
<1>3. p \in Nat /\ Kept(n, r, k, p)
  BY <1>1 DEF Kept
<1>4. n.cache[r][k][p % CT(n)] =
        IF WrittenAt(n, k, p) >= o - since1[r] THEN Content(n, k, s[r], p) ELSE Wiped
  BY <1>3 DEF Ring
<1>5. WrittenAt(n, k, p) >= o - since1[r] <=> ~(since1[r] - 1 < M - d)
  BY <1>1 DEF WrittenAt
<1>6. Content(n, k, s[r], p) = Code(n, k, s[r], o - 1 - M)
  <2>1. /\ p - 1 < d + n.silent <=> o - 1 - M < n.silent
        /\ (o - 1 - M) + d = p - 1
    BY <1>1
  <2> QED
    BY <2>1 DEF Content, Code
<1> QED
  BY <1>2, <1>4, <1>5, <1>6

-------------------------------------------------------------------------------
(* The rows of a server *)

LMInv ==
  /\ Shape(lm) /\ session \in [Rows -> Nat] /\ since \in [Rows -> 0 .. CT(lm)]
  /\ Ring(lm, session, since) /\ PrependedOnce

\* What a step with these rows leaves.
StepLeaves(fresh, mask) ==
  /\ SameModel(lm, lm') /\ ran' = mask
  /\ \A r \in Rows :
       /\ session'[r] = IF r \in fresh THEN session[r] + 1 ELSE session[r]
       /\ lm'.offsets[r] = IF r \in mask THEN (IF r \in fresh THEN 0 ELSE lm.offsets[r]) + 1
                           ELSE IF r \in fresh THEN 0 ELSE lm.offsets[r]

LEMMA ResetOnlyFact ==
  ASSUME LMInv, NEW fresh \in SUBSET Rows, ResetOnly(fresh)
  PROVE  LMInv' /\ InputIsDelayed' /\ FrameIsWhole' /\ StepLeaves(fresh, {})
<1>1. /\ lm' = ResetLM(lm, fresh) /\ ran' = {}
      /\ session' = [r \in Rows |-> IF r \in fresh THEN session[r] + 1 ELSE session[r]]
      /\ since' = [r \in Rows |-> IF fresh = {} THEN since[r] ELSE 0]
  BY DEF ResetOnly
<1>2. ResetsTo(lm, fresh, lm')
  BY <1>1, ResetFact DEF LMInv
<1>3. Shape(lm') /\ SameModel(lm, lm') /\ CT(lm') = CT(lm) /\ CT(lm) \in Nat
  BY <1>2, SameFact DEF ResetsTo, LMInv, Shape, CT
<1>4. session' \in [Rows -> Nat] /\ since' \in [Rows -> 0 .. CT(lm')]
  BY <1>1, <1>3 DEF LMInv
<1>5. Ring(lm', session', since')
  <2>1. \A r \in Rows : r \notin fresh => session'[r] = session[r]
    BY <1>1
  <2> QED
    BY <1>1, <2>1, ResetRing DEF LMInv
<1>6. PrependedOnce'
  <2> SUFFICES ASSUME NEW r \in Rows PROVE lm'.position[r] = lm'.prepend + lm'.offsets[r]
    BY DEF PrependedOnce
  <2>1. lm.position[r] = lm.prepend + lm.offsets[r] /\ lm.prepend \in Nat /\ lm'.prepend = lm.prepend
    BY <1>3 DEF PrependedOnce, LMInv, SameModel, Shape
  <2> QED
    BY <1>2, <2>1 DEF ResetsTo
<1>7. StepLeaves(fresh, {})
  BY <1>1, <1>2 DEF StepLeaves, ResetsTo
<1>8. InputIsDelayed' /\ FrameIsWhole'
  BY <1>1 DEF InputIsDelayed, FrameIsWhole
<1> QED
  BY <1>3, <1>4, <1>5, <1>6, <1>7, <1>8 DEF LMInv

LEMMA RunFact ==
  ASSUME LMInv, NEW fresh \in SUBSET Rows, NEW mask \in SUBSET Rows, NEW zeroed \in BOOLEAN,
         zeroed => \A r \in mask : (IF r \in fresh THEN 0 ELSE lm.offsets[r]) < lm.silent,
         ResetAndRun(fresh, mask, zeroed)
  PROVE  LMInv' /\ InputIsDelayed' /\ FrameIsWhole' /\ StepLeaves(fresh, mask)
<1> DEFINE start  == ResetLM(lm, fresh)
           coded == Tokens(start, session', zeroed)
           before == [r \in Rows |-> IF fresh = {} THEN since[r] ELSE 0]
<1>1. /\ lm' = StepLM(start, mask, coded) /\ ran' = mask
      /\ session' = [r \in Rows |-> IF r \in fresh THEN session[r] + 1 ELSE session[r]]
      /\ since' = [r \in Rows |-> IF r \in mask /\ before[r] < MaxDelayOf(lm) + 2
                                  THEN before[r] + 1 ELSE before[r]]
      /\ input' = Inputs(start, mask, coded)
      /\ output' = IF Returns(lm') THEN Output(lm', mask) ELSE Nothing
  BY DEF ResetAndRun
<1>2. ResetsTo(lm, fresh, start)
  BY ResetFact DEF LMInv
<1>3. Shape(start) /\ SameModel(lm, start) /\ CT(start) = CT(lm) /\ Streams(start) = Streams(lm)
  BY <1>2, SameFact DEF ResetsTo
<1>4. MaxDelayOf(lm) \in Nat /\ CT(lm) = MaxDelayOf(lm) + 2
  BY DEF LMInv, Shape, CT
<1>5. session' \in [Rows -> Nat] /\ before \in [Rows -> 0 .. CT(start)]
  BY <1>1, <1>3, <1>4 DEF LMInv
<1>6. Ring(start, session', before)
  <2>1. \A r \in Rows : r \notin fresh => session'[r] = session[r]
    BY <1>1
  <2> QED
    BY <2>1, ResetRing DEF LMInv
<1>7. zeroed => \A r \in mask : start.offsets[r] < start.silent
  BY <1>2, <1>3 DEF ResetsTo, SameModel
<1> DEFINE after == [r \in Rows |-> IF r \in mask /\ before[r] < CT(start) THEN before[r] + 1
                                    ELSE before[r]]
<1>8. since' = after
  BY <1>1, <1>3, <1>4
<1> HIDE DEF start, coded, before
<1>9. StepsTo(start, mask, coded, lm') /\ Shape(lm') /\ SameModel(start, lm')
  <2>1. StepsTo(start, mask, coded, StepLM(start, mask, coded))
    BY <1>3, StepFact
  <2> QED
    BY <1>1, <2>1 DEF StepsTo
<1>10. SameModel(lm, lm') /\ Streams(lm') = Streams(lm) /\ CT(lm') = CT(lm) /\ MaxDelayOf(lm') = MaxDelayOf(lm)
  <2>1. SameModel(lm, lm')
    BY <1>3, <1>9 DEF SameModel
  <2> QED
    BY <2>1, SameFact
<1>11. Ring(lm', session', since')
  BY <1>1, <1>3, <1>5, <1>6, <1>7, <1>8, StepRing DEF coded
<1>12. since' \in [Rows -> 0 .. CT(lm')]
  BY <1>3, <1>4, <1>5, <1>8, <1>10
<1>13. StepLeaves(fresh, mask)
  BY <1>1, <1>2, <1>9, <1>10 DEF StepLeaves, ResetsTo, StepsTo
<1>14. PrependedOnce'
  <2> SUFFICES ASSUME NEW r \in Rows PROVE lm'.position[r] = lm'.prepend + lm'.offsets[r]
    BY DEF PrependedOnce
  <2>1. /\ lm.position[r] = lm.prepend + lm.offsets[r] /\ lm.prepend \in Nat /\ lm.offsets[r] \in Nat
        /\ lm'.prepend = lm.prepend
    BY <1>10 DEF PrependedOnce, LMInv, SameModel, Shape
  <2>2. start.position[r] = lm.prepend + start.offsets[r] /\ start.offsets[r] \in Nat
    BY <1>2, <2>1 DEF ResetsTo
  <2> QED
    BY <1>9, <2>1, <2>2 DEF StepsTo
<1>15. ASSUME NEW r \in mask
       PROVE  /\ start.offsets[r] \in Nat /\ lm'.offsets[r] = start.offsets[r] + 1
              /\ before[r] \in Nat /\ before[r] <= CT(lm)
              /\ since'[r] = IF before[r] < CT(lm) THEN before[r] + 1 ELSE before[r]
  BY <1>3, <1>5, <1>8, <1>9 DEF Shape, StepsTo
<1>16. InputIsDelayed'
  <2> SUFFICES ASSUME NEW r \in mask, NEW k \in Streams(lm')
               PROVE  LET n      == lm'.offsets[r] - 1
                          needed == IF k \in lm'.given THEN lm'.delays[k] ELSE 1
                      IN input'[r][k] = IF since'[r] - 1 < needed
                                           /\ Delayed(lm', k, session'[r], n) # Initial
                                        THEN Wiped ELSE Delayed(lm', k, session'[r], n)
    BY <1>1 DEF InputIsDelayed, Intact
  <2> DEFINE n      == start.offsets[r]
             d      == start.delays[k]
             needed == IF k \in start.given THEN d ELSE 1
  <2>1. /\ lm'.offsets[r] - 1 = n /\ n \in Nat /\ k \in Streams(start) /\ d = lm'.delays[k]
        /\ start.given = lm'.given
    BY <1>3, <1>9, <1>10, <1>15 DEF SameModel
  <2>2. input'[r][k] = IF n <= d THEN Initial ELSE IF before[r] < needed THEN Wiped
                       ELSE Content(start, k, session'[r], n)
    BY <1>1, <1>3, <1>5, <1>6, <1>7, <2>1, ReadFact DEF coded
  <2>3. since'[r] - 1 < needed <=> before[r] < needed
    <3>1. needed \in Nat /\ needed < CT(lm)
      BY <1>3, <1>4, <2>1 DEF Shape, CT
    <3> QED
      BY <1>4, <1>15, <3>1
  <2>4. session'[r] \in Nat /\ d \in Nat
    BY <1>3, <1>5, <2>1 DEF Shape
  <2>5. Delayed(lm', k, session'[r], n) = Delayed(start, k, session'[r], n)
    BY <1>9 DEF SameModel, Delayed, Code
  <2>6. /\ n > d => /\ Content(start, k, session'[r], n) = Delayed(start, k, session'[r], n)
                    /\ Content(start, k, session'[r], n) # Initial
        /\ n <= d => Delayed(start, k, session'[r], n) = Initial
    BY <1>3, <2>1, <2>4, ContentFact
  <2> HIDE DEF n, d
  <2> QED
    BY <2>1, <2>2, <2>3, <2>4, <2>5, <2>6
<1>17. FrameIsWhole'
  <2>1. CASE Returns(lm')
    <3>1. output' = Output(lm', mask)
      BY <1>1, <2>1
    <3>2. ASSUME NEW r \in mask, NEW k PROVE k \in DOMAIN output'[r] => k \in Streams(lm') \ lm'.given
      BY <3>1 DEF Output, Batch
    <3>3. ASSUME NEW r \in mask, lm'.offsets[r] > MaxDelayOf(lm'), NEW k \in Streams(lm') \ lm'.given
          PROVE  output'[r][k] = IF since'[r] - 1 < MaxDelayOf(lm') - lm'.delays[k] THEN Wiped
                                 ELSE Code(lm', k, session'[r], lm'.offsets[r] - 1 - MaxDelayOf(lm'))
      BY <1>5, <1>9, <1>11, <1>12, <3>1, <3>3, ReturnFact
    <3> QED
      BY <1>1, <3>2, <3>3 DEF FrameIsWhole, Intact
  <2>2. CASE ~Returns(lm')
    <3>1. output' = <<>>
      BY <1>1, <2>2 DEF Nothing
    <3>2. \A r \in mask \cap DOMAIN output' : FALSE
      BY <3>1
    <3> QED
      BY <1>1, <3>2 DEF FrameIsWhole
  <2> QED
    BY <2>1, <2>2
<1> QED
  BY <1>5, <1>9, <1>11, <1>12, <1>13, <1>14, <1>16, <1>17 DEF LMInv

\* The rows of a server, in the beginning.
LEMMA NewFact ==
  ASSUME NEW delays, NEW users, NEW prepend \in Nat, NEW silent \in Nat, NEW outOfSync,
         NEW longest \in Nat, \A k \in DOMAIN delays : delays[k] \in 0 .. longest,
         NEW j \in DOMAIN delays, delays[j] = longest,
         LMInit(NewLM(delays, users, prepend, silent, outOfSync))
  PROVE  LMInv /\ InputIsDelayed /\ FrameIsWhole /\ lm.silent = silent /\ MaxDelayOf(lm) = longest
<1> DEFINE D == {delays[k] : k \in DOMAIN delays}
           M == CHOOSE d \in D : \A k \in DOMAIN delays : delays[k] <= d
<1>1. M \in D /\ \A k \in DOMAIN delays : delays[k] <= M
  <2>1. longest \in D /\ \A k \in DOMAIN delays : delays[k] <= longest
    OBVIOUS
  <2> HIDE DEF D
  <2> QED
    BY <2>1
<1>2. M = longest
  <2>1. M \in Nat /\ M <= longest
    BY <1>1
  <2>2. longest <= M
    BY <1>1
  <2> HIDE DEF M
  <2> QED
    BY <2>1, <2>2
<1>3. /\ lm = [delays |-> delays, given |-> users, prepend |-> prepend, silent |-> silent,
               outOfSync |-> outOfSync, offsets |-> [r \in Rows |-> 0], offsetCpu |-> 0,
               cache |-> [r \in Rows |-> [k \in DOMAIN delays |-> [i \in 0 .. (2 + M) - 1 |-> Ungenerated]]],
               position |-> [r \in Rows |-> prepend]]
      /\ session = [r \in Rows |-> 0] /\ since = [r \in Rows |-> 0] /\ ran = {}
  BY DEF LMInit, NewLM
<1>4. MaxDelayOf(lm) = M /\ Streams(lm) = DOMAIN delays
  BY <1>3 DEF MaxDelayOf, Streams
<1> HIDE DEF M
<1>5. CT(lm) = longest + 2 /\ CT(lm) = 2 + M
  BY <1>2, <1>4 DEF CT
<1>6. Shape(lm)
  <2>1. \A r \in Rows, k \in Streams(lm) : lm.cache[r][k] = [i \in 0 .. CT(lm) - 1 |-> Ungenerated]
    BY <1>3, <1>4, <1>5
  <2>2. /\ lm = [delays |-> lm.delays, given |-> lm.given, prepend |-> lm.prepend, silent |-> lm.silent,
                 outOfSync |-> lm.outOfSync, offsets |-> lm.offsets, offsetCpu |-> lm.offsetCpu,
                 cache |-> lm.cache, position |-> lm.position]
        /\ lm.prepend = prepend /\ lm.silent = silent /\ lm.delays = delays
        /\ lm.offsets = [r \in Rows |-> 0] /\ lm.position = [r \in Rows |-> prepend]
    BY <1>3
  <2>3. \A r \in Rows, k \in Streams(lm) : DOMAIN lm.cache[r][k] = 0 .. CT(lm) - 1
    BY <2>1
  <2>4. lm.offsets \in [Rows -> Nat] /\ lm.position \in [Rows -> Nat]
    BY <2>2
  <2>5. MaxDelayOf(lm) \in Nat /\ \A k \in Streams(lm) : lm.delays[k] \in 0 .. MaxDelayOf(lm)
    BY <1>2, <1>4, <2>2
  <2> QED
    BY <2>2, <2>3, <2>4, <2>5 DEF Shape
<1>7. \A r \in Rows : lm.offsets[r] = 0 /\ lm.position[r] = prepend /\ lm.prepend = prepend
  BY <1>3
<1>8. Ring(lm, session, since)
  <2> SUFFICES ASSUME NEW r \in Rows, NEW k \in Streams(lm), NEW p \in Nat, Kept(lm, r, k, p)
               PROVE  FALSE
    BY DEF Ring
  <2>1. lm.delays[k] \in Nat
    BY <1>6 DEF Shape
  <2> QED
    BY <1>7, <2>1 DEF Kept
<1>9. PrependedOnce
  <2> SUFFICES ASSUME NEW r \in Rows PROVE lm.position[r] = lm.prepend + lm.offsets[r]
    BY DEF PrependedOnce
  <2> QED
    BY <1>7
<1>10. session \in [Rows -> Nat] /\ since \in [Rows -> 0 .. CT(lm)]
  BY <1>3, <1>5
<1> QED
  BY <1>2, <1>3, <1>4, <1>6, <1>8, <1>9, <1>10 DEF LMInv, InputIsDelayed, FrameIsWhole

LEMMA Parameters == Delay \in Nat /\ Prepend \in Nat /\ DelaySteps \in Nat /\ AsrDelay \in Nat \ {0}
BY LMServiceAssumption, TTSAssumption, ASRAssumption

USE Parameters

LEMMA DialogueFact == LMInit(Dialogue) => LMInv /\ InputIsDelayed /\ FrameIsWhole
<1> DEFINE d == [text |-> 0, first |-> 0, rest |-> Delay, userFirst |-> 0, userRest |-> Delay]
<1>1. Delay \in Nat /\ Prepend \in Nat /\ DOMAIN d = {"text", "first", "rest", "userFirst", "userRest"}
  OBVIOUS
<1>2. (\A k \in DOMAIN d : d[k] \in 0 .. Delay) /\ d["rest"] = Delay
  BY <1>1
<1>3. Dialogue = NewLM(d, {"userFirst", "userRest"}, Prepend, 0, FALSE)
  BY DEF Dialogue
<1> HIDE DEF d
<1> QED
  BY <1>1, <1>2, <1>3, NewFact

LEMMA TTSFact ==
  LMInit(TTSModel) => /\ LMInv /\ InputIsDelayed /\ FrameIsWhole
                      /\ lm.silent = DelaySteps /\ MaxDelayOf(lm) = Delay
<1> DEFINE d == [text |-> 0, first |-> 0, rest |-> Delay]
<1>1. Delay \in Nat /\ DelaySteps \in Nat /\ DOMAIN d = {"text", "first", "rest"}
  OBVIOUS
<1>2. (\A k \in DOMAIN d : d[k] \in 0 .. Delay) /\ d["rest"] = Delay
  BY <1>1
<1>3. TTSModel = NewLM(d, {}, 0, DelaySteps, TRUE)
  BY DEF TTSModel
<1> HIDE DEF d
<1> QED
  BY <1>1, <1>2, <1>3, NewFact

LEMMA ASRFact == LMInit(ASRModel) => LMInv /\ InputIsDelayed /\ FrameIsWhole
<1> DEFINE d == [text |-> 0, userFirst |-> 0, userRest |-> 0]
<1>1. DOMAIN d = {"text", "userFirst", "userRest"}
  OBVIOUS
<1>2. (\A k \in DOMAIN d : d[k] \in 0 .. 0) /\ d["text"] = 0
  BY <1>1
<1>3. ASRModel = NewLM(d, {"userFirst", "userRest"}, 0, 0, FALSE)
  BY DEF ASRModel
<1> HIDE DEF d
<1>4. 0 \in Nat
  OBVIOUS
<1> QED
  BY <1>1, <1>2, <1>3, <1>4, NewFact

-------------------------------------------------------------------------------
(* The listeners *)

LineType(n) == [id : 1 .. n, next : {"init", "any", "silence", "none"}, data : Nat, heard : Nat,
             messages : Nat, wrote : Nat, ended : BOOLEAN, alone : BOOLEAN]

\* What was read before the marker was heard or is buffered.
LineInv(l, n) ==
  /\ l \in LineType(n) /\ l.wrote <= l.heard + l.data
  /\ l.ended <=> l.next \in {"silence", "none"}

\* The frames that its marker waits for are as many as there is still to hear, at least.
MarkerInv(m) ==
  /\ m \in [id : 1 .. lastLine, row : Rows, left : Int]
  /\ IsOf(m.row, m.id) =>
       /\ line[m.row].ended
       /\ line[m.row].heard < line[m.row].wrote =>
            m.left + (IF stepped THEN 0 ELSE 1) >= AsrDelay + line[m.row].wrote - line[m.row].heard

ASRInv ==
  /\ lastLine \in Nat /\ DOMAIN line = Rows
  /\ \A r \in Rows : line[r] = NoLine \/ LineInv(line[r], lastLine)
  /\ listener \in [Rows -> [complete : BOOLEAN, active : BOOLEAN, offset : Nat, end : Nat]]
  /\ \A m \in markers : MarkerInv(m)
  /\ \A l \in returned : l.ended /\ l.heard >= l.wrote

LEMMA ASRStarts == ASRInit => ASRInv
BY DEF ASRInit, ASRInv, NewListener

\* A line, or none.
LEMMA LineFact ==
  ASSUME ASRInv, NEW r \in Rows
  PROVE  /\ lastLine \in Nat
         /\ line[r].id = 0 <=> r \notin Lines
         /\ r \in Lines => LineInv(line[r], lastLine) /\ line[r].id \in 1 .. lastLine
         /\ r \notin Lines => line[r] = NoLine
<1>1. NoLine.id = 0
  BY DEF NoLine
<1>2. LineInv(line[r], lastLine) => line[r].id \in 1 .. lastLine
  BY DEF LineInv, LineType
<1>3. lastLine \in Nat
  BY DEF ASRInv
<1> QED
  BY <1>1, <1>2, <1>3 DEF ASRInv, Lines

LEMMA ListenerConnects == ASRInv /\ (\E r \in Rows : ASRConnect(r)) => ASRInv'
<1> SUFFICES ASSUME ASRInv, NEW r \in Rows, ASRConnect(r) PROVE ASRInv'
  OBVIOUS
<1> DEFINE new == [id |-> lastLine + 1, next |-> "init", data |-> 0, heard |-> 0, messages |-> 0,
                   wrote |-> 0, ended |-> FALSE, alone |-> \A m \in markers : m.row # r]
<1>1. /\ r \notin Lines /\ line' = [line EXCEPT ![r] = new] /\ lastLine' = lastLine + 1
      /\ markers' = markers /\ returned' = returned /\ stepped' = stepped /\ listener' = listener
  BY DEF ASRConnect, lmVars
<1>2. lastLine \in Nat /\ lastLine' \in Nat /\ DOMAIN line = Rows
  BY <1>1 DEF ASRInv
<1>3. LineInv(new, lastLine')
  <2>1. new.id \in 1 .. lastLine'
    BY <1>1, <1>2
  <2>2. PICK own \in BOOLEAN : own = (\A m \in markers : m.row # r)
    OBVIOUS
  <2>3. new = [id |-> lastLine + 1, next |-> "init", data |-> 0, heard |-> 0, messages |-> 0,
               wrote |-> 0, ended |-> FALSE, alone |-> own]
    BY <2>2
  <2>4. new.wrote = 0 /\ new.heard = 0 /\ new.data = 0 /\ new.next = "init" /\ new.ended = FALSE
    BY <2>3
  <2>5. new \in LineType(lastLine')
    BY <2>1, <2>3 DEF LineType
  <2> HIDE DEF new
  <2> QED
    BY <2>4, <2>5 DEF LineInv
<1>4. DOMAIN line' = Rows /\ \A q \in Rows : line'[q] = IF q = r THEN new ELSE line[q]
  <2> HIDE DEF new
  <2> QED
    BY <1>1, <1>2
<1>5. ASSUME NEW q \in Rows PROVE line'[q] = NoLine \/ LineInv(line'[q], lastLine')
  <2>1. CASE q = r
    BY <1>3, <1>4, <2>1
  <2>2. CASE q # r
    <3>1. line'[q] = line[q] /\ (line[q] = NoLine \/ LineInv(line[q], lastLine))
      BY <1>4, <2>2 DEF ASRInv
    <3>2. 1 .. lastLine \subseteq 1 .. lastLine'
      BY <1>1, <1>2
    <3> QED
      BY <3>1, <3>2 DEF LineInv, LineType
  <2> QED
    BY <2>1, <2>2
<1>6. ASSUME NEW m \in markers PROVE MarkerInv(m)'
  <2>1. MarkerInv(m) /\ m.row \in Rows /\ m.id \in 1 .. lastLine
    BY DEF ASRInv, MarkerInv
  <2>2. IsOf(m.row, m.id)' => m.row # r
    BY <1>2, <1>4, <2>1 DEF IsOf
  <2>3. m.row # r => line'[m.row] = line[m.row] /\ (IsOf(m.row, m.id)' => IsOf(m.row, m.id))
    BY <1>4, <2>1 DEF IsOf, Lines
  <2>4. m.id \in 1 .. lastLine'
    BY <1>1, <1>2, <2>1
  <2> QED
    BY <1>1, <2>1, <2>2, <2>3, <2>4 DEF MarkerInv
<1> QED
  BY <1>1, <1>2, <1>4, <1>5, <1>6 DEF ASRInv

\* What a message makes of a line.
LEMMA ExtendedFact ==
  ASSUME ASRInv, NEW r \in Rows, NEW m \in FoundBy(r), NEW mask, HasFrame(r, m) => r \in mask,
         NEW l, l = Extended(r, m, mask)
  PROVE  /\ m[1] = "marker" => r \in Lines
         /\ \/ l = NoLine
            \/ /\ r \in Lines /\ LineInv(l, lastLine) /\ l.id = line[r].id
               /\ line[r].ended \/ m[1] = "marker" => l.ended /\ l.wrote = line[r].wrote
               /\ m[1] = "marker" => l.heard = line[r].heard
               /\ line[r].ended => /\ l.heard >= line[r].heard
                                   /\ line[r].heard < line[r].wrote => l.heard = line[r].heard + 1
<1>1. r \notin Lines => m[1] = "audio"
  BY DEF FoundBy, Audio
<1>2. CASE r \notin Lines
  BY <1>1, <1>2 DEF Extended
<1>3. CASE r \in Lines
  <2>1. /\ line[r] \in LineType(lastLine) /\ line[r].wrote <= line[r].heard + line[r].data
        /\ line[r].ended <=> line[r].next \in {"silence", "none"}
    BY <1>3, LineFact DEF LineInv
  <2>2. \/ m[1] = "left"
        \/ m[1] = "init" /\ line[r].next = "init"
        \/ m[1] = "marker" /\ line[r].next = "any"
        \/ m[1] = "audio" /\ m[2] \in Nat /\ line[r].next \in {"silence", "any", "none"}
    <3>1. line[r].next \in {"init", "any", "silence", "none"}
      BY <2>1 DEF LineType
    <3>2. AsrDelay + 1 \in Nat
      OBVIOUS
    <3> QED
      BY <1>3, <3>1, <3>2 DEF FoundBy, Audio
  <2>3. CASE m[1] = "left"
    BY <2>3 DEF Extended
  <2>4. CASE m[1] = "init" /\ line[r].next = "init"
    <3>1. l = [line[r] EXCEPT !.next = "any"]
      BY <1>3, <2>4 DEF Extended
    <3> QED
      BY <1>3, <2>1, <2>4, <3>1 DEF LineInv, LineType
  <2>5. CASE m[1] = "marker" /\ line[r].next = "any"
    <3>1. l = [line[r] EXCEPT !.next = "silence", !.ended = TRUE]
      BY <1>3, <2>5 DEF Extended
    <3> QED
      BY <1>3, <2>1, <2>5, <3>1 DEF LineInv, LineType
  <2>6. CASE m[1] = "audio" /\ m[2] \in Nat /\ line[r].next \in {"silence", "any", "none"}
    <3> DEFINE B == line[r].data + m[2]
               x == IF line[r].next = "silence" THEN "none" ELSE line[r].next
               g == IF m[2] > 0 /\ ~line[r].ended THEN line[r].messages + 1 ELSE line[r].messages
               w == IF line[r].ended THEN line[r].wrote ELSE line[r].wrote + m[2]
               t == B - (IF B > 0 THEN 1 ELSE 0)
               h == IF B > 0 THEN line[r].heard + 1 ELSE line[r].heard
    <3>1. HasFrame(r, m) <=> B > 0
      BY <1>3, <2>6 DEF HasFrame, Buffered
    <3>2. l = [line[r] EXCEPT !.next = x, !.messages = g, !.wrote = w, !.data = t, !.heard = h]
      BY <1>3, <2>6, <3>1 DEF Extended, Buffered
    <3>3. /\ line[r].data \in Nat /\ line[r].heard \in Nat /\ line[r].wrote \in Nat
          /\ line[r].messages \in Nat /\ line[r].ended \in BOOLEAN
      BY <2>1 DEF LineType
    <3>4. /\ B \in Nat /\ t \in Nat /\ h \in Nat /\ w \in Nat /\ g \in Nat /\ h >= line[r].heard
          /\ t + h = line[r].data + line[r].heard + m[2]
          /\ line[r].ended \/ w = line[r].wrote + m[2]
      BY <2>6, <3>3
    <3>5. line[r].ended => w = line[r].wrote /\ (line[r].heard < line[r].wrote => h = line[r].heard + 1)
      BY <2>1, <2>6, <3>3
    <3>6. w <= h + t
      <4>1. line[r].wrote <= line[r].heard + line[r].data /\ m[2] \in Nat
        BY <2>1, <2>6
      <4> HIDE DEF B, w, t, h
      <4>2. CASE line[r].ended
        BY <3>3, <3>4, <3>5, <4>1, <4>2
      <4>3. CASE ~line[r].ended
        BY <3>3, <3>4, <4>1, <4>3
      <4> QED
        BY <4>2, <4>3
    <3>7. x \in {"any", "none"} /\ (line[r].ended <=> x = "none")
      BY <2>1, <2>6
    <3> HIDE DEF B, x, g, w, t, h
    <3>8. /\ l = [id |-> line[r].id, next |-> x, data |-> t, heard |-> h, messages |-> g, wrote |-> w,
                  ended |-> line[r].ended, alone |-> line[r].alone]
      BY <2>1, <3>2 DEF LineType
    <3>9. line[r].id \in 1 .. lastLine /\ line[r].ended \in BOOLEAN /\ line[r].alone \in BOOLEAN
      BY <2>1 DEF LineType
    <3>10. LineInv(l, lastLine)
      <4>1. l \in LineType(lastLine)
        BY <3>3, <3>4, <3>7, <3>8, <3>9 DEF LineType
      <4>2. l.wrote = w /\ l.heard = h /\ l.data = t /\ l.next = x
        BY <3>8
      <4>3. l.ended <=> line[r].ended
        BY <3>8, <3>9
      <4> QED
        BY <3>6, <3>7, <4>1, <4>2, <4>3 DEF LineInv
    <3> QED
      BY <1>3, <2>6, <3>3, <3>4, <3>5, <3>8, <3>10
  <2> QED
    BY <1>3, <2>2, <2>3, <2>4, <2>5, <2>6
<1> QED
  BY <1>2, <1>3

\* What a message makes of a listener.
LEMMA ListensFact ==
  ASSUME ASRInv, NEW r \in Rows, NEW m \in FoundBy(r)
  PROVE  /\ Listens(r, m) \in [complete : BOOLEAN, active : BOOLEAN, offset : Nat, end : Nat]
         /\ HasFrame(r, m) => Listens(r, m).active = TRUE
<1>1. listener[r] \in [complete : BOOLEAN, active : BOOLEAN, offset : Nat, end : Nat]
  BY DEF ASRInv
<1>2. Update(r, m) \in {"reset", "active", "marker", "nodata"}
  BY DEF Update
<1>3. HasFrame(r, m) => Update(r, m) = "active"
  BY DEF Update, HasFrame
<1>4. CASE Update(r, m) = "reset"
  BY <1>1, <1>3, <1>4 DEF Listens, NewListener
<1>5. CASE Update(r, m) = "active"
  BY <1>1, <1>5 DEF Listens
<1>6. CASE Update(r, m) = "nodata"
  BY <1>1, <1>3, <1>6 DEF Listens
<1>7. CASE Update(r, m) = "marker"
  <2>1. m[1] = "marker" /\ line[r].data > 0
    BY <1>7 DEF Update
  <2>2. r \in Lines
    BY <2>1, ExtendedFact DEF HasFrame
  <2>3. line[r].data \in Nat
    BY <2>2, LineFact DEF LineInv, LineType
  <2>4. listener[r].offset + line[r].data + AsrDelay + 2 \in Nat
    BY <1>1, <2>3
  <2> QED
    BY <1>1, <1>3, <1>7, <2>4 DEF Listens
<1> QED
  BY <1>2, <1>4, <1>5, <1>6, <1>7

\* A step keeps the lines and the markers, and is one of the rows.
LEMMA ASRStepSafe ==
  ASSUME ASRInv, LMInv, ASRStep
  PROVE  ASRInv' /\ LMInv' /\ InputIsDelayed' /\ FrameIsWhole'
<1>1. PICK message \in [Rows -> Messages] :
        /\ \A r \in Rows : message[r] \in FoundBy(r)
        /\ ASRService(message)
        /\ markers' = markers \cup {[id |-> line[r].id, row |-> r, left |-> Due(r)] :
                                      r \in {r \in Rows : message[r][1] = "marker"}}
  BY DEF ASRStep
<1>2. ~stepped /\ stepped' = TRUE /\ returned' = {} /\ lastLine' = lastLine
  BY DEF ASRStep
<1> DEFINE fresh == {r \in Rows : message[r][1] = "init"}
           told  == [r \in Rows |-> Listens(r, message[r])]
           mask  == {r \in Rows : told[r].active}
           done  == {r \in mask : IsEnd(Advanced(told[r]))}
           Type  == [complete : BOOLEAN, active : BOOLEAN, offset : Nat, end : Nat]
<1>3. /\ IF mask = {} THEN ResetOnly(fresh) ELSE ResetAndRun(fresh, mask, FALSE)
      /\ listener' = [r \in Rows |->
           IF r \in done THEN [Advanced(told[r]) EXCEPT !.active = FALSE]
           ELSE IF r \in mask THEN Advanced(told[r]) ELSE told[r]]
      /\ line' = [r \in Rows |-> Extended(r, message[r], mask)]
  BY <1>1 DEF ASRService
<1>4. \A r \in Rows : told[r] \in Type /\ (HasFrame(r, message[r]) => r \in mask)
  BY <1>1, ListensFact
<1>5. LMInv' /\ InputIsDelayed' /\ FrameIsWhole'
  <2>1. fresh \in SUBSET Rows /\ mask \in SUBSET Rows /\ FALSE \in BOOLEAN
    OBVIOUS
  <2> HIDE DEF fresh, mask
  <2>2. CASE mask = {}
    BY <1>3, <2>1, <2>2, ResetOnlyFact
  <2>3. CASE mask # {}
    BY <1>3, <2>1, <2>3, RunFact
  <2> QED
    BY <2>2, <2>3
<1>6. listener' \in [Rows -> Type]
  <2>1. ASSUME NEW r \in Rows
        PROVE  /\ told[r] \in Type /\ Advanced(told[r]) \in Type
               /\ [Advanced(told[r]) EXCEPT !.active = FALSE] \in Type
    <3>1. told[r] \in Type
      BY <1>4
    <3> HIDE DEF told
    <3>2. Advanced(told[r]) \in Type
      BY <3>1 DEF Advanced
    <3> QED
      BY <3>1, <3>2
  <2> HIDE DEF Type, told, mask, done
  <2> QED
    BY <1>3, <2>1
<1> HIDE DEF told, mask, done, fresh
<1>7. ASSUME NEW r \in Rows
      PROVE  /\ message[r][1] = "marker" => r \in Lines
             /\ \/ line'[r] = NoLine
                \/ /\ r \in Lines /\ LineInv(line'[r], lastLine) /\ line'[r].id = line[r].id
                   /\ line[r].ended \/ message[r][1] = "marker" =>
                        line'[r].ended /\ line'[r].wrote = line[r].wrote
                   /\ message[r][1] = "marker" => line'[r].heard = line[r].heard
                   /\ line[r].ended => /\ line'[r].heard >= line[r].heard
                                       /\ line[r].heard < line[r].wrote => line'[r].heard = line[r].heard + 1
  <2>1. message[r] \in FoundBy(r) /\ (HasFrame(r, message[r]) => r \in mask)
    BY <1>1, <1>4
  <2>2. line'[r] = Extended(r, message[r], mask)
    BY <1>3
  <2> QED
    BY <2>1, <2>2, ExtendedFact
<1>8. ASSUME NEW m \in markers' PROVE MarkerInv(m)'
  <2>1. CASE m \in markers
    <3>1. MarkerInv(m) /\ m.row \in Rows /\ m.id \in 1 .. lastLine /\ m.left \in Int
      BY <2>1 DEF ASRInv, MarkerInv
    <3> SUFFICES ASSUME IsOf(m.row, m.id)'
                 PROVE  /\ line'[m.row].ended
                        /\ line'[m.row].heard < line'[m.row].wrote =>
                             m.left >= AsrDelay + line'[m.row].wrote - line'[m.row].heard
      BY <1>2, <3>1 DEF MarkerInv
    <3>2. line'[m.row] # NoLine /\ line'[m.row].id = m.id
      BY DEF IsOf, Lines, NoLine
    <3>3. /\ m.row \in Lines /\ line'[m.row].id = line[m.row].id
          /\ line[m.row].ended => line'[m.row].ended /\ line'[m.row].wrote = line[m.row].wrote
          /\ line[m.row].ended =>
               /\ line'[m.row].heard >= line[m.row].heard
               /\ line[m.row].heard < line[m.row].wrote => line'[m.row].heard = line[m.row].heard + 1
      BY <1>7, <3>1, <3>2
    <3>4. IsOf(m.row, m.id)
      BY <3>2, <3>3 DEF IsOf
    <3>5. /\ line[m.row].ended
          /\ line[m.row].heard < line[m.row].wrote =>
               m.left + 1 >= AsrDelay + line[m.row].wrote - line[m.row].heard
      BY <1>2, <3>1, <3>4 DEF MarkerInv
    <3>6. line[m.row].heard \in Nat /\ line[m.row].wrote \in Nat
      BY <3>1, <3>3, LineFact DEF LineInv, LineType
    <3>7. line'[m.row].heard \in Nat
      BY <1>7, <3>1, <3>2 DEF LineInv, LineType
    <3> DEFINE h == line[m.row].heard
               w == line[m.row].wrote
               x == line'[m.row].heard
    <3>8. h \in Nat /\ w \in Nat /\ x \in Nat /\ x >= h /\ (h < w => x = h + 1)
      BY <3>3, <3>5, <3>6, <3>7
    <3>9. (h < w => m.left + 1 >= AsrDelay + w - h) /\ line'[m.row].wrote = w /\ line'[m.row].ended
      BY <3>3, <3>5
    <3> HIDE DEF h, w, x
    <3>10. x < w => m.left >= AsrDelay + w - x
      BY <3>1, <3>8, <3>9
    <3> QED
      BY <3>9, <3>10 DEF x
  <2>2. CASE m \notin markers
    <3>1. PICK r \in Rows : message[r][1] = "marker" /\ m = [id |-> line[r].id, row |-> r, left |-> Due(r)]
      BY <1>1, <2>2
    <3>2. r \in Lines
      BY <1>7, <3>1
    <3>3. /\ line[r].data \in Nat /\ line[r].heard \in Nat /\ line[r].wrote \in Nat
          /\ line[r].wrote <= line[r].heard + line[r].data /\ line[r].id \in 1 .. lastLine
      BY <3>2, LineFact DEF LineInv, LineType
    <3>4. m.id = line[r].id /\ m.row = r /\ m.left = AsrDelay + line[r].data
      BY <3>1 DEF Due
    <3>5. IsOf(r, m.id)' => /\ line'[r].ended /\ line'[r].wrote = line[r].wrote
                            /\ line'[r].heard = line[r].heard
      <4>1. IsOf(r, m.id)' => line'[r] # NoLine
        BY DEF IsOf, Lines, NoLine
      <4> QED
        BY <1>7, <3>1, <4>1
    <3>6. m \in [id : 1 .. lastLine', row : Rows, left : Int]
      BY <1>2, <3>1, <3>3, <3>4
    <3> QED
      BY <1>2, <3>3, <3>4, <3>5, <3>6 DEF MarkerInv
  <2> QED
    BY <2>1, <2>2
<1>9. DOMAIN line' = Rows /\ \A r \in Rows : line'[r] = NoLine \/ LineInv(line'[r], lastLine')
  BY <1>2, <1>3, <1>7
<1>10. ASRInv'
  BY <1>2, <1>6, <1>8, <1>9 DEF ASRInv
<1> QED
  BY <1>5, <1>10

LEMMA ASRSendSafe ==
  ASSUME ASRInv, ASRSend
  PROVE  ASRInv'
<1>1. stepped /\ stepped' = FALSE /\ lastLine' = lastLine /\ listener' = listener
  BY DEF ASRSend
<1>2. CASE WithData = {}
  <2>1. line' = line /\ markers' = markers /\ returned' = {}
    BY <1>2 DEF ASRSend
  <2>2. ASSUME NEW m \in markers PROVE MarkerInv(m)'
    <3>1. MarkerInv(m)
      BY DEF ASRInv
    <3>2. IsOf(m.row, m.id)' = IsOf(m.row, m.id)
      BY <2>1 DEF IsOf, Lines
    <3>3. IsOf(m.row, m.id) => line[m.row].heard \in Nat /\ line[m.row].wrote \in Nat
      BY <3>1, LineFact DEF IsOf, MarkerInv, LineInv, LineType
    <3> QED
      BY <1>1, <2>1, <3>1, <3>2, <3>3 DEF MarkerInv
  <2> QED
    BY <1>1, <2>1, <2>2 DEF ASRInv
<1>3. CASE WithData # {}
  <2>1. PICK gone \in SUBSET {r \in Lines : IsOf(r, refIds[r])} :
          /\ returned' = {line[m.row] : m \in {m \in DueNow : IsOf(m.row, m.id) /\ m.row \notin gone}}
          /\ line' = [r \in Rows |-> IF r \in gone \cup {m.row : m \in DueNow} THEN NoLine ELSE line[r]]
          /\ markers' = {[m EXCEPT !.left = @ - 1] : m \in markers \ DueNow}
    BY <1>3 DEF ASRSend
  <2>2. DOMAIN line' = Rows /\ \A r \in Rows : line'[r] \in {NoLine, line[r]}
    BY <2>1
  <2>3. ASSUME NEW l \in returned' PROVE l.ended /\ l.heard >= l.wrote
    <3>1. PICK m \in DueNow : IsOf(m.row, m.id) /\ l = line[m.row]
      BY <2>1
    <3>2. MarkerInv(m) /\ m.left <= 0 /\ m.left \in Int /\ m.row \in Rows
      BY DEF DueNow, ASRInv, MarkerInv
    <3>3. l.heard \in Nat /\ l.wrote \in Nat
      BY <3>1, <3>2, LineFact DEF IsOf, LineInv, LineType
    <3>4. l.ended /\ (l.heard < l.wrote => m.left >= AsrDelay + l.wrote - l.heard)
      BY <1>1, <3>1, <3>2 DEF MarkerInv
    <3> QED
      BY <3>2, <3>3, <3>4
  <2>4. ASSUME NEW n \in markers' PROVE MarkerInv(n)'
    <3>1. PICK m \in markers : n = [m EXCEPT !.left = @ - 1]
      BY <2>1
    <3>2. MarkerInv(m) /\ m.row \in Rows /\ m.id \in 1 .. lastLine /\ m.left \in Int
      BY DEF ASRInv, MarkerInv
    <3>3. n = [id |-> m.id, row |-> m.row, left |-> m.left - 1]
      BY <3>1, <3>2 DEF MarkerInv
    <3>4. n.row = m.row /\ n.id = m.id /\ n.left = m.left - 1 /\ n \in [id : 1 .. lastLine, row : Rows, left : Int]
      BY <3>2, <3>3
    <3>5. IsOf(m.row, m.id)' => IsOf(m.row, m.id) /\ line'[m.row] = line[m.row]
      <4>1. IsOf(m.row, m.id)' => line'[m.row] # NoLine /\ line'[m.row].id = m.id /\ line'[m.row].id # 0
        BY DEF IsOf, Lines, NoLine
      <4>2. line'[m.row] # NoLine => line'[m.row] = line[m.row]
        BY <2>2, <3>2
      <4> QED
        BY <3>2, <4>1, <4>2 DEF IsOf, Lines
    <3>6. IsOf(m.row, m.id) => line[m.row].heard \in Nat /\ line[m.row].wrote \in Nat
      BY <3>2, LineFact DEF IsOf, LineInv, LineType
    <3> QED
      BY <1>1, <3>2, <3>4, <3>5, <3>6 DEF MarkerInv
  <2> QED
    BY <1>1, <2>2, <2>3, <2>4 DEF ASRInv
<1> QED
  BY <1>2, <1>3

-------------------------------------------------------------------------------
(* The speakers *)

ClientType ==
  [live : BOOLEAN, complete : BOOLEAN, offset : Nat, entries : Seq(Entries), pads : Nat, end : Int]
ChannelType ==
  [id : Nat \ {0}, sentInit : BOOLEAN, wrote : Nat, ended : BOOLEAN, of : Nat, heard : Nat]

\* The frames with audio of a session, when the model has made n steps for it.
AudioOf(n) == IF n > DelaySteps + Delay THEN n - (DelaySteps + Delay) ELSE 0

\* A client counts the steps of its row, which is at n, unless it has nothing to say;
\* and it has an end only when it is complete, which is still to come.
ClientInv(c, n) ==
  /\ c \in ClientType
  /\ c.offset = n \/ (~c.complete /\ c.entries = <<>>)
  /\ c.end # -1 => c.end \in Nat /\ c.complete /\ c.offset < c.end + DelaySteps + FinalPadding + Delay

Begun(r) == r \in Channels /\ channel[r].sentInit

\* A channel that has begun is the one of the row's session, and was sent the audio
\* of it; before, it is sent nothing.  While the loop sends what a step returned, it
\* was sent that of the steps before.
ChannelInv(r) ==
  /\ channel[r] = NoChannel \/ channel[r] \in ChannelType
  /\ r \in Channels /\ ~channel[r].sentInit => channel[r].heard = 0
  /\ Begun(r) => channel[r].of = session[r]
  /\ Begun(r) /\ ~stepped => /\ client[r].offset = lm.offsets[r]
                             /\ channel[r].heard = AudioOf(lm.offsets[r])
  /\ Begun(r) /\ stepped =>
       /\ seen[r] = channel[r].id
       /\ r \notin spoken.eos => client[r].offset = lm.offsets[r]
       /\ AudioOf(lm.offsets[r]) = IF r \in spoken.pcm THEN channel[r].heard + 1 ELSE channel[r].heard
       /\ r \in spoken.pcm => r \in ran /\ lm.offsets[r] > DelaySteps + Delay
       /\ r \in spoken.eos => AudioOf(lm.offsets[r]) = spoken.end[r] + FinalPadding

\* What a client waits for grows only as what is left of the steps for text shrinks.
WaitInv == /\ textOnly \in 0 .. Interleaved
           /\ \A r \in Rows : waits[r] \in Nat /\ waits[r] + textOnly <= Interleaved

TTSInv ==
  /\ lm.silent = DelaySteps /\ MaxDelayOf(lm) = Delay /\ lastId \in Nat
  /\ DOMAIN channel = Rows /\ DOMAIN client = Rows
  /\ \A r \in Rows : ClientInv(client[r], lm.offsets[r]) /\ ChannelInv(r)
  /\ WaitInv /\ AudioIsOwn

LEMMA TTSParameters ==
  /\ Lookahead \in Nat /\ DelaySteps \in Nat \ {0} /\ FinalPadding \in Nat /\ MaxPadding \in Nat
  /\ Interleaved \in Nat /\ Delay \in Nat
BY TTSAssumption

LEMMA NewClientFact ==
  /\ Unused \in ClientType /\ ~Unused.complete /\ Unused.entries = <<>> /\ Unused.end = -1
  /\ NewClient \in ClientType /\ NewClient.offset = 0 /\ NewClient.end = -1
  /\ ~NewClient.complete /\ NewClient.entries = <<>>
<1>1. <<>> \in Seq(Entries) /\ -1 \in Int
  OBVIOUS
<1>2. Unused = [live |-> FALSE, complete |-> FALSE, offset |-> 0, entries |-> <<>>, pads |-> 0, end |-> -1]
  BY DEF Unused
<1>3. Unused \in ClientType /\ ~Unused.complete /\ Unused.entries = <<>> /\ Unused.end = -1 /\ Unused.offset = 0
  BY <1>1, <1>2 DEF ClientType
<1>4. /\ NewClient.complete = Unused.complete /\ NewClient.offset = Unused.offset
      /\ NewClient.entries = Unused.entries /\ NewClient.end = Unused.end /\ NewClient \in ClientType
  BY <1>3 DEF NewClient, ClientType
<1> QED
  BY <1>3, <1>4

LEMMA TTSStarts == TTSInit /\ LMInit(TTSModel) => TTSInv
<1> SUFFICES ASSUME TTSInit, LMInit(TTSModel) PROVE TTSInv
  OBVIOUS
<1>1. /\ channel = [r \in Rows |-> NoChannel] /\ lastId = 0 /\ client = [r \in Rows |-> Unused]
      /\ textOnly = Interleaved /\ waits = [r \in Rows |-> 0] /\ sent = <<>>
  BY DEF TTSInit, Nothing
<1>2. Unused \in ClientType /\ ~Unused.complete /\ Unused.entries = <<>> /\ Unused.end = -1
  BY NewClientFact
<1>3. \A n : ClientInv(Unused, n)
  BY <1>2 DEF ClientInv
<1>4. NoChannel.id = 0
  BY DEF NoChannel
<1>5. \A r \in Rows : ChannelInv(r)
  BY <1>1, <1>4 DEF ChannelInv, Begun, Channels
<1>6. AudioIsOwn
  <2>1. sent = <<>>
    BY <1>1
  <2>2. DOMAIN sent = {}
    BY <2>1
  <2> QED
    BY <2>2 DEF AudioIsOwn
<1>7. WaitInv
  BY <1>1, TTSParameters DEF WaitInv
<1> QED
  BY <1>1, <1>3, <1>5, <1>6, <1>7, TTSFact DEF TTSInv

LEMMA ChannelFact ==
  ASSUME TTSInv, NEW r \in Rows
  PROVE  /\ r \in Channels <=> channel[r] # NoChannel
         /\ r \in Channels <=> channel[r].id # 0
         /\ r \in Channels => channel[r] \in ChannelType
<1>1. NoChannel.id = 0 /\ (channel[r] \in ChannelType => channel[r].id # 0)
  BY DEF NoChannel, ChannelType
<1> QED
  BY <1>1 DEF TTSInv, ChannelInv, Channels

\* The loop over the messages: what one makes of a client and of its channel, whose
\* row is at n after the resets.
LEMMA UpdatedFact ==
  ASSUME TTSInv, ~stepped, NEW r \in Rows, lm.offsets[r] \in Nat, session[r] \in Nat, NEW m \in Found(r),
         NEW n, n = IF Begins(r, m) THEN 0 ELSE lm.offsets[r],
         NEW l, l = PreProcessed(r, m)
  PROVE  /\ ClientInv(Updated(r, m), n)
         /\ \/ l = NoChannel
            \/ /\ l \in ChannelType /\ l.id = channel[r].id /\ (~l.sentInit => l.heard = 0)
               /\ l.sentInit => /\ l.of = IF Begins(r, m) THEN session[r] + 1 ELSE session[r]
                                /\ Updated(r, m).offset = n /\ l.heard = AudioOf(n)
<1> USE TTSParameters
<1>1. /\ ClientInv(client[r], lm.offsets[r]) /\ client[r] \in ClientType
      /\ channel[r] = NoChannel \/ channel[r] \in ChannelType
      /\ r \in Channels /\ ~channel[r].sentInit => channel[r].heard = 0
      /\ Begun(r) => /\ channel[r].of = session[r] /\ client[r].offset = lm.offsets[r]
                     /\ channel[r].heard = AudioOf(lm.offsets[r])
  BY DEF TTSInv, ClientInv, ChannelInv
<1>2. /\ m \in {"nothing", "left", "eos"} \cup Entries
      /\ m # "nothing" => r \in Channels
  BY DEF Found
<1>3. r \in Channels => channel[r] \in ChannelType
  BY ChannelFact
<1>4. "nothing" \notin Entries /\ "left" \notin Entries /\ "eos" \notin Entries
  BY DEF Entries
<1>5. CASE m = "nothing"
  <2>1. ~Begins(r, m) /\ Updated(r, m) = client[r] /\ l = channel[r] /\ n = lm.offsets[r]
    BY <1>4, <1>5 DEF Begins, Updated, PreProcessed
  <2>2. channel[r] # NoChannel => r \in Channels
    BY ChannelFact
  <2> QED
    BY <1>1, <2>1, <2>2 DEF Begun
<1>6. CASE m = "left" \/ (m = "eos" /\ ~channel[r].sentInit)
  <2>1. ~Begins(r, m) /\ Updated(r, m) = client[r] /\ l = NoChannel /\ n = lm.offsets[r]
    BY <1>4, <1>6 DEF Begins, Updated, PreProcessed
  <2> QED
    BY <1>1, <2>1
<1>7. CASE m = "eos" /\ channel[r].sentInit
  <2>1. ~Begins(r, m) /\ Updated(r, m) = [client[r] EXCEPT !.complete = TRUE] /\ n = lm.offsets[r]
    BY <1>4, <1>7 DEF Begins, Updated
  <2>2. l = [channel[r] EXCEPT !.ended = TRUE]
    BY <1>4, <1>7 DEF PreProcessed
  <2>3. r \in Channels /\ Begun(r)
    BY <1>2, <1>7 DEF Begun
  <2>4. l \in ChannelType /\ l.id = channel[r].id /\ l.sentInit /\ l.of = channel[r].of /\ l.heard = channel[r].heard
    BY <1>3, <1>7, <2>2, <2>3 DEF ChannelType
  <2>5. /\ Updated(r, m) \in ClientType /\ Updated(r, m).offset = client[r].offset
        /\ Updated(r, m).end = client[r].end /\ Updated(r, m).complete
    BY <1>1, <2>1 DEF ClientType
  <2> QED
    BY <1>1, <2>1, <2>3, <2>4, <2>5 DEF ClientInv
<1>8. CASE m \in Entries
  <2> DEFINE c == IF Begins(r, m) THEN NewClient ELSE client[r]
  <2>1. r \in Channels /\ channel[r] \in ChannelType
    BY <1>2, <1>3, <1>4, <1>8
  <2>2. Begins(r, m) <=> ~channel[r].sentInit
    BY <1>8 DEF Begins
  <2>3. NewClient \in ClientType /\ NewClient.offset = 0 /\ NewClient.end = -1
    BY NewClientFact
  <2>4. /\ c \in ClientType /\ c.offset = n
        /\ c.end # -1 => c.end \in Nat /\ c.complete /\ c.offset < c.end + DelaySteps + FinalPadding + Delay
    <3>1. CASE Begins(r, m)
      BY <2>3, <3>1
    <3>2. CASE ~Begins(r, m)
      BY <1>1, <2>1, <2>2, <3>2 DEF Begun, ClientInv
    <3> QED
      BY <3>1, <3>2
  <2>5. Updated(r, m) = [c EXCEPT !.entries = Append(@, m)]
    BY <1>4, <1>8 DEF Updated
  <2>6. l = [channel[r] EXCEPT !.wrote = @ + 1, !.sentInit = TRUE,
                               !.of = IF Begins(r, m) THEN session[r] + 1 ELSE @]
    BY <1>4, <1>8 DEF PreProcessed
  <2> HIDE DEF c
  <2>7. ClientInv(Updated(r, m), n) /\ Updated(r, m).offset = n
    <3>1. Append(c.entries, m) \in Seq(Entries)
      BY <1>8, <2>4 DEF ClientType
    <3> QED
      BY <2>4, <2>5, <3>1 DEF ClientInv, ClientType
  <2>8. /\ l \in ChannelType /\ l.id = channel[r].id /\ l.sentInit = TRUE /\ l.heard = channel[r].heard
        /\ l.of = IF Begins(r, m) THEN session[r] + 1 ELSE channel[r].of
    <3> DEFINE w == channel[r].wrote + 1
               x == IF Begins(r, m) THEN session[r] + 1 ELSE channel[r].of
    <3>1. w \in Nat /\ x \in Nat
      BY <2>1 DEF ChannelType
    <3>2. l = [channel[r] EXCEPT !.wrote = w, !.sentInit = TRUE, !.of = x]
      BY <2>6
    <3> HIDE DEF w, x
    <3>3. l = [id |-> channel[r].id, sentInit |-> TRUE, wrote |-> w, ended |-> channel[r].ended,
               of |-> x, heard |-> channel[r].heard]
      BY <2>1, <3>2 DEF ChannelType
    <3>4. l \in ChannelType
      BY <2>1, <3>1, <3>3 DEF ChannelType
    <3> QED
      BY <3>3, <3>4 DEF x
  <2>9. AudioOf(0) = 0
    BY DEF AudioOf
  <2> QED
    BY <1>1, <2>1, <2>2, <2>7, <2>8, <2>9 DEF Begun
<1> QED
  BY <1>2, <1>5, <1>6, <1>7, <1>8

\* The loop over the clients that were executed: the state machine ends only what is
\* complete.
Passed(p) == [p EXCEPT !.offset = @ + 1]
Moved(c, n, p, d) ==
  /\ c.offset = n /\ d \in ClientType /\ d.offset = n + 1 /\ d.end = p.end
  /\ d.end # -1 => /\ d.end \in Nat /\ d.complete
                   /\ d.offset <= d.end + DelaySteps + FinalPadding + Delay

LEMMA SteppedFact ==
  ASSUME NEW n \in Nat, NEW c, ClientInv(c, n), IsActive(c),
         NEW p, p = Process(c, TRUE) \/ p = Process(c, FALSE)
  PROVE  Moved(c, n, p, Passed(p))
<1> DEFINE d == Passed(p)
<1> USE TTSParameters
<1>1. /\ c \in ClientType /\ c.offset = n
      /\ c.entries = <<>> => c.complete
      /\ c.end # -1 => c.end \in Nat /\ c.complete /\ c.offset < c.end + DelaySteps + FinalPadding + Delay
  BY DEF IsActive, ClientInv
<1>2. /\ p \in ClientType /\ p.offset = c.offset /\ p.complete = c.complete
      /\ p.end = c.end \/ (c.entries = <<>> /\ p.end = n)
  <2>1. CASE p = Process(c, FALSE)
    <3> DEFINE x == IF c.pads < MaxPadding THEN c.pads + 1 ELSE c.pads
    <3>1. x \in Nat
      BY <1>1 DEF ClientType
    <3>2. p = [c EXCEPT !.pads = x]
      BY <2>1 DEF Process
    <3> HIDE DEF x
    <3> QED
      BY <1>1, <3>1, <3>2 DEF ClientType
  <2>2. CASE p = Process(c, TRUE) /\ c.entries # <<>>
    <3>1. p = [c EXCEPT !.entries = Tail(@), !.pads = 0]
      BY <2>2 DEF Process
    <3>2. Tail(c.entries) \in Seq(Entries)
      BY <1>1, <2>2 DEF ClientType
    <3> QED
      BY <1>1, <3>1, <3>2 DEF ClientType
  <2>3. CASE p = Process(c, TRUE) /\ c.entries = <<>>
    <3> DEFINE x == IF c.end = -1 THEN n ELSE c.end
    <3>1. x \in Int
      BY <1>1 DEF ClientType
    <3>2. p = [c EXCEPT !.end = x]
      BY <1>1, <2>3 DEF Process
    <3>3. x = c.end \/ x = n
      OBVIOUS
    <3> HIDE DEF x
    <3>4. /\ p \in ClientType /\ p.offset = c.offset /\ p.complete = c.complete /\ p.end = x
      BY <1>1, <3>1, <3>2 DEF ClientType
    <3> QED
      BY <2>3, <3>3, <3>4
  <2>4. p = Process(c, TRUE) \/ p = Process(c, FALSE)
    OBVIOUS
  <2> QED
    BY <2>1, <2>2, <2>3, <2>4
<1>3. /\ d \in ClientType /\ d.offset = n + 1 /\ d.end = p.end /\ d.complete = c.complete
  <2> DEFINE x == p.offset + 1
  <2>1. x = n + 1 /\ x \in Nat
    BY <1>1, <1>2
  <2>2. d = [p EXCEPT !.offset = x]
    BY DEF Passed
  <2> HIDE DEF x
  <2> QED
    BY <1>1, <1>2, <2>1, <2>2 DEF ClientType
<1> HIDE DEF d
<1>4. ASSUME d.end # -1
      PROVE  d.end \in Nat /\ d.complete /\ d.offset <= d.end + DelaySteps + FinalPadding + Delay
  <2>1. CASE p.end = c.end
    <3>1. c.end \in Nat /\ c.complete /\ n < c.end + DelaySteps + FinalPadding + Delay
      BY <1>1, <1>3, <1>4, <2>1
    <3>2. d.end = c.end /\ d.complete /\ d.offset = n + 1
      BY <1>3, <2>1, <3>1
    <3> QED
      BY <3>1, <3>2
  <2>2. CASE c.entries = <<>> /\ p.end = n
    BY <1>1, <1>3, <2>2
  <2> QED
    BY <1>2, <2>1, <2>2
<1> QED
  BY <1>1, <1>3, <1>4 DEF Moved, d

LEMMA WaitFact ==
  ASSUME NEW w, NEW t, NEW v \in Nat, NEW u \in Nat, v + u <= Interleaved,
         \/ w = v + 1 /\ t = u - 1
         \/ w = 0 /\ t \in 0 .. Interleaved
  PROVE  w \in Nat /\ w + t <= Interleaved
BY TTSParameters

\* What a step returns for a row that is at n, to its client and its channel.
LEMMA TTSStepSafe ==
  ASSUME TTSInv, LMInv, TTSStep
  PROVE  TTSInv' /\ LMInv' /\ InputIsDelayed' /\ FrameIsWhole'
<1> USE TTSParameters
<1>1. PICK message \in [Rows -> {"nothing", "left", "eos"} \cup Entries] :
        /\ \A r \in Rows : message[r] \in Found(r)
        /\ channel' = [r \in Rows |-> PreProcessed(r, message[r])]
        /\ TTSService([r \in Rows |-> Updated(r, message[r])], {r \in Rows : Begins(r, message[r])})
  BY DEF TTSStep
<1>2. /\ ~stepped /\ stepped' = TRUE /\ seen' = [r \in Rows |-> channel[r].id]
      /\ sent' = <<>> /\ lastId' = lastId
  BY DEF TTSStep, Nothing
<1> DEFINE c      == [r \in Rows |-> Updated(r, message[r])]
           fresh  == {r \in Rows : Begins(r, message[r])}
           inText == RunInTextOnly(c)
           mask   == IF inText THEN InTextOnlys(c) ELSE Actives(c)
           at     == [r \in Rows |-> IF r \in fresh THEN 0 ELSE lm.offsets[r]]
<1>3. /\ textOnly' = IF ~inText THEN Interleaved ELSE IF textOnly = 0 THEN 0 ELSE textOnly - 1
      /\ waits' = [r \in Rows |->
           IF r \in Actives(c) /\ r \notin mask THEN waits[r] + 1
           ELSE IF r \in mask \/ r \notin Actives(c) THEN 0 ELSE waits[r]]
      /\ IF mask = {} THEN ResetOnly(fresh) ELSE ResetAndRun(fresh, mask, inText)
  BY <1>1 DEF TTSService
<1>4. PICK newWord \in SUBSET mask :
        /\ client' = [r \in Rows |->
             LET done == Stepped(c[r], r \in newWord)
             IN IF r \notin mask THEN c[r] ELSE IF Finishes(done) THEN NewClient ELSE done]
        /\ spoken' =
             [pcm |-> IF inText THEN {} ELSE MimiActives(c),
              eos |-> {r \in mask : Finishes(Stepped(c[r], r \in newWord))},
              end |-> [r \in Rows |-> Process(c[r], r \in newWord).end]]
  BY <1>1 DEF TTSService
<1>5. MaxDelayOf(lm) = Delay /\ lm.silent = DelaySteps /\ lastId \in Nat /\ WaitInv
  BY DEF TTSInv
<1>6. \A r \in Rows : lm.offsets[r] \in Nat /\ session[r] \in Nat /\ at[r] \in Nat
  BY DEF LMInv, Shape
<1>7. ASSUME NEW r \in Rows
      PROVE  /\ ClientInv(c[r], at[r])
             /\ \/ channel'[r] = NoChannel
                \/ /\ channel'[r] \in ChannelType /\ channel'[r].id = channel[r].id
                   /\ ~channel'[r].sentInit => channel'[r].heard = 0
                   /\ channel'[r].sentInit =>
                        /\ channel'[r].of = IF r \in fresh THEN session[r] + 1 ELSE session[r]
                        /\ c[r].offset = at[r] /\ channel'[r].heard = AudioOf(at[r])
  <2>1. message[r] \in Found(r) /\ channel'[r] = PreProcessed(r, message[r])
    BY <1>1
  <2>2. at[r] = IF Begins(r, message[r]) THEN 0 ELSE lm.offsets[r]
    OBVIOUS
  <2>3. (r \in fresh <=> Begins(r, message[r])) /\ c[r] = Updated(r, message[r])
    OBVIOUS
  <2> HIDE DEF c, fresh, at
  <2> QED
    BY <1>2, <1>6, <2>1, <2>2, <2>3, UpdatedFact
<1>8. \A r \in Rows : ClientInv(c[r], at[r]) /\ IsActive(c[r]) => c[r].offset = at[r]
  BY DEF ClientInv, IsActive
<1>9. Actives(c) = {r \in Rows : IsActive(c[r])} /\ InTextOnlys(c) = {r \in Actives(c) : c[r].offset < DelaySteps}
  BY DEF Actives, InTextOnlys
<1>10. /\ fresh \in SUBSET Rows /\ mask \in SUBSET Rows /\ mask \subseteq Actives(c) /\ inText \in BOOLEAN
       /\ inText => \A r \in mask : (IF r \in fresh THEN 0 ELSE lm.offsets[r]) < lm.silent
  <2>1. fresh \in SUBSET Rows
    OBVIOUS
  <2>2. mask \subseteq Actives(c) /\ mask \in SUBSET Rows
    BY <1>9
  <2>3. inText \in BOOLEAN
    BY DEF RunInTextOnly
  <2>4. ASSUME inText, NEW r \in mask PROVE at[r] < lm.silent
    <3>1. r \in Rows /\ IsActive(c[r]) /\ c[r].offset < DelaySteps
      BY <1>9, <2>4
    <3> HIDE DEF c, at
    <3> QED
      BY <1>5, <1>7, <1>8, <3>1
  <2>5. \A r \in Rows : at[r] = IF r \in fresh THEN 0 ELSE lm.offsets[r]
    OBVIOUS
  <2> HIDE DEF fresh, mask, inText, at
  <2> QED
    BY <2>1, <2>2, <2>3, <2>4, <2>5
<1>11. LMInv' /\ InputIsDelayed' /\ FrameIsWhole' /\ StepLeaves(fresh, mask)
  <2> HIDE DEF fresh, mask, inText
  <2>1. CASE mask = {}
    BY <1>3, <1>10, <2>1, ResetOnlyFact
  <2>2. CASE mask # {}
    BY <1>3, <1>10, <2>2, RunFact
  <2> QED
    BY <2>1, <2>2
<1>12. /\ lm'.silent = DelaySteps /\ MaxDelayOf(lm') = Delay /\ ran' = mask
       /\ \A r \in Rows : /\ lm'.offsets[r] = IF r \in mask THEN at[r] + 1 ELSE at[r]
                          /\ session'[r] = IF r \in fresh THEN session[r] + 1 ELSE session[r]
  <2>1. SameModel(lm, lm')
    BY <1>11 DEF StepLeaves
  <2>2. lm'.silent = DelaySteps /\ MaxDelayOf(lm') = Delay
    BY <1>5, <2>1, SameFact DEF SameModel
  <2>3. \A r \in Rows : at[r] = IF r \in fresh THEN 0 ELSE lm.offsets[r]
    OBVIOUS
  <2> HIDE DEF fresh, mask, at
  <2> QED
    BY <1>11, <2>2, <2>3 DEF StepLeaves
<1>13. ASSUME NEW r \in Rows
       PROVE  ClientInv(client'[r], lm'.offsets[r]) /\ ChannelInv(r)'
  <2> DEFINE d == Stepped(c[r], r \in newWord)
             n == at[r]
  <2>1. /\ r \in Channels' => channel'[r] # NoChannel
        /\ Begun(r)' => channel'[r] # NoChannel /\ channel'[r].sentInit
    BY DEF Channels, NoChannel, Begun
  <2>2. /\ client'[r] = IF r \notin mask THEN c[r] ELSE IF Finishes(d) THEN NewClient ELSE d
        /\ spoken'.pcm = IF inText THEN {} ELSE MimiActives(c)
        /\ r \in spoken'.eos <=> r \in mask /\ Finishes(d)
        /\ spoken'.end[r] = Process(c[r], r \in newWord).end
    BY <1>4
  <2>3. /\ r \in MimiActives(c) <=> r \in Actives(c) /\ c[r].offset - Delay >= DelaySteps
        /\ r \in Actives(c) => IsActive(c[r])
        /\ r \in mask <=> IF inText THEN r \in Actives(c) /\ c[r].offset < DelaySteps ELSE r \in Actives(c)
    BY <1>5, <1>9 DEF MimiActives
  <2>4. Finishes(d) <=> d.complete /\ d.end # -1 /\ d.offset >= d.end + DelaySteps + FinalPadding + Delay
    BY <1>5 DEF Finishes, RealEnd
  <2>5. r \in mask => /\ c[r].offset = n /\ d \in ClientType /\ d.offset = n + 1
                      /\ d.end = Process(c[r], r \in newWord).end
                      /\ d.end # -1 => /\ d.end \in Nat /\ d.complete
                                       /\ d.offset <= d.end + DelaySteps + FinalPadding + Delay
    <3> SUFFICES ASSUME r \in mask
                 PROVE  /\ c[r].offset = n /\ d \in ClientType /\ d.offset = n + 1
                        /\ d.end = Process(c[r], r \in newWord).end
                        /\ d.end # -1 => /\ d.end \in Nat /\ d.complete
                                         /\ d.offset <= d.end + DelaySteps + FinalPadding + Delay
      OBVIOUS
    <3>1. IsActive(c[r])
      BY <2>3
    <3>2. ClientInv(c[r], n) /\ n \in Nat
      BY <1>6, <1>7
    <3> DEFINE p == Process(c[r], r \in newWord)
    <3>3. d = Passed(p)
      BY DEF Stepped, Passed
    <3> HIDE DEF c, mask, at, n, d
    <3>4. p = Process(c[r], TRUE) \/ p = Process(c[r], FALSE)
      <4>1. CASE r \in newWord
        BY <4>1 DEF Process
      <4>2. CASE r \notin newWord
        BY <4>2 DEF Process
      <4> QED
        BY <4>1, <4>2
    <3> HIDE DEF p
    <3>5. /\ c[r].offset = n /\ d \in ClientType /\ d.offset = n + 1 /\ d.end = p.end
          /\ d.end # -1 => /\ d.end \in Nat /\ d.complete
                           /\ d.offset <= d.end + DelaySteps + FinalPadding + Delay
      <4>1. Moved(c[r], n, p, Passed(p))
        BY <3>1, <3>2, <3>4, SteppedFact
      <4> QED
        BY <3>3, <4>1 DEF Moved
    <3> QED
      BY <3>5 DEF p
  <2>6. n \in Nat /\ lm'.offsets[r] = IF r \in mask THEN n + 1 ELSE n
    BY <1>6, <1>12
  <2>7. seen'[r] = channel[r].id /\ stepped'
    BY <1>2
  <2> HIDE DEF c, fresh, mask, inText, at, n, d
  <2>8. CASE r \notin mask
    <3>1. client'[r] = c[r] /\ r \notin spoken'.pcm /\ r \notin spoken'.eos /\ lm'.offsets[r] = n
      BY <2>2, <2>3, <2>6, <2>8
    <3>2. ClientInv(client'[r], lm'.offsets[r])
      BY <1>7, <3>1 DEF n
    <3>3. ChannelInv(r)'
      BY <1>7, <1>12, <2>1, <2>7, <3>1 DEF ChannelInv, n
    <3> QED
      BY <3>2, <3>3
  <2>9. CASE r \in mask
    <3>1. /\ lm'.offsets[r] = n + 1 /\ d.offset = n + 1 /\ c[r].offset = n
          /\ r \in spoken'.pcm <=> ~inText /\ n >= DelaySteps + Delay
          /\ inText => n < DelaySteps
      BY <2>2, <2>3, <2>5, <2>6, <2>9
    <3>2. CASE Finishes(d)
      <4>1. client'[r] = NewClient /\ r \in spoken'.eos
        BY <2>2, <2>9, <3>2
      <4>2. ClientInv(client'[r], lm'.offsets[r])
        BY <4>1, NewClientFact DEF ClientInv
      <4>3. n + 1 = spoken'.end[r] + DelaySteps + FinalPadding + Delay /\ spoken'.end[r] \in Nat
        BY <2>2, <2>4, <2>5, <2>6, <2>9, <3>1, <3>2
      <4>4. AudioOf(n + 1) = spoken'.end[r] + FinalPadding
        BY <2>6, <4>3 DEF AudioOf
      <4>5. AudioOf(n + 1) = IF r \in spoken'.pcm THEN AudioOf(n) + 1 ELSE AudioOf(n)
        BY <2>6, <3>1 DEF AudioOf
      <4>6. r \in spoken'.pcm => r \in ran' /\ n + 1 > DelaySteps + Delay
        BY <1>12, <2>6, <2>9, <3>1
      <4>7. ChannelInv(r)'
        BY <1>7, <1>12, <2>1, <2>7, <3>1, <4>1, <4>4, <4>5, <4>6 DEF ChannelInv, n
      <4> QED
        BY <4>2, <4>7
    <3>3. CASE ~Finishes(d)
      <4>1. client'[r] = d /\ r \notin spoken'.eos
        BY <2>2, <2>9, <3>3
      <4>2. ClientInv(client'[r], lm'.offsets[r])
        BY <2>4, <2>5, <2>6, <2>9, <3>1, <3>3, <4>1 DEF ClientInv
      <4>5. AudioOf(n + 1) = IF r \in spoken'.pcm THEN AudioOf(n) + 1 ELSE AudioOf(n)
        BY <2>6, <3>1 DEF AudioOf
      <4>6. r \in spoken'.pcm => r \in ran' /\ n + 1 > DelaySteps + Delay
        BY <1>12, <2>6, <2>9, <3>1
      <4>7. ChannelInv(r)'
        BY <1>7, <1>12, <2>1, <2>7, <3>1, <4>1, <4>5, <4>6 DEF ChannelInv, n
      <4> QED
        BY <4>2, <4>7
    <3> QED
      BY <3>2, <3>3
  <2> QED
    BY <2>8, <2>9
<1>14. DOMAIN channel' = Rows /\ DOMAIN client' = Rows
  BY <1>1, <1>4
<1>15. AudioIsOwn'
  <2>1. DOMAIN sent' = {}
    BY <1>2
  <2> QED
    BY <2>1 DEF AudioIsOwn
<1>16. WaitInv'
  <2>1. /\ textOnly \in Nat /\ textOnly <= Interleaved /\ Interleaved \in Nat
        /\ \A r \in Rows : waits[r] \in Nat /\ waits[r] + textOnly <= Interleaved
    <3> HIDE DEF c, fresh, mask, inText, at
    <3> QED
      BY <1>5 DEF WaitInv
  <2>2. textOnly' \in 0 .. Interleaved
    <3> HIDE DEF inText
    <3> QED
      BY <1>3, <2>1
  <2>3. ASSUME NEW r \in Rows PROVE waits'[r] \in Nat /\ waits'[r] + textOnly' <= Interleaved
    <3>1. waits'[r] = IF r \in Actives(c) /\ r \notin mask THEN waits[r] + 1
                      ELSE IF r \in mask \/ r \notin Actives(c) THEN 0 ELSE waits[r]
      BY <1>3
    <3>2. r \in Actives(c) /\ r \notin mask => inText /\ textOnly > 0
      BY DEF RunInTextOnly
    <3> HIDE DEF c, fresh, mask, inText, at
    <3>3. r \in Actives(c) /\ r \notin mask => waits'[r] = waits[r] + 1 /\ textOnly' = textOnly - 1
      BY <1>3, <2>1, <3>1, <3>2
    <3>4. ~(r \in Actives(c) /\ r \notin mask) => waits'[r] = 0
      BY <3>1
    <3> QED
      BY <2>1, <2>2, <3>3, <3>4, WaitFact
  <2> QED
    BY <2>2, <2>3 DEF WaitInv
<1> HIDE DEF c, fresh, mask, inText, at
<1>17. TTSInv'
  BY <1>2, <1>5, <1>12, <1>13, <1>14, <1>15, <1>16 DEF TTSInv
<1> QED
  BY <1>11, <1>17

\* A channel that is made has not begun, and the ids are never 0.
LEMMA TTSConnectSafe ==
  ASSUME TTSInv, NEW r \in Rows, TTSConnect(r)
  PROVE  TTSInv'
<1> DEFINE l == [id |-> lastId + 1, sentInit |-> FALSE, wrote |-> 0, ended |-> FALSE, of |-> 0, heard |-> 0]
<1>1. /\ channel' = [channel EXCEPT ![r] = l] /\ lastId' = lastId + 1
      /\ UNCHANGED <<seen, client, textOnly, waits, spoken, sent, lmVars>>
  BY DEF TTSConnect
<1>2. /\ lm.silent = DelaySteps /\ MaxDelayOf(lm) = Delay /\ lastId \in Nat
      /\ DOMAIN channel = Rows /\ DOMAIN client = Rows
      /\ \A q \in Rows : ClientInv(client[q], lm.offsets[q]) /\ ChannelInv(q)
      /\ WaitInv /\ AudioIsOwn
  BY DEF TTSInv
<1>3. lm' = lm /\ session' = session /\ ran' = ran /\ stepped' = stepped
  BY <1>1 DEF lmVars
<1>4. l \in ChannelType /\ ~l.sentInit /\ l.heard = 0
  BY <1>2 DEF ChannelType
<1> HIDE DEF l
<1>5. DOMAIN channel' = Rows /\ channel'[r] = l /\ \A q \in Rows \ {r} : channel'[q] = channel[q]
  BY <1>1, <1>2
<1>6. ASSUME NEW q \in Rows PROVE ChannelInv(q)'
  <2>1. CASE q = r
    BY <1>4, <1>5, <2>1 DEF ChannelInv, Begun
  <2>2. CASE q # r
    <3>1. channel'[q] = channel[q] /\ (q \in Channels' <=> q \in Channels)
      BY <1>5, <2>2 DEF Channels
    <3> QED
      BY <1>1, <1>2, <1>3, <3>1 DEF ChannelInv, Begun
  <2> QED
    BY <2>1, <2>2
<1>7. \A q \in Rows : ClientInv(client'[q], lm'.offsets[q])
  BY <1>1, <1>2, <1>3
<1>8. WaitInv'
  BY <1>1, <1>2 DEF WaitInv
<1>9. AudioIsOwn'
  BY <1>1, <1>2, <1>3 DEF AudioIsOwn
<1>10. lm'.silent = DelaySteps /\ MaxDelayOf(lm') = Delay /\ lastId' \in Nat /\ DOMAIN client' = Rows
  BY <1>1, <1>2, <1>3
<1> QED
  BY <1>5, <1>6, <1>7, <1>8, <1>9, <1>10 DEF TTSInv

\* What the loop sends of a step, it sends to the channel that it was made for.
LEMMA TTSSendSafe ==
  ASSUME TTSInv, LMInv, TTSSend
  PROVE  TTSInv'
<1> USE TTSParameters
<1> DEFINE served == {r \in Rows : Served(r)}
<1>1. /\ sent' = [r \in served |->
           [pcm |-> r \in spoken.pcm, eos |-> r \in spoken.eos,
            of |-> channel[r].of, heard |-> channel[r].heard, end |-> spoken.end[r]]]
      /\ channel' = [r \in Rows |->
           IF r \notin served THEN channel[r]
           ELSE IF r \in spoken.eos THEN NoChannel
           ELSE [channel[r] EXCEPT !.heard = IF r \in spoken.pcm THEN @ + 1 ELSE @]]
  BY DEF TTSSend
<1>2. /\ stepped /\ ~stepped'
      /\ lastId' = lastId /\ client' = client /\ textOnly' = textOnly /\ waits' = waits
      /\ lm' = lm /\ session' = session /\ ran' = ran
  BY DEF TTSSend
<1>3. /\ lm.silent = DelaySteps /\ MaxDelayOf(lm) = Delay /\ lastId \in Nat
      /\ DOMAIN channel = Rows /\ DOMAIN client = Rows
      /\ \A r \in Rows : ClientInv(client[r], lm.offsets[r]) /\ ChannelInv(r) /\ lm.offsets[r] \in Nat
      /\ WaitInv
  BY DEF TTSInv, LMInv, Shape
<1>4. ASSUME NEW r \in Rows
      PROVE  /\ r \in served => /\ Begun(r)
             /\ Begun(r) => /\ r \in served
                            /\ channel[r] \in ChannelType /\ channel[r].of = session[r]
                            /\ r \notin spoken.eos => client[r].offset = lm.offsets[r]
                            /\ AudioOf(lm.offsets[r]) = IF r \in spoken.pcm THEN channel[r].heard + 1 ELSE channel[r].heard
                            /\ r \in spoken.pcm => r \in ran /\ lm.offsets[r] > DelaySteps + Delay
                            /\ r \in spoken.eos => AudioOf(lm.offsets[r]) = spoken.end[r] + FinalPadding
  <2>1. r \in served => Begun(r)
    BY DEF Served, Begun
  <2>2. Begun(r) => r \in served
    BY <1>2, <1>3 DEF Served, Begun, ChannelInv
  <2>3. Begun(r) => channel[r] \in ChannelType
    BY ChannelFact DEF Begun
  <2> HIDE DEF served
  <2> QED
    BY <1>2, <1>3, <2>1, <2>2, <2>3 DEF ChannelInv
<1>5. AudioIsOwn'
  <2> SUFFICES ASSUME NEW r \in served
               PROVE  LET count == IF sent'[r].pcm THEN sent'[r].heard + 1 ELSE sent'[r].heard
                      IN /\ sent'[r].pcm => /\ r \in ran' /\ session'[r] = sent'[r].of
                                            /\ lm'.offsets[r] - 1 - MaxDelayOf(lm') = DelaySteps + sent'[r].heard
                         /\ sent'[r].eos => count = sent'[r].end + FinalPadding
    <3>1. DOMAIN sent' = served
      BY <1>1
    <3> QED
      BY <3>1 DEF AudioIsOwn
  <2>1. r \in Rows
    OBVIOUS
  <2>2. /\ sent'[r].pcm <=> r \in spoken.pcm
        /\ sent'[r].eos <=> r \in spoken.eos
        /\ sent'[r].of = channel[r].of /\ sent'[r].heard = channel[r].heard /\ sent'[r].end = spoken.end[r]
    BY <1>1
  <2> HIDE DEF served
  <2>3. /\ channel[r] \in ChannelType /\ channel[r].of = session[r]
        /\ AudioOf(lm.offsets[r]) = IF r \in spoken.pcm THEN channel[r].heard + 1 ELSE channel[r].heard
        /\ r \in spoken.pcm => r \in ran /\ lm.offsets[r] > DelaySteps + Delay
        /\ r \in spoken.eos => AudioOf(lm.offsets[r]) = spoken.end[r] + FinalPadding
    BY <1>4, <2>1
  <2>4. channel[r].heard \in Nat /\ lm.offsets[r] \in Nat
    BY <1>3, <2>1, <2>3 DEF ChannelType
  <2>5. ASSUME r \in spoken.pcm PROVE lm.offsets[r] - 1 - Delay = DelaySteps + channel[r].heard
    <3>1. AudioOf(lm.offsets[r]) = lm.offsets[r] - (DelaySteps + Delay)
      BY <2>3, <2>5 DEF AudioOf
    <3> QED
      BY <2>3, <2>4, <2>5, <3>1
  <2> QED
    BY <1>2, <1>3, <2>2, <2>3, <2>5
<1>6. ASSUME NEW r \in Rows PROVE ChannelInv(r)'
  <2>1. channel'[r] = IF r \notin served THEN channel[r]
                      ELSE IF r \in spoken.eos THEN NoChannel
                      ELSE [channel[r] EXCEPT !.heard = IF r \in spoken.pcm THEN @ + 1 ELSE @]
    BY <1>1
  <2> HIDE DEF served
  <2>2. r \in Channels' <=> channel'[r].id # 0
    BY DEF Channels
  <2>3. r \in Channels <=> channel[r].id # 0
    BY DEF Channels
  <2>4. CASE r \notin served
    <3>1. channel'[r] = channel[r] /\ ~Begun(r)
      BY <1>4, <2>1, <2>4
    <3>2. ~Begun(r)' /\ (r \in Channels' <=> r \in Channels)
      BY <2>2, <2>3, <3>1 DEF Begun
    <3> QED
      BY <1>3, <3>1, <3>2 DEF ChannelInv
  <2>5. CASE r \in served /\ r \in spoken.eos
    <3>1. channel'[r] = NoChannel
      BY <2>1, <2>5
    <3>2. r \notin Channels'
      BY <2>2, <3>1 DEF NoChannel
    <3> QED
      BY <3>1, <3>2 DEF ChannelInv, Begun
  <2>6. CASE r \in served /\ r \notin spoken.eos
    <3> DEFINE h == IF r \in spoken.pcm THEN channel[r].heard + 1 ELSE channel[r].heard
    <3>1. /\ channel[r] \in ChannelType /\ channel[r].of = session[r] /\ Begun(r)
          /\ client[r].offset = lm.offsets[r] /\ AudioOf(lm.offsets[r]) = h
      BY <1>4, <2>6
    <3>2. h \in Nat
      BY <3>1 DEF ChannelType
    <3>3. channel'[r] = [channel[r] EXCEPT !.heard = h]
      BY <2>1, <2>6
    <3> HIDE DEF h
    <3>4. /\ channel'[r] \in ChannelType /\ channel'[r].of = channel[r].of /\ channel'[r].heard = h
          /\ channel'[r].sentInit = channel[r].sentInit
      BY <3>1, <3>2, <3>3 DEF ChannelType
    <3> QED
      BY <1>2, <3>1, <3>4 DEF ChannelInv, Begun
  <2> QED
    BY <2>4, <2>5, <2>6
<1>7. WaitInv'
  BY <1>2, <1>3 DEF WaitInv
<1>8. DOMAIN channel' = Rows
  BY <1>1
<1> HIDE DEF served
<1> QED
  BY <1>2, <1>3, <1>5, <1>6, <1>7, <1>8 DEF TTSInv

-------------------------------------------------------------------------------
(* The forward of the model *)

\* The depth transformer was given the frame up to here, as in training.
ForwardInv ==
  /\ lags \in [0 .. DepQ -> Nat] /\ frames \in Nat \ {0}
  /\ row \in Seq(Cards) /\ Len(row) > 0 /\ inputs = TrainingInputs(row)

LEMMA ForwardStarts == ForwardInit => ForwardInv
<1> SUFFICES ASSUME ForwardInit PROVE ForwardInv
  OBVIOUS
<1>1. DepQ \in Nat /\ MaxFrames \in Nat /\ MaxLag \in Nat
  BY ForwardAssumption
<1>2. PICK symbol \in Cards : row = <<symbol>>
  BY DEF ForwardInit
<1>3. row \in Seq(Cards) /\ Len(row) = 1
  BY <1>2
<1>4. inputs = <<>> /\ lags \in [0 .. DepQ -> 0 .. MaxLag] /\ frames \in 1 .. MaxFrames
  BY DEF ForwardInit
<1>5. inputs = TrainingInputs(row)
  BY <1>3, <1>4 DEF TrainingInputs
<1>6. lags \in [0 .. DepQ -> Nat] /\ frames \in Nat \ {0}
  BY <1>1, <1>4
<1> QED
  BY <1>3, <1>5, <1>6 DEF ForwardInv

LEMMA ForwardSteps == ForwardInv /\ ForwardNext => ForwardInv'
<1> SUFFICES ASSUME ForwardInv, NEW token \in Cards, NextCodebook(token) PROVE ForwardInv'
  BY DEF ForwardNext
<1>1. /\ inputs' = Append(inputs, DepformerInput(Len(row), row[Len(row)]))
      /\ row' = Append(row, token)
      /\ lags' = lags /\ frames' = frames /\ schedule' = schedule
  BY DEF NextCodebook
<1>2. row \in Seq(Cards) /\ Len(row) \in Nat \ {0}
  BY DEF ForwardInv
<1>3. /\ row' \in Seq(Cards) /\ Len(row') = Len(row) + 1
      /\ \A i \in 1 .. Len(row) : row'[i] = row[i]
  BY <1>1, <1>2
<1> DEFINE In(cb, symbol) == [layer |-> schedule[cb], embedding |-> cb, token |-> symbol]
           n == Len(row)
<1>4. inputs = [cb \in 1 .. n - 1 |-> In(cb, row[cb])]
  BY DEF ForwardInv, TrainingInputs
<1>5. TrainingInputs(row)' = [cb \in 1 .. n |-> In(cb, row'[cb])]
  BY <1>1, <1>2, <1>3 DEF TrainingInputs
<1>6. inputs' = Append(inputs, In(n, row[n]))
  BY <1>1 DEF DepformerInput
<1> HIDE DEF In, n
<1>7. inputs' = [cb \in 1 .. n |-> In(cb, row[cb])]
  <2>1. n \in Nat \ {0}
    BY <1>2 DEF n
  <2> DEFINE S == {In(cb, row[cb]) : cb \in 1 .. n}
  <2>2. inputs \in [1 .. n - 1 -> S]
    BY <1>4, <2>1
  <2>3. inputs \in Seq(S) /\ Len(inputs) = n - 1
    BY <2>1, <2>2
  <2>4. In(n, row[n]) \in S
    BY <2>1
  <2> HIDE DEF S
  <2>5. /\ inputs' \in Seq(S) /\ Len(inputs') = n /\ inputs'[n] = In(n, row[n])
        /\ \A i \in 1 .. n - 1 : inputs'[i] = inputs[i]
    BY <1>6, <2>1, <2>3, <2>4
  <2>6. \A i \in 1 .. n : inputs'[i] = In(i, row[i])
    BY <1>4, <2>1, <2>5
  <2>7. inputs' = [i \in 1 .. n |-> inputs'[i]]
    BY <2>1, <2>5
  <2> QED
    BY <2>6, <2>7
<1>8. \A cb \in 1 .. n : row'[cb] = row[cb]
  BY <1>3 DEF n
<1>9. inputs' = TrainingInputs(row)'
  BY <1>5, <1>7, <1>8
<1> QED
  BY <1>1, <1>2, <1>3, <1>9 DEF ForwardInv

LEMMA SampledFact == ForwardInv => SampledAsTrained
<1> SUFFICES ASSUME ForwardInv, NEW cb \in DOMAIN inputs
             PROVE  Attended(SubSeq(inputs, 1, cb)) = TrainingAttended(row, cb)
  BY DEF SampledAsTrained
<1>1. Len(row) \in Nat \ {0} /\ inputs = TrainingInputs(row)
  BY DEF ForwardInv
<1>2. DOMAIN inputs = 1 .. Len(row) - 1
  BY <1>1 DEF TrainingInputs
<1>3. cb \in Nat /\ cb >= 1 /\ cb <= Len(row) - 1
  BY <1>1, <1>2
<1> DEFINE part == SubSeq(inputs, 1, cb)
<1>4. part = [i \in 1 .. cb |-> inputs[i]]
  <2>1. part = [i \in 1 .. (1 + cb - 1) |-> inputs[i + 1 - 1]]
    BY <1>3
  <2> QED
    BY <1>3, <2>1
<1> HIDE DEF part
<1>5. Attended(part) = [i \in 1 .. cb |-> [input |-> inputs[i], weights |-> schedule[i]]]
  BY <1>4 DEF Attended, WeightOfStep
<1>6. TrainingAttended(row, cb) = [i \in 1 .. cb |-> [input |-> inputs[i], weights |-> schedule[i]]]
  BY <1>1 DEF TrainingAttended
<1> QED
  BY <1>5, <1>6 DEF part

\* The sequence is rolled within its frames where it is not filled in.
LEMMA AlignedFact == ForwardInv => LogitsAreAligned
<1> SUFFICES ASSUME ForwardInv, NEW k \in DOMAIN lags, NEW t \in 0 .. frames - 1
             PROVE  IF LogitsMask(k, t) THEN Undelayed(k, t) = <<k, t>>
                    ELSE <<k, t>> \in zeros \/ \A i \in 0 .. frames - 1 : LogitsAt(k, i) # <<k, t>>
  BY DEF LogitsAreAligned
<1> DEFINE lag == lags[k]
<1>1. lag \in Nat /\ frames \in Nat \ {0} /\ t \in Nat /\ t < frames
  BY DEF ForwardInv
<1>2. \A i \in Nat : LogitsAt(k, i) = IF i < lag THEN <<>> ELSE <<k, i - lag>>
  BY <1>1 DEF LogitsAt, DelayedCode, Invalid
<1>3. Rolled(k, t) = (t + lag) % frames /\ (IsFilled(k, t) <=> lag > 0 /\ t >= frames - lag)
  BY DEF Rolled, IsFilled
<1>4. /\ LogitsMask(k, t) <=> ~IsFilled(k, t) /\ <<k, t>> \notin zeros
      /\ Undelayed(k, t) = IF IsFilled(k, t) THEN <<>> ELSE LogitsAt(k, Rolled(k, t))
  BY DEF LogitsMask, Undelayed, Invalid
<1> HIDE DEF lag
<1>5. CASE LogitsMask(k, t)
  <2>1. t + lag \in 0 .. frames - 1
    BY <1>1, <1>3, <1>4, <1>5
  <2>2. (t + lag) % frames = t + lag
    BY <1>1, <2>1
  <2>3. LogitsAt(k, t + lag) = <<k, t>>
    BY <1>1, <1>2, <2>1
  <2> QED
    BY <1>3, <1>4, <1>5, <2>2, <2>3
<1>6. CASE IsFilled(k, t)
  <2>1. ASSUME NEW i \in 0 .. frames - 1, LogitsAt(k, i) = <<k, t>> PROVE FALSE
    <3>1. CASE i < lag
      BY <1>1, <1>2, <2>1, <3>1
    <3>2. CASE i >= lag
      <4>1. <<k, i - lag>> = <<k, t>>
        BY <1>1, <1>2, <2>1, <3>2
      <4>2. i - lag = t
        BY <4>1
      <4> QED
        BY <1>1, <1>3, <1>6, <4>2
    <3> QED
      BY <1>1, <3>1, <3>2
  <2> QED
    BY <1>4, <1>6, <2>1
<1> QED
  BY <1>4, <1>5, <1>6

-------------------------------------------------------------------------------
(* Whichever service it is *)

\* LMGen is sound always; the loops have their invariant in their own service, and
\* have sent nothing in another.
ModelInv ==
  /\ LMInv /\ InputIsDelayed /\ FrameIsWhole
  /\ IF service = "tts" THEN TTSInv ELSE WaitInv /\ sent = <<>>
  /\ IF service = "asr" THEN ASRInv ELSE returned = {}
  /\ IF service = "forward" THEN ForwardInv ELSE lags = <<>> /\ inputs = <<>>

LEMMA ModelFact == ModelInv => StreamIsSound /\ ServedTheirOwn
<1> SUFFICES ASSUME ModelInv PROVE StreamIsSound /\ ServedTheirOwn
  OBVIOUS
<1>1. InputIsDelayed /\ FrameIsWhole /\ PrependedOnce
  BY DEF ModelInv, LMInv
<1>2. ForwardIsSound
  <2>1. CASE service = "forward"
    BY <2>1, SampledFact, AlignedFact DEF ModelInv, ForwardIsSound
  <2>2. CASE service # "forward"
    <3>1. DOMAIN lags = {} /\ DOMAIN inputs = {}
      <4>1. lags = <<>> /\ inputs = <<>>
        BY <2>2 DEF ModelInv
      <4> QED
        BY <4>1
    <3> QED
      BY <3>1 DEF ForwardIsSound, SampledAsTrained, LogitsAreAligned
  <2> QED
    BY <2>1, <2>2
<1>3. AudioIsOwn /\ WaitInv
  <2>1. CASE service = "tts"
    BY <2>1 DEF ModelInv, TTSInv
  <2>2. CASE service # "tts"
    <3>1. sent = <<>> /\ WaitInv
      BY <2>2 DEF ModelInv
    <3>2. DOMAIN sent = {}
      BY <3>1
    <3> QED
      BY <3>1, <3>2 DEF AudioIsOwn
  <2> QED
    BY <2>1, <2>2
<1>4. AudioNotStarved
  <2>1. ASSUME NEW r \in Rows PROVE waits[r] <= Interleaved
    <3>1. waits[r] \in Nat /\ textOnly \in 0 .. Interleaved /\ waits[r] + textOnly <= Interleaved
      BY <1>3 DEF WaitInv
    <3> QED
      BY <3>1, TTSParameters
  <2> QED
    BY <2>1 DEF AudioNotStarved
<1>5. MarkerAfterData
  BY DEF ModelInv, ASRInv, MarkerAfterData
<1> QED
  BY <1>1, <1>2, <1>3, <1>4, <1>5 DEF StreamIsSound, ServedTheirOwn

LEMMA ModelStarts == Init => ModelInv
<1> SUFFICES ASSUME Init PROVE ModelInv
  OBVIOUS
<1>1. TTSInit /\ ASRInit
  BY DEF Init
<1>2. WaitInv /\ sent = <<>>
  BY <1>1, TTSParameters DEF TTSInit, WaitInv, Nothing
<1>3. returned = {} /\ ASRInv
  BY <1>1, ASRStarts DEF ASRInit
<1>4. \/ service \in {"dialogue", "conditions", "forward", "files"} /\ LMInit(Dialogue)
      \/ service = "tts" /\ LMInit(TTSModel)
      \/ service = "asr" /\ LMInit(ASRModel)
  BY DEF Init
<1>5. LMInv /\ InputIsDelayed /\ FrameIsWhole
  BY <1>4, DialogueFact, TTSFact, ASRFact
<1>6. service = "tts" => TTSInv
  BY <1>1, <1>4, TTSStarts
<1>7. IF service = "forward" THEN ForwardInv ELSE lags = <<>> /\ inputs = <<>>
  <2>1. \/ service = "forward" /\ ForwardInit
        \/ service # "forward" /\ NoForward
    BY DEF Init
  <2> QED
    BY <2>1, ForwardStarts DEF NoForward
<1> QED
  BY <1>2, <1>3, <1>5, <1>6, <1>7 DEF ModelInv

\* A step of the dialogue; the other services leave LMGen alone.
LEMMA DialogueStepSafe ==
  ASSUME LMInv, DialogueStep
  PROVE  LMInv' /\ InputIsDelayed' /\ FrameIsWhole'
<1>1. PICK mask \in SUBSET Rows \ {{}}, fresh \in SUBSET Rows : ResetAndRun(fresh, mask, FALSE)
  BY DEF DialogueStep
<1>2. FALSE \in BOOLEAN /\ mask \in SUBSET Rows
  OBVIOUS
<1> QED
  BY <1>1, <1>2, RunFact

LEMMA LMRests ==
  ASSUME LMInv, InputIsDelayed, FrameIsWhole, UNCHANGED <<lm, session, since, ran, input, output>>
  PROVE  LMInv' /\ InputIsDelayed' /\ FrameIsWhole'
<1>1. LMInv'
  BY DEF LMInv, Ring, PrependedOnce, Kept, WrittenAt, Content
<1>2. InputIsDelayed'
  BY DEF InputIsDelayed, Intact
<1>3. FrameIsWhole'
  BY DEF FrameIsWhole, Intact
<1> QED
  BY <1>1, <1>2, <1>3

LEMMA TTSRests == TTSInv /\ UNCHANGED <<lmVars, ttsVars>> => TTSInv'
BY DEF TTSInv, lmVars, ttsVars, ClientInv, ChannelInv, Begun, Channels, WaitInv, AudioIsOwn

LEMMA ASRRests == ASRInv /\ UNCHANGED <<lmVars, asrVars>> => ASRInv'
BY DEF ASRInv, lmVars, asrVars, MarkerInv, LineInv, IsOf, Lines

LEMMA ForwardRests == ForwardInv /\ UNCHANGED forwardVars => ForwardInv'
BY DEF ForwardInv, forwardVars, TrainingInputs

LEMMA ModelSteps == ModelInv /\ [Next]_vars => ModelInv'
<1> SUFFICES ASSUME ModelInv, [Next]_vars PROVE ModelInv'
  OBVIOUS
<1> USE DEF ModelInv
<1>1. ASSUME UNCHANGED <<service, forwardVars>>
      PROVE  IF service' = "forward" THEN ForwardInv' ELSE lags' = <<>> /\ inputs' = <<>>
  BY <1>1, ForwardRests DEF forwardVars
<1>2. ASSUME UNCHANGED <<service, ttsVars>>, service # "tts"
      PROVE  IF service' = "tts" THEN TTSInv' ELSE WaitInv' /\ sent' = <<>>
  BY <1>2 DEF ttsVars, WaitInv
<1>3. ASSUME UNCHANGED <<service, asrVars>>, service # "asr"
      PROVE  IF service' = "asr" THEN ASRInv' ELSE returned' = {}
  BY <1>3 DEF asrVars
<1>4. ASSUME UNCHANGED <<service, serverVars>>
      PROVE  /\ LMInv' /\ InputIsDelayed' /\ FrameIsWhole'
             /\ IF service' = "tts" THEN TTSInv' ELSE WaitInv' /\ sent' = <<>>
             /\ IF service' = "asr" THEN ASRInv' ELSE returned' = {}
  <2>1. UNCHANGED <<lmVars, ttsVars, asrVars>>
    BY <1>4 DEF serverVars
  <2>2. UNCHANGED <<lm, session, since, ran, input, output>>
    BY <2>1 DEF lmVars
  <2>3. CASE service = "tts"
    BY <1>3, <1>4, <2>1, <2>2, <2>3, LMRests, TTSRests
  <2>4. CASE service = "asr"
    BY <1>2, <1>4, <2>1, <2>2, <2>4, LMRests, ASRRests
  <2>5. CASE service \notin {"tts", "asr"}
    BY <1>2, <1>3, <1>4, <2>1, <2>2, <2>5, LMRests
  <2> QED
    BY <2>3, <2>4, <2>5
<1>5. CASE service = "dialogue" /\ DialogueStep /\ UNCHANGED <<service, forwardVars, ttsVars, asrVars>>
  BY <1>1, <1>2, <1>3, <1>5, DialogueStepSafe
<1>6. CASE service = "tts" /\ TTSNext /\ UNCHANGED <<service, forwardVars, asrVars>>
  <2>1. TTSInv' /\ LMInv' /\ InputIsDelayed' /\ FrameIsWhole'
    <3>1. CASE TTSStep
      BY <1>6, <3>1, TTSStepSafe
    <3>2. CASE TTSSend
      <4>1. UNCHANGED <<lm, session, since, ran, input, output>>
        BY <3>2 DEF TTSSend
      <4> QED
        BY <1>6, <3>2, <4>1, TTSSendSafe, LMRests
    <3>3. ASSUME NEW r \in Rows, TTSConnect(r) PROVE TTSInv' /\ LMInv' /\ InputIsDelayed' /\ FrameIsWhole'
      <4>1. UNCHANGED <<lm, session, since, ran, input, output>>
        BY <3>3 DEF TTSConnect, lmVars
      <4> QED
        BY <1>6, <3>3, <4>1, TTSConnectSafe, LMRests
    <3> QED
      BY <1>6, <3>1, <3>2, <3>3 DEF TTSNext
  <2> QED
    BY <1>1, <1>3, <1>6, <2>1
<1>7. CASE service = "asr" /\ ASRNext /\ UNCHANGED <<service, forwardVars, ttsVars>>
  <2>1. ASRInv' /\ LMInv' /\ InputIsDelayed' /\ FrameIsWhole'
    <3>1. CASE ASRStep
      BY <1>7, <3>1, ASRStepSafe
    <3>2. CASE ASRSend
      <4>1. UNCHANGED <<lm, session, since, ran, input, output>>
        BY <3>2 DEF ASRSend
      <4> QED
        BY <1>7, <3>2, <4>1, ASRSendSafe, LMRests
    <3>3. CASE \E r \in Rows : ASRConnect(r)
      <4>1. UNCHANGED <<lm, session, since, ran, input, output>>
        BY <3>3 DEF ASRConnect, lmVars
      <4> QED
        BY <1>7, <3>3, <4>1, ListenerConnects, LMRests
    <3> QED
      BY <1>7, <3>1, <3>2, <3>3 DEF ASRNext
  <2> QED
    BY <1>1, <1>2, <1>7, <2>1
<1>8. CASE service = "forward" /\ ForwardNext /\ UNCHANGED <<service, serverVars>>
  BY <1>4, <1>8, ForwardSteps
<1>9. CASE UNCHANGED <<service, serverVars, forwardVars>>
  BY <1>1, <1>4, <1>9
<1> HIDE DEF ModelInv
<1> QED
  BY <1>5, <1>6, <1>7, <1>8, <1>9 DEF Next, Server, vars

LEMMA ModelIsSound == Spec => []ModelInv
BY ModelStarts, ModelSteps, PTL DEF Spec

\* What the model reads and returns in a step is the delayed sequence of the row's
\* own session, whatever the other rows do, its prepended condition comes once, and
\* forward gives the logits of the same inputs (LMGen._step, LMModel.forward): for
\* any batch, any delay and any length of the sessions.
THEOREM StreamIsSoundHolds == Spec => []StreamIsSound
BY ModelIsSound, ModelFact, PTL

\* Of the services that moshi-server runs, the one that speaks sends each client the
\* frames of its own words, in order and to the last, and has no one wait for others
\* longer than it says; the one that listens returns a marker when the model has
\* heard what came before it (TTSService.step, ASRService.step): for any batch and
\* any number of clients.
THEOREM ServedTheirOwnHolds == Spec => []ServedTheirOwn
BY ModelIsSound, ModelFact, PTL
===============================================================================
