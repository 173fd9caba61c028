--------------------------- MODULE BatchSlots_proofs ---------------------------
(***************************************************************************)
(* TypeOK, ConditionIsOwn and TokensAreOwn of BatchSlots for every batch   *)
(* size and delay; NeverUngenerated and BoundedLoss for the delay 1 of the *)
(* shipped model (configs/moshirag.json); TraceIsAligned and               *)
(* ReferencesInOrder of OfflineJobs for a batch of one file.               *)
(***************************************************************************)
EXTENDS OfflineJobs, FiniteSetTheorems, SequenceTheorems, TLAPS

\* An occupant holds at most one slot, and one from acquire_slot to release_slot.
Held ==
  /\ \A b, c \in Slots : slots[b] = slots[c] /\ ~IsFree(b) => b = c
  /\ \A b \in Slots : ~IsFree(b) => life[slots[b]] # "new"
  /\ \A o \in Occupants :
       life[o] \in {"starting", "running", "closing"} => \E b \in Slots : slots[b] = o

\* Frames are taken after they are put, and put by a running occupant.
Frames ==
  \A o \in Occupants : /\ taken[o] <= fed[o]
                       /\ life[o] \in {"new", "starting"} => fed[o] = 0

\* What is staged for, and was added to, a slot in use is its occupant's.
Own ==
  \A b \in Slots :
    ~IsFree(b) /\ taken[slots[b]] > 0 =>
      /\ pending[b].of \in {slots[b], Nobody}
      /\ condition[b] \in {slots[b], Nobody}

\* A slot counts the frames that its occupant has had, and its cache holds tokens.
Tallied ==
  /\ \A b \in Slots : ~IsFree(b) /\ taken[slots[b]] > 0 => offsets[b] > 0
  /\ \A b \in Slots, i \in 0 .. CT - 1 : cache[b][i] # Ungenerated

IInv == TypeOK /\ Held /\ Frames /\ Own /\ Tallied

-------------------------------------------------------------------------------
(* Lemmas *)

USE ParametersAssumption

LEMMA NobodyFact == Nobody \notin Occupants
OBVIOUS

\* A position of the circular cache.
LEMMA CacheIndex ==
  ASSUME NEW n \in Nat
  PROVE  n % CT \in 0 .. CT - 1
<1>1. CT \in Nat /\ CT > 0
  BY DEF CT
<1> QED
  BY <1>1

\* The slot of an occupant that holds one.
LEMMA SlotOfFact ==
  ASSUME Held, NEW o \in Occupants, NEW b \in Slots, slots[b] = o
  PROVE  SlotOf(o) = b
<1>1. SlotOf(o) \in Slots /\ slots[SlotOf(o)] = o
  BY DEF SlotOf
<1> QED
  BY <1>1, NobodyFact DEF Held, IsFree

\* Of a slot in use, a step takes a frame exactly if the slot is active.
LEMMA TakenFact ==
  ASSUME TypeOK, Held, Step, NEW b \in Slots, ~IsFree(b)
  PROVE  taken'[slots[b]] = IF b \in Active THEN taken[slots[b]] + 1 ELSE taken[slots[b]]
<1>1. slots[b] \in Occupants
  BY DEF TypeOK, IsFree
<1>2. (\E c \in Active : slots[c] = slots[b]) <=> b \in Active
  BY DEF Held, Active
<1> QED
  BY <1>1, <1>2 DEF Step

\* An active slot has an occupant with a frame that is not taken yet.
LEMMA ActiveFact ==
  ASSUME TypeOK, NEW b \in Active
  PROVE  /\ b \in Slots /\ ~IsFree(b) /\ slots[b] \in Occupants
         /\ taken[slots[b]] < fed[slots[b]] /\ taken[slots[b]] + 1 \in 1 .. MaxFrames
         /\ b \notin First => taken[slots[b]] > 0
BY DEF TypeOK, Active, First, IsFree

-------------------------------------------------------------------------------
(* The step of the batch *)

\* The references: whose they are, and what is left of them.
LEMMA ApplyFacts ==
  ASSUME IInv, Step
  PROVE  /\ pending' \in [Slots -> [of : Occupants \cup {Nobody}, left : 0 .. RefLen]]
         /\ condition' \in [Slots -> Occupants \cup {Nobody}]
         /\ Own'
<1> DEFINE staged == PendingReset(First)
<1>1. staged \in [Slots -> [of : Occupants \cup {Nobody}, left : 0 .. RefLen]]
  BY DEF IInv, TypeOK, PendingReset, NoReference
<1>2. \A b \in Active : staged[b].of \in {slots[b], Nobody}
  <2> TAKE b \in Active
  <2>1. CASE b \in First
    BY <2>1, ActiveFact DEF IInv, PendingReset, NoReference
  <2>2. CASE b \notin First
    BY <2>2, ActiveFact DEF IInv, Own, PendingReset
  <2> QED
    BY <2>1, <2>2
<1>3. \A b \in Slots \ First : staged[b] = pending[b]
  BY DEF PendingReset
<1>4. ApplyPending(staged) /\ slots' = slots
  BY DEF Step
<1>5. First \subseteq Active
  BY DEF First
<1> HIDE DEF staged
<1>6. condition' = [b \in Slots |-> IF b \in Active THEN staged[b].of ELSE condition[b]]
  BY <1>4 DEF ApplyPending
<1>7. ASSUME NEW b \in Slots
      PROVE  /\ pending'[b] \in [of : Occupants \cup {Nobody}, left : 0 .. RefLen]
             /\ pending'[b].of \in {staged[b].of, Nobody}
             /\ b \notin Active => pending'[b] = staged[b]
  <2>1. /\ staged[b] \in [of : Occupants \cup {Nobody}, left : 0 .. RefLen]
        /\ staged[b].left \in 0 .. RefLen
    BY <1>1
  <2>2. pending'[b] = IF b \notin Active \/ staged[b].left = 0 THEN staged[b]
                      ELSE IF staged[b].left = 1 THEN NoReference
                      ELSE [staged[b] EXCEPT !.left = @ - 1]
    BY <1>4 DEF ApplyPending
  <2>3. staged[b].left # 0 /\ staged[b].left # 1 =>
          [staged[b] EXCEPT !.left = @ - 1] \in [of : Occupants \cup {Nobody}, left : 0 .. RefLen]
    BY <2>1
  <2>4. [staged[b] EXCEPT !.left = @ - 1].of = staged[b].of
    BY <2>1
  <2>5. /\ NoReference \in [of : Occupants \cup {Nobody}, left : 0 .. RefLen]
        /\ NoReference.of = Nobody
    BY DEF NoReference
  <2> QED
    BY <2>1, <2>2, <2>3, <2>4, <2>5
<1>8. pending' \in [Slots -> [of : Occupants \cup {Nobody}, left : 0 .. RefLen]]
  <2>1. pending' = [b \in Slots |-> pending'[b]]
    BY <1>4 DEF ApplyPending
  <2> QED
    BY <1>7, <2>1
<1>9. condition' \in [Slots -> Occupants \cup {Nobody}]
  BY <1>1, <1>6 DEF IInv, TypeOK
<1>10. Own'
  <2> SUFFICES ASSUME NEW b \in Slots, ~IsFree(b), taken'[slots[b]] > 0
               PROVE  /\ pending'[b].of \in {slots[b], Nobody}
                      /\ condition'[b] \in {slots[b], Nobody}
    BY <1>4 DEF Own, IsFree
  <2>1. CASE b \in Active
    BY <2>1, <1>2, <1>6, <1>7
  <2>2. CASE b \notin Active
    <3>1. taken[slots[b]] > 0
      BY <2>2, TakenFact DEF IInv
    <3>2. staged[b] = pending[b]
      BY <2>2, <1>3, <1>5
    <3> QED
      BY <2>2, <3>1, <3>2, <1>6, <1>7 DEF IInv, Own
  <2> QED
    BY <2>1, <2>2
<1> QED
  BY <1>8, <1>9, <1>10

\* The offsets and the cache.
LEMMA SampleFacts ==
  ASSUME IInv, Step
  PROVE  /\ offsets' \in [Slots -> Nat]
         /\ cache' \in [Slots -> [0 .. CT - 1 -> Cell]]
         /\ Tallied'
         /\ \A b \in Active \ First : offsets'[b] > 1
<1> DEFINE start == OffsetsReset(First)
           cells == CacheReset(First)
<1>1. start \in [Slots -> Nat]
  BY DEF IInv, TypeOK, OffsetsReset
<1>2. /\ cells \in [Slots -> [0 .. CT - 1 -> Cell]]
      /\ \A b \in Slots, i \in 0 .. CT - 1 : cells[b][i] # Ungenerated
  <2>1. ZeroToken \in Cell /\ ZeroToken # Ungenerated
    BY DEF Cell, ZeroToken, Ungenerated
  <2>2. CASE First = {}
    BY <2>2 DEF IInv, TypeOK, Tallied, CacheReset
  <2>3. CASE First # {}
    BY <2>1, <2>3 DEF CacheReset
  <2> QED
    BY <2>2, <2>3
<1>3. \A b \in Slots \ First : start[b] = offsets[b]
  BY DEF OffsetsReset
<1>4. Sample(start, cells) /\ slots' = slots
  BY DEF Step
<1>5. First \subseteq Active /\ Active \subseteq Slots
  BY DEF First, Active
<1> HIDE DEF start, cells
<1>6. offsets' = [b \in Slots |-> IF b \in Active THEN start[b] + 1 ELSE start[b]]
  BY <1>4 DEF Sample
<1>7. offsets' \in [Slots -> Nat]
  BY <1>1, <1>6
<1>8. \A b \in Active : /\ <<slots[b], taken[slots[b]] + 1>> \in Cell
                        /\ <<slots[b], taken[slots[b]] + 1>> # Ungenerated
  BY ActiveFact, NobodyFact DEF IInv, Cell, Token, Ungenerated
<1>9. ASSUME NEW b \in Slots
      PROVE  /\ cache'[b] \in [0 .. CT - 1 -> Cell]
             /\ \A i \in 0 .. CT - 1 : cache'[b][i] # Ungenerated
  <2>1. offsets'[b] % CT \in 0 .. CT - 1
    BY <1>7, CacheIndex
  <2>2. cache'[b] = IF b \in Active
                    THEN [cells[b] EXCEPT ![offsets'[b] % CT] = <<slots[b], taken[slots[b]] + 1>>]
                    ELSE cells[b]
    BY <1>4 DEF Sample
  <2> QED
    BY <1>2, <1>8, <2>1, <2>2
<1>10. cache' \in [Slots -> [0 .. CT - 1 -> Cell]]
  <2>1. cache' = [b \in Slots |-> cache'[b]]
    BY <1>4 DEF Sample
  <2> QED
    BY <1>9, <2>1
<1>11. \A b \in Active \ First : offsets'[b] > 1
  <2> TAKE b \in Active \ First
  <2>1. b \in Slots /\ offsets[b] > 0 /\ start[b] = offsets[b] /\ offsets[b] \in Nat
    BY <1>3, ActiveFact DEF IInv, Tallied, TypeOK
  <2> QED
    BY <1>6, <2>1
<1>12. ASSUME NEW b \in Slots, ~IsFree(b), taken'[slots[b]] > 0
       PROVE  offsets'[b] > 0
  <2>1. CASE b \in Active
    BY <2>1, <1>1, <1>6
  <2>2. CASE b \notin Active
    <3>1. taken[slots[b]] > 0
      BY <1>12, <2>2, TakenFact DEF IInv
    <3> QED
      BY <1>12, <2>2, <3>1, <1>3, <1>5, <1>6 DEF IInv, Tallied
  <2> QED
    BY <2>1, <2>2
<1> QED
  BY <1>4, <1>7, <1>9, <1>10, <1>11, <1>12 DEF Tallied, IsFree

\* What comes out of a slot is a token or nothing yet; it is a token if the
\* delay is 1 and the rows are delivered.
LEMMA OutputFacts ==
  ASSUME IInv, Step, NEW b \in Active
  PROVE  /\ Output(b) \in Cell
         /\ MaxDelay = 1 /\ Delivers => Output(b) # Ungenerated
<1>1. b \in Slots
  BY DEF Active
<1>2. offsets'[b] \in Nat /\ cache'[b] \in [0 .. CT - 1 -> Cell]
  BY <1>1, SampleFacts
<1>3. ASSUME offsets'[b] > MaxDelay
      PROVE  Output(b) \in Cell /\ Output(b) # Ungenerated
  <2>1. offsets'[b] - MaxDelay \in Nat
    BY <1>2, <1>3
  <2>2. (offsets'[b] - MaxDelay) % CT \in 0 .. CT - 1
    BY <2>1, CacheIndex
  <2>3. Output(b) = cache'[b][(offsets'[b] - MaxDelay) % CT]
    BY <1>2, <1>3 DEF Output
  <2>4. \A i \in 0 .. CT - 1 : cache'[b][i] # Ungenerated
    BY <1>1, SampleFacts DEF Tallied
  <2> QED
    BY <1>2, <2>2, <2>3, <2>4
<1>4. ASSUME MaxDelay = 1, Delivers
      PROVE  offsets'[b] > MaxDelay
  <2>1. First = {}
    <3>1. First # {} => offsetCpu' = 1
      BY DEF Step, OffsetCpuReset
    <3> QED
      BY <1>4, <3>1 DEF Delivers
  <2> QED
    BY <1>4, <2>1, SampleFacts
<1>5. offsets'[b] <= MaxDelay => Output(b) = Ungenerated /\ Ungenerated \in Cell
  BY DEF Output, Cell
<1> QED
  BY <1>2, <1>3, <1>4, <1>5

LEMMA StepType ==
  ASSUME IInv, Step
  PROVE  TypeOK' /\ Frames'
<1>1. \A o \in Occupants : taken'[o] \in 0 .. MaxFrames /\ taken'[o] <= fed[o]
  <2> TAKE o \in Occupants
  <2>1. (\E b \in Active : slots[b] = o) => taken[o] < fed[o]
    BY ActiveFact DEF IInv
  <2> QED
    BY <2>1 DEF Step, IInv, TypeOK, Frames
<1>2. taken' \in [Occupants -> 0 .. MaxFrames]
  BY <1>1 DEF Step
<1>3. offsetCpu' \in 0 .. MaxDelay + 1
  BY DEF Step, IInv, TypeOK, OffsetCpuReset
<1>4. \A o \in Occupants, b \in Active : slots[b] = o => SlotOf(o) = b
  BY SlotOfFact DEF IInv, Active
<1>5. got' \in [Occupants -> Seq(Cell)]
  <2>1. ASSUME NEW o \in Occupants PROVE got'[o] \in Seq(Cell)
    <3>1. got[o] \in Seq(Cell)
      BY DEF IInv, TypeOK
    <3>2. CASE Delivers /\ \E b \in Active : slots[b] = o
      <4>1. PICK b \in Active : slots[b] = o
        BY <3>2
      <4>2. Output(SlotOf(o)) \in Cell
        BY <4>1, <1>4, OutputFacts
      <4> QED
        BY <3>1, <3>2, <4>2 DEF Step, Deliver
    <3>3. CASE ~(Delivers /\ \E b \in Active : slots[b] = o)
      BY <3>1, <3>3 DEF Step, Deliver
    <3> QED
      BY <3>2, <3>3
  <2> QED
    BY <2>1 DEF Step, Deliver
<1>6. slots' = slots /\ life' = life /\ fed' = fed
  BY DEF Step
<1> QED
  BY <1>1, <1>2, <1>3, <1>5, <1>6, ApplyFacts, SampleFacts DEF IInv, TypeOK, Frames

LEMMA StepIInv == IInv /\ Step => IInv'
<1> SUFFICES ASSUME IInv, Step PROVE IInv'
  OBVIOUS
<1>1. Held'
  BY DEF IInv, Held, Step, IsFree
<1> QED
  BY <1>1, StepType, ApplyFacts, SampleFacts DEF IInv

-------------------------------------------------------------------------------
(* The occupants *)

LEMMA InitIInv == Init => IInv
<1> SUFFICES ASSUME Init PROVE IInv
  OBVIOUS
<1>1. cache \in [Slots -> [0 .. CT - 1 -> Cell]]
  BY DEF Init, Cell
<1>2. \A b \in Slots, i \in 0 .. CT - 1 : cache[b][i] # Ungenerated
  BY DEF Init, ZeroToken, Ungenerated
<1>3. TypeOK
  BY <1>1 DEF Init, TypeOK, Life, NoReference
<1> QED
  BY <1>2, <1>3 DEF Init, IInv, Held, Frames, Own, Tallied, IsFree

LEMMA OccupantIInv ==
  ASSUME IInv, NEW o \in Occupants, Channel(o)
  PROVE  IInv'
<1>1. ASSUME Acquire(o) PROVE IInv'
  <2>1. PICK s \in Slots : IsFree(s) /\ slots' = [slots EXCEPT ![s] = o]
    BY <1>1 DEF Acquire
  <2>2. /\ life' = [life EXCEPT ![o] = "starting"] /\ life[o] = "new"
        /\ UNCHANGED <<fed, taken, got, lmVars>>
    BY <1>1 DEF Acquire
  <2>3. taken[o] = 0
    BY <2>2 DEF IInv, TypeOK, Frames
  <2>4. TypeOK'
    BY <2>1, <2>2 DEF IInv, TypeOK, Life, lmVars
  <2>5. Held'
    BY <2>1, <2>2, NobodyFact DEF IInv, Held, TypeOK, IsFree
  <2>6. Frames'
    BY <2>2 DEF IInv, TypeOK, Frames
  <2>7. Own' /\ Tallied'
    BY <2>1, <2>2, <2>3 DEF IInv, TypeOK, Own, Tallied, IsFree, lmVars
  <2> QED
    BY <2>4, <2>5, <2>6, <2>7 DEF IInv
<1>2. ASSUME Reject(o) \/ StartUp(o) \/ StartUpFails(o) \/ Close(o) PROVE IInv'
  <2>1. /\ \E l \in {"gone", "running", "closing"} : life' = [life EXCEPT ![o] = l]
        /\ life'[o] = "running" => life[o] = "starting"
        /\ life'[o] = "closing" => life[o] = "running"
        /\ UNCHANGED <<slots, fed, taken, got, lmVars>>
    BY <1>2 DEF Reject, StartUp, StartUpFails, Close, IInv, TypeOK
  <2>2. TypeOK'
    BY <2>1 DEF IInv, TypeOK, Life, lmVars
  <2>3. Held' /\ Frames'
    BY <2>1 DEF IInv, Held, Frames, TypeOK, IsFree
  <2>4. Own' /\ Tallied'
    BY <2>1 DEF IInv, Own, Tallied, IsFree, lmVars
  <2> QED
    BY <2>2, <2>3, <2>4 DEF IInv
<1>3. ASSUME Feed(o) PROVE IInv'
  <2>1. /\ fed' = [fed EXCEPT ![o] = @ + 1] /\ fed[o] < MaxFrames /\ life[o] = "running"
        /\ UNCHANGED <<slots, life, taken, got, lmVars>>
    BY <1>3 DEF Feed
  <2>2. TypeOK' /\ Frames'
    BY <2>1 DEF IInv, TypeOK, Frames, lmVars
  <2> QED
    BY <2>1, <2>2 DEF IInv, Held, Own, Tallied, IsFree, lmVars
<1>4. ASSUME UpdateReference(o) PROVE IInv'
  <2>1. SlotOf(o) \in Slots /\ slots[SlotOf(o)] = o
    BY <1>4 DEF UpdateReference, IInv, Held, SlotOf
  <2>2. /\ pending' = [pending EXCEPT ![SlotOf(o)] = [of |-> o, left |-> RefLen]]
        /\ UNCHANGED <<slots, occVars, offsets, offsetCpu, cache, condition>>
    BY <1>4 DEF UpdateReference
  <2>3. TypeOK'
    BY <2>1, <2>2 DEF IInv, TypeOK, occVars
  <2>4. Own'
    BY <2>1, <2>2 DEF IInv, TypeOK, Own, IsFree, occVars
  <2> QED
    BY <2>2, <2>3, <2>4 DEF IInv, Held, Frames, Tallied, IsFree, occVars
<1>5. ASSUME Release(o) PROVE IInv'
  <2>1. SlotOf(o) \in Slots /\ slots[SlotOf(o)] = o
    BY <1>5 DEF Release, IInv, Held, SlotOf
  <2>2. /\ slots' = [slots EXCEPT ![SlotOf(o)] = Nobody]
        /\ life' = [life EXCEPT ![o] = "gone"] /\ life[o] = "closing"
        /\ UNCHANGED <<fed, taken, got, lmVars>>
    BY <1>5 DEF Release
  <2>3. TypeOK'
    BY <2>1, <2>2 DEF IInv, TypeOK, Life, lmVars
  <2>4. Held'
    BY <2>1, <2>2, NobodyFact DEF IInv, Held, TypeOK, IsFree
  <2>5. Frames' /\ Own' /\ Tallied'
    BY <2>1, <2>2, NobodyFact DEF IInv, TypeOK, Frames, Own, Tallied, IsFree, lmVars
  <2> QED
    BY <2>3, <2>4, <2>5 DEF IInv
<1> QED
  BY <1>1, <1>2, <1>3, <1>4, <1>5 DEF Channel

LEMMA NextIInv == IInv /\ [Next]_vars => IInv'
<1>1. IInv /\ UNCHANGED vars => IInv'
  BY DEF vars, occVars, lmVars, IInv, TypeOK, Held, Frames, Own, Tallied, IsFree
<1> QED
  BY <1>1, StepIInv, OccupantIInv DEF Next

\* Every reachable state satisfies the inductive invariant.
LEMMA SpecIInv == Spec => []IInv
<1> QED
  BY InitIInv, NextIInv, PTL DEF Spec

-------------------------------------------------------------------------------
(* Theorems *)

\* Slots, queues, offsets, caches and references keep their type for every number
\* of occupants, batch size and delay; what is delivered is a cell of the cache.
THEOREM TypeOKHolds == Spec => []TypeOK
<1>1. IInv => TypeOK
  BY DEF IInv
<1> QED
  BY <1>1, SpecIInv, PTL

\* No occupant is ever conditioned by the reference of the one that had its slot
\* before, or of a neighbour (_reset_callback, lm.py:699-712).
THEOREM ConditionIsOwnHolds == Spec => []ConditionIsOwn
<1>1. IInv => ConditionIsOwn
  BY DEF IInv, Own, ConditionIsOwn
<1> QED
  BY <1>1, SpecIInv, PTL

\* With the delay of the shipped model no ungenerated token reaches a channel,
\* although each slot has an offset of its own and the guard in _step reads the one
\* of the batch (lm.py:871-879).
THEOREM NeverUngeneratedHolds ==
  ASSUME MaxDelay = 1
  PROVE  Spec => []NeverUngenerated
<1>1. Init => NeverUngenerated
  BY DEF Init, NeverUngenerated
<1>2. IInv /\ NeverUngenerated /\ [Next]_vars => NeverUngenerated'
  <2> SUFFICES ASSUME IInv, NeverUngenerated, [Next]_vars PROVE NeverUngenerated'
    OBVIOUS
  <2>1. CASE got' = got
    BY <2>1 DEF NeverUngenerated
  <2>2. CASE Step
    <3> SUFFICES ASSUME NEW o \in Occupants PROVE \A i \in DOMAIN got'[o] : got'[o][i] # Ungenerated
      BY DEF NeverUngenerated
    <3>1. got[o] \in Seq(Cell) /\ \A i \in DOMAIN got[o] : got[o][i] # Ungenerated
      BY DEF IInv, TypeOK, NeverUngenerated
    <3>2. CASE Delivers /\ \E b \in Active : slots[b] = o
      <4>1. PICK b \in Active : slots[b] = o
        BY <3>2
      <4>2. SlotOf(o) = b
        BY <4>1, SlotOfFact DEF IInv, Active
      <4>3. Output(b) \in Cell /\ Output(b) # Ungenerated
        BY <2>2, <3>2, OutputFacts
      <4>4. got'[o] = Append(got[o], Output(b))
        BY <2>2, <3>2, <4>2 DEF Step, Deliver
      <4> QED
        BY <3>1, <4>3, <4>4
    <3>3. CASE ~(Delivers /\ \E b \in Active : slots[b] = o)
      BY <2>2, <3>1, <3>3 DEF Step, Deliver
    <3> QED
      BY <3>2, <3>3
  <2>3. CASE \E o \in Occupants : Channel(o)
    BY <2>1, <2>3 DEF Channel, Acquire, Reject, StartUp, StartUpFails, Feed, UpdateReference,
                      Close, Release, occVars
  <2>4. CASE UNCHANGED vars
    BY <2>1, <2>4 DEF vars, occVars
  <2> QED
    BY <2>2, <2>3, <2>4 DEF Next
<1> QED
  BY <1>1, <1>2, SpecIInv, PTL DEF Spec

-------------------------------------------------------------------------------
(* Whose tokens are delivered *)

\* Of a slot in use: its offset is the number of the last frame, and the cells that a
\* step still reads hold what was sampled for it at their position, or were cleared.
Cached ==
  \A b \in Slots :
    ~IsFree(b) /\ taken[slots[b]] > 0 =>
      /\ offsets[b] = taken[slots[b]]
      /\ \A p \in 1 .. offsets[b] :
           p > offsets[b] - CT => cache[b][p % CT] \in {ZeroToken, <<slots[b], p>>}

\* Of what was delivered: it is the occupant's, and as late as the delay says.
Delivered ==
  \A o \in Occupants : \A i \in DOMAIN got[o] :
    IsToken(got[o][i]) => got[o][i][1] = o /\ got[o][i][2] \in 1 .. taken[o] - MaxDelay

TInv == IInv /\ Cached /\ Delivered /\ TokensAreOwn

\* Positions that are less than a turn apart have cells of their own.
LEMMA RingFact ==
  ASSUME NEW p \in Nat, NEW n \in Nat, p < n, n - p < CT
  PROVE  p % CT # n % CT
<1> SUFFICES ASSUME p % CT = n % CT PROVE FALSE
  OBVIOUS
<1>1. CT \in Nat \ {0}
  BY DEF CT
<1> DEFINE before == p \div CT
           after  == n \div CT
<1>2. /\ before \in Int /\ after \in Int /\ p % CT \in Int
      /\ p = CT * before + (p % CT) /\ n = CT * after + (n % CT)
  BY <1>1
<1> HIDE DEF before, after
<1>3. n - p = CT * (after - before)
  BY <1>1, <1>2
<1>4. CASE after - before >= 1
  <2>1. CT * (after - before) >= CT
    BY <1>1, <1>2, <1>4
  <2> QED
    BY <1>1, <1>3, <2>1
<1>5. CASE after - before <= 0
  <2>1. CT * (after - before) <= 0
    BY <1>1, <1>2, <1>5
  <2> QED
    BY <1>1, <1>3, <2>1
<1> QED
  BY <1>2, <1>4, <1>5

LEMMA StepCached == ASSUME IInv, Cached, Step PROVE Cached'
<1> DEFINE start == OffsetsReset(First)
           cells == CacheReset(First)
<1>1. CT \in Nat \ {0} /\ slots' = slots /\ First \subseteq Active /\ Active \subseteq Slots
  BY DEF CT, Step, First, Active
<1> SUFFICES ASSUME NEW b \in Slots, ~IsFree(b), taken'[slots[b]] > 0
             PROVE  /\ offsets'[b] = taken'[slots[b]]
                    /\ \A p \in 1 .. offsets'[b] :
                         p > offsets'[b] - CT => cache'[b][p % CT] \in {ZeroToken, <<slots[b], p>>}
  BY <1>1 DEF Cached, IsFree
<1>2. /\ offsets' = [c \in Slots |-> IF c \in Active THEN start[c] + 1 ELSE start[c]]
      /\ cache'[b] = IF b \in Active
                     THEN [cells[b] EXCEPT ![offsets'[b] % CT] = <<slots[b], taken[slots[b]] + 1>>]
                     ELSE cells[b]
  BY DEF Step, Sample
<1>3. /\ start[b] = (IF b \in First THEN 0 ELSE offsets[b])
      /\ \A i \in 0 .. CT - 1 : cells[b][i] \in {ZeroToken, cache[b][i]}
      /\ DOMAIN cells[b] = 0 .. CT - 1
  <2>1. cache[b] \in [0 .. CT - 1 -> Cell]
    BY DEF IInv, TypeOK
  <2> QED
    BY <2>1 DEF OffsetsReset, CacheReset
<1> HIDE DEF start, cells
<1>4. slots[b] \in Occupants /\ taken[slots[b]] \in Nat /\ offsets[b] \in Nat
  BY DEF IInv, TypeOK, IsFree
<1>5. taken'[slots[b]] = IF b \in Active THEN taken[slots[b]] + 1 ELSE taken[slots[b]]
  BY TakenFact DEF IInv
<1>6. b \in First => taken[slots[b]] = 0
  BY DEF First
<1>7. b \notin First => taken[slots[b]] > 0
  BY <1>4, <1>5 DEF First
<1>8. start[b] = taken[slots[b]]
  BY <1>3, <1>6, <1>7 DEF Cached
<1>9. offsets'[b] = taken'[slots[b]]
  BY <1>2, <1>5, <1>8
<1>10. ASSUME NEW p \in 1 .. start[b], p > start[b] - CT
       PROVE  cells[b][p % CT] \in {ZeroToken, <<slots[b], p>>}
  <2>1. p % CT \in 0 .. CT - 1
    BY <1>4, <1>8, CacheIndex
  <2>2. b \notin First /\ start[b] = offsets[b]
    BY <1>3, <1>4, <1>10
  <2>3. cache[b][p % CT] \in {ZeroToken, <<slots[b], p>>}
    BY <1>7, <1>10, <2>2 DEF Cached
  <2> QED
    BY <1>3, <2>1, <2>3
<1>11. CASE b \in Active
  <2>1. offsets'[b] = start[b] + 1 /\ start[b] \in Nat
    BY <1>2, <1>4, <1>8, <1>11
  <2>2. offsets'[b] % CT \in 0 .. CT - 1
    BY <2>1, CacheIndex
  <2>3. ASSUME NEW p \in 1 .. offsets'[b], p > offsets'[b] - CT
        PROVE  cache'[b][p % CT] \in {ZeroToken, <<slots[b], p>>}
    <3>1. CASE p = offsets'[b]
      <4>1. cache'[b][offsets'[b] % CT] = <<slots[b], taken[slots[b]] + 1>>
        BY <1>2, <1>3, <1>11, <2>2
      <4>2. p = taken[slots[b]] + 1
        BY <1>8, <2>1, <3>1
      <4> QED
        BY <3>1, <4>1, <4>2, Zenon
    <3>2. CASE p # offsets'[b]
      <4>1. p \in Nat /\ p \in 1 .. start[b] /\ p > start[b] - CT /\ offsets'[b] \in Nat
            /\ p < offsets'[b] /\ offsets'[b] - p < CT
        BY <1>1, <2>1, <2>3, <3>2
      <4>2. p % CT # offsets'[b] % CT
        BY <4>1, RingFact
      <4>3. cache'[b][p % CT] = cells[b][p % CT]
        BY <1>2, <1>3, <1>11, <4>2
      <4> QED
        BY <1>10, <4>1, <4>3
    <3> QED
      BY <3>1, <3>2
  <2> QED
    BY <1>9, <2>3
<1>12. CASE b \notin Active
  BY <1>2, <1>9, <1>10, <1>12
<1> QED
  BY <1>11, <1>12

\* What comes out of a slot is its occupant's, of MaxDelay frames before.
LEMMA OutputIsOwn ==
  ASSUME IInv, Cached, Step, NEW b \in Active, IsToken(Output(b))
  PROVE  Output(b) = <<slots[b], taken'[slots[b]] - MaxDelay>> /\ taken'[slots[b]] - MaxDelay \in Nat \ {0}
<1>1. b \in Slots /\ ~IsFree(b) /\ slots[b] \in Occupants /\ taken[slots[b]] \in Nat /\ slots' = slots
  BY ActiveFact DEF IInv, TypeOK, Step
<1>2. taken'[slots[b]] = taken[slots[b]] + 1
  BY <1>1, TakenFact DEF IInv
<1>3. offsets'[b] = taken'[slots[b]] /\ ~IsFree(b)' /\ slots'[b] = slots[b]
  BY <1>1, <1>2, StepCached DEF Cached, IsFree
<1>4. offsets'[b] > MaxDelay /\ Output(b) = cache'[b][(offsets'[b] - MaxDelay) % CT]
  BY <1>1, <1>2, <1>3 DEF Output, IsToken
<1> DEFINE p == offsets'[b] - MaxDelay
<1>5. p \in 1 .. offsets'[b] /\ p > offsets'[b] - CT
  BY <1>1, <1>2, <1>3, <1>4 DEF CT
<1>6. cache'[b][p % CT] \in {ZeroToken, <<slots[b], p>>}
  BY <1>1, <1>2, <1>3, <1>5, StepCached DEF Cached
<1> QED
  BY <1>2, <1>3, <1>4, <1>5, <1>6 DEF IsToken

\* What a step delivers to an occupant.
LEMMA DeliverFact ==
  ASSUME IInv, Step, NEW o \in Occupants
  PROVE  \/ UNCHANGED <<got[o]>> /\ taken'[o] \in {taken[o], taken[o] + 1}
         \/ \E b \in Active : /\ slots[b] = o /\ Output(b) \in Cell
                              /\ got'[o] = Append(got[o], Output(b)) /\ taken'[o] = taken[o] + 1
<1>1. CASE Delivers /\ \E b \in Active : slots[b] = o
  <2>1. PICK b \in Active : slots[b] = o
    BY <1>1
  <2>2. SlotOf(o) = b
    BY <2>1, SlotOfFact DEF IInv, Active
  <2>3. got'[o] = Append(got[o], Output(b)) /\ taken'[o] = taken[o] + 1
    BY <1>1, <2>2 DEF Step, Deliver
  <2> QED
    BY <2>1, <2>3, OutputFacts
<1>2. CASE ~(Delivers /\ \E b \in Active : slots[b] = o)
  BY <1>2 DEF Step, Deliver
<1> QED
  BY <1>1, <1>2

LEMMA StepDelivered == ASSUME TInv, Step PROVE Delivered' /\ TokensAreOwn'
<1> SUFFICES ASSUME NEW o \in Occupants
             PROVE  \A i \in DOMAIN got'[o] : IsToken(got'[o][i]) =>
                      /\ got'[o][i][1] = o /\ got'[o][i][2] \in 1 .. taken'[o] - MaxDelay
                      /\ \A j \in 1 .. i - 1 : IsToken(got'[o][j]) => got'[o][j][2] < got'[o][i][2]
  BY DEF Delivered, TokensAreOwn
<1>1. /\ got[o] \in Seq(Cell) /\ taken[o] \in Nat
      /\ \A i \in DOMAIN got[o] : IsToken(got[o][i]) =>
           /\ got[o][i][1] = o /\ got[o][i][2] \in 1 .. taken[o] - MaxDelay
           /\ \A j \in 1 .. i - 1 : IsToken(got[o][j]) => got[o][j][2] < got[o][i][2]
  BY DEF TInv, IInv, TypeOK, Delivered, TokensAreOwn
<1>2. CASE UNCHANGED <<got[o]>> /\ taken'[o] \in {taken[o], taken[o] + 1}
  BY <1>1, <1>2
<1>3. ASSUME NEW b \in Active, slots[b] = o, Output(b) \in Cell,
             got'[o] = Append(got[o], Output(b)), taken'[o] = taken[o] + 1
      PROVE  \A i \in DOMAIN got'[o] : IsToken(got'[o][i]) =>
               /\ got'[o][i][1] = o /\ got'[o][i][2] \in 1 .. taken'[o] - MaxDelay
               /\ \A j \in 1 .. i - 1 : IsToken(got'[o][j]) => got'[o][j][2] < got'[o][i][2]
  <2> DEFINE n == Len(got[o]) + 1
  <2>1. /\ n \in Nat /\ DOMAIN got'[o] = 1 .. n /\ DOMAIN got[o] = 1 .. n - 1
        /\ got'[o][n] = Output(b) /\ \A i \in 1 .. n - 1 : got'[o][i] = got[o][i]
    BY <1>1, <1>3
  <2> HIDE DEF n
  <2>2. IsToken(Output(b)) =>
          /\ Output(b)[1] = o /\ Output(b)[2] = taken'[o] - MaxDelay
          /\ taken'[o] - MaxDelay \in 1 .. taken'[o] - MaxDelay
    BY <1>1, <1>3, OutputIsOwn DEF TInv
  <2>3. ASSUME NEW i \in 1 .. n - 1, IsToken(got'[o][i])
        PROVE  /\ got'[o][i][1] = o /\ got'[o][i][2] \in 1 .. taken[o] - MaxDelay
               /\ \A j \in 1 .. i - 1 : IsToken(got'[o][j]) => got'[o][j][2] < got'[o][i][2]
    <3>1. i \in DOMAIN got[o] /\ got'[o][i] = got[o][i] /\ \A j \in 1 .. i - 1 : got'[o][j] = got[o][j]
      BY <2>1
    <3> QED
      BY <1>1, <2>3, <3>1
  <2>4. CASE IsToken(Output(b))
    <3>1. ASSUME NEW i \in 1 .. n - 1, IsToken(got'[o][i])
          PROVE  got'[o][i][2] \in 1 .. taken'[o] - MaxDelay /\ got'[o][i][2] < Output(b)[2]
      <4>1. got'[o][i][2] \in 1 .. taken[o] - MaxDelay
        BY <2>3, <3>1
      <4>2. \A m \in 1 .. taken[o] - MaxDelay :
              m \in 1 .. taken'[o] - MaxDelay /\ m < taken'[o] - MaxDelay
        BY <1>1, <1>3
      <4>3. got'[o][i][2] \in 1 .. taken'[o] - MaxDelay /\ got'[o][i][2] < taken'[o] - MaxDelay
        BY <4>1, <4>2, Zenon
      <4> QED
        BY <2>2, <2>4, <4>3
    <3>2. \A i \in 1 .. n : i = n \/ i \in 1 .. n - 1
      BY <2>1
    <3> QED
      BY <2>1, <2>2, <2>3, <2>4, <3>1, <3>2
  <2>5. CASE ~IsToken(Output(b))
    <3>1. \A i \in 1 .. n : IsToken(got'[o][i]) => i \in 1 .. n - 1
      BY <2>1, <2>5
    <3>2. \A m \in 1 .. taken[o] - MaxDelay : m \in 1 .. taken'[o] - MaxDelay
      BY <1>1, <1>3
    <3> QED
      BY <2>1, <2>3, <3>1, <3>2
  <2> QED
    BY <2>4, <2>5
<1> QED
  BY <1>2, <1>3, DeliverFact DEF TInv

LEMMA OccupantTInv ==
  ASSUME TInv, NEW o \in Occupants, Channel(o)
  PROVE  Cached' /\ Delivered' /\ TokensAreOwn'
<1>1. UNCHANGED <<taken, got, offsets, cache>>
  BY DEF Channel, Acquire, Reject, StartUp, StartUpFails, Feed, UpdateReference, Close, Release,
         occVars, lmVars
<1>2. Delivered' /\ TokensAreOwn'
  BY <1>1 DEF TInv, Delivered, TokensAreOwn
<1>3. \A b \in Slots : ~IsFree(b)' /\ taken[slots'[b]] > 0 => slots'[b] = slots[b]
  <2>1. taken[o] = 0 \/ life[o] # "new"
    BY DEF TInv, IInv, TypeOK, Frames
  <2>2. SlotOf(o) \in Slots \/ ~Release(o)
    BY DEF Release, TInv, IInv, Held, SlotOf
  <2> QED
    BY <2>1, <2>2 DEF Channel, Acquire, Reject, StartUp, StartUpFails, Feed, UpdateReference,
                      Close, Release, occVars, lmVars, TInv, IInv, TypeOK, IsFree
<1>4. Cached'
  BY <1>1, <1>3 DEF TInv, Cached, IsFree
<1> QED
  BY <1>2, <1>4

\* Whatever the batch size, the delay and the order of starts, frames and releases:
\* every token that is delivered was sampled for a frame of the occupant it goes to, and
\* later tokens are of later frames, although slots are handed on and the cache is shared
\* with the rest of the batch (lm.py, _step; batch_runner.py, run_one_step).
THEOREM TokensAreOwnHolds == Spec => []TokensAreOwn
<1>1. Init => TInv
  <2>1. Init => Cached /\ Delivered /\ TokensAreOwn
    BY DEF Init, Cached, Delivered, TokensAreOwn, IsFree
  <2> QED
    BY <2>1, InitIInv DEF TInv
<1>2. ASSUME TInv, [Next]_vars PROVE TInv'
  <2>1. IInv'
    BY <1>2, NextIInv DEF TInv
  <2>2. CASE Step
    BY <1>2, <2>1, <2>2, StepCached, StepDelivered DEF TInv
  <2>3. CASE \E o \in Occupants : Channel(o)
    BY <1>2, <2>1, <2>3, OccupantTInv DEF TInv
  <2>4. CASE UNCHANGED vars
    BY <1>2, <2>1, <2>4 DEF TInv, Cached, Delivered, TokensAreOwn, IsFree, vars, occVars, lmVars
  <2> QED
    BY <1>2, <2>2, <2>3, <2>4 DEF Next
<1>3. TInv => TokensAreOwn
  BY DEF TInv
<1> QED
  BY <1>1, <1>2, <1>3, PTL DEF Spec

-------------------------------------------------------------------------------
(* How much is lost *)

\* Those whose first frame has been taken: each cleared the cache for everyone.
Started == {p \in Occupants : taken[p] > 0}

\* How much of the delay the whole batch has behind it.
Ramp == IF offsetCpu <= MaxDelay THEN offsetCpu ELSE MaxDelay

\* What the starts have cost an occupant, the last of them as far as it has run; with a
\* delay of one frame at most, nothing comes out before it.
Lossy ==
  \A o \in Occupants :
    /\ taken[o] = 0 => got[o] = <<>>
    /\ taken[o] > 0 => taken[o] - Len(got[o]) <= MaxDelay * (Cardinality(Started) - 1) + Ramp
    /\ taken[o] > 0 /\ MaxDelay <= 1 => Len(got[o]) <= taken[o] - MaxDelay

LInv == IInv /\ IsFiniteSet(Started) /\ Lossy

\* Every connection that starts costs the others at most MaxDelay outputs.
LossIsBounded ==
  \A o \in Occupants :
    taken[o] > 0 => Len(got[o]) >= taken[o] - MaxDelay * Cardinality(Started)

\* One more start pays for one more delay.
LEMMA DelayTimes ==
  ASSUME NEW a \in Int, NEW b \in Int, b >= a
  PROVE  MaxDelay * b >= MaxDelay * a /\ MaxDelay * (a + 1) = MaxDelay * a + MaxDelay
<1>1. b - a \in Nat /\ MaxDelay \in Nat
  OBVIOUS
<1>2. MaxDelay * (b - a) >= 0
  BY <1>1
<1>3. MaxDelay * b = MaxDelay * a + MaxDelay * (b - a)
  BY <1>1
<1> QED
  BY <1>1, <1>2, <1>3

\* A step adds the occupants of the slots that are reset to those that have started.
LEMMA StartedFact ==
  ASSUME IInv, Step, IsFiniteSet(Started)
  PROVE  /\ IsFiniteSet(Started') /\ Cardinality(Started) \in Nat /\ Cardinality(Started') \in Nat
         /\ First = {} => Started' = Started
         /\ First # {} => Cardinality(Started') >= Cardinality(Started) + 1
<1> DEFINE new == {slots[b] : b \in First}
<1>1. \A o \in Occupants : taken[o] \in Nat
  BY DEF IInv, TypeOK
<1>2. \A b \in First : b \in Active /\ slots[b] \in Occupants /\ taken[slots[b]] = 0
  BY ActiveFact DEF First, IInv
<1>3. \A o \in Occupants : taken'[o] > 0 <=> taken[o] > 0 \/ \E b \in Active : slots[b] = o
  BY <1>1 DEF Step
<1>4. \A o \in Occupants : o \notin Started => ((\E b \in Active : slots[b] = o) <=> o \in new)
  BY <1>1 DEF Started, First
<1>5. Started' = Started \cup new
  BY <1>2, <1>3, <1>4 DEF Started
<1>6. IsFiniteSet(new)
  <2> DEFINE f == [b \in First |-> slots[b]]
  <2>1. f \in Surjection(First, new)
    BY DEF Surjection
  <2>2. IsFiniteSet(First)
    <3>1. IsFiniteSet(Slots)
      BY FS_Interval DEF Slots
    <3>2. First \in SUBSET Slots
      BY DEF First, Active
    <3> QED
      BY <3>1, <3>2, FS_Subset
  <2> HIDE DEF f, new
  <2> QED
    BY <2>1, <2>2, FS_Surjection
<1>7. new = {} <=> First = {}
  OBVIOUS
<1>8. new \cap Started = {}
  BY <1>2 DEF Started
<1> HIDE DEF new
<1>9. IsFiniteSet(Started')
  BY <1>5, <1>6, FS_Union
<1>10. Cardinality(Started) \in Nat /\ Cardinality(Started') \in Nat
  BY <1>9, FS_CardinalityType
<1>11. First = {} => Started' = Started
  BY <1>5, <1>7
<1>12. ASSUME First # {} PROVE Cardinality(Started') >= Cardinality(Started) + 1
  <2>1. Started \in SUBSET Started' /\ Started # Started'
    BY <1>5, <1>7, <1>8, <1>12
  <2>2. /\ Cardinality(Started) <= Cardinality(Started')
        /\ Cardinality(Started') = Cardinality(Started) => Started' = Started
    BY <1>9, <2>1, FS_Subset
  <2> QED
    BY <1>10, <2>1, <2>2
<1> QED
  BY <1>9, <1>10, <1>11, <1>12

\* How the offset of the batch moves.
LEMMA RampFact ==
  ASSUME IInv, Step
  PROVE  /\ offsetCpu \in 0 .. MaxDelay + 1 /\ Ramp \in 0 .. MaxDelay /\ Ramp' \in 0 .. MaxDelay
         /\ First = {} => IF Delivers THEN Ramp' >= Ramp ELSE Ramp' = Ramp + 1
         /\ First # {} => offsetCpu' = 1 /\ (Delivers <=> MaxDelay = 0)
<1>1. offsetCpu \in 0 .. MaxDelay + 1 /\ offsetCpu' \in 0 .. MaxDelay + 1
  BY StepType DEF IInv, TypeOK
<1>2. First = {} => offsetCpu' = IF offsetCpu <= MaxDelay THEN offsetCpu + 1 ELSE offsetCpu
  BY DEF Step, OffsetCpuReset
<1>3. First # {} => offsetCpu' = 1
  BY DEF Step, OffsetCpuReset
<1> QED
  BY <1>1, <1>2, <1>3 DEF Ramp, Delivers

\* What a step takes from an occupant and gives to it.
LEMMA LenFact ==
  ASSUME IInv, Step, NEW o \in Occupants
  PROVE  /\ taken[o] \in Nat /\ Len(got[o]) \in Nat
         /\ \/ /\ ~\E b \in Active : slots[b] = o
               /\ taken'[o] = taken[o] /\ got'[o] = got[o]
            \/ /\ \E b \in Active : slots[b] = o
               /\ taken'[o] = taken[o] + 1
               /\ IF Delivers THEN Len(got'[o]) = Len(got[o]) + 1 ELSE got'[o] = got[o]
<1>1. taken[o] \in Nat /\ got[o] \in Seq(Cell)
  BY DEF IInv, TypeOK
<1>2. CASE \E b \in Active : slots[b] = o
  <2>1. taken'[o] = taken[o] + 1
    BY <1>2 DEF Step
  <2>2. CASE Delivers
    <3>1. got'[o] = Append(got[o], Output(SlotOf(o)))
      BY <1>2, <2>2 DEF Step, Deliver
    <3>2. PICK b \in Active : slots[b] = o
      BY <1>2
    <3>3. SlotOf(o) = b /\ Output(b) \in Cell
      BY <3>2, SlotOfFact, OutputFacts DEF IInv, Active
    <3> QED
      BY <1>1, <1>2, <2>1, <2>2, <3>1, <3>3
  <2>3. CASE ~Delivers
    BY <1>1, <1>2, <2>1, <2>3 DEF Step, Deliver
  <2> QED
    BY <2>2, <2>3
<1>3. CASE ~\E b \in Active : slots[b] = o
  BY <1>1, <1>3 DEF Step, Deliver
<1> QED
  BY <1>2, <1>3

\* The outputs an occupant is short of, before a step (n have started, r of the delay is
\* over, it is short of d) and after it.
LEMMA ShortFact ==
  ASSUME NEW n \in Nat, NEW m \in Nat, NEW r \in 0 .. MaxDelay, NEW r2 \in 0 .. MaxDelay,
         NEW d \in Int, NEW d2 \in Int, d <= MaxDelay * (n - 1) + r,
         \/ m = n /\ d2 = d /\ r2 >= r
         \/ m = n /\ d2 = d + 1 /\ r2 = r + 1
         \/ m >= n + 1 /\ d2 = d /\ r2 >= 0 /\ MaxDelay = 0
         \/ m >= n + 1 /\ d2 \in {d, d + 1} /\ r2 = 1
  PROVE  d2 <= MaxDelay * (m - 1) + r2
<1>1. MaxDelay * (n - 1) \in Int /\ MaxDelay * (m - 1) \in Int /\ MaxDelay * n \in Int
  OBVIOUS
<1>2. MaxDelay * n = MaxDelay * (n - 1) + MaxDelay
  <2>1. MaxDelay * ((n - 1) + 1) = MaxDelay * (n - 1) + MaxDelay
    BY DelayTimes
  <2>2. (n - 1) + 1 = n
    OBVIOUS
  <2> QED
    BY <2>1, <2>2
<1>3. CASE m = n
  BY <1>1, <1>3
<1>4. CASE m >= n + 1
  <2>1. m - 1 \in Int /\ m - 1 >= n
    BY <1>4
  <2>2. MaxDelay * (m - 1) >= MaxDelay * n
    BY <2>1, DelayTimes
  <2> DEFINE x == MaxDelay * n
             y == MaxDelay * (n - 1)
             z == MaxDelay * (m - 1)
  <2>3. x \in Int /\ y \in Int /\ z \in Int /\ x = y + MaxDelay /\ z >= x /\ d <= y + r
    BY <1>1, <1>2, <2>2
  <2> HIDE DEF x, y, z
  <2>4. d2 <= z + r2
    BY <1>4, <2>3
  <2> QED
    BY <2>4 DEF z
<1> QED
  BY <1>3, <1>4

LEMMA StepLossy == ASSUME LInv, Step PROVE Lossy'
<1>0. IInv /\ IsFiniteSet(Started)
  BY DEF LInv
<1>1. PICK n \in Nat, m \in Nat :
        /\ n = Cardinality(Started) /\ m = Cardinality(Started')
        /\ First = {} => m = n
        /\ First # {} => m >= n + 1
  BY <1>0, StartedFact
<1>2. PICK r \in 0 .. MaxDelay, r2 \in 0 .. MaxDelay :
        /\ r = Ramp /\ r2 = Ramp'
        /\ First = {} => IF Delivers THEN r2 >= r ELSE r2 = r + 1
        /\ First # {} => r2 = (IF MaxDelay = 0 THEN 0 ELSE 1) /\ (Delivers <=> MaxDelay = 0)
  <2>1. First # {} => Ramp' = IF MaxDelay = 0 THEN 0 ELSE 1
    BY <1>0, RampFact DEF Ramp
  <2> QED
    BY <1>0, <2>1, RampFact
<1> SUFFICES ASSUME NEW o \in Occupants
             PROVE  /\ taken'[o] = 0 => got'[o] = <<>>
                    /\ taken'[o] > 0 => taken'[o] - Len(got'[o]) <= MaxDelay * (m - 1) + r2
                    /\ taken'[o] > 0 /\ MaxDelay <= 1 => Len(got'[o]) <= taken'[o] - MaxDelay
  BY <1>1, <1>2 DEF Lossy
<1>3. PICK t \in Nat, l \in Nat : t = taken[o] /\ l = Len(got[o])
  BY <1>0, LenFact
<1>4. /\ t = 0 => got[o] = <<>> /\ l = 0
      /\ t > 0 => t - l <= MaxDelay * (n - 1) + r
      /\ t > 0 /\ MaxDelay <= 1 => l <= t - MaxDelay
  BY <1>1, <1>2, <1>3 DEF LInv, Lossy
<1>5. CASE taken'[o] = taken[o] /\ got'[o] = got[o]
  <2>1. t > 0 => t - l <= MaxDelay * (m - 1) + r2
    <3>1. CASE First = {}
      BY <1>1, <1>2, <1>4, <3>1, ShortFact
    <3>2. ASSUME First # {}, t > 0 PROVE t - l <= MaxDelay * (m - 1) + r2
      <4>1. t - l \in Int /\ t - l <= MaxDelay * (n - 1) + r /\ m >= n + 1
        BY <1>1, <1>4, <3>2
      <4>2. (MaxDelay = 0 /\ r2 >= 0) \/ r2 = 1
        BY <1>2, <3>2
      <4> QED
        BY <4>1, <4>2, ShortFact
    <3> QED
      BY <3>1, <3>2
  <2> QED
    BY <1>3, <1>4, <1>5, <2>1
<1>6. CASE /\ \E b \in Active : slots[b] = o
           /\ taken'[o] = taken[o] + 1
           /\ IF Delivers THEN Len(got'[o]) = Len(got[o]) + 1 ELSE got'[o] = got[o]
  <2>1. PICK l2 \in Nat : l2 = Len(got'[o]) /\ l2 = IF Delivers THEN l + 1 ELSE l
    BY <1>3, <1>6
  \* Its first frame is taken by a step that resets its slot.
  <2>2. t = 0 => First # {}
    BY <1>3, <1>6 DEF First
  <2>3. (t + 1) - l2 <= MaxDelay * (m - 1) + r2
    <3>0. t - l \in Int /\ (t + 1) - l2 \in Int
      BY <2>1
    <3> PICK d \in Int, d2 \in Int : d = t - l /\ d2 = (t + 1) - l2
      BY <3>0, Zenon
    <3>1. CASE First = {}
      <4>1. d <= MaxDelay * (n - 1) + r /\ m = n
        <5>1. t \in Nat /\ t # 0
          BY <2>2, <3>1
        <5>2. t > 0
          BY <5>1
        <5>3. t - l <= MaxDelay * (n - 1) + r /\ d = t - l
          BY <1>4, <5>2
        <5>4. m = n
          BY <1>1, <3>1
        <5> QED
          BY <5>3, <5>4
      <4>2. (d2 = d /\ r2 >= r) \/ (d2 = d + 1 /\ r2 = r + 1)
        BY <1>2, <2>1, <3>1
      <4>3. d2 <= MaxDelay * (m - 1) + r2
        BY <4>1, <4>2, ShortFact
      <4> QED
        BY <4>3
    <3>2. CASE First # {} /\ t > 0
      <4>1. d <= MaxDelay * (n - 1) + r /\ m >= n + 1
        <5>1. t - l <= MaxDelay * (n - 1) + r /\ d = t - l
          BY <1>4, <3>2
        <5>2. m >= n + 1
          BY <1>1, <3>2
        <5> QED
          BY <5>1, <5>2
      <4>2. (d2 = d /\ MaxDelay = 0 /\ r2 >= 0) \/ (d2 = d + 1 /\ r2 = 1)
        BY <1>2, <2>1, <3>2
      <4>3. d2 <= MaxDelay * (m - 1) + r2
        BY <4>1, <4>2, ShortFact
      <4> QED
        BY <4>3
    <3>3. CASE First # {} /\ t = 0
      <4>1. m - 1 \in Nat /\ MaxDelay * (m - 1) >= MaxDelay * 0 /\ MaxDelay * 0 = 0
            /\ MaxDelay * (m - 1) \in Int
        BY <1>1, <3>3, DelayTimes
      <4>2. (t + 1) - l2 <= r2
        BY <1>2, <1>4, <2>1, <3>3
      <4> DEFINE z == MaxDelay * (m - 1)
      <4>3. z \in Int /\ z >= 0
        BY <4>1
      <4> HIDE DEF z
      <4>4. (t + 1) - l2 <= z + r2
        BY <4>2, <4>3
      <4> QED
        BY <4>4 DEF z
    <3> QED
      BY <1>3, <3>1, <3>2, <3>3
  <2>4. MaxDelay <= 1 => l2 <= (t + 1) - MaxDelay
    <3>1. CASE t > 0
      BY <1>4, <2>1, <3>1
    <3>2. CASE t = 0
      <4>1. Delivers <=> MaxDelay = 0
        BY <1>2, <2>2, <3>2
      <4> QED
        BY <1>4, <2>1, <3>2, <4>1
    <3> QED
      BY <1>3, <3>1, <3>2
  <2> QED
    BY <1>3, <1>6, <2>1, <2>3, <2>4
<1> QED
  BY <1>0, <1>5, <1>6, LenFact

LEMMA SpecLInv == Spec => []LInv
<1>1. Init => LInv
  <2> SUFFICES ASSUME Init PROVE LInv
    OBVIOUS
  <2>1. Started = {}
    BY DEF Init, Started
  <2> QED
    BY <2>1, InitIInv, FS_EmptySet DEF Init, LInv, Lossy
<1>2. ASSUME LInv, [Next]_vars PROVE LInv'
  <2>1. IInv'
    BY <1>2, NextIInv DEF LInv
  <2>2. CASE Step
    BY <1>2, <2>1, <2>2, StartedFact, StepLossy DEF LInv
  <2>3. CASE UNCHANGED <<taken, got, offsetCpu>>
    BY <1>2, <2>1, <2>3 DEF LInv, Lossy, Started, Ramp
  <2>4. CASE \E o \in Occupants : Channel(o)
    BY <2>3, <2>4 DEF Channel, Acquire, Reject, StartUp, StartUpFails, Feed, UpdateReference,
                      Close, Release, occVars, lmVars
  <2>5. CASE UNCHANGED vars
    BY <2>3, <2>5 DEF vars, occVars, lmVars
  <2> QED
    BY <1>2, <2>2, <2>4, <2>5 DEF Next
<1> QED
  BY <1>1, <1>2, PTL DEF Spec

\* What an occupant loses, and how late its outputs are.
LEMMA LossyFact ==
  ASSUME LInv, NEW o \in Occupants, taken[o] > 0
  PROVE  /\ Len(got[o]) >= taken[o] - MaxDelay * Cardinality(Started)
         /\ MaxDelay <= 1 => Len(got[o]) <= taken[o] - MaxDelay
<1> DEFINE n == Cardinality(Started)
<1>1. n \in Nat /\ Len(got[o]) \in Nat /\ taken[o] \in Nat /\ Ramp \in 0 .. MaxDelay
  BY FS_CardinalityType DEF LInv, IInv, TypeOK, Ramp
<1>2. /\ taken[o] - Len(got[o]) <= MaxDelay * (n - 1) + Ramp
      /\ MaxDelay <= 1 => Len(got[o]) <= taken[o] - MaxDelay
  BY DEF LInv, Lossy
<1> HIDE DEF n
<1>3. MaxDelay * ((n - 1) + 1) = MaxDelay * (n - 1) + MaxDelay
  BY <1>1, DelayTimes
<1>4. (n - 1) + 1 = n /\ MaxDelay * (n - 1) \in Int
  BY <1>1
<1>5. Len(got[o]) >= taken[o] - MaxDelay * n
  BY <1>1, <1>2, <1>3, <1>4
<1> QED
  BY <1>2, <1>5 DEF n

\* Whatever the delay: an occupant has lost at most one delay for each connection that
\* has started, its own included (reset_streaming and offset_cpu, lm.py:541-547, 871).
THEOREM LossIsBoundedHolds == Spec => []LossIsBounded
<1>1. LInv => LossIsBounded
  BY LossyFact DEF LossIsBounded
<1> QED
  BY <1>1, SpecLInv, PTL

\* With a delay of one frame at most, as in the shipped model, nothing comes out early
\* either: with a longer one the guard of the whole batch lets a slot through before its
\* own offset has passed the delay (lm.py:871-879).
THEOREM BoundedLossHolds ==
  ASSUME MaxDelay <= 1
  PROVE  Spec => []BoundedLoss
<1>1. LInv => BoundedLoss
  BY LossyFact DEF BoundedLoss, Started
<1> QED
  BY <1>1, SpecLInv, PTL

-------------------------------------------------------------------------------
(* The jobs of a batch of one file *)

\* Of the slot, when its occupant has had a frame: no other file has reset anything
\* since, so both offsets count its frames, and every cell that a step still reads holds
\* what was sampled for it.
Alone ==
  ~IsFree(0) /\ taken[slots[0]] > 0 =>
    /\ offsets[0] = taken[slots[0]]
    /\ offsetCpu = IF taken[slots[0]] <= MaxDelay THEN taken[slots[0]] ELSE MaxDelay + 1
    /\ \A p \in 1 .. offsets[0] : p > offsets[0] - CT => cache[0][p % CT] = <<slots[0], p>>

\* Of each file: its outputs are those of its frames but the last MaxDelay.
Traced ==
  \A o \in Occupants :
    /\ Len(got[o]) = IF taken[o] <= MaxDelay THEN 0 ELSE taken[o] - MaxDelay
    /\ \A i \in DOMAIN got[o] : got[o][i] = <<o, i>>
    /\ stepIndex[o] \in 0 .. Len(got[o])

\* Everything that conditioned the model was asked for before n.
AllBefore(r, n) == \A i \in DOMAIN r.conditioned : r.conditioned[i] < n

RagType(r) ==
  r \in [asking : Nat, start : Int, started : BOOLEAN, done : Int, doing : BOOLEAN,
         tokens : Nat, running : BOOLEAN, waiting : Nat, reference : Nat,
         conditioned : Seq(Nat)]

\* What conditioned the model did so in the order of the tokens that asked for it.
Ordered(r) ==
  /\ \A i \in DOMAIN r.conditioned : r.conditioned[i] \in 1 .. r.reference
  /\ \A i, j \in DOMAIN r.conditioned : i < j => r.conditioned[i] < r.conditioned[j]

\* What runs was asked for by the last token, and is not the reference yet; the
\* reference has conditioned nothing when it is due, nor has what the encoder works on.
RagOK(r) ==
  /\ RagType(r) /\ Ordered(r)
  /\ r.reference <= r.tokens /\ (r.running => r.reference < r.tokens)
  /\ r.asking = 0 /\ r.done # Never => r.reference > 0 /\ AllBefore(r, r.reference)
  /\ r.asking # 0 => r.asking \in 1 .. r.reference /\ AllBefore(r, r.asking)

JobInv ==
  /\ IInv /\ Alone /\ Traced
  /\ stepIndex \in [Occupants -> Nat]
  /\ DOMAIN rag = Occupants /\ \A o \in Occupants : RagOK(rag[o])
  /\ \A o \in Occupants : rag[o].asking # 0 => stepIndex[o] < Len(got[o])

LEMMA NoRetrievalOK == RagOK(NoRetrieval)
<1>1. RagType(NoRetrieval)
  BY DEF RagType, NoRetrieval, Never
<1>2. /\ NoRetrieval.conditioned = <<>> /\ NoRetrieval.asking = 0 /\ NoRetrieval.done = Never
      /\ NoRetrieval.reference = 0 /\ NoRetrieval.tokens = 0 /\ ~NoRetrieval.running
  BY DEF NoRetrieval
<1> QED
  BY <1>1, <1>2 DEF RagOK, Ordered

\* What an iteration of the output loop counts, with or without a token.
LEMMA CountedOK ==
  ASSUME NEW r, RagOK(r), NEW step \in Nat, NEW t \in Outcomes(r, step), NEW c,
         c = Counted(t, step)
  PROVE  /\ RagOK(c) /\ c.asking = r.asking /\ c.conditioned = r.conditioned
         /\ c.reference = r.reference /\ c.done = r.done
<1>1. /\ RagType(r) /\ r.tokens \in Nat /\ r.waiting \in Nat /\ r.reference \in Nat
      /\ WaitSteps \in Nat
  BY JobRetrievalAssumption DEF RagOK, RagType
<1>2. /\ RagType(t) /\ t.asking = r.asking /\ t.conditioned = r.conditioned
      /\ t.reference = r.reference /\ t.done = r.done
      /\ t = r \/ t.tokens = r.tokens + 1
  <2>1. CASE t = r
    BY <1>1, <2>1
  <2>2. CASE t # r
    <3>1. t = Triggered(r, step)
      BY <2>2 DEF Outcomes
    <3>2. PICK n \in Nat, d \in Int : n = r.tokens + 1 /\ d = step + WaitSteps
      BY <1>1
    <3>3. t = [r EXCEPT !.tokens = n, !.running = TRUE, !.waiting = WaitSteps, !.start = d]
      BY <3>1, <3>2 DEF Triggered
    <3>4. RagType(t)
      BY <1>1, <3>3 DEF RagType
    <3>5. t.tokens = n /\ t.asking = r.asking /\ t.reference = r.reference
      BY <1>1, <3>3 DEF RagType
    <3>6. t.conditioned = r.conditioned /\ t.done = r.done
      BY <1>1, <3>3 DEF RagType
    <3> QED
      BY <3>2, <3>4, <3>5, <3>6
  <2> QED
    BY <2>1, <2>2
<1>3. /\ RagType(c) /\ c.asking = t.asking /\ c.conditioned = t.conditioned
      /\ c.reference = t.reference /\ c.done = t.done /\ c.tokens = t.tokens
      /\ c.running = t.running
  <2>1. t.waiting \in Nat /\ t.started \in BOOLEAN /\ t.doing \in BOOLEAN
    BY <1>2 DEF RagType
  <2>2. PICK w \in Nat : w = IF t.waiting > 0 THEN t.waiting - 1 ELSE 0
    BY <2>1
  <2>3. PICK u \in BOOLEAN : u = (t.started \/ step = t.start)
    BY <2>1
  <2>4. PICK v \in BOOLEAN : v = (t.doing \/ step = t.start)
    BY <2>1
  <2>5. c = [t EXCEPT !.waiting = w, !.started = u, !.doing = v]
    BY <2>2, <2>3, <2>4 DEF Counted
  <2>6. RagType(c) /\ RagType(t)
    BY <1>2, <2>5 DEF RagType
  <2>7. c.asking = t.asking /\ c.conditioned = t.conditioned /\ c.reference = t.reference
    BY <2>5, <2>6 DEF RagType
  <2>8. c.done = t.done /\ c.tokens = t.tokens
    BY <2>5, <2>6 DEF RagType
  <2>9. c.running = t.running
    BY <2>5, <2>6 DEF RagType
  <2> QED
    BY <2>6, <2>7, <2>8, <2>9
<1>4. c.reference <= c.tokens /\ (c.running => c.reference < c.tokens)
  <2>1. CASE t = r
    BY <1>3, <2>1 DEF RagOK
  <2>2. CASE t.tokens = r.tokens + 1
    BY <1>1, <1>2, <1>3, <2>2 DEF RagOK
  <2> QED
    BY <1>2, <2>1, <2>2
<1> QED
  BY <1>2, <1>3, <1>4 DEF RagOK, Ordered, AllBefore

LEMMA SettledOK ==
  ASSUME NEW r, RagOK(r)
  PROVE  /\ RagOK(Settled(r)) /\ Settled(r).conditioned = r.conditioned
         /\ Settled(r).reference = r.reference /\ Settled(r).tokens = r.tokens
         /\ Settled(r).running = r.running /\ Settled(r).asking = 0 /\ Settled(r).done = Never
<1>1. /\ RagType(Settled(r)) /\ Settled(r).conditioned = r.conditioned
      /\ Settled(r).reference = r.reference /\ Settled(r).tokens = r.tokens
      /\ Settled(r).running = r.running /\ Settled(r).asking = 0 /\ Settled(r).done = Never
  <2>1. PICK d \in Int : d = Never
    BY DEF Never
  <2>2. PICK q : q = [r EXCEPT !.start = d, !.started = FALSE, !.done = d, !.asking = 0]
    OBVIOUS
  <2>3. q = Settled(r)
    BY <2>1, <2>2, Zenon DEF Settled
  <2>4. RagType(r)
    BY DEF RagOK
  <2>5. RagType(q)
    BY <2>2, <2>4 DEF RagType
  <2>6. q.conditioned = r.conditioned /\ q.reference = r.reference /\ q.tokens = r.tokens
    BY <2>2, <2>4 DEF RagType
  <2>7. q.running = r.running
    BY <2>2, <2>4 DEF RagType
  <2>8. q.asking = 0 /\ q.done = d
    BY <2>2, <2>4 DEF RagType
  <2> QED
    BY <2>1, <2>3, <2>5, <2>6, <2>7, <2>8
<1> QED
  BY <1>1 DEF RagOK, Ordered

\* A reference that is due is asked of the encoder.
LEMMA AskingOK ==
  ASSUME NEW r, RagOK(r), r.asking = 0, r.done # Never
  PROVE  RagOK([r EXCEPT !.asking = r.reference])
<1> DEFINE q == [r EXCEPT !.asking = r.reference]
<1>1. /\ RagType(q) /\ q.conditioned = r.conditioned /\ q.reference = r.reference
      /\ q.tokens = r.tokens /\ q.running = r.running /\ q.asking = r.reference
      /\ r.reference \in Nat
  BY DEF RagOK, RagType
<1>2. r.reference > 0 /\ AllBefore(r, r.reference)
  BY DEF RagOK
<1> HIDE DEF q
<1>3. RagOK(q)
  BY <1>1, <1>2 DEF RagOK, Ordered, AllBefore
<1> QED
  BY <1>3 DEF q

LEMMA CaughtOK ==
  ASSUME NEW r, RagOK(r), r.running, NEW step \in Nat, NEW elapsed \in Nat
  PROVE  RagOK(Caught(r, step, elapsed))
<1> DEFINE q == Caught(r, step, elapsed)
<1>1. /\ RagType(q) /\ q.conditioned = r.conditioned /\ q.reference = r.tokens
      /\ q.tokens = r.tokens /\ ~q.running /\ q.asking = r.asking
      /\ r.reference \in Nat /\ r.tokens \in Nat /\ r.asking \in Nat
  <2>1. RagType(r) /\ r.reference \in Nat /\ r.tokens \in Nat /\ r.asking \in Nat
    BY DEF RagOK, RagType
  <2>2. PICK d \in Int : d = step + elapsed
    OBVIOUS
  <2>3. \/ q = [r EXCEPT !.running = FALSE, !.reference = r.tokens, !.done = d, !.doing = FALSE]
        \/ q = [r EXCEPT !.running = FALSE, !.reference = r.tokens]
    BY <2>2 DEF Caught
  <2> HIDE DEF q
  <2>4. RagType(q) /\ q.running = FALSE
    BY <2>1, <2>3 DEF RagType
  <2>5. q.conditioned = r.conditioned /\ q.reference = r.tokens
    BY <2>1, <2>3 DEF RagType
  <2>6. q.tokens = r.tokens /\ q.asking = r.asking
    BY <2>1, <2>3 DEF RagType
  <2> QED
    BY <2>1, <2>4, <2>5, <2>6
<1>2. r.reference < r.tokens
  BY DEF RagOK
<1> HIDE DEF q
<1>3. \A i \in DOMAIN r.conditioned : r.conditioned[i] \in 1 .. r.reference
  BY DEF RagOK, Ordered
<1>4. AllBefore(q, q.reference) /\ Ordered(q)
  BY <1>1, <1>2, <1>3 DEF RagOK, Ordered, AllBefore
<1>5. r.asking # 0 => r.asking \in 1 .. q.reference /\ AllBefore(q, q.asking)
  BY <1>1, <1>2 DEF RagOK, AllBefore
<1>6. RagOK(q)
  BY <1>1, <1>2, <1>4, <1>5 DEF RagOK
<1> QED
  BY <1>6 DEF q

\* The reference that the encoder has answered for is the last that conditions.
LEMMA ConditionedOK ==
  ASSUME NEW r, RagOK(r), r.asking # 0,
         NEW q, q = [Settled(r) EXCEPT !.conditioned = Append(@, r.asking)]
  PROVE  RagOK(q)
<1> DEFINE c == r.conditioned
           d == q.conditioned
           a == r.asking
           top == r.reference
<1>1. /\ c \in Seq(Nat) /\ a \in Nat /\ top \in Nat /\ RagType(Settled(r))
      /\ Settled(r).conditioned = c /\ RagType(r)
  <2>1. RagOK(Settled(r)) /\ Settled(r).conditioned = c
    BY SettledOK
  <2>2. c \in Seq(Nat) /\ a \in Nat /\ top \in Nat
    BY DEF RagOK, RagType
  <2> QED
    BY <2>1, <2>2 DEF RagOK
<1>2. PICK z \in Seq(Nat) : z = Append(c, a)
  BY <1>1, AppendProperties
<1>3. q = [Settled(r) EXCEPT !.conditioned = z]
  BY <1>1, <1>2
<1>4. /\ Settled(r).reference = top /\ Settled(r).tokens = r.tokens
      /\ Settled(r).running = r.running /\ Settled(r).asking = 0 /\ Settled(r).done = Never
  BY SettledOK
<1>5. RagType(q) /\ d = z /\ q.running = Settled(r).running
  BY <1>1, <1>3 DEF RagType
<1>6. /\ q.reference = top /\ q.tokens = r.tokens
      /\ q.running = r.running /\ q.asking = 0 /\ q.done = Never
  BY <1>1, <1>3, <1>4, <1>5 DEF RagType
<1>7. /\ a \in 1 .. top /\ \A i \in DOMAIN c : c[i] < a
      /\ \A i \in DOMAIN c : c[i] \in 1 .. top
      /\ \A i, j \in DOMAIN c : i < j => c[i] < c[j]
  <2>1. r.asking \in 1 .. r.reference /\ AllBefore(r, r.asking) /\ Ordered(r)
    BY DEF RagOK
  <2> QED
    BY <2>1 DEF Ordered, AllBefore
<1> HIDE DEF c, d, a, top
<1>8. PICK n \in Nat : n = Len(c)
  BY <1>1, LenProperties
<1>9. /\ DOMAIN d = 1 .. n + 1 /\ DOMAIN c = 1 .. n /\ d[n + 1] = a
      /\ \A i \in 1 .. n : d[i] = c[i]
  BY <1>1, <1>2, <1>5, <1>8
<1>10. ASSUME NEW i \in 1 .. n + 1 PROVE d[i] \in 1 .. top
  BY <1>7, <1>9
<1>11. ASSUME NEW i \in 1 .. n + 1, NEW j \in 1 .. n + 1, i < j PROVE d[i] < d[j]
  <2>1. i \in 1 .. n
    BY <1>11
  <2>2. CASE j = n + 1
    BY <1>7, <1>9, <2>1, <2>2
  <2>3. CASE j # n + 1
    <3>1. j \in 1 .. n
      BY <2>3
    <3> QED
      BY <1>7, <1>9, <1>11, <2>1, <3>1
  <2> QED
    BY <2>2, <2>3
<1>12. Ordered(q)
  BY <1>6, <1>9, <1>10, <1>11 DEF Ordered, d
<1> QED
  BY <1>5, <1>6, <1>12 DEF RagOK, top

LEMMA OneSlot == ASSUME BatchSize = 1 PROVE Slots = {0}
BY DEF Slots

\* The step of the only slot.
LEMMA StepAlone ==
  ASSUME BatchSize = 1, IInv, Alone, Step,
         NEW o \in Occupants, slots[0] = o, NEW n \in Nat, n = taken[o] + 1
  PROVE  /\ taken'[o] = n /\ Active = {0}
         /\ Alone'
         /\ Delivers <=> n > MaxDelay
         /\ n > MaxDelay => Output(0) = <<o, n - MaxDelay>>
<1> DEFINE start == OffsetsReset(First)
           cells == CacheReset(First)
<1>1. /\ CT \in Nat \ {0} /\ Slots = {0} /\ 0 \in Slots /\ ~IsFree(0) /\ slots' = slots
      /\ taken[o] \in Nat /\ offsets[0] \in Nat /\ offsetCpu \in Nat
  BY OneSlot, NobodyFact DEF CT, IsFree, Step, IInv, TypeOK
<1>2. Active = {0}
  BY <1>1 DEF Step, Active
<1>3. /\ First = (IF taken[o] = 0 THEN {0} ELSE {}) /\ taken'[o] = n
  BY <1>1, <1>2, TakenFact DEF First, IInv
<1>4. start[0] = n - 1
  BY <1>1, <1>3 DEF OffsetsReset, Alone
<1>5. offsets'[0] = n
  BY <1>1, <1>2, <1>4 DEF Step, Sample
<1>6. offsetCpu' = IF n <= MaxDelay THEN n ELSE MaxDelay + 1
  BY <1>1, <1>3 DEF Step, OffsetCpuReset, Alone
<1>7. /\ cells[0] \in [0 .. CT - 1 -> Cell]
      /\ \A p \in 1 .. n - 1 : p > n - 1 - CT => cells[0][p % CT] = <<o, p>>
  <2>1. cache[0] \in [0 .. CT - 1 -> Cell] /\ cells \in [Slots -> [0 .. CT - 1 -> Cell]]
    BY <1>1 DEF IInv, TypeOK, CacheReset, Cell
  <2>2. CASE taken[o] = 0
    BY <1>1, <2>1, <2>2
  <2>3. ASSUME taken[o] # 0, NEW p \in 1 .. n - 1, p > n - 1 - CT PROVE cells[0][p % CT] = <<o, p>>
    <3>1. cells = cache /\ taken[o] > 0
      BY <1>1, <1>3, <2>3 DEF CacheReset
    <3>2. ~IsFree(0) /\ taken[slots[0]] > 0
      BY <1>1, <3>1
    <3>3. /\ offsets[0] = taken[slots[0]]
          /\ \A q \in 1 .. offsets[0] : q > offsets[0] - CT => cache[0][q % CT] = <<slots[0], q>>
      BY <3>2, Zenon DEF Alone
    <3>4. p \in 1 .. offsets[0] /\ p > offsets[0] - CT
      BY <1>1, <2>3, <3>3
    <3>5. cache[0][p % CT] = <<o, p>>
      BY <3>3, <3>4, Zenon
    <3> QED
      BY <3>1, <3>5
  <2> QED
    BY <1>1, <2>1, <2>2, <2>3
<1>8. cache'[0] = [cells[0] EXCEPT ![n % CT] = <<o, n>>]
  BY <1>1, <1>2, <1>5 DEF Step, Sample
<1> HIDE DEF start, cells
<1>9. n % CT \in 0 .. CT - 1
  BY CacheIndex
<1>10. ASSUME NEW p \in 1 .. n, p > n - CT PROVE cache'[0][p % CT] = <<o, p>>
  <2>1. CASE p = n
    BY <1>7, <1>8, <1>9, <2>1
  <2>2. CASE p # n
    <3>1. p \in Nat /\ p < n /\ n - p < CT /\ p \in 1 .. n - 1 /\ p > n - 1 - CT
      BY <1>1, <1>10, <2>2
    <3>2. p % CT # n % CT /\ p % CT \in 0 .. CT - 1
      BY <3>1, RingFact, CacheIndex
    <3> QED
      BY <1>7, <1>8, <3>1, <3>2
  <2> QED
    BY <2>1, <2>2
<1>11. Alone'
  BY <1>1, <1>3, <1>5, <1>6, <1>10 DEF Alone
<1>12. Delivers <=> n > MaxDelay
  BY <1>6 DEF Delivers
<1>13. ASSUME n > MaxDelay PROVE Output(0) = <<o, n - MaxDelay>>
  <2>1. n - MaxDelay \in 1 .. n /\ n - MaxDelay > n - CT
    BY <1>13 DEF CT
  <2> QED
    BY <1>5, <1>10, <1>13, <2>1 DEF Output
<1> QED
  BY <1>2, <1>3, <1>11, <1>12, <1>13

LEMMA StepTraced ==
  ASSUME BatchSize = 1, JobInv, Step, UNCHANGED <<stepIndex, rag>>
  PROVE  /\ Alone' /\ Traced'
         /\ \A p \in Occupants : rag'[p].asking # 0 => stepIndex'[p] < Len(got'[p])
<1>1. PICK o \in Occupants : slots[0] = o /\ Active = {0}
  <2>1. Slots = {0} /\ Active # {} /\ Active \subseteq Slots
    BY OneSlot DEF Step, Active
  <2>2. 0 \in Active
    BY <2>1
  <2> QED
    BY <2>1, <2>2, ActiveFact DEF JobInv, IInv
<1>2. taken[o] \in Nat /\ got[o] \in Seq(Cell)
  BY DEF JobInv, IInv, TypeOK
<1>3. PICK n \in Nat : n = taken[o] + 1
  BY <1>2
<1>4. /\ taken'[o] = n /\ Alone' /\ (Delivers <=> n > MaxDelay)
      /\ n > MaxDelay => Output(0) = <<o, n - MaxDelay>>
  BY <1>1, <1>3, StepAlone DEF JobInv
<1>5. SlotOf(o) = 0
  BY <1>1, OneSlot, SlotOfFact DEF JobInv, IInv
<1>6. \A q \in Occupants : q # o => taken'[q] = taken[q] /\ got'[q] = got[q]
  BY <1>1 DEF Step, Deliver
<1>7. got'[o] = IF n > MaxDelay THEN Append(got[o], <<o, n - MaxDelay>>) ELSE got[o]
  BY <1>1, <1>4, <1>5 DEF Step, Deliver
<1>8. /\ Len(got[o]) = IF n - 1 <= MaxDelay THEN 0 ELSE n - 1 - MaxDelay
      /\ \A i \in DOMAIN got[o] : got[o][i] = <<o, i>>
      /\ stepIndex[o] \in 0 .. Len(got[o])
  BY <1>3, <1>2 DEF JobInv, Traced
<1>9. /\ Len(got'[o]) = IF n <= MaxDelay THEN 0 ELSE n - MaxDelay
      /\ \A i \in DOMAIN got'[o] : got'[o][i] = <<o, i>>
      /\ stepIndex'[o] \in 0 .. Len(got'[o])
  <2>1. CASE n <= MaxDelay
    BY <1>7, <1>8, <2>1
  <2>2. CASE n > MaxDelay
    <3>1. got'[o] = Append(got[o], <<o, n - MaxDelay>>) /\ Len(got[o]) + 1 = n - MaxDelay
      BY <1>7, <1>8, <2>2
    <3>2. /\ Len(got'[o]) = n - MaxDelay /\ DOMAIN got'[o] = 1 .. n - MaxDelay
          /\ DOMAIN got[o] = 1 .. n - MaxDelay - 1
          /\ got'[o][n - MaxDelay] = <<o, n - MaxDelay>>
          /\ \A i \in 1 .. n - MaxDelay - 1 : got'[o][i] = got[o][i]
      BY <1>2, <3>1, <2>2
    <3>3. stepIndex' = stepIndex /\ stepIndex[o] \in Nat
      BY DEF JobInv
    <3>4. Len(got[o]) = n - MaxDelay - 1 /\ n - MaxDelay \in Nat
      BY <1>2, <2>2, <3>1
    <3>5. ASSUME NEW i \in 1 .. n - MaxDelay PROVE got'[o][i] = <<o, i>>
      <4>1. CASE i = n - MaxDelay
        BY <3>2, <4>1
      <4>2. CASE i # n - MaxDelay
        <5>1. i \in 1 .. n - MaxDelay - 1
          BY <3>4, <4>2
        <5>2. i \in DOMAIN got[o]
          BY <3>2, <5>1
        <5> QED
          BY <1>8, <3>2, <5>1, <5>2
      <4> QED
        BY <4>1, <4>2
    <3> QED
      BY <1>8, <2>2, <3>2, <3>3, <3>4, <3>5
  <2> QED
    BY <2>1, <2>2
<1>10. /\ Len(got[o]) \in Nat /\ Len(got'[o]) \in {Len(got[o]), Len(got[o]) + 1}
       /\ stepIndex[o] \in Nat /\ UNCHANGED <<stepIndex, rag>>
       /\ \A p \in Occupants : rag[p].asking # 0 => stepIndex[p] < Len(got[p])
  BY <1>2, <1>7 DEF JobInv
<1>11. \A p \in Occupants : rag'[p].asking # 0 => stepIndex'[p] < Len(got'[p])
  BY <1>6, <1>10
<1> QED
  BY <1>4, <1>6, <1>9, <1>11 DEF JobInv, Traced

\* A job that ends has its slot until it releases it.
LEMMA ClosingIInv ==
  ASSUME IInv, NEW o \in Occupants, life[o] \in {"starting", "running"},
         life' = [life EXCEPT ![o] = "closing"] \/ life' = life,
         UNCHANGED <<slots, fed, taken, got, lmVars>>
  PROVE  IInv'
<1>1. TypeOK'
  BY DEF IInv, TypeOK, Life, lmVars
<1>2. Held' /\ Frames'
  BY DEF IInv, Held, Frames, TypeOK, IsFree
<1>3. Own' /\ Tallied'
  BY DEF IInv, Own, Tallied, IsFree, lmVars
<1> QED
  BY <1>1, <1>2, <1>3 DEF IInv

\* The end of an iteration of the output loop, with r for its retrievals.
LEMMA AdvanceFact ==
  ASSUME JobInv, NEW o \in Occupants, stepIndex[o] < Len(got[o]),
         NEW r, RagOK(r), r.asking = 0, Advance(o, r), IInv',
         UNCHANGED <<slots, taken, got, offsets, offsetCpu, cache>>
  PROVE  JobInv'
<1>1. /\ stepIndex' = [stepIndex EXCEPT ![o] = @ + 1]
      /\ rag' = [rag EXCEPT ![o] = NoRetrieval] \/ rag' = [rag EXCEPT ![o] = r]
  BY DEF Advance, Ends
<1>2. Alone'
  BY DEF JobInv, Alone, IsFree
<1>3. stepIndex[o] \in Nat /\ Len(got[o]) \in Nat
  BY DEF JobInv, IInv, TypeOK
<1>4. stepIndex' \in [Occupants -> Nat] /\ Traced'
  BY <1>1, <1>3 DEF JobInv, Traced
<1>5. /\ DOMAIN rag' = Occupants
      /\ \A p \in Occupants : RagOK(rag[p]) /\ (rag[p].asking # 0 => stepIndex[p] < Len(got[p]))
  BY <1>1 DEF JobInv
<1>6. RagOK(NoRetrieval) /\ NoRetrieval.asking = 0
  BY NoRetrievalOK DEF NoRetrieval
<1>7. ASSUME NEW p \in Occupants
      PROVE  RagOK(rag'[p]) /\ (rag'[p].asking # 0 => stepIndex'[p] < Len(got'[p]))
  <2>1. CASE p = o
    <3>1. rag'[p] \in {NoRetrieval, r}
      BY <1>1, <2>1 DEF JobInv
    <3> QED
      BY <1>6, <3>1
  <2>2. CASE p # o
    <3>1. rag'[p] = rag[p] /\ stepIndex'[p] = stepIndex[p]
      BY <1>1, <2>2 DEF JobInv
    <3> QED
      BY <1>5, <3>1
  <2> QED
    BY <2>1, <2>2
<1> HIDE DEF JobInv
<1> QED
  BY <1>2, <1>4, <1>5, <1>7 DEF JobInv

\* The retrieval of a job changes, and nothing else.
LEMMA RagFact ==
  ASSUME JobInv, NEW o \in Occupants, NEW r, RagOK(r),
         r.asking # 0 => stepIndex[o] < Len(got[o]),
         rag' = [rag EXCEPT ![o] = r],
         UNCHANGED <<slots, life, fed, taken, got, lmVars, stepIndex>>
  PROVE  JobInv'
<1>1. UNCHANGED vars
  BY DEF vars, occVars
<1>2. IInv'
  BY <1>1, NextIInv DEF JobInv
<1>3. Alone' /\ Traced' /\ stepIndex' \in [Occupants -> Nat]
  BY DEF JobInv, Alone, Traced, IsFree, lmVars
<1>4. DOMAIN rag' = Occupants
  BY DEF JobInv
<1>5. ASSUME NEW p \in Occupants
      PROVE  RagOK(rag'[p]) /\ (rag'[p].asking # 0 => stepIndex'[p] < Len(got'[p]))
  <2>1. CASE p = o
    BY <2>1 DEF JobInv
  <2>2. CASE p # o
    <3>1. rag'[p] = rag[p]
      BY <2>2 DEF JobInv
    <3> QED
      BY <3>1 DEF JobInv
  <2> QED
    BY <2>1, <2>2
<1> QED
  BY <1>2, <1>3, <1>4, <1>5 DEF JobInv

\* An iteration of the output loop.
LEMMA ReadJobInv ==
  ASSUME JobInv, NEW o \in Occupants, ReadOutput(o)
  PROVE  JobInv'
<1>1. /\ life[o] = "running" /\ rag[o].asking = 0 /\ stepIndex[o] < Len(got[o])
      /\ UNCHANGED <<slots, fed, taken, got, lmVars>> /\ RagOK(rag[o]) /\ stepIndex[o] \in Nat
  BY DEF ReadOutput, JobInv
<1>2. PICK t \in Outcomes(rag[o], stepIndex[o]) :
        LET r == Counted(t, stepIndex[o]) IN
          \/ Advance(o, r)
          \/ Advance(o, Settled(r))
          \/ /\ r.done # Never
             /\ rag' = [rag EXCEPT ![o] = [r EXCEPT !.asking = r.reference]]
             /\ UNCHANGED <<life, stepIndex>>
  BY DEF ReadOutput, IsDue
<1>3. PICK r : r = Counted(t, stepIndex[o])
  OBVIOUS
<1>4. RagOK(r) /\ r.asking = 0
  BY <1>1, <1>3, CountedOK
<1>5. ASSUME NEW q, Advance(o, q) PROVE IInv' /\ UNCHANGED <<slots, taken, got, offsets, offsetCpu, cache>>
  <2>1. life' = [life EXCEPT ![o] = "closing"] \/ life' = life
    BY <1>5 DEF Advance, Ends
  <2>2. IInv'
    BY <1>1, <2>1, ClosingIInv DEF JobInv
  <2> QED
    BY <1>1, <2>2 DEF lmVars
<1>6. CASE Advance(o, r)
  BY <1>1, <1>4, <1>5, <1>6, AdvanceFact
<1>7. CASE Advance(o, Settled(r))
  <2>1. PICK q : q = Settled(r)
    OBVIOUS
  <2>2. RagOK(q) /\ q.asking = 0
    BY <1>4, <2>1, SettledOK DEF Settled, RagOK, RagType
  <2> QED
    BY <1>1, <1>5, <1>7, <2>1, <2>2, AdvanceFact
<1>8. CASE r.done # Never /\ rag' = [rag EXCEPT ![o] = [r EXCEPT !.asking = r.reference]]
           /\ UNCHANGED <<life, stepIndex>>
  <2>1. PICK q : q = [r EXCEPT !.asking = r.reference]
    OBVIOUS
  <2>2. RagOK(q)
    BY <1>4, <1>8, <2>1, AskingOK
  <2> QED
    BY <1>1, <1>8, <2>1, <2>2, RagFact
<1> QED
  BY <1>2, <1>3, <1>6, <1>7, <1>8

\* A job conditions its slot, as a channel does.
LEMMA UpdateIInv ==
  ASSUME IInv, NEW o \in Occupants, life[o] = "running",
         pending' = [pending EXCEPT ![SlotOf(o)] = [of |-> o, left |-> RefLen]],
         life' = [life EXCEPT ![o] = "closing"] \/ life' = life,
         UNCHANGED <<slots, fed, taken, got, offsets, offsetCpu, cache, condition>>
  PROVE  IInv'
<1>1. PICK b \in Slots : slots[b] = o /\ SlotOf(o) = b
  BY SlotOfFact DEF IInv, Held
<1>2. TypeOK'
  <2>1. life' \in [Occupants -> Life]
    BY DEF IInv, TypeOK, Life
  <2>2. pending' \in [Slots -> [of : Occupants \cup {Nobody}, left : 0 .. RefLen]]
    <3>1. [of |-> o, left |-> RefLen] \in [of : Occupants \cup {Nobody}, left : 0 .. RefLen]
      OBVIOUS
    <3> QED
      BY <3>1 DEF IInv, TypeOK
  <2> QED
    BY <2>1, <2>2 DEF IInv, TypeOK
<1>3. Held' /\ Frames'
  BY DEF IInv, Held, Frames, TypeOK, IsFree
<1>4. Own' /\ Tallied'
  BY <1>1 DEF IInv, TypeOK, Own, Tallied, IsFree
<1> QED
  BY <1>2, <1>3, <1>4 DEF IInv

\* The encoder answers.
LEMMA ConditionsJobInv ==
  ASSUME JobInv, NEW o \in Occupants, Conditions(o)
  PROVE  JobInv'
<1>1. PICK r : r = [Settled(rag[o]) EXCEPT !.conditioned = Append(@, rag[o].asking)]
  OBVIOUS
<1>2. /\ life[o] = "running" /\ rag[o].asking # 0 /\ RagOK(rag[o]) /\ Advance(o, r)
      /\ pending' = [pending EXCEPT ![SlotOf(o)] = [of |-> o, left |-> RefLen]]
      /\ UNCHANGED <<slots, fed, taken, got, offsets, offsetCpu, cache, condition>>
      /\ stepIndex[o] < Len(got[o])
  BY <1>1 DEF Conditions, JobInv
<1>3. RagOK(r)
  BY <1>1, <1>2, ConditionedOK
<1>4. r.asking = 0
  BY <1>1, <1>2 DEF Settled, RagOK, RagType
<1>5. life' = [life EXCEPT ![o] = "closing"] \/ life' = life
  BY <1>2 DEF Advance, Ends
<1>6. IInv'
  BY <1>2, <1>5, UpdateIInv DEF JobInv
<1> QED
  BY <1>2, <1>3, <1>4, <1>6, AdvanceFact

LEMMA CatchJobInv ==
  ASSUME JobInv, NEW o \in Occupants, Returns(o)
  PROVE  JobInv'
<1>1. PICK elapsed \in 0 .. MaxElapsed : RetrievalReturns(o, elapsed)
  BY DEF Returns
<1>2. PICK r : r = Caught(rag[o], stepIndex[o], elapsed)
  OBVIOUS
<1>3. /\ rag[o].running /\ RagOK(rag[o]) /\ rag' = [rag EXCEPT ![o] = r]
      /\ UNCHANGED <<vars, stepIndex>> /\ stepIndex[o] \in Nat /\ elapsed \in Nat
      /\ rag[o].asking # 0 => stepIndex[o] < Len(got[o])
  BY <1>1, <1>2, JobRetrievalAssumption DEF RetrievalReturns, JobInv
<1>4. RagOK(r) /\ r.asking = rag[o].asking
  <2>1. PICK x : x = rag[o]
    OBVIOUS
  <2>2. RagOK(x) /\ x.running /\ r = Caught(x, stepIndex[o], elapsed)
    BY <1>2, <1>3, <2>1
  <2>3. r.asking = x.asking
    BY <2>2 DEF Caught, RagOK, RagType
  <2> QED
    BY <1>3, <2>1, <2>2, <2>3, CaughtOK
<1> QED
  BY <1>3, <1>4, RagFact DEF vars, occVars

LEMMA NextJobInv ==
  ASSUME BatchSize = 1, JobInv, [JobNext]_jobVars
  PROVE  JobInv'
<1>1. CASE Step /\ UNCHANGED <<stepIndex, rag>>
  BY <1>1, StepIInv, StepTraced DEF JobInv
<1>2. ASSUME NEW o \in Occupants, ReadOutput(o) \/ Returns(o) \/ Conditions(o) PROVE JobInv'
  BY <1>2, ReadJobInv, CatchJobInv, ConditionsJobInv
<1>3. ASSUME NEW o \in Occupants, JobFails(o) PROVE JobInv'
  <2>1. /\ life[o] \in {"starting", "running"} /\ life' = [life EXCEPT ![o] = "closing"]
        /\ rag' = [rag EXCEPT ![o] = NoRetrieval]
        /\ UNCHANGED <<slots, fed, taken, got, lmVars, stepIndex>>
    BY <1>3 DEF JobFails, Ends
  <2>2. IInv'
    BY <2>1, ClosingIInv DEF JobInv
  <2>3. Alone' /\ Traced' /\ stepIndex' \in [Occupants -> Nat]
    BY <2>1 DEF JobInv, Alone, Traced, IsFree, lmVars
  <2>4. NoRetrieval.asking = 0
    BY DEF NoRetrieval
  <2>5. DOMAIN rag' = Occupants /\ \A p \in Occupants : rag'[p] \in {rag[p], NoRetrieval}
    BY <2>1 DEF JobInv
  <2>6. \A p \in Occupants : RagOK(rag'[p])
    BY <2>5, NoRetrievalOK DEF JobInv
  <2>7. \A p \in Occupants : rag'[p].asking # 0 => stepIndex'[p] < Len(got'[p])
    BY <2>1, <2>4, <2>5 DEF JobInv
  <2> QED
    BY <2>2, <2>3, <2>5, <2>6, <2>7 DEF JobInv
<1>4. ASSUME NEW o \in Occupants, UNCHANGED <<stepIndex, rag>>,
             Acquire(o) \/ StartUp(o) \/ Feed(o) \/ UpdateReference(o) \/ Release(o)
      PROVE  JobInv'
  <2>1. IInv'
    BY <1>4, OccupantIInv DEF JobInv, Channel
  <2>2. UNCHANGED <<taken, got, offsets, offsetCpu, cache, stepIndex, rag>>
    BY <1>4 DEF Acquire, StartUp, Feed, UpdateReference, Release, lmVars, occVars
  <2>3. /\ Traced' /\ stepIndex' \in [Occupants -> Nat] /\ DOMAIN rag' = Occupants
        /\ \A p \in Occupants : RagOK(rag'[p])
        /\ \A p \in Occupants : rag'[p].asking # 0 => stepIndex'[p] < Len(got'[p])
    BY <2>2 DEF JobInv, Traced
  <2>4. CASE slots' = slots
    BY <2>1, <2>2, <2>3, <2>4 DEF JobInv, Alone, IsFree
  <2>5. CASE Acquire(o)
    <3>1. slots' = [slots EXCEPT ![0] = o] /\ slots \in [{0} -> Occupants \cup {Nobody}]
      BY <2>5, OneSlot DEF Acquire, JobInv, IInv, TypeOK
    <3>2. taken[o] = 0
      BY <2>5 DEF Acquire, JobInv, IInv, TypeOK, Frames
    <3> QED
      BY <2>1, <2>2, <2>3, <3>1, <3>2 DEF JobInv, Alone
  <2>6. CASE Release(o)
    <3>1. SlotOf(o) = 0
      BY <2>6, OneSlot DEF Release, JobInv, IInv, Held, SlotOf
    <3>2. slots' = [slots EXCEPT ![0] = Nobody] /\ slots \in [{0} -> Occupants \cup {Nobody}]
      BY <2>6, <3>1, OneSlot DEF Release, JobInv, IInv, TypeOK
    <3> QED
      BY <2>1, <2>2, <2>3, <3>2 DEF JobInv, Alone, IsFree
  <2> QED
    BY <1>4, <2>4, <2>5, <2>6 DEF StartUp, Feed, UpdateReference
<1>5. CASE UNCHANGED jobVars
  <2>1. UNCHANGED vars /\ UNCHANGED <<slots, taken, got, offsets, offsetCpu, cache, stepIndex, rag>>
    BY <1>5 DEF jobVars, vars, occVars, lmVars
  <2>2. IInv'
    BY <2>1, NextIInv DEF JobInv
  <2> QED
    BY <2>1, <2>2 DEF JobInv, Alone, Traced, IsFree
<1> QED
  BY <1>1, <1>2, <1>3, <1>4, <1>5 DEF JobNext, Job, JobStarts, FeedJob

LEMMA InitJobInv == JobInit => JobInv
<1> SUFFICES ASSUME JobInit PROVE JobInv
  OBVIOUS
<1>1. IInv
  BY InitIInv DEF JobInit
<1>2. 0 \in Slots /\ IsFree(0)
  BY DEF Slots, IsFree, JobInit, Init
<1>3. Traced
  BY DEF JobInit, Init, Traced
<1>4. /\ DOMAIN rag = Occupants /\ \A o \in Occupants : rag[o] = NoRetrieval
      /\ NoRetrieval.asking = 0
  BY DEF JobInit, NoRetrieval
<1> QED
  BY <1>1, <1>2, <1>3, <1>4, NoRetrievalOK DEF JobInit, JobInv, Alone

LEMMA AlignedFact == JobInv => TraceIsAligned
BY DEF JobInv, Traced, TraceIsAligned, IInv, TypeOK

LEMMA OrderedFact == JobInv => ReferencesInOrder
BY DEF JobInv, RagOK, Ordered, ReferencesInOrder

LEMMA SpecJobInv == ASSUME BatchSize = 1 PROVE JobSpec => []JobInv
<1>1. JobInv /\ [JobNext]_jobVars => JobInv'
  BY NextJobInv
<1> QED
  BY <1>1, InitJobInv, PTL DEF JobSpec

\* In a batch of one file, whatever the delay and however many files take turns, each
\* output that the output loop has read is that of the frame fed MaxDelay steps before
\* (_feed_loop, _output_loop).
THEOREM TraceIsAlignedHolds ==
  ASSUME BatchSize = 1
  PROVE  JobSpec => []TraceIsAligned
BY SpecJobInv, AlignedFact, PTL

===============================================================================
