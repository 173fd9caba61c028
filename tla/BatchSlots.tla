------------------------------ MODULE BatchSlots -------------------------------
(***************************************************************************)
(* The slots of the shared GPU batch: ServerState hands them to occupants  *)
(* (a Channel, or an offline InferenceJob), its step loop gathers at most  *)
(* one frame of each, and LMGen keeps, per slot, an offset and a circular  *)
(* cache of the tokens it sampled, which come out MaxDelay steps later.    *)
(* A slot is reset by the first frame of its new occupant.                 *)
(*                                                                         *)
(* A token is the frame of an occupant it was sampled for: this is the     *)
(* text stream, whose delay is 0.  What the tokens say, the audio and the  *)
(* input codebooks in the same cache are left out.  The step loop does not *)
(* await within a step, so a step is one action.                           *)
(***************************************************************************)
EXTENDS Integers, Sequences, FiniteSets

CONSTANTS
  Occupants, \* whoever asks for a slot
  BatchSize, \* batch_size
  MaxFrames, \* bound on the frames of an occupant
  MaxDelay,  \* LMGen.max_delay
  RefLen     \* steps a reference conditions

Nobody == "nobody"

ASSUME ParametersAssumption ==
  /\ BatchSize \in Nat \ {0} /\ MaxFrames \in Nat
  /\ MaxDelay \in Nat /\ RefLen \in Nat \ {0}
  /\ Nobody \notin Occupants

Slots == 0 .. BatchSize - 1
CT    == MaxDelay + 2 \* cache.shape[2]

Token       == Occupants \X (1 .. MaxFrames)
ZeroToken   == <<Nobody, 0>>
Ungenerated == <<Nobody, -2>>
Cell        == Token \cup {ZeroToken, Ungenerated}

NoReference == [of |-> Nobody, left |-> 0]
Life == {"new", "starting", "running", "closing", "gone"}

VARIABLES
  slots,      \* ServerState.slots
  life,       \* where the task of each occupant is
  fed, taken, \* frames put into input_queue, and taken from it by the step loop
  got,        \* text tokens put into output_queue
  offsets,    \* _LMGenState.offsets
  offsetCpu,  \* _LMGenState.offset_cpu, up to MaxDelay + 1
  cache,      \* _LMGenState.cache
  pending,    \* pending_streaming_sums: whose reference, and how much is left
  condition   \* condition_streaming_sum: whose reference the last step added

lmVars == <<offsets, offsetCpu, cache, pending, condition>>
occVars == <<life, fed, taken, got>>
vars == <<slots, occVars, lmVars>>

SlotOf(o) == CHOOSE b \in Slots : slots[b] = o

Init ==
  /\ slots = [b \in Slots |-> Nobody]
  /\ life = [o \in Occupants |-> "new"]
  /\ fed = [o \in Occupants |-> 0] /\ taken = [o \in Occupants |-> 0]
  /\ got = [o \in Occupants |-> <<>>]
  \* after the reset that ends warmup
  /\ offsets = [b \in Slots |-> 0] /\ offsetCpu = 0
  /\ cache = [b \in Slots |-> [i \in 0 .. CT - 1 |-> ZeroToken]]
  /\ pending = [b \in Slots |-> NoReference]
  /\ condition = [b \in Slots |-> Nobody]

-------------------------------------------------------------------------------
(* An occupant *)

IsFree(b) == slots[b] = Nobody

\* acquire_slot: the first free slot.
Acquire(o) ==
  /\ life[o] = "new"
  /\ \E b \in Slots :
       /\ IsFree(b) /\ \A c \in Slots : IsFree(c) => b <= c
       /\ slots' = [slots EXCEPT ![b] = o]
  /\ life' = [life EXCEPT ![o] = "starting"]
  /\ UNCHANGED <<fed, taken, got, lmVars>>

\* acquire_slot raises HTTPServiceUnavailable: a channel is turned away.
Reject(o) ==
  /\ life[o] = "new" /\ \A b \in Slots : ~IsFree(b)
  /\ life' = [life EXCEPT ![o] = "gone"]
  /\ UNCHANGED <<slots, fed, taken, got, lmVars>>

\* The rest of __aenter__: the STT service is started.
StartUp(o) ==
  /\ life[o] = "starting"
  /\ life' = [life EXCEPT ![o] = "running"]
  /\ UNCHANGED <<slots, fed, taken, got, lmVars>>

\* It raises: __aenter__ fails, so __aexit__ does not run, and nothing is released.
StartUpFails(o) ==
  /\ life[o] = "starting"
  /\ life' = [life EXCEPT ![o] = "gone"]
  /\ UNCHANGED <<slots, fed, taken, got, lmVars>>

\* A frame of audio; the first one carries is_first.
Feed(o) ==
  /\ life[o] = "running" /\ fed[o] < MaxFrames
  /\ fed' = [fed EXCEPT ![o] = @ + 1]
  /\ UNCHANGED <<slots, life, taken, got, lmVars>>

\* _async_update_reference, on an answer of the ARC encoder.
UpdateReference(o) ==
  /\ life[o] = "running" /\ fed[o] > 0
  /\ pending' = [pending EXCEPT ![SlotOf(o)] = [of |-> o, left |-> RefLen]]
  /\ UNCHANGED <<slots, occVars, offsets, offsetCpu, cache, condition>>

\* The tasks of the occupant have ended; STT shuts down, with the slot still held.
Close(o) ==
  /\ life[o] = "running"
  /\ life' = [life EXCEPT ![o] = "closing"]
  /\ UNCHANGED <<slots, fed, taken, got, lmVars>>

Release(o) ==
  /\ life[o] = "closing"
  /\ slots' = [slots EXCEPT ![SlotOf(o)] = Nobody]
  /\ life' = [life EXCEPT ![o] = "gone"]
  /\ UNCHANGED <<fed, taken, got, lmVars>>

-------------------------------------------------------------------------------
(* A step of the batch *)

\* _gather_step_inputs: the slots with a frame, and those with a first frame.
Active == {b \in Slots : ~IsFree(b) /\ fed[slots[b]] > taken[slots[b]]}
First  == {b \in Active : taken[slots[b]] = 0}

\* reset_streaming(reset_mask): the offsets and the references of the slots to
\* reset, but the cache and the CPU offset of the whole batch.
OffsetsReset(resets) == [b \in Slots |-> IF b \in resets THEN 0 ELSE offsets[b]]

\* Mutant: the references of the previous occupant are kept.
PendingKept(resets) == pending

PendingReset(resets) == [b \in Slots |-> IF b \in resets THEN NoReference ELSE pending[b]]

CacheReset(resets) ==
  IF resets = {} THEN cache ELSE [b \in Slots |-> [i \in 0 .. CT - 1 |-> ZeroToken]]

\* Mutant: the CPU offset is reset for nobody.
OffsetCpuKept(resets) == offsetCpu

OffsetCpuReset(resets) == IF resets = {} THEN offsetCpu ELSE 0

\* Mutant: the end of a reference is not noticed.
ApplyPastTheEnd(staged) ==
  /\ condition' = [b \in Slots |-> IF b \in Active THEN staged[b].of ELSE condition[b]]
  /\ pending' = [b \in Slots |->
       IF b \in Active THEN [staged[b] EXCEPT !.left = @ - 1] ELSE staged[b]]

\* apply_pending_streaming_sum_condition
ApplyPending(staged) ==
  /\ condition' = [b \in Slots |-> IF b \in Active THEN staged[b].of ELSE condition[b]]
  /\ pending' = [b \in Slots |->
       IF b \notin Active \/ staged[b].left = 0 THEN staged[b]
       ELSE IF staged[b].left = 1 THEN NoReference
       ELSE [staged[b] EXCEPT !.left = @ - 1]]

\* A token is sampled for each active slot and written at its new offset.
Sample(start, cells) ==
  /\ offsets' = [b \in Slots |-> IF b \in Active THEN start[b] + 1 ELSE start[b]]
  /\ cache' = [b \in Slots |->
       IF b \in Active
       THEN [cells[b] EXCEPT ![offsets'[b] % CT] = <<slots[b], taken[slots[b]] + 1>>]
       ELSE cells[b]]

\* Mutant: the delay is not subtracted.
OutputAtOnce(b) == IF offsets'[b] <= MaxDelay THEN Ungenerated
                   ELSE cache'[b][offsets'[b] % CT]

\* What comes out: the token written MaxDelay steps before.
Output(b) == IF offsets'[b] <= MaxDelay THEN Ungenerated
             ELSE cache'[b][(offsets'[b] - MaxDelay) % CT]

\* Mutant: the delay is counted once too often.
DeliversLate == offsetCpu' > MaxDelay /\ offsetCpu > MaxDelay

\* run_step does not deliver the rows of the first steps after a reset of any slot.
Delivers == offsetCpu' > MaxDelay

\* Mutant: the rows are numbered by the active slots, not by all of them.
DeliverCompacted ==
  got' = [o \in Occupants |->
    IF Delivers /\ \E b \in Active : slots[b] = o
    THEN Append(got[o], Output(Cardinality({c \in Active : c < SlotOf(o)})))
    ELSE got[o]]

Deliver ==
  got' = [o \in Occupants |->
    IF Delivers /\ \E b \in Active : slots[b] = o THEN Append(got[o], Output(SlotOf(o)))
                                                  ELSE got[o]]

\* run_one_step
Step ==
  /\ Active # {}
  /\ taken' = [o \in Occupants |->
       IF \E b \in Active : slots[b] = o THEN taken[o] + 1 ELSE taken[o]]
  /\ ApplyPending(PendingReset(First))
  /\ Sample(OffsetsReset(First), CacheReset(First))
  /\ offsetCpu' = IF OffsetCpuReset(First) <= MaxDelay THEN OffsetCpuReset(First) + 1
                                                       ELSE offsetCpu
  /\ Deliver
  /\ UNCHANGED <<slots, life, fed>>

-------------------------------------------------------------------------------
Channel(o) ==
  \/ Acquire(o) \/ Reject(o) \/ StartUp(o) \/ StartUpFails(o)
  \/ Feed(o) \/ UpdateReference(o) \/ Close(o) \/ Release(o)

Next == Step \/ \E o \in Occupants : Channel(o)

Spec == Init /\ [][Next]_vars

-------------------------------------------------------------------------------
(* Properties *)

TypeOK ==
  /\ slots \in [Slots -> Occupants \cup {Nobody}]
  /\ life \in [Occupants -> Life]
  /\ fed \in [Occupants -> 0 .. MaxFrames] /\ taken \in [Occupants -> 0 .. MaxFrames]
  /\ got \in [Occupants -> Seq(Cell)]
  /\ offsets \in [Slots -> Nat] /\ offsetCpu \in 0 .. MaxDelay + 1
  /\ cache \in [Slots -> [0 .. CT - 1 -> Cell]]
  /\ pending \in [Slots -> [of : Occupants \cup {Nobody}, left : 0 .. RefLen]]
  /\ condition \in [Slots -> Occupants \cup {Nobody}]

\* A cell that was sampled, and not cleared since.
IsToken(cell) == cell \notin {ZeroToken, Ungenerated}

\* What the user hears is sampled from frames of the user's own connection, in
\* their order, whoever had the slot before and whoever else is in the batch.  A
\* token may be lost, when a reset clears the cache (lm.py:541-547).
TokensAreOwn ==
  \A o \in Occupants : \A i \in DOMAIN got[o] :
    IsToken(got[o][i]) =>
      /\ got[o][i][1] = o
      /\ \A j \in 1 .. i - 1 : IsToken(got[o][j]) => got[o][j][2] < got[o][i][2]

\* No token that is not generated yet reaches a channel, where decoding it would
\* raise (run_step, _decode_text_token).
NeverUngenerated == \A o \in Occupants : \A i \in DOMAIN got[o] : got[o][i] # Ungenerated

\* From the first frame of an occupant on, only its own references condition its
\* slot, although the one before may have left one (_reset_callback).
ConditionIsOwn ==
  \A b \in Slots :
    ~IsFree(b) /\ taken[slots[b]] > 0 => condition[b] \in {slots[b], Nobody}

\* Every connection that starts costs the others at most MaxDelay outputs, and no
\* output comes before the MaxDelay steps of its slot (offset_cpu, _step).
BoundedLoss ==
  \A o \in Occupants :
    taken[o] > 0 =>
      /\ Len(got[o]) <= taken[o] - MaxDelay
      /\ Len(got[o]) >= taken[o] - MaxDelay * Cardinality({p \in Occupants : taken[p] > 0})

-------------------------------------------------------------------------------
(* What the repository's text says and the code does not do *)

\* "deliver pushes each row to the slot object" (batch_runner.py:82): the row of a
\* slot that is past its own delay.
EachRowDelivered ==
  [][\A b \in Slots :
       taken' # taken /\ b \in Active /\ offsets'[b] > MaxDelay
         => Len(got'[slots[b]]) = Len(got[slots[b]]) + 1]_vars

\* "when the mask is False for an entry, the internal state will be unchanged by
\* the provided data" (streaming.py:188).
MaskedUnchanged ==
  [][taken' # taken => \A b \in Slots \ Active : cache'[b] = cache[b]]_vars

===============================================================================
