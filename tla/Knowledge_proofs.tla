--------------------------- MODULE Knowledge_proofs ---------------------------
(***************************************************************************)
(* Proofs about what a reference is made of: Retrieval for any profiles,   *)
(* threads, retrievals, ticks and timeout; Memory for any conversations,   *)
(* commits, episode limit and threshold, kept in a file or not; the merge  *)
(* of KnowledgeMerge for any candidates, budget and lengths; and           *)
(* ReferenceHistory for any number of lines and shots.                     *)
(*                                                                         *)
(* What is computed over a list is a recursive function, and the proofs    *)
(* go along it by Induct: every number up to the length has the property.  *)
(***************************************************************************)
EXTENDS MCKnowledge, Iterations, FiniteSetTheorems, SequenceTheorems, TLAPS

-------------------------------------------------------------------------------
(* Retrievals *)

Llms       == Ids \cup {ENV}
Roles      == {"primary", "fallback", "summary"}
CallStates == {"queued", "running", "answered", "dropped", "abandoned", "over"}

CallType ==
  [of : Nat \ {0}, role : Roles, llm : Llms, state : CallStates, left : Nat,
   text : Llms \cup {NOTHING}]

RetrievalType ==
  [state : {"waiting", "summarizing", "done", "cancelled"}, profile : Ids \cup {UNKNOWN},
   elapsed : Nat, text : Llms \cup {NOTHING}, label : Llms \cup {NOTHING}]

TypeOK ==
  /\ profiles \in Seq([id : Ids, default : Flags]) /\ ValidFlags(profiles)
  /\ summarization \in BOOLEAN
  /\ retrievals \in Seq(RetrievalType)
  /\ calls \in Seq(CallType)

Active(r) == retrievals[r].state \in {"waiting", "summarizing"}

\* Of each call: it is of a retrieval that was begun, it holds the model's own text or
\* none, and only a call that was answered in time holds one.
Wrote ==
  \A c \in DOMAIN calls :
    /\ calls[c].of \in DOMAIN retrievals
    /\ calls[c].text \in {NOTHING, calls[c].llm}
    /\ calls[c].text # NOTHING => calls[c].state = "answered"

\* Of the calls of a retrieval: the active profile's is the first, the default is among
\* them, and none is awaited once the retrieval is over.
Asked(r) ==
  /\ \A c \in CallsOf(r) :
       /\ calls[c].role = "primary" =>
            /\ \A d \in CallsOf(r) : c <= d
            /\ Multi /\ retrievals[r].profile \in KnownProfiles
                 => calls[c].llm = retrievals[r].profile
       /\ ~Active(r) => ~Awaited(c)
  /\ CallsOf(r) # {} /\ Multi => \E c \in CallsOf(r) : calls[c].llm = DefaultProfileId
  /\ retrievals[r].state = "summarizing" =>
       summarization /\ \E c \in CallsOf(r) : calls[c].role = "summary"

\* Of its reference: nothing while it waits, then the model's that is told.
Told(r) ==
  /\ retrievals[r].text # NOTHING => retrievals[r].label = retrievals[r].text
  /\ retrievals[r].state = "waiting" => retrievals[r].text = NOTHING
  /\ retrievals[r].state = "done" /\ ~summarization =>
       \A c \in CallsOf(r) :
         calls[c].role = "primary" /\ calls[c].text # NOTHING => retrievals[r].text = calls[c].llm

\* What is left to a call and what its retrieval has taken is the timeout.
Timed(r) ==
  ~summarization =>
    /\ retrievals[r].elapsed <= LlmTimeout
    /\ retrievals[r].state = "waiting" =>
         \A c \in CallsOf(r) : Awaited(c) => retrievals[r].elapsed + calls[c].left = LlmTimeout

IInv ==
  /\ TypeOK /\ Wrote
  /\ \A r \in DOMAIN retrievals : Asked(r) /\ Told(r) /\ Timed(r)

USE RetrievalAssumption DEF Roles, CallStates

\* The table of calls and retrievals, element by element.
LEMMA Tables ==
  ASSUME TypeOK
  PROVE  /\ Len(calls) \in Nat /\ DOMAIN calls = 1 .. Len(calls)
         /\ Len(retrievals) \in Nat /\ DOMAIN retrievals = 1 .. Len(retrievals)
         /\ \A c \in DOMAIN calls : calls[c] \in CallType
         /\ \A r \in DOMAIN retrievals : retrievals[r] \in RetrievalType
  BY DEF TypeOK

LEMMA KnownFact == ASSUME TypeOK PROVE KnownProfiles \subseteq Ids
<1>1. \A i \in DOMAIN profiles : profiles[i] \in [id : Ids, default : Flags]
  <2> DEFINE S == [id : Ids, default : Flags]
  <2>1. profiles \in Seq(S)
    BY DEF TypeOK
  <2> HIDE DEF S
  <2>2. \A i \in DOMAIN profiles : profiles[i] \in S
    BY <2>1
  <2> QED
    BY <2>2 DEF S
<1>2. \A i \in DOMAIN profiles : profiles[i].id \in Ids
  BY <1>1
<1> QED
  BY <1>2 DEF KnownProfiles

\* If there are two profiles or more, one of them is the default.
LEMMA DefaultKnown ==
  ASSUME TypeOK, Multi
  PROVE  DefaultProfileId \in Ids /\ DefaultProfileId \in KnownProfiles
<1>1. Cardinality(Defaults(profiles)) = 1
  BY DEF TypeOK, ValidFlags, Multi
<1>2. Defaults(profiles) # {}
  BY <1>1, FS_EmptySet
<1>3. PICK i \in Defaults(profiles) : i = CHOOSE j \in Defaults(profiles) : TRUE
  BY <1>2
<1>4. DefaultProfileId = profiles[i].id /\ i \in DOMAIN profiles
  BY <1>3 DEF DefaultProfileId, Defaults
<1>5. DefaultProfileId \in KnownProfiles
  BY <1>4 DEF KnownProfiles
<1> QED
  BY <1>5, KnownFact

\* The calls that a retrieval begins with.
LEMMA CallsForFact ==
  ASSUME TypeOK, NEW r \in Nat \ {0}, NEW profile
  PROVE  \E n \in {1, 2} :
           /\ CallsFor(r, profile) \in Seq(CallType) /\ Len(CallsFor(r, profile)) = n
           /\ \A i \in 1 .. n :
                /\ CallsFor(r, profile)[i].of = r
                /\ CallsFor(r, profile)[i].text = NOTHING
                /\ CallsFor(r, profile)[i].state = "queued"
                /\ CallsFor(r, profile)[i].left = LlmTimeout
                /\ CallsFor(r, profile)[i].role = (IF i = 1 THEN "primary" ELSE "fallback")
                /\ i = 1 /\ Multi /\ profile \in KnownProfiles => CallsFor(r, profile)[i].llm = profile
           /\ Multi => \E i \in 1 .. n : CallsFor(r, profile)[i].llm = DefaultProfileId
<1>1. \A role \in {"primary", "fallback"}, llm \in Llms :
        /\ Call(r, role, llm) \in CallType
        /\ Call(r, role, llm).of = r /\ Call(r, role, llm).role = role
        /\ Call(r, role, llm).llm = llm /\ Call(r, role, llm).state = "queued"
        /\ Call(r, role, llm).left = LlmTimeout /\ Call(r, role, llm).text = NOTHING
  BY DEF Call, CallType
<1>2. CASE ~Multi
  <2>1. CallsFor(r, profile) = <<Call(r, "primary", ENV)>>
    BY <1>2 DEF CallsFor
  <2>2. ENV \in Llms
    BY DEF Llms
  <2> QED
    BY <1>1, <1>2, <2>1, <2>2
<1>3. CASE Multi /\ profile = DefaultProfileId
  <2>1. CallsFor(r, profile) = <<Call(r, "primary", DefaultProfileId)>>
    BY <1>3 DEF CallsFor
  <2>2. DefaultProfileId \in Llms
    BY <1>3, DefaultKnown DEF Llms
  <2> QED
    BY <1>1, <1>3, <2>1, <2>2
<1>4. CASE Multi /\ profile # DefaultProfileId
  <2> DEFINE llm == IF profile \in KnownProfiles THEN profile ELSE DefaultProfileId
  <2>1. CallsFor(r, profile) = <<Call(r, "primary", llm), Call(r, "fallback", DefaultProfileId)>>
    BY <1>4 DEF CallsFor
  <2>2. DefaultProfileId \in Llms
    BY <1>4, DefaultKnown DEF Llms
  <2>3. KnownProfiles \subseteq Ids
    BY KnownFact
  <2>4. llm \in Llms /\ (profile \in KnownProfiles => llm = profile)
    BY <2>2, <2>3 DEF Llms
  <2> HIDE DEF llm
  <2> QED
    BY <1>1, <2>1, <2>2, <2>4
<1> QED
  BY <1>2, <1>3, <1>4

\* The call whose text is the reference, if any has one: the first, so that it is the
\* active profile's whenever that has written.
LEMMA ChosenFact ==
  ASSUME IInv, NEW r \in DOMAIN retrievals
  PROVE  /\ Chosen(r) # 0 => Chosen(r) \in CallsOf(r) /\ calls[Chosen(r)].text # NOTHING
         /\ \A c \in CallsOf(r) :
              calls[c].role = "primary" /\ calls[c].text # NOTHING => Chosen(r) = c
<1> DEFINE wrote == {c \in CallsOf(r) : calls[c].text # NOTHING}
<1>1. wrote \subseteq 1 .. Len(calls) /\ Len(calls) \in Nat
  BY Tables DEF IInv, CallsOf
<1>2. Chosen(r) = IF wrote = {} THEN 0 ELSE CHOOSE c \in wrote : \A d \in wrote : c <= d
  BY DEF Chosen
<1>3. ASSUME NEW c \in CallsOf(r), calls[c].role = "primary", calls[c].text # NOTHING
      PROVE  Chosen(r) = c
  <2>1. c \in wrote /\ \A d \in wrote : c <= d
    BY <1>3 DEF IInv, Asked
  <2>2. \A e \in wrote : (\A d \in wrote : e <= d) => e = c
    BY <1>1, <2>1
  <2> HIDE DEF wrote
  <2> QED
    BY <1>2, <2>1, <2>2
<1>4. ASSUME wrote # {} PROVE \E c \in wrote : \A d \in wrote : c <= d
  <2>1. PICK c \in wrote : \A d \in wrote : <<d, c>> \notin OpToRel(<, Nat)
    <3>1. wrote \subseteq Nat
      BY <1>1
    <3> HIDE DEF wrote
    <3> QED
      BY <1>4, <3>1, NatLessThanWellFounded, WFMin
  <2>2. \A d \in wrote : d \in Nat /\ ~(d < c)
    <3>1. wrote \subseteq Nat
      BY <1>1
    <3> HIDE DEF wrote
    <3> QED
      BY <2>1, <3>1 DEF OpToRel
  <2>3. \A d \in wrote : c <= d
    <3>1. c \in Nat
      BY <2>2
    <3> QED
      BY <2>2, <3>1
  <2> QED
    BY <2>3
<1>5. Chosen(r) # 0 => Chosen(r) \in wrote
  <2> HIDE DEF wrote
  <2> QED
    BY <1>2, <1>4
<1> QED
  BY <1>3, <1>5

\* A step changes no call's retrieval, role and model.
SameCalls ==
  /\ DOMAIN calls' = DOMAIN calls
  /\ \A c \in DOMAIN calls :
       /\ calls'[c] \in CallType
       /\ calls'[c].of = calls[c].of /\ calls'[c].role = calls[c].role
       /\ calls'[c].llm = calls[c].llm

\* The rest of a call under way changes: it is run, answered, given up, or waited for.
LEMMA CallSteps ==
  ASSUME TypeOK, Wrote, NEW c \in DOMAIN calls,
         RunCall(c) \/ Expire(c) \/ \E writes \in BOOLEAN : Answer(c, writes)
  PROVE  /\ UNCHANGED <<generator, retrievals>>
         /\ calls' \in Seq(CallType)
         /\ SameCalls
         /\ \A d \in DOMAIN calls :
              /\ calls'[d].text \in {NOTHING, calls[d].llm}
              /\ calls'[d].text # NOTHING => calls'[d].state = "answered"
              /\ ~Awaited(d) => calls'[d].text = calls[d].text
              /\ Awaited(d)' => Awaited(d) /\ calls'[d].left = calls[d].left
<1>1. /\ calls[c] \in CallType /\ calls[c].text \in {NOTHING, calls[c].llm}
      /\ calls[c].text # NOTHING => calls[c].state = "answered"
      /\ \A d \in DOMAIN calls : calls[d] \in CallType
      /\ calls \in Seq(CallType) /\ DOMAIN calls = 1 .. Len(calls)
  BY Tables DEF Wrote, TypeOK
<1>2. UNCHANGED <<generator, retrievals>>
  BY DEF RunCall, Expire, Answer
<1>3. PICK new \in CallType :
        /\ calls' = [calls EXCEPT ![c] = new]
        /\ new.of = calls[c].of /\ new.role = calls[c].role /\ new.llm = calls[c].llm
        /\ new.text \in {NOTHING, calls[c].llm}
        /\ new.text # NOTHING => new.state = "answered"
        /\ calls[c].state \notin {"queued", "running"} => new.text = calls[c].text
        /\ new.state \in {"queued", "running"} =>
             calls[c].state \in {"queued", "running"} /\ new.left = calls[c].left
  <2>1. CASE RunCall(c)
    <3> DEFINE new == [calls[c] EXCEPT !.state = "running"]
    <3>1. new \in CallType /\ calls' = [calls EXCEPT ![c] = new]
      BY <1>1, <2>1 DEF RunCall, CallType
    <3>2. /\ new.of = calls[c].of /\ new.role = calls[c].role /\ new.llm = calls[c].llm
          /\ new.text = calls[c].text /\ new.left = calls[c].left /\ calls[c].state = "queued"
      BY <1>1, <2>1 DEF RunCall, CallType, Queued
    <3> HIDE DEF new
    <3> QED
      BY <1>1, <3>1, <3>2
  <2>2. CASE Expire(c)
    <3> DEFINE new == GiveUp(calls[c])
    <3>1. new \in CallType /\ calls' = [calls EXCEPT ![c] = new]
      BY <1>1, <2>2 DEF Expire, CallType, GiveUp
    <3>2. /\ new.of = calls[c].of /\ new.role = calls[c].role /\ new.llm = calls[c].llm
          /\ new.text = calls[c].text /\ new.state \in {"dropped", "abandoned"}
          /\ calls[c].state # "answered"
      BY <1>1, <2>2 DEF Expire, CallType, GiveUp, Awaited
    <3> HIDE DEF new
    <3> QED
      BY <1>1, <3>1, <3>2
  <2>3. ASSUME NEW writes \in BOOLEAN, Answer(c, writes)
        PROVE  \E new \in CallType :
                 /\ calls' = [calls EXCEPT ![c] = new]
                 /\ new.of = calls[c].of /\ new.role = calls[c].role /\ new.llm = calls[c].llm
                 /\ new.text \in {NOTHING, calls[c].llm}
                 /\ new.text # NOTHING => new.state = "answered"
                 /\ calls[c].state \notin {"queued", "running"} => new.text = calls[c].text
                 /\ new.state \in {"queued", "running"} =>
                      calls[c].state \in {"queued", "running"} /\ new.left = calls[c].left
    <3> DEFINE new == [calls[c] EXCEPT
                         !.state = IF @ = "running" THEN "answered" ELSE "over", !.left = 0,
                         !.text  = IF calls[c].state = "running" /\ writes THEN calls[c].llm ELSE NOTHING]
    <3>1. calls[c].state \in {"running", "abandoned"}
      BY <2>3 DEF Answer, Busy
    <3>2. new \in CallType /\ calls' = [calls EXCEPT ![c] = new]
      BY <1>1, <2>3 DEF Answer, CallType
    <3>3. /\ new.of = calls[c].of /\ new.role = calls[c].role /\ new.llm = calls[c].llm
          /\ new.state = IF calls[c].state = "running" THEN "answered" ELSE "over"
          /\ new.text = IF calls[c].state = "running" /\ writes THEN calls[c].llm ELSE NOTHING
      BY <1>1 DEF CallType
    <3> HIDE DEF new
    <3> QED
      BY <1>1, <3>1, <3>2, <3>3
  <2> QED
    BY <2>1, <2>2, <2>3
<1>4. /\ calls' \in Seq(CallType) /\ DOMAIN calls' = DOMAIN calls
      /\ \A d \in DOMAIN calls : calls'[d] = IF d = c THEN new ELSE calls[d]
  BY <1>1, <1>3
<1> QED
  BY <1>1, <1>2, <1>3, <1>4 DEF SameCalls, Wrote, Awaited

\* The parameters of the generator do not change.
LEMMA GeneratorFact ==
  ASSUME UNCHANGED generator
  PROVE  /\ Multi' = Multi /\ DefaultProfileId' = DefaultProfileId /\ KnownProfiles' = KnownProfiles
         /\ profiles' = profiles /\ summarization' = summarization
  BY DEF Multi, DefaultProfileId, KnownProfiles, Defaults, generator

\* A retrieval that a step does not concern.
LEMMA OtherFact ==
  ASSUME NEW r, Asked(r), Told(r), Timed(r), UNCHANGED generator, retrievals'[r] = retrievals[r],
         CallsOf(r)' = CallsOf(r), \A c \in CallsOf(r) : calls'[c] = calls[c]
  PROVE  Asked(r)' /\ Told(r)' /\ Timed(r)'
<1>1. Asked(r)'
  BY GeneratorFact DEF Asked, Active, Awaited
<1>2. Told(r)'
  BY GeneratorFact DEF Told
<1>3. Timed(r)'
  BY GeneratorFact DEF Timed, Awaited
<1> QED
  BY <1>1, <1>2, <1>3

LEMMA CallIInv ==
  ASSUME IInv, NEW c \in DOMAIN calls,
         RunCall(c) \/ Expire(c) \/ \E writes \in BOOLEAN : Answer(c, writes)
  PROVE  IInv'
<1>1. /\ UNCHANGED <<generator, retrievals>>
      /\ calls' \in Seq(CallType)
      /\ SameCalls
      /\ \A d \in DOMAIN calls :
           /\ calls'[d].text \in {NOTHING, calls[d].llm}
           /\ calls'[d].text # NOTHING => calls'[d].state = "answered"
           /\ ~Awaited(d) => calls'[d].text = calls[d].text
           /\ Awaited(d)' => Awaited(d) /\ calls'[d].left = calls[d].left
  BY CallSteps DEF IInv
<1>2. /\ \A r : CallsOf(r)' = CallsOf(r)
      /\ \A r : Active(r)' <=> Active(r)
      /\ Multi' = Multi /\ DefaultProfileId' = DefaultProfileId /\ KnownProfiles' = KnownProfiles
      /\ profiles' = profiles /\ summarization' = summarization
  BY <1>1, GeneratorFact DEF SameCalls, CallsOf, Active
<1>3. \A r : CallsOf(r) \subseteq DOMAIN calls
  BY DEF CallsOf
<1>4. TypeOK'
  BY <1>1, <1>2 DEF IInv, TypeOK, ValidFlags, Defaults
<1>5. Wrote'
  BY <1>1 DEF IInv, Wrote, SameCalls
<1>6. ASSUME NEW r \in DOMAIN retrievals PROVE Asked(r)' /\ Told(r)' /\ Timed(r)'
  <2>1. Asked(r) /\ Told(r) /\ Timed(r)
    BY DEF IInv
  <2>2. Asked(r)'
    BY <1>1, <1>2, <1>3, <2>1 DEF Asked, SameCalls
  <2>3. Told(r)'
    <3> SUFFICES ASSUME retrievals[r].state = "done", ~summarization,
                        NEW d \in CallsOf(r), calls[d].role = "primary", calls'[d].text # NOTHING
                 PROVE  retrievals[r].text = calls[d].llm
      BY <1>1, <1>2, <1>3, <2>1 DEF Told, SameCalls
    <3>1. ~Awaited(d)
      BY <2>1 DEF Asked, Active
    <3> QED
      BY <1>1, <1>3, <2>1, <3>1 DEF Told
  <2>4. Timed(r)'
    BY <1>1, <1>2, <1>3, <2>1 DEF Timed
  <2> QED
    BY <2>2, <2>3, <2>4
<1> QED
  BY <1>1, <1>4, <1>5, <1>6 DEF IInv

\* What the new retrieval is.
Begun(state, profile) ==
  [state |-> state, profile |-> profile, elapsed |-> 0, text |-> NOTHING, label |-> NOTHING]

LEMMA BeginFact ==
  ASSUME IInv, NEW l \in Nat, l = Len(retrievals),
         NEW profile \in Ids \cup {UNKNOWN}, NEW state \in {"waiting", "done"},
         retrievals' = Append(retrievals, Begun(state, profile))
  PROVE  /\ DOMAIN retrievals = 1 .. l /\ DOMAIN retrievals' = 1 .. l + 1
         /\ retrievals' \in Seq(RetrievalType)
         /\ retrievals'[l + 1] = Begun(state, profile)
         /\ \A r \in 1 .. l : retrievals'[r] = retrievals[r]
         /\ \A r \in 1 .. l + 1 : r \in 1 .. l \/ r = l + 1
         /\ \A r : CallsOf(r) \subseteq DOMAIN calls
         /\ CallsOf(l + 1) = {}
<1> DEFINE new == Begun(state, profile)
<1>1. retrievals \in Seq(RetrievalType) /\ DOMAIN retrievals = 1 .. l
  BY Tables DEF IInv, TypeOK
<1>2. new \in RetrievalType
  BY DEF RetrievalType, Begun
<1>3. retrievals' = Append(retrievals, new)
  OBVIOUS
<1>4. CallsOf(l + 1) = {}
  BY <1>1 DEF IInv, Wrote, CallsOf
<1>5. \A r : CallsOf(r) \subseteq DOMAIN calls
  BY DEF CallsOf
<1> HIDE DEF new
<1>6. retrievals'[l + 1] = new
  BY <1>1, <1>2, <1>3
<1>7. /\ DOMAIN retrievals' = 1 .. l + 1 /\ retrievals' \in Seq(RetrievalType)
      /\ \A r \in 1 .. l : retrievals'[r] = retrievals[r]
  BY <1>1, <1>2, <1>3
<1> QED
  BY <1>1, <1>4, <1>5, <1>6, <1>7 DEF new

\* Without turns there is nothing to ask.
LEMMA AskNothingIInv ==
  ASSUME IInv, NEW l \in Nat, l = Len(retrievals), NEW profile \in Ids \cup {UNKNOWN},
         Ask(profile, FALSE)
  PROVE  IInv'
<1>1. /\ DOMAIN retrievals = 1 .. l /\ DOMAIN retrievals' = 1 .. l + 1
      /\ retrievals' \in Seq(RetrievalType)
      /\ retrievals'[l + 1].state = "done" /\ retrievals'[l + 1].text = NOTHING
      /\ retrievals'[l + 1].elapsed = 0
      /\ \A r \in 1 .. l : retrievals'[r] = retrievals[r]
      /\ \A r \in 1 .. l + 1 : r \in 1 .. l \/ r = l + 1
      /\ CallsOf(l + 1) = {}
  <2>1. retrievals' = Append(retrievals, Begun("done", profile))
    BY DEF Ask, Begun
  <2>2. /\ DOMAIN retrievals = 1 .. l /\ DOMAIN retrievals' = 1 .. l + 1
        /\ retrievals' \in Seq(RetrievalType)
        /\ retrievals'[l + 1] = Begun("done", profile)
        /\ \A r \in 1 .. l : retrievals'[r] = retrievals[r]
        /\ \A r \in 1 .. l + 1 : r \in 1 .. l \/ r = l + 1
        /\ \A r : CallsOf(r) \subseteq DOMAIN calls
        /\ CallsOf(l + 1) = {}
    BY <2>1, BeginFact
  <2>3. /\ Begun("done", profile).state = "done" /\ Begun("done", profile).text = NOTHING
        /\ Begun("done", profile).elapsed = 0 /\ Begun("done", profile).profile = profile
    BY DEF Begun
  <2> QED
    BY <2>2, <2>3
<1>2. UNCHANGED <<generator, calls>>
  BY DEF Ask
<1>3. \A r : CallsOf(r)' = CallsOf(r)
  BY <1>2 DEF CallsOf
<1>4. TypeOK'
  BY <1>1, <1>2 DEF IInv, TypeOK, ValidFlags, Defaults, generator
<1>5. Wrote'
  BY <1>1, <1>2 DEF IInv, Wrote
<1>6. \A r \in 1 .. l : Asked(r)' /\ Told(r)' /\ Timed(r)'
  BY <1>1, <1>2, <1>3, OtherFact DEF IInv
<1>7. Asked(l + 1)' /\ Told(l + 1)' /\ Timed(l + 1)'
  BY <1>1, <1>3 DEF Asked, Told, Timed
<1> QED
  BY <1>1, <1>4, <1>5, <1>6, <1>7 DEF IInv

LEMMA AskModelsIInv ==
  ASSUME IInv, NEW l \in Nat, l = Len(retrievals), NEW k \in Nat, k = Len(calls),
         NEW profile \in Ids \cup {UNKNOWN}, Ask(profile, TRUE)
  PROVE  IInv'
<1> DEFINE more == CallsFor(l + 1, profile)
<1>1. /\ DOMAIN retrievals = 1 .. l /\ DOMAIN retrievals' = 1 .. l + 1
      /\ retrievals' \in Seq(RetrievalType)
      /\ retrievals'[l + 1].state = "waiting" /\ retrievals'[l + 1].text = NOTHING
      /\ retrievals'[l + 1].elapsed = 0 /\ retrievals'[l + 1].profile = profile
      /\ \A r \in 1 .. l : retrievals'[r] = retrievals[r]
      /\ \A r \in 1 .. l + 1 : r \in 1 .. l \/ r = l + 1
      /\ \A r : CallsOf(r) \subseteq DOMAIN calls
      /\ CallsOf(l + 1) = {}
  <2>1. retrievals' = Append(retrievals, Begun("waiting", profile))
    BY DEF Ask, Begun
  <2>2. /\ DOMAIN retrievals = 1 .. l /\ DOMAIN retrievals' = 1 .. l + 1
        /\ retrievals' \in Seq(RetrievalType)
        /\ retrievals'[l + 1] = Begun("waiting", profile)
        /\ \A r \in 1 .. l : retrievals'[r] = retrievals[r]
        /\ \A r \in 1 .. l + 1 : r \in 1 .. l \/ r = l + 1
        /\ \A r : CallsOf(r) \subseteq DOMAIN calls
        /\ CallsOf(l + 1) = {}
    BY <2>1, BeginFact
  <2>3. /\ Begun("waiting", profile).state = "waiting" /\ Begun("waiting", profile).text = NOTHING
        /\ Begun("waiting", profile).elapsed = 0 /\ Begun("waiting", profile).profile = profile
    BY DEF Begun
  <2> QED
    BY <2>2, <2>3
<1>2. PICK n \in {1, 2} :
        /\ more \in Seq(CallType) /\ Len(more) = n
        /\ \A i \in 1 .. n :
             /\ more[i].of = l + 1 /\ more[i].text = NOTHING
             /\ more[i].state = "queued" /\ more[i].left = LlmTimeout
             /\ more[i].role = (IF i = 1 THEN "primary" ELSE "fallback")
             /\ i = 1 /\ Multi /\ profile \in KnownProfiles => more[i].llm = profile
        /\ Multi => \E i \in 1 .. n : more[i].llm = DefaultProfileId
  <2>1. l + 1 \in Nat \ {0} /\ TypeOK
    BY <1>1 DEF IInv
  <2> QED
    BY <2>1, CallsForFact
<1>3. UNCHANGED generator /\ calls' = calls \o more
  BY DEF Ask
<1>4. /\ DOMAIN calls = 1 .. k /\ calls \in Seq(CallType)
      /\ \A c \in 1 .. k : calls[c].of \in 1 .. l
  BY <1>1, Tables DEF IInv, TypeOK, Wrote
<1> HIDE DEF more
<1>5. /\ calls' \in Seq(CallType) /\ DOMAIN calls' = 1 .. k + n
      /\ \A c \in 1 .. k : calls'[c] = calls[c] /\ c \in 1 .. k + n
  BY <1>2, <1>3, <1>4
<1>6. /\ \A i \in 1 .. n : calls'[k + i] = more[i] /\ k + i \in 1 .. k + n /\ k + 1 <= k + i
      /\ \A c \in 1 .. k + n : c \in 1 .. k \/ \E i \in 1 .. n : c = k + i
  <2>1. \A i \in 1 .. n : calls'[k + i] = more[i] /\ k + i \in 1 .. k + n /\ k + 1 <= k + i
    BY <1>2, <1>3, <1>4
  <2>2. \A c \in 1 .. k + n : c \in 1 .. k \/ (c - k \in 1 .. n /\ c = k + (c - k))
    BY <1>4
  <2> QED
    BY <2>1, <2>2
<1>7. CallsOf(l + 1)' = {k + i : i \in 1 .. n}
  <2>1. \A c \in 1 .. k : calls'[c].of # l + 1
    BY <1>1, <1>4, <1>5
  <2>2. ASSUME NEW i \in 1 .. n PROVE k + i \in 1 .. k + n /\ calls'[k + i].of = l + 1
    <3>1. calls'[k + i] = more[i] /\ k + i \in 1 .. k + n
      BY <1>6
    <3>2. more[i].of = l + 1
      BY <1>2
    <3> QED
      BY <3>1, <3>2
  <2>3. CallsOf(l + 1)' = {c \in 1 .. k + n : calls'[c].of = l + 1}
    BY <1>5 DEF CallsOf
  <2>4. \A c \in CallsOf(l + 1)' : \E i \in 1 .. n : c = k + i
    BY <1>6, <2>1, <2>3, Zenon
  <2>5. \A i \in 1 .. n : k + i \in CallsOf(l + 1)'
    BY <2>2, <2>3, Zenon
  <2> QED
    BY <2>4, <2>5, Zenon
<1>8. \A r \in 1 .. l : CallsOf(r)' = CallsOf(r)
  <2> TAKE r \in 1 .. l
  <2>1. \A i \in 1 .. n : calls'[k + i].of # r
    <3>1. r # l + 1
      BY <1>1
    <3> QED
      BY <1>2, <1>6, <3>1
  <2>2. CallsOf(r)' = {c \in 1 .. k + n : calls'[c].of = r}
    BY <1>5 DEF CallsOf
  <2>3. CallsOf(r) = {c \in 1 .. k : calls[c].of = r}
    BY <1>4 DEF CallsOf
  <2>4. ASSUME NEW c \in 1 .. k + n, calls'[c].of = r PROVE c \in 1 .. k
    <3>1. \A i \in 1 .. n : c # k + i
      BY <2>1, <2>4
    <3> QED
      BY <1>6, <3>1
  <2> QED
    BY <1>5, <2>2, <2>3, <2>4
<1>9. TypeOK'
  BY <1>1, <1>3, <1>5 DEF IInv, TypeOK, ValidFlags, Defaults, generator
<1>10. Wrote'
  <2>1. l + 1 \in 1 .. l + 1 /\ 1 .. l \subseteq 1 .. l + 1
    BY <1>1
  <2>2. \A c \in 1 .. k : /\ calls'[c].of \in 1 .. l + 1
                          /\ calls'[c].text \in {NOTHING, calls'[c].llm}
                          /\ calls'[c].text # NOTHING => calls'[c].state = "answered"
    BY <1>4, <1>5, <2>1 DEF IInv, Wrote
  <2>3. \A i \in 1 .. n : calls'[k + i].of = l + 1 /\ calls'[k + i].text = NOTHING
    BY <1>2, <1>6
  <2> SUFFICES ASSUME NEW c \in 1 .. k + n
               PROVE  /\ calls'[c].of \in 1 .. l + 1
                      /\ calls'[c].text \in {NOTHING, calls'[c].llm}
                      /\ calls'[c].text # NOTHING => calls'[c].state = "answered"
    BY <1>1, <1>5 DEF Wrote
  <2>4. CASE c \in 1 .. k
    BY <2>2, <2>4
  <2>5. ASSUME NEW i \in 1 .. n, c = k + i PROVE calls'[c].of = l + 1 /\ calls'[c].text = NOTHING
    BY <2>3, <2>5
  <2> QED
    BY <1>6, <2>1, <2>4, <2>5
<1>11. \A r \in 1 .. l : Asked(r)' /\ Told(r)' /\ Timed(r)'
  <2> TAKE r \in 1 .. l
  <2>1. \A c \in CallsOf(r) : calls'[c] = calls[c]
    BY <1>1, <1>4, <1>5
  <2> QED
    BY <1>1, <1>3, <1>8, <2>1, OtherFact DEF IInv
<1>12. Asked(l + 1)'
  <2>1. \A i \in 1 .. n : calls'[k + i].role = "primary" => i = 1
    BY <1>2, <1>6
  <2>2. Multi /\ profile \in KnownProfiles => calls'[k + 1].llm = profile
    BY <1>2, <1>6
  <2>4. Active(l + 1)' /\ retrievals'[l + 1].state # "summarizing"
    BY <1>1 DEF Active
  <2>5. ASSUME NEW c \in CallsOf(l + 1)', calls'[c].role = "primary"
        PROVE  /\ \A d \in CallsOf(l + 1)' : c <= d
               /\ Multi /\ profile \in KnownProfiles => calls'[c].llm = profile
    <3>1. c = k + 1
      BY <1>7, <2>1, <2>5
    <3> QED
      BY <1>6, <1>7, <2>2, <3>1
  <2>6. ASSUME Multi PROVE \E c \in CallsOf(l + 1)' : calls'[c].llm = DefaultProfileId
    <3>1. PICK i \in 1 .. n : more[i].llm = DefaultProfileId
      BY <1>2, <2>6
    <3>2. k + i \in CallsOf(l + 1)' /\ calls'[k + i].llm = DefaultProfileId
      BY <1>6, <1>7, <3>1
    <3> QED
      BY <3>2
  <2>7. Multi' = Multi /\ DefaultProfileId' = DefaultProfileId /\ KnownProfiles' = KnownProfiles
    BY <1>3, GeneratorFact
  <2>8. ASSUME NEW c \in CallsOf(l + 1)'
        PROVE  /\ calls'[c].role = "primary" =>
                    /\ \A d \in CallsOf(l + 1)' : c <= d
                    /\ Multi' /\ retrievals'[l + 1].profile \in KnownProfiles'
                         => calls'[c].llm = retrievals'[l + 1].profile
               /\ ~Active(l + 1)' => ~Awaited(c)'
    BY <1>1, <2>4, <2>5, <2>7
  <2>9. Multi' => \E c \in CallsOf(l + 1)' : calls'[c].llm = DefaultProfileId'
    BY <2>6, <2>7
  <2> QED
    BY <2>4, <2>8, <2>9 DEF Asked
<1>13. Told(l + 1)'
  BY <1>1 DEF Told
<1>14. Timed(l + 1)'
  <2>1. \A c \in CallsOf(l + 1)' : calls'[c].left = LlmTimeout
    BY <1>2, <1>6, <1>7
  <2> QED
    BY <1>1, <2>1 DEF Timed
<1> QED
  BY <1>1, <1>9, <1>10, <1>11, <1>12, <1>13, <1>14 DEF IInv

\* A step that changes one retrieval, r.
LEMMA OneRetrieval ==
  ASSUME TypeOK, NEW r \in DOMAIN retrievals, NEW new \in RetrievalType,
         retrievals' = [retrievals EXCEPT ![r] = new]
  PROVE  /\ retrievals' \in Seq(RetrievalType) /\ DOMAIN retrievals' = DOMAIN retrievals
         /\ retrievals'[r] = new
         /\ \A q \in DOMAIN retrievals : q # r => retrievals'[q] = retrievals[q]
  BY DEF TypeOK

\* The models have answered, and there is nothing to ask any more.
LEMMA GatheredIInv ==
  ASSUME IInv, NEW r \in DOMAIN retrievals, Gathered(r), Chosen(r) = 0 \/ ~summarization
  PROVE  IInv'
<1>1. /\ TypeOK /\ Wrote /\ Asked(r) /\ Told(r) /\ Timed(r)
      /\ retrievals[r] \in RetrievalType /\ retrievals[r].state = "waiting"
      /\ retrievals[r].text = NOTHING
      /\ \A c \in CallsOf(r) : ~Awaited(c) /\ c # 0 /\ calls[c].llm \in Llms
  <2>1. \A c \in CallsOf(r) : calls[c] \in CallType /\ c # 0
    BY Tables DEF IInv, CallsOf
  <2>2. \A c \in CallsOf(r) : calls[c].llm \in Llms
    BY <2>1 DEF CallType
  <2> QED
    BY <2>1, <2>2, Tables DEF IInv, Gathered, Ready, Told
<1>2. PICK new \in RetrievalType :
        /\ retrievals' = [retrievals EXCEPT ![r] = new]
        /\ new.state = "done" /\ new.elapsed = retrievals[r].elapsed
        /\ new.profile = retrievals[r].profile
        /\ new.text # NOTHING => new.label = new.text
        /\ new.text = IF Chosen(r) = 0 THEN NOTHING ELSE calls[Chosen(r)].llm
  <2>1. CASE Chosen(r) = 0
    <3> DEFINE new == [retrievals[r] EXCEPT !.state = "done"]
    <3>1. new \in RetrievalType /\ retrievals' = [retrievals EXCEPT ![r] = new]
      BY <1>1, <2>1 DEF Gathered, RetrievalType
    <3>2. /\ new.state = "done" /\ new.elapsed = retrievals[r].elapsed
          /\ new.profile = retrievals[r].profile /\ new.text = retrievals[r].text
      BY <1>1 DEF RetrievalType
    <3> HIDE DEF new
    <3> QED
      BY <1>1, <2>1, <3>1, <3>2
  <2>2. CASE Chosen(r) # 0
    <3> DEFINE new == [retrievals[r] EXCEPT !.state = "done", !.text = calls[Chosen(r)].llm,
                                            !.label = calls[Chosen(r)].llm]
    <3>1. calls[Chosen(r)].llm \in Llms
      BY <1>1, <2>2, ChosenFact
    <3>2. new \in RetrievalType /\ retrievals' = [retrievals EXCEPT ![r] = new]
      BY <1>1, <2>2, <3>1 DEF Gathered, RetrievalType, Label
    <3>3. /\ new.state = "done" /\ new.elapsed = retrievals[r].elapsed
          /\ new.profile = retrievals[r].profile
          /\ new.text = calls[Chosen(r)].llm /\ new.label = calls[Chosen(r)].llm
      BY <1>1 DEF RetrievalType
    <3> HIDE DEF new
    <3> QED
      BY <2>2, <3>2, <3>3
  <2> QED
    BY <2>1, <2>2
<1>3. UNCHANGED <<generator, calls>>
  BY DEF Gathered
<1>4. /\ retrievals' \in Seq(RetrievalType) /\ DOMAIN retrievals' = DOMAIN retrievals
      /\ retrievals'[r] = new
      /\ \A q \in DOMAIN retrievals : q # r => retrievals'[q] = retrievals[q]
  BY <1>1, <1>2, OneRetrieval
<1>5. \A q : CallsOf(q)' = CallsOf(q)
  BY <1>3 DEF CallsOf
<1>6. TypeOK' /\ Wrote'
  BY <1>1, <1>3, <1>4 DEF TypeOK, Wrote, ValidFlags, Defaults, generator
<1>7. \A q \in DOMAIN retrievals : q # r => Asked(q)' /\ Told(q)' /\ Timed(q)'
  BY <1>3, <1>4, <1>5, OtherFact DEF IInv
<1>8. Asked(r)'
  BY <1>1, <1>2, <1>3, <1>4, <1>5, GeneratorFact DEF Asked, Awaited
<1>9. Told(r)'
  <2>1. \A c \in CallsOf(r) : calls[c].role = "primary" /\ calls[c].text # NOTHING =>
          new.text = calls[c].llm
    BY <1>1, <1>2, ChosenFact
  <2> QED
    BY <1>2, <1>3, <1>4, <1>5, <2>1 DEF Told
<1>10. Timed(r)'
  BY <1>1, <1>2, <1>3, <1>4, GeneratorFact DEF Timed
<1> QED
  BY <1>4, <1>6, <1>7, <1>8, <1>9, <1>10 DEF IInv

\* One of the models is asked for a summary.
LEMMA SummaryAskedIInv ==
  ASSUME IInv, NEW r \in DOMAIN retrievals, Gathered(r), Chosen(r) # 0, summarization,
         NEW k \in Nat, k = Len(calls)
  PROVE  IInv'
<1> DEFINE call == Call(r, "summary", calls[Chosen(r)].llm)
           new == [retrievals[r] EXCEPT !.state = "summarizing", !.text = calls[Chosen(r)].llm,
                                        !.label = calls[Chosen(r)].llm]
<1>1. /\ TypeOK /\ Wrote /\ Asked(r) /\ Told(r) /\ Timed(r)
      /\ retrievals[r] \in RetrievalType /\ retrievals[r].state = "waiting"
      /\ DOMAIN calls = 1 .. k /\ calls \in Seq(CallType)
      /\ r \in Nat \ {0} /\ \A q : CallsOf(q) \subseteq 1 .. k
  BY Tables DEF IInv, TypeOK, Gathered, CallsOf
<1>2. calls[Chosen(r)].llm \in Llms
  <2>1. Chosen(r) \in 1 .. k
    BY <1>1, ChosenFact
  <2>2. calls[Chosen(r)] \in CallType
    BY <1>1, <2>1, Tables
  <2> QED
    BY <2>2 DEF CallType
<1>3. /\ call \in CallType /\ call.of = r /\ call.role = "summary" /\ call.text = NOTHING
      /\ calls' = Append(calls, call)
  BY <1>1, <1>2 DEF Call, CallType, Gathered, Label
<1>4. /\ new \in RetrievalType /\ retrievals' = [retrievals EXCEPT ![r] = new]
      /\ new.state = "summarizing" /\ new.profile = retrievals[r].profile /\ new.label = new.text
      /\ UNCHANGED generator
  BY <1>1, <1>2 DEF Gathered, RetrievalType, Label
<1> HIDE DEF call, new
<1>5. /\ calls' \in Seq(CallType) /\ DOMAIN calls' = 1 .. k + 1 /\ calls'[k + 1] = call
      /\ \A c \in 1 .. k : calls'[c] = calls[c]
      /\ \A c \in 1 .. k + 1 : c \in 1 .. k \/ c = k + 1
      /\ \A c \in 1 .. k : c \in 1 .. k + 1 /\ c <= k + 1
  BY <1>1, <1>3
<1>6. /\ retrievals' \in Seq(RetrievalType) /\ DOMAIN retrievals' = DOMAIN retrievals
      /\ retrievals'[r] = new
      /\ \A q \in DOMAIN retrievals : q # r => retrievals'[q] = retrievals[q]
  BY <1>1, <1>4, OneRetrieval
<1>7. /\ CallsOf(r)' = CallsOf(r) \cup {k + 1}
      /\ \A q \in DOMAIN retrievals : q # r => CallsOf(q)' = CallsOf(q)
  BY <1>1, <1>3, <1>5 DEF CallsOf
<1>8. TypeOK'
  BY <1>1, <1>4, <1>5, <1>6 DEF TypeOK, ValidFlags, Defaults, generator
<1>9. Wrote'
  BY <1>1, <1>3, <1>5, <1>6 DEF Wrote
<1>10. ASSUME NEW q \in DOMAIN retrievals, q # r PROVE Asked(q)' /\ Told(q)' /\ Timed(q)'
  <2>1. \A c \in CallsOf(q) : calls'[c] = calls[c]
    BY <1>1, <1>5
  <2> QED
    BY <1>4, <1>6, <1>7, <1>10, <2>1, OtherFact DEF IInv
<1>11. Asked(r)'
  <2>1. Multi' = Multi /\ DefaultProfileId' = DefaultProfileId /\ KnownProfiles' = KnownProfiles
        /\ summarization' = summarization
    BY <1>4, GeneratorFact
  <2>2. Active(r)'
    BY <1>4, <1>6 DEF Active
  <2>3. ASSUME NEW c \in CallsOf(r)', calls'[c].role = "primary"
        PROVE  /\ \A d \in CallsOf(r)' : c <= d
               /\ Multi /\ new.profile \in KnownProfiles => calls'[c].llm = new.profile
    <3>1. c \in CallsOf(r) /\ calls'[c] = calls[c] /\ c \in 1 .. k
      BY <1>1, <1>3, <1>5, <1>7, <2>3
    <3> QED
      BY <1>1, <1>4, <1>5, <1>7, <2>3, <3>1 DEF Asked
  <2>4. ASSUME Multi PROVE \E c \in CallsOf(r)' : calls'[c].llm = DefaultProfileId
    <3>1. Chosen(r) \in CallsOf(r)
      BY ChosenFact
    <3>2. PICK c \in CallsOf(r) : calls[c].llm = DefaultProfileId
      BY <1>1, <2>4, <3>1 DEF Asked
    <3>3. c \in CallsOf(r)' /\ calls'[c] = calls[c]
      BY <1>1, <1>5, <1>7
    <3> QED
      BY <3>2, <3>3
  <2>5. \E c \in CallsOf(r)' : calls'[c].role = "summary"
    BY <1>3, <1>5, <1>7
  <2>6. Multi' => \E c \in CallsOf(r)' : calls'[c].llm = DefaultProfileId'
    BY <2>1, <2>4
  <2>7. \A c \in CallsOf(r)' : calls'[c].role = "primary" =>
          /\ \A d \in CallsOf(r)' : c <= d
          /\ Multi' /\ retrievals'[r].profile \in KnownProfiles'
               => calls'[c].llm = retrievals'[r].profile
    BY <1>6, <2>1, <2>3
  <2> QED
    BY <2>1, <2>2, <2>5, <2>6, <2>7 DEF Asked
<1>12. Told(r)'
  BY <1>4, <1>6 DEF Told
<1>13. Timed(r)'
  BY <1>4, GeneratorFact DEF Timed
<1> QED
  BY <1>6, <1>8, <1>9, <1>10, <1>11, <1>12, <1>13 DEF IInv

LEMMA SummarizedIInv ==
  ASSUME IInv, NEW r \in DOMAIN retrievals, Summarized(r)
  PROVE  IInv'
<1>1. /\ TypeOK /\ Wrote /\ Asked(r) /\ Told(r) /\ Timed(r) /\ summarization
      /\ retrievals[r] \in RetrievalType /\ retrievals[r].state = "summarizing"
      /\ \A c \in CallsOf(r) : ~Awaited(c)
  BY Tables DEF IInv, Summarized, Ready, Asked
<1> DEFINE c == CHOOSE c \in CallsOf(r) : calls[c].role = "summary"
<1>2. c \in CallsOf(r)
  BY <1>1 DEF Asked
<1>3. PICK label \in {calls[c].llm, NOTHING} :
        /\ calls[c].text # NOTHING => label = calls[c].llm
        /\ retrievals' = [retrievals EXCEPT ![r].state = "done", ![r].text = calls[c].text,
                                            ![r].label = label]
  BY DEF Summarized
<1>4. UNCHANGED <<generator, calls>>
  BY DEF Summarized
<1> HIDE DEF c
<1>5. calls[c] \in CallType /\ calls[c].text \in {NOTHING, calls[c].llm}
  BY <1>1, <1>2, Tables DEF Wrote, CallsOf
<1> DEFINE new == [retrievals[r] EXCEPT !.state = "done", !.text = calls[c].text, !.label = label]
<1>6. /\ new \in RetrievalType /\ retrievals' = [retrievals EXCEPT ![r] = new]
      /\ new.state = "done" /\ new.profile = retrievals[r].profile
      /\ new.text = calls[c].text /\ new.label = label
  BY <1>1, <1>3, <1>5 DEF RetrievalType, CallType
<1> HIDE DEF new
<1>7. /\ retrievals' \in Seq(RetrievalType) /\ DOMAIN retrievals' = DOMAIN retrievals
      /\ retrievals'[r] = new
      /\ \A q \in DOMAIN retrievals : q # r => retrievals'[q] = retrievals[q]
  BY <1>1, <1>6, OneRetrieval
<1>8. \A q : CallsOf(q)' = CallsOf(q)
  BY <1>4 DEF CallsOf
<1>9. TypeOK' /\ Wrote'
  BY <1>1, <1>4, <1>7 DEF TypeOK, Wrote, ValidFlags, Defaults, generator
<1>10. \A q \in DOMAIN retrievals : q # r => Asked(q)' /\ Told(q)' /\ Timed(q)'
  BY <1>4, <1>7, <1>8, OtherFact DEF IInv
<1>11. Asked(r)'
  BY <1>1, <1>4, <1>6, <1>7, <1>8, GeneratorFact DEF Asked, Awaited
<1>12. Told(r)' /\ Timed(r)'
  BY <1>1, <1>3, <1>4, <1>5, <1>6, <1>7, GeneratorFact DEF Told, Timed
<1> QED
  BY <1>7, <1>9, <1>10, <1>11, <1>12 DEF IInv

\* Its calls are given up, and nothing more becomes of it.
LEMMA CancelIInv ==
  ASSUME IInv, NEW r \in DOMAIN retrievals, CancelRetrieval(r)
  PROVE  IInv'
<1> DEFINE new == [retrievals[r] EXCEPT !.state = "cancelled"]
<1>1. /\ TypeOK /\ Wrote /\ Asked(r) /\ Told(r) /\ Timed(r)
      /\ retrievals[r] \in RetrievalType /\ Active(r)
      /\ \A c \in DOMAIN calls : calls[c] \in CallType
      /\ \A q : CallsOf(q) \subseteq DOMAIN calls
      /\ DOMAIN calls = 1 .. Len(calls) /\ Len(calls) \in Nat
  BY Tables DEF IInv, CancelRetrieval, Active, CallsOf
<1>2. /\ new \in RetrievalType /\ retrievals' = [retrievals EXCEPT ![r] = new]
      /\ new.state = "cancelled" /\ new.profile = retrievals[r].profile
      /\ new.text = retrievals[r].text /\ new.label = retrievals[r].label
      /\ new.elapsed = retrievals[r].elapsed
  BY <1>1 DEF CancelRetrieval, RetrievalType
<1>3. /\ UNCHANGED generator
      /\ calls' = [c \in DOMAIN calls |->
                     IF c \in CallsOf(r) /\ Awaited(c) THEN GiveUp(calls[c]) ELSE calls[c]]
  BY DEF CancelRetrieval
<1> HIDE DEF new
<1>4. ASSUME NEW c \in DOMAIN calls
      PROVE  /\ calls'[c] \in CallType
             /\ calls'[c].of = calls[c].of /\ calls'[c].role = calls[c].role
             /\ calls'[c].llm = calls[c].llm /\ calls'[c].text = calls[c].text
             /\ calls[c].state \notin {"queued", "running"} => calls'[c] = calls[c]
             /\ c \in CallsOf(r) => calls'[c].state \notin {"queued", "running"}
             /\ c \notin CallsOf(r) => calls'[c] = calls[c]
  BY <1>1, <1>3 DEF GiveUp, CallType, Awaited
<1>5. calls' \in Seq(CallType) /\ DOMAIN calls' = DOMAIN calls
  BY <1>1, <1>3, <1>4
<1>6. /\ retrievals' \in Seq(RetrievalType) /\ DOMAIN retrievals' = DOMAIN retrievals
      /\ retrievals'[r] = new
      /\ \A q \in DOMAIN retrievals : q # r => retrievals'[q] = retrievals[q]
  BY <1>1, <1>2, OneRetrieval
<1>7. \A q : CallsOf(q)' = CallsOf(q)
  BY <1>4, <1>5 DEF CallsOf
<1>8. TypeOK'
  BY <1>1, <1>3, <1>5, <1>6 DEF TypeOK, ValidFlags, Defaults, generator
<1>9. Wrote'
  BY <1>1, <1>4, <1>5, <1>6 DEF Wrote
<1>10. ASSUME NEW q \in DOMAIN retrievals, q # r PROVE Asked(q)' /\ Told(q)' /\ Timed(q)'
  <2>1. \A c \in CallsOf(q) : c \in DOMAIN calls /\ c \notin CallsOf(r)
    BY <1>10 DEF CallsOf
  <2>2. \A c \in CallsOf(q) : calls'[c] = calls[c]
    BY <1>4, <2>1
  <2> QED
    BY <1>3, <1>6, <1>7, <1>10, <2>2, OtherFact DEF IInv
<1>11. Asked(r)'
  <2>1. \A c \in CallsOf(r) : /\ calls'[c].role = calls[c].role /\ calls'[c].llm = calls[c].llm
                              /\ calls'[c].state \notin {"queued", "running"}
    BY <1>1, <1>4
  <2>2. Multi' = Multi /\ DefaultProfileId' = DefaultProfileId /\ KnownProfiles' = KnownProfiles
    BY <1>3, GeneratorFact
  <2>3. retrievals'[r].profile = retrievals[r].profile /\ retrievals'[r].state # "summarizing"
    BY <1>2, <1>6
  <2>4. ASSUME NEW c \in CallsOf(r)'
        PROVE  /\ calls'[c].role = "primary" =>
                    /\ \A d \in CallsOf(r)' : c <= d
                    /\ Multi' /\ retrievals'[r].profile \in KnownProfiles'
                         => calls'[c].llm = retrievals'[r].profile
               /\ ~Awaited(c)'
    <3>1. c \in CallsOf(r)
      BY <1>7
    <3>2. ~Awaited(c)'
      BY <2>1, <3>1 DEF Awaited
    <3>3. ASSUME calls'[c].role = "primary"
          PROVE  /\ \A d \in CallsOf(r) : c <= d
                 /\ Multi /\ retrievals[r].profile \in KnownProfiles
                      => calls'[c].llm = retrievals[r].profile
      BY <1>1, <2>1, <3>1, <3>3 DEF Asked
    <3> QED
      BY <1>7, <2>2, <2>3, <3>2, <3>3
  <2>5. ASSUME CallsOf(r)' # {}, Multi'
        PROVE  \E c \in CallsOf(r)' : calls'[c].llm = DefaultProfileId'
    <3>1. PICK c \in CallsOf(r) : calls[c].llm = DefaultProfileId
      BY <1>1, <1>7, <2>2, <2>5 DEF Asked
    <3>2. c \in CallsOf(r)' /\ calls'[c].llm = DefaultProfileId'
      BY <1>7, <2>1, <2>2, <3>1
    <3> QED
      BY <3>2
  <2> QED
    BY <2>3, <2>4, <2>5 DEF Asked
<1>12. Told(r)'
  BY <1>1, <1>2, <1>6 DEF Told
<1>13. Timed(r)'
  BY <1>1, <1>2, <1>3, <1>6, GeneratorFact DEF Timed
<1> QED
  BY <1>6, <1>8, <1>9, <1>10, <1>11, <1>12, <1>13 DEF IInv

LEMMA TickIInv ==
  ASSUME IInv, Tick
  PROVE  IInv'
<1>1. /\ \A c \in DOMAIN calls : calls[c] \in CallType
      /\ \A r \in DOMAIN retrievals : retrievals[r] \in RetrievalType
      /\ \A q : CallsOf(q) \subseteq DOMAIN calls
      /\ DOMAIN calls = 1 .. Len(calls) /\ Len(calls) \in Nat
      /\ DOMAIN retrievals = 1 .. Len(retrievals) /\ Len(retrievals) \in Nat
  BY Tables DEF IInv, CallsOf
<1>2. ASSUME NEW c \in DOMAIN calls
      PROVE  /\ calls'[c] \in CallType
             /\ calls'[c].of = calls[c].of /\ calls'[c].role = calls[c].role
             /\ calls'[c].llm = calls[c].llm /\ calls'[c].text = calls[c].text
             /\ calls'[c].state = calls[c].state
             /\ Awaited(c) => calls[c].left \in Nat /\ calls'[c].left = calls[c].left - 1
  <2>1. calls'[c] = IF Awaited(c) THEN [calls[c] EXCEPT !.left = @ - 1] ELSE calls[c]
    BY DEF Tick
  <2>2. Awaited(c) => calls[c].left > 0
    BY DEF Tick
  <2> QED
    BY <1>1, <2>1, <2>2 DEF CallType
<1>3. calls' \in Seq(CallType) /\ DOMAIN calls' = DOMAIN calls
  <2>1. DOMAIN calls' = DOMAIN calls
    BY DEF Tick
  <2>2. calls' = [c \in 1 .. Len(calls) |-> calls'[c]]
    BY <1>1 DEF Tick
  <2> QED
    BY <1>1, <1>2, <2>1, <2>2
<1>4. ASSUME NEW r \in DOMAIN retrievals
      PROVE  /\ retrievals'[r] \in RetrievalType
             /\ retrievals'[r].state = retrievals[r].state
             /\ retrievals'[r].profile = retrievals[r].profile
             /\ retrievals'[r].text = retrievals[r].text /\ retrievals'[r].label = retrievals[r].label
             /\ retrievals[r].elapsed \in Nat
             /\ retrievals'[r].elapsed = IF Active(r) THEN retrievals[r].elapsed + 1
                                                     ELSE retrievals[r].elapsed
  <2>1. retrievals'[r] = IF Active(r) THEN [retrievals[r] EXCEPT !.elapsed = @ + 1] ELSE retrievals[r]
    BY DEF Tick, Active
  <2> QED
    BY <1>1, <2>1 DEF RetrievalType
<1>5. retrievals' \in Seq(RetrievalType) /\ DOMAIN retrievals' = DOMAIN retrievals
  <2>1. DOMAIN retrievals' = DOMAIN retrievals
    BY DEF Tick
  <2>2. retrievals' = [r \in 1 .. Len(retrievals) |-> retrievals'[r]]
    BY <1>1 DEF Tick
  <2> QED
    BY <1>1, <1>4, <2>1, <2>2
<1>6. UNCHANGED generator
  BY DEF Tick
<1>7. \A q : CallsOf(q)' = CallsOf(q)
  BY <1>2, <1>3 DEF CallsOf
<1>8. TypeOK'
  BY <1>3, <1>5, <1>6 DEF IInv, TypeOK, ValidFlags, Defaults, generator
<1>9. Wrote'
  BY <1>2, <1>3, <1>5 DEF IInv, Wrote
<1>10. ASSUME NEW r \in DOMAIN retrievals PROVE Asked(r)' /\ Told(r)' /\ Timed(r)'
  <2>1. Asked(r) /\ Told(r) /\ Timed(r)
    BY DEF IInv
  <2>2. \A c \in CallsOf(r) : /\ calls'[c].role = calls[c].role /\ calls'[c].llm = calls[c].llm
                              /\ calls'[c].text = calls[c].text /\ calls'[c].state = calls[c].state
                              /\ Awaited(c) => calls[c].left \in Nat /\ calls'[c].left = calls[c].left - 1
    BY <1>1, <1>2
  <2>3. Asked(r)'
    BY <1>4, <1>6, <1>7, <2>1, <2>2, GeneratorFact DEF Asked, Active, Awaited
  <2>4. Told(r)'
    BY <1>4, <1>6, <1>7, <2>1, <2>2, GeneratorFact DEF Told
  <2>5. Timed(r)'
    <3> SUFFICES ASSUME ~summarization
                 PROVE  /\ retrievals'[r].elapsed <= LlmTimeout
                        /\ retrievals[r].state = "waiting" =>
                             \A c \in CallsOf(r) :
                               Awaited(c) => retrievals'[r].elapsed + calls'[c].left = LlmTimeout
      BY <1>4, <1>6, <1>7, <2>2, GeneratorFact DEF Timed, Awaited
    <3>1. CASE ~Active(r)
      BY <1>4, <2>1, <3>1 DEF Timed, Active
    <3>2. CASE Active(r)
      <4>1. retrievals[r].state = "waiting"
        BY <2>1, <3>2 DEF Active, Asked
      <4>2. PICK c \in CallsOf(r) : Awaited(c)
        BY <3>2 DEF Tick, Ready, Active
      <4>3. calls[c].left > 0
        BY <1>1, <4>2 DEF Tick
      <4>4. retrievals[r].elapsed + calls[c].left = LlmTimeout /\ calls[c].left \in Nat
        BY <2>1, <2>2, <4>1, <4>2 DEF Timed
      <4>5. retrievals'[r].elapsed = retrievals[r].elapsed + 1 /\ retrievals[r].elapsed \in Nat
        BY <1>4, <3>2
      <4>6. retrievals'[r].elapsed <= LlmTimeout
        BY <4>3, <4>4, <4>5
      <4>7. ASSUME NEW d \in CallsOf(r), Awaited(d)
            PROVE  retrievals'[r].elapsed + calls'[d].left = LlmTimeout
        <5>1. retrievals[r].elapsed + calls[d].left = LlmTimeout
          BY <2>1, <4>1, <4>7 DEF Timed
        <5> QED
          BY <2>2, <4>5, <4>7, <5>1
      <4> QED
        BY <4>6, <4>7
    <3> QED
      BY <3>1, <3>2
  <2> QED
    BY <2>3, <2>4, <2>5
<1> QED
  BY <1>5, <1>8, <1>9, <1>10 DEF IInv

LEMMA InitIInv == RetrievalInit => IInv
<1> SUFFICES ASSUME RetrievalInit PROVE IInv
  OBVIOUS
<1>1. profiles \in Seq([id : Ids, default : Flags]) /\ ValidFlags(profiles)
  <2> DEFINE S == [id : Ids, default : Flags]
  <2>1. PICK n \in 0 .. 2 : profiles \in [1 .. n -> S]
    BY DEF RetrievalInit
  <2> HIDE DEF S
  <2>2. profiles \in Seq(S)
    BY <2>1, SeqDef
  <2> QED
    BY <2>2 DEF S, RetrievalInit, Loads
<1> QED
  BY <1>1 DEF RetrievalInit, IInv, TypeOK, Wrote

LEMMA NextIInv == IInv /\ [RetrievalNext]_retrievalVars => IInv'
<1> SUFFICES ASSUME IInv, [RetrievalNext]_retrievalVars PROVE IInv'
  OBVIOUS
<1>1. ASSUME NEW profile \in IF Multi THEN KnownProfiles \union {UNKNOWN} ELSE {UNKNOWN},
             NEW hasTurns \in BOOLEAN, Ask(profile, hasTurns)
      PROVE  IInv'
  <2>1. profile \in Ids \cup {UNKNOWN}
    BY KnownFact DEF IInv
  <2>2. PICK l \in Nat, k \in Nat : l = Len(retrievals) /\ k = Len(calls)
    BY Tables DEF IInv
  <2>3. CASE hasTurns = TRUE
    <3>1. Ask(profile, TRUE)
      BY <1>1, <2>3
    <3> QED
      BY <2>1, <2>2, <3>1, AskModelsIInv
  <2>4. CASE hasTurns = FALSE
    <3>1. Ask(profile, FALSE)
      BY <1>1, <2>4
    <3> QED
      BY <2>1, <2>2, <3>1, AskNothingIInv
  <2> QED
    BY <2>3, <2>4
<1>2. ASSUME NEW c \in DOMAIN calls,
             RunCall(c) \/ Expire(c) \/ \E writes \in BOOLEAN : Answer(c, writes)
      PROVE  IInv'
  BY <1>2, CallIInv
<1>3. ASSUME NEW r \in DOMAIN retrievals, Gathered(r) PROVE IInv'
  <2>1. PICK k \in Nat : k = Len(calls)
    BY Tables DEF IInv
  <2> QED
    BY <1>3, <2>1, GatheredIInv, SummaryAskedIInv
<1>4. ASSUME NEW r \in DOMAIN retrievals, Summarized(r) \/ CancelRetrieval(r) PROVE IInv'
  BY <1>4, SummarizedIInv, CancelIInv
<1>5. CASE UNCHANGED retrievalVars
  <2>1. \A r : CallsOf(r)' = CallsOf(r)
    BY <1>5 DEF retrievalVars, CallsOf
  <2>2. UNCHANGED <<profiles, summarization, retrievals, calls>>
    BY <1>5 DEF retrievalVars
  <2>3. \A r \in DOMAIN retrievals : Asked(r)' /\ Told(r)' /\ Timed(r)'
    BY <2>1, <2>2, OtherFact DEF IInv, generator
  <2> QED
    BY <2>2, <2>3 DEF IInv, TypeOK, Wrote, ValidFlags, Defaults
<1> QED
  BY <1>1, <1>2, <1>3, <1>4, <1>5, TickIInv DEF RetrievalNext

LEMMA SpecIInv == RetrievalSpec => []IInv
  BY InitIInv, NextIInv, PTL DEF RetrievalSpec

\* Retrievals and the calls of models keep their type, and what a call holds is the text
\* of its model or nothing.
THEOREM TypeOKHolds == RetrievalSpec => []TypeOK
<1>1. IInv => TypeOK
  BY DEF IInv
<1> QED
  BY <1>1, SpecIInv, PTL

\* However many retrievals share the threads, and however their calls are queued,
\* answered late, given up or cancelled: the source that is shown is the model that wrote
\* the text, and it is the active profile's whenever that has answered in time
\* (generate_reference_text).
THEOREM SourceIsToldHolds == RetrievalSpec => []SourceIsTold
<1>1. ASSUME IInv PROVE SourceIsTold
  <2> SUFFICES ASSUME NEW r \in DOMAIN retrievals, retrievals[r].state = "done"
               PROVE  /\ retrievals[r].text # NOTHING => retrievals[r].label = retrievals[r].text
                      /\ \A c \in CallsOf(r) :
                           calls[c].role = "primary" /\ calls[c].text # NOTHING /\ ~summarization
                             => /\ retrievals[r].text = calls[c].llm
                                /\ Multi /\ retrievals[r].profile \in KnownProfiles
                                     => retrievals[r].text = retrievals[r].profile
    BY DEF SourceIsTold
  <2>1. Told(r) /\ Asked(r)
    BY <1>1 DEF IInv
  <2> QED
    BY <2>1 DEF Told, Asked
<1> QED
  BY <1>1, SpecIInv, PTL

\* And no retrieval that is not summarized takes longer than the timeout, even if all the
\* threads are kept by calls that nobody awaits any more.
THEOREM ReturnsInTimeHolds == RetrievalSpec => []ReturnsInTime
<1>1. ASSUME IInv PROVE ReturnsInTime
  <2>1. ASSUME NEW r \in DOMAIN retrievals PROVE Timed(r) /\ Asked(r)
    BY <1>1 DEF IInv
  <2> QED
    BY <2>1 DEF ReturnsInTime, Timed, Asked
<1> QED
  BY <1>1, SpecIInv, PTL

-------------------------------------------------------------------------------
(* The turns and references of the prompt *)

InFlight == run \in {"fresh", "guess", "adopted"}

HistoryType ==
  /\ first \in Speaker /\ lines \in Nat /\ history \in Seq(Nat \ {0})
  /\ turns \in Nat /\ shots \in Nat /\ asked \in Nat /\ seen \in BOOLEAN

\* What is in flight was asked after all that is in the history, and about turns that are
\* still there; only a guess fills the slot.
HistoryIInv ==
  /\ HistoryType
  /\ InFlight => turns <= NumTurns /\ \A i \in 1 .. Len(history) : history[i] <= turns
  /\ slot = "running" => run = "guess"
  /\ HistoryAscends /\ HistoryFits
  /\ BudgetIsCharged

LEMMA TurnsFact ==
  ASSUME NEW f \in Speaker, NEW n \in Nat, first = f, lines = n
  PROVE  /\ NumTurns \in Nat /\ NumTurns <= n
         /\ SpeakerOf(n) \in Speaker
         /\ SpeakerOf(n + 1) = IF SpeakerOf(n) = "user" THEN "model" ELSE "user"
<1>1. (n % 2) \in {0, 1} /\ ((n + 1) % 2) = 1 - (n % 2)
  OBVIOUS
<1>2. ((n % 2) = 1) <=> ~(((n + 1) % 2) = 1)
  BY <1>1
<1>3. SpeakerOf(n) \in Speaker /\ SpeakerOf(n + 1) = IF SpeakerOf(n) = "user" THEN "model" ELSE "user"
  BY <1>2 DEF SpeakerOf, Speaker
<1>4. NumTurns \in Nat /\ NumTurns <= n
  BY DEF NumTurns
<1> QED
  BY <1>3, <1>4

\* A line takes no turn away.
LEMMA TurnsGrow ==
  ASSUME first \in Speaker, lines \in Nat, lines' = lines + 1, first' = first
  PROVE  NumTurns' \in Nat /\ NumTurns <= NumTurns'
<1> DEFINE n == lines
<1>1. n \in Nat /\ lines' = n + 1
  OBVIOUS
<1>2. SpeakerOf(lines)' = IF SpeakerOf(lines) = "user" THEN "model" ELSE "user"
  <2>1. SpeakerOf(n + 1) = IF SpeakerOf(n) = "user" THEN "model" ELSE "user"
    BY TurnsFact
  <2>2. SpeakerOf(lines)' = SpeakerOf(n + 1)
    BY DEF SpeakerOf
  <2> QED
    BY <2>1, <2>2
<1>3. SpeakerOf(lines) \in Speaker
  BY TurnsFact
<1>4. NumTurns = LET kept == IF lines > 0 /\ SpeakerOf(lines) = "model" THEN lines - 1 ELSE lines
                 IN  IF kept > 0 /\ first = "model" THEN kept - 1 ELSE kept
  BY DEF NumTurns
<1>5. NumTurns' = LET kept == IF n + 1 > 0 /\ SpeakerOf(lines)' = "model" THEN n + 1 - 1 ELSE n + 1
                  IN  IF kept > 0 /\ first = "model" THEN kept - 1 ELSE kept
  BY DEF NumTurns
<1> DEFINE a == SpeakerOf(lines)
           b == SpeakerOf(lines)'
<1> HIDE DEF a, b
<1> QED
  BY <1>1, <1>2, <1>3, <1>4, <1>5 DEF Speaker, a, b

LEMMA LineIInv ==
  ASSUME HistoryIInv, NEW noticed \in BOOLEAN, Line(noticed)
  PROVE  HistoryIInv'
<1> USE HistoryAssumption
<1> DEFINE n == lines
           to == SpeakerOf(lines + 1)
<1>1. n \in Nat /\ lines' = n + 1 /\ first' = first /\ history' = history /\ turns' = turns
  BY DEF Line, HistoryIInv, HistoryType
<1>2. NumTurns \in Nat /\ NumTurns' \in Nat /\ NumTurns <= NumTurns'
  BY <1>1, TurnsFact, TurnsGrow DEF HistoryIInv, HistoryType
<1>3. run' \in {run, "none"} /\ (slot' = "running" => slot = "running" /\ run' = run)
  BY DEF Line, ClearSpeculative, HistoryIInv
<1>4. SpeakerOf(n) \in Speaker /\ to = IF SpeakerOf(n) = "user" THEN "model" ELSE "user"
  BY <1>1, TurnsFact DEF HistoryIInv, HistoryType
<1>5. /\ shots' \in Nat /\ asked' = 0 /\ shots' <= MaxShots /\ seen' = noticed
      /\ to = "model" /\ noticed => shots' = 0
  <2>1. shots \in Nat /\ shots <= MaxShots
    BY DEF HistoryIInv, HistoryType, BudgetIsCharged
  <2>2. asked' = 0 /\ seen' = noticed
    BY DEF Line
  <2>3. /\ shots' = shots \/ shots' = 0
        /\ to = "model" /\ noticed => shots' = 0
    BY DEF Line
  <2> QED
    BY <2>1, <2>2, <2>3
<1>6. BudgetIsCharged'
  <2>1. SpeakerOf(lines)' = to
    BY <1>1 DEF SpeakerOf
  <2> HIDE DEF to
  <2> QED
    BY <1>5, <2>1 DEF BudgetIsCharged
<1>7. HistoryType'
  BY <1>1, <1>5 DEF HistoryIInv, HistoryType
<1>8. ASSUME InFlight' PROVE turns' <= NumTurns' /\ \A i \in 1 .. Len(history') : history'[i] <= turns'
  <2>1. InFlight
    BY <1>3, <1>8 DEF InFlight
  <2> QED
    BY <1>1, <1>2, <2>1 DEF HistoryIInv, HistoryType
<1>9. HistoryAscends' /\ HistoryFits'
  <2>1. \A i \in 1 .. Len(history) : history[i] \in Nat /\ history[i] <= NumTurns
    BY DEF HistoryIInv, HistoryType, HistoryFits
  <2> QED
    BY <1>1, <1>2, <2>1 DEF HistoryIInv, HistoryAscends, HistoryFits
<1> QED
  BY <1>3, <1>6, <1>7, <1>8, <1>9 DEF HistoryIInv

\* What does not concern the conversation keeps its turns.
LEMMA SameTurns ==
  ASSUME UNCHANGED <<first, lines>>
  PROVE  NumTurns' = NumTurns /\ SpeakerOf(lines)' = SpeakerOf(lines)
  BY DEF NumTurns, SpeakerOf

LEMMA AskIInv ==
  ASSUME HistoryIInv, Guess \/ RagToken \/ Retrieve
  PROVE  HistoryIInv'
<1> USE HistoryAssumption
<1>1. /\ UNCHANGED <<first, lines, history>>
      /\ NumTurns' = NumTurns /\ SpeakerOf(lines)' = SpeakerOf(lines)
  <2>1. UNCHANGED <<first, lines, history>>
    BY DEF Guess, RagToken, Retrieve
  <2> QED
    BY <2>1, SameTurns
<1>2. NumTurns \in Nat
  BY TurnsFact DEF HistoryIInv, HistoryType
<1>3. turns' \in {turns, NumTurns} /\ (slot' = "running" => run' = "guess")
  BY DEF Guess, RagToken, Retrieve, HistoryIInv
<1>4. ASSUME InFlight'
      PROVE  turns' = NumTurns \/ (InFlight /\ turns' = turns)
  BY <1>4 DEF InFlight, Guess, RagToken, Retrieve, HistoryIInv
<1>5. shots' \in Nat /\ asked' \in Nat /\ seen' = seen /\ BudgetIsCharged'
  <2>1. shots \in Nat /\ asked \in Nat /\ BudgetIsCharged
    BY DEF HistoryIInv, HistoryType
  <2>2. \/ shots' = shots /\ asked' = asked
        \/ shots < MaxShots /\ shots' = shots + 1 /\ asked' = asked + 1
    BY DEF Guess, RagToken, Retrieve
  <2>3. seen' = seen
    BY DEF Guess, RagToken, Retrieve
  <2> QED
    BY <1>1, <2>1, <2>2, <2>3 DEF BudgetIsCharged
<1>6. HistoryType'
  BY <1>1, <1>2, <1>3, <1>5 DEF HistoryIInv, HistoryType
<1>7. HistoryAscends' /\ HistoryFits'
  BY <1>1 DEF HistoryIInv, HistoryAscends, HistoryFits
<1>8. ASSUME InFlight' PROVE turns' <= NumTurns' /\ \A i \in 1 .. Len(history') : history'[i] <= turns'
  BY <1>1, <1>2, <1>4, <1>8 DEF HistoryIInv, HistoryFits
<1> QED
  BY <1>1, <1>3, <1>5, <1>6, <1>7, <1>8 DEF HistoryIInv

LEMMA ReturnIInv ==
  ASSUME HistoryIInv, NEW text \in BOOLEAN, Return(text)
  PROVE  HistoryIInv'
<1> USE HistoryAssumption
<1>1. /\ UNCHANGED <<first, lines, turns, trigger, shots, asked, seen>>
      /\ NumTurns' = NumTurns /\ SpeakerOf(lines)' = SpeakerOf(lines)
  BY SameTurns DEF Return
<1>2. InFlight /\ turns \in Nat /\ turns <= NumTurns /\ \A i \in 1 .. Len(history) : history[i] <= turns
  BY DEF Return, InFlight, HistoryIInv, HistoryType
<1>3. ~InFlight' /\ slot' # "running"
  BY DEF Return, InFlight, HistoryIInv
<1>4. CASE history' = history
  BY <1>1, <1>3, <1>4 DEF HistoryIInv, HistoryType, HistoryAscends, HistoryFits, BudgetIsCharged
<1>5. CASE history' # history
  <2>1. turns \in Nat \ {0} /\ history' = Append(history, turns)
    BY <1>2, <1>5 DEF Return
  <2>2. history \in Seq(Nat \ {0})
    BY DEF HistoryIInv, HistoryType
  <2>3. /\ history' \in Seq(Nat \ {0}) /\ Len(history') = Len(history) + 1 /\ Len(history) \in Nat
        /\ \A i \in 1 .. Len(history) : history'[i] = history[i]
        /\ history'[Len(history) + 1] = turns
    BY <2>1, <2>2, AppendProperties, LenProperties
  <2>4. ASSUME NEW i \in 1 .. Len(history') PROVE history'[i] <= turns
    <3>1. i \in 1 .. Len(history) \/ i = Len(history) + 1
      BY <2>3
    <3> QED
      BY <1>2, <2>3, <3>1
  <2>5. HistoryFits'
    <3>1. NumTurns \in Nat
      BY TurnsFact DEF HistoryIInv, HistoryType
    <3>2. \A i \in 1 .. Len(history') : history'[i] \in Nat
      BY <2>3
    <3> QED
      BY <1>1, <1>2, <2>4, <3>1, <3>2 DEF HistoryFits
  <2>6. HistoryAscends'
    <3> SUFFICES ASSUME NEW i \in 1 .. Len(history'), NEW j \in 1 .. Len(history'), i < j
                 PROVE  history'[i] <= history'[j]
      BY DEF HistoryAscends
    <3>1. CASE j = Len(history) + 1
      BY <2>3, <2>4, <3>1
    <3>2. CASE j # Len(history) + 1
      <4>1. i \in 1 .. Len(history) /\ j \in 1 .. Len(history)
        BY <2>3, <3>2
      <4> QED
        BY <2>3, <4>1 DEF HistoryIInv, HistoryAscends
    <3> QED
      BY <3>1, <3>2
  <2> QED
    BY <1>1, <1>3, <2>3, <2>5, <2>6 DEF HistoryIInv, HistoryType, BudgetIsCharged
<1> QED
  BY <1>4, <1>5

LEMMA HistoryNextIInv == HistoryIInv /\ [HistoryNext]_historyVars => HistoryIInv'
<1> SUFFICES ASSUME HistoryIInv, [HistoryNext]_historyVars PROVE HistoryIInv'
  OBVIOUS
<1>1. CASE UNCHANGED historyVars
  BY <1>1, SameTurns DEF historyVars, HistoryIInv, HistoryType, InFlight, HistoryAscends, HistoryFits,
     BudgetIsCharged
<1> QED
  BY <1>1, LineIInv, AskIInv, ReturnIInv DEF HistoryNext

LEMMA HistoryInitIInv == HistoryInit => HistoryIInv
<1> SUFFICES ASSUME HistoryInit PROVE HistoryIInv
  OBVIOUS
<1>1. /\ first \in Speaker /\ lines = 0 /\ history = <<>> /\ run = "none" /\ slot = "none"
      /\ turns = 0 /\ shots = 0 /\ asked = 0
  BY DEF HistoryInit
<1>2. seen = FALSE /\ seen \in BOOLEAN
  BY Zenon DEF HistoryInit
<1>3. history \in Seq(Nat \ {0}) /\ Len(history) = 0
  BY <1>1
<1>4. HistoryType
  BY <1>1, <1>2, <1>3 DEF HistoryType
<1>5. HistoryAscends /\ HistoryFits
  BY <1>3 DEF HistoryAscends, HistoryFits
<1>6. BudgetIsCharged
  BY <1>1, <1>2, HistoryAssumption DEF BudgetIsCharged
<1> QED
  BY <1>1, <1>4, <1>5, <1>6 DEF HistoryIInv, InFlight

\* The counting of Shown: after turn i, the references of the first i turns.
IsShown(g, h, n) == g = [i \in 0 .. n |-> IF i = 0 THEN 0 ELSE Show(h, g[i - 1], i)]

LEMMA ShownFact ==
  ASSUME NEW n \in Nat, NEW h \in Seq(Nat \ {0})
  PROVE  \E g : /\ Shown(h, n) = g[n] /\ g[0] = 0
                /\ \A i \in 1 .. n : g[i] = Show(h, g[i - 1], i)
<1> DEFINE step == [x \in (1 .. n) \X Nat |-> Show(h, x[2], x[1])]
<1>1. step \in [(1 .. n) \X Nat -> Nat]
  BY DEF Show
<1>2. PICK g \in [0 .. n -> Nat] : Iterates(g, n, 0, step)
  BY <1>1, IterationExists
<1>3. \A i \in 1 .. n : g[i] = Show(h, g[i - 1], i)
  <2> SUFFICES ASSUME NEW i \in 1 .. n PROVE g[i] = Show(h, g[i - 1], i)
    OBVIOUS
  <2>1. g[i - 1] \in Nat
    OBVIOUS
  <2>2. step[<<i, g[i - 1]>>] = Show(h, g[i - 1], i)
    BY <2>1
  <2> QED
    BY <1>2, <2>2 DEF Iterates
<1>4. g[0] = 0
  BY <1>2 DEF Iterates
<1>5. IsShown(g, h, n)
  BY <1>3, <1>4 DEF IsShown
<1> DEFINE k == CHOOSE s : IsShown(s, h, n)
<1>6. IsShown(k, h, n)
  BY <1>5
<1>7. Shown(h, n) = k[n]
  BY DEF Shown, IsShown
<1> HIDE DEF k, step
<1>8. k[0] = 0 /\ \A i \in 1 .. n : k[i] = Show(h, k[i - 1], i)
  BY <1>6 DEF IsShown
<1> QED
  BY <1>7, <1>8

\* After turn i, of an ascending history: what is shown is of different turns up to i, and the
\* next reference is of a later turn, or of that of the last one shown.
ShownBy(g, h, i) ==
  /\ g \in 0 .. Len(h)
  /\ \A k \in 1 .. g : h[k] <= i
  /\ \A k, m \in 1 .. g : k < m => h[k] # h[m]
  /\ g < Len(h) => h[g + 1] > i \/ (g > 0 /\ h[g + 1] = h[g])

LEMMA ShowFact ==
  ASSUME NEW h \in Seq(Nat \ {0}), \A k, m \in 1 .. Len(h) : k < m => h[k] <= h[m],
         NEW i \in Nat, NEW g \in Nat, ShownBy(g, h, i)
  PROVE  ShownBy(Show(h, g, i + 1), h, i + 1)
<1>1. Len(h) \in Nat /\ \A k \in 1 .. Len(h) : h[k] \in Nat
  BY LenProperties, ElementOfSeq
<1> DEFINE n == Len(h)
<1> HIDE DEF n
<1>2. n \in Nat /\ g <= n /\ \A k \in 1 .. n : h[k] \in Nat
  BY <1>1 DEF n, ShownBy
<1>3. CASE g < n /\ h[g + 1] = i + 1
  <2>1. Show(h, g, i + 1) = g + 1
    BY <1>3 DEF Show, n
  <2>2. \A k \in 1 .. g : h[k] <= i /\ h[k] \in Nat
    BY <1>2 DEF ShownBy
  <2>3. ASSUME NEW k \in 1 .. g + 1 PROVE h[k] <= i + 1
    <3>1. k \in 1 .. g \/ k = g + 1
      OBVIOUS
    <3> QED
      BY <1>3, <2>2, <3>1
  <2>4. ASSUME NEW k \in 1 .. g + 1, NEW m \in 1 .. g + 1, k < m PROVE h[k] # h[m]
    <3>1. CASE m = g + 1
      <4>1. k \in 1 .. g
        BY <2>4, <3>1
      <4>2. h[k] <= i /\ h[k] \in Nat /\ h[m] = i + 1
        BY <1>3, <2>2, <3>1, <4>1
      <4> QED
        BY <4>2
    <3>2. CASE m # g + 1
      <4>1. k \in 1 .. g /\ m \in 1 .. g
        BY <2>4, <3>2
      <4> QED
        BY <2>4, <4>1 DEF ShownBy
    <3> QED
      BY <3>1, <3>2
  <2>5. ASSUME g + 1 < n PROVE h[g + 2] > i + 1 \/ h[g + 2] = h[g + 1]
    <3>1. g + 1 \in 1 .. n /\ g + 2 \in 1 .. n /\ g + 1 < g + 2
      BY <1>2, <2>5
    <3>2. h[g + 1] <= h[g + 2] /\ h[g + 2] \in Nat
      BY <1>2, <3>1 DEF n
    <3> QED
      BY <1>3, <3>2
  <2>6. g + 1 \in 0 .. n /\ g + 1 > 0 /\ (g + 1) + 1 = g + 2
    BY <1>2, <1>3
  <2> QED
    BY <2>1, <2>3, <2>4, <2>5, <2>6 DEF ShownBy, n
<1>4. CASE ~(g < n /\ h[g + 1] = i + 1)
  <2>1. Show(h, g, i + 1) = g
    BY <1>4 DEF Show, n
  <2>2. \A k \in 1 .. g : h[k] <= i + 1
    <3>1. \A k \in 1 .. g : h[k] <= i /\ h[k] \in Nat
      BY <1>2 DEF ShownBy
    <3> QED
      BY <3>1
  <2>3. ASSUME g < n PROVE h[g + 1] > i + 1 \/ (g > 0 /\ h[g + 1] = h[g])
    <3>1. g + 1 \in 1 .. n
      BY <1>2, <2>3
    <3>2. h[g + 1] \in Nat /\ h[g + 1] # i + 1
      BY <1>2, <1>4, <2>3, <3>1
    <3>3. h[g + 1] > i \/ (g > 0 /\ h[g + 1] = h[g])
      BY <2>3 DEF ShownBy, n
    <3> QED
      BY <3>2, <3>3
  <2> QED
    BY <2>1, <2>2, <2>3 DEF ShownBy, n
<1> QED
  BY <1>3, <1>4

LEMMA ShowsUntilRepeat ==
  ASSUME NEW n \in Nat, NEW h \in Seq(Nat \ {0}),
         \A k, m \in 1 .. Len(h) : k < m => h[k] <= h[m]
  PROVE  ShownBy(Shown(h, n), h, n)
<1>1. PICK g : /\ Shown(h, n) = g[n] /\ g[0] = 0
               /\ \A i \in 1 .. n : g[i] = Show(h, g[i - 1], i)
  BY ShownFact
<1>2. Len(h) \in Nat /\ \A k \in 1 .. Len(h) : h[k] \in Nat \ {0}
  BY LenProperties, ElementOfSeq
<1> DEFINE P == {i \in Nat : i <= n => ShownBy(g[i], h, i)}
<1>3. 0 \in P
  <2>1. 0 < Len(h) => h[0 + 1] > 0
    BY <1>2
  <2> QED
    BY <1>1, <1>2, <2>1 DEF ShownBy
<1>4. ASSUME NEW i \in Nat, i \in P PROVE i + 1 \in P
  <2> SUFFICES ASSUME i + 1 <= n PROVE ShownBy(g[i + 1], h, i + 1)
    OBVIOUS
  <2>1. ShownBy(g[i], h, i) /\ g[i] \in Nat
    BY <1>2, <1>4 DEF ShownBy
  <2>2. i + 1 \in 1 .. n /\ (i + 1) - 1 = i
    OBVIOUS
  <2>3. g[i + 1] = Show(h, g[i], i + 1)
    BY <1>1, <2>2
  <2> QED
    BY <2>1, <2>3, ShowFact
<1>5. P = Nat
  <2> HIDE DEF P
  <2> QED
    BY <1>3, <1>4, Induct DEF P
<1>6. ShownBy(g[n], h, n)
  BY <1>5
<1> QED
  BY <1>1, <1>6

\* What the proof of the theorem needs of a state.
LEMMA HistoryIsSoundFact == ASSUME HistoryIInv PROVE HistoryIsSound /\ BudgetIsCharged
<1> DEFINE n == Shown(history, NumTurns)
<1>1. history \in Seq(Nat \ {0}) /\ NumTurns \in Nat /\ Len(history) \in Nat
  BY TurnsFact, LenProperties DEF HistoryIInv, HistoryType
<1>2. ShownBy(n, history, NumTurns)
  BY <1>1, ShowsUntilRepeat DEF HistoryIInv, HistoryAscends
<1> HIDE DEF n
<1>3. n \in 0 .. Len(history) /\ \A i, j \in 1 .. n : i < j => history[i] # history[j]
  BY <1>2 DEF ShownBy
<1>4. ASSUME n < Len(history) PROVE 0 < n /\ history[n + 1] = history[n]
  <2>1. n + 1 \in 1 .. Len(history)
    BY <1>1, <1>3, <1>4
  <2>2. history[n + 1] \in Nat /\ history[n + 1] <= NumTurns
    BY <1>1, <2>1, ElementOfSeq DEF HistoryIInv, HistoryFits
  <2>3. history[n + 1] > NumTurns \/ (n > 0 /\ history[n + 1] = history[n])
    BY <1>2, <1>4 DEF ShownBy
  <2> QED
    BY <1>1, <1>3, <2>2, <2>3
<1>5. n = Len(history) \/ n < Len(history)
  BY <1>1, <1>3
<1>6. ShownUntilRepeat
  BY <1>3, <1>4, <1>5 DEF ShownUntilRepeat, n
<1> QED
  BY <1>6 DEF HistoryIsSound, HistoryIInv

-------------------------------------------------------------------------------
(* Strength, and the order of the candidates *)

LEMMA ProductFact ==
  ASSUME NEW a \in Nat, NEW b \in Nat, NEW u \in Nat, NEW v \in Nat, a <= u, b <= v
  PROVE  a * b \in Nat /\ a * b <= u * v
  OBVIOUS

LEMMA PositiveFact ==
  ASSUME NEW a \in Nat \ {0}, NEW b \in Nat \ {0}
  PROVE  a * b \in Nat \ {0}
  OBVIOUS

LEMMA OneFact == One \in Nat \ {0}
<1> DEFINE p == SureLength * RagTimeout
<1>1. p \in Nat \ {0}
  BY PositiveFact, MergeAssumption
<1>2. One = 20 * p
  BY MergeAssumption DEF One
<1> HIDE DEF p
<1> QED
  BY <1>1, <1>2

ScoreType == [relevance : 0 .. One, confidence : 0 .. One, freshness : 0 .. One]

Candidate == [source : {"rag", "memory"}, length : Nat, score : ScoreType]

LEMMA ClampFact ==
  ASSUME NEW x \in Int
  PROVE  Clamp01(x) \in 0 .. One /\ (x > 0 => Clamp01(x) > 0)
  BY OneFact DEF Clamp01

LEMMA ScoreFact ==
  ASSUME NEW x \in Int, NEW y \in Int
  PROVE  /\ Score(x, y) \in ScoreType
         /\ x > 0 /\ y > 0 => Score(x, y).relevance > 0 /\ Score(x, y).confidence > 0
         /\ Score(x, y).freshness = One
<1>1. Clamp01(x) \in 0 .. One /\ (x > 0 => Clamp01(x) > 0)
  BY ClampFact
<1>2. Clamp01(y) \in 0 .. One /\ (y > 0 => Clamp01(y) > 0)
  BY ClampFact
<1>3. One \in 0 .. One
  BY OneFact
<1> QED
  BY <1>1, <1>2, <1>3 DEF Score, ScoreType

\* What has been retrieved is always trusted a little.
LEMMA HeuristicFact ==
  ASSUME NEW n \in Nat, NEW t \in Nat
  PROVE  /\ Heuristic(n, t) \in ScoreType
         /\ n > 0 => Strength(Heuristic(n, t)) > 0
<1> DEFINE pressure == IF t > RagTimeout THEN RagTimeout ELSE t
           sure     == IF n > SureLength THEN SureLength ELSE n
           left     == 10 * RagTimeout - 3 * pressure
           p        == sure * left
<1>1. CASE n = 0
  <2>1. 0 \in 0 .. One
    BY OneFact
  <2> QED
    BY <1>1, <2>1 DEF Heuristic, EmptyScore, ScoreType
<1>2. CASE n # 0
  <2>1. sure \in Nat \ {0} /\ left \in Nat \ {0}
    BY <1>2, MergeAssumption
  <2>2. p \in Nat \ {0}
    <3> HIDE DEF sure, left
    <3> QED
      BY <2>1, PositiveFact
  <2>3. Heuristic(n, t) = Score(One, 2 * sure * left)
    BY <1>2 DEF Heuristic
  <2>4. 2 * sure * left = 2 * p
    <3> HIDE DEF sure, left
    <3> QED
      BY <2>1
  <2> HIDE DEF p
  <2>5. 2 * p \in Int /\ 2 * p > 0 /\ One \in Int /\ One > 0
    BY <2>2, OneFact
  <2> DEFINE h == Heuristic(n, t)
  <2>6. h = Score(One, 2 * p)
    BY <2>3, <2>4
  <2>7. h \in ScoreType /\ h.relevance > 0 /\ h.confidence > 0 /\ h.freshness = One
    BY <2>5, <2>6, ScoreFact
  <2> HIDE DEF h
  <2>8. h.relevance \in Nat \ {0} /\ h.confidence \in Nat \ {0} /\ h.freshness \in Nat \ {0}
    BY <2>5, <2>7, OneFact DEF ScoreType
  <2>9. h.relevance * h.confidence \in Nat \ {0}
    BY <2>8, PositiveFact
  <2>10. h.relevance * h.confidence * h.freshness \in Nat \ {0}
    BY <2>8, <2>9, PositiveFact
  <2>11. Strength(h) > 0
    BY <2>10 DEF Strength
  <2> QED
    BY <2>7, <2>11 DEF h
<1> QED
  BY <1>1, <1>2

LEMMA CertainFact == Certain \in ScoreType /\ Strength(Certain) > 0
<1>1. One \in Int /\ One > 0
  BY OneFact
<1>2. Certain \in ScoreType /\ Certain.relevance > 0 /\ Certain.confidence > 0 /\ Certain.freshness = One
  BY <1>1, ScoreFact DEF Certain
<1> DEFINE h == Certain
<1> HIDE DEF h
<1>3. h.relevance \in Nat \ {0} /\ h.confidence \in Nat \ {0} /\ h.freshness \in Nat \ {0}
  BY <1>1, <1>2, OneFact DEF ScoreType, h
<1>4. h.relevance * h.confidence \in Nat \ {0}
  BY <1>3, PositiveFact
<1>5. h.relevance * h.confidence * h.freshness \in Nat \ {0}
  BY <1>3, <1>4, PositiveFact
<1> QED
  BY <1>2, <1>5 DEF Strength, h

LEMMA RecalledFact == ASSUME NEW e \in BOOLEAN PROVE Recalled(e) \in ScoreType
<1>1. One \in Int /\ (One \div 20) \in Int /\ (One \div 2) \in Int /\ (One \div 10) \in Int
  BY OneFact
<1> DEFINE x == IF e THEN 17 * (One \div 20) ELSE One \div 2
           y == 9 * (One \div 10)
<1>2. x \in Int /\ y \in Int
  BY <1>1
<1>3. Recalled(e) = Score(x, y)
  BY DEF Recalled
<1> HIDE DEF x, y
<1> QED
  BY <1>2, <1>3, ScoreFact

\* What the sources give.
LEMMA FromFact ==
  ASSUME NEW c \in FromRag \union FromMemory
  PROVE  /\ c \in Candidate
         /\ c.source = "rag" /\ c.length > 0 => Strength(c.score) > 0
<1>1. CASE c \in [source : {"rag"}, length : 0 .. MaxLength, score : {Certain}]
  BY <1>1, CertainFact, MergeAssumption DEF Candidate
<1>2. CASE \E n \in 0 .. MaxLength, t \in 0 .. RagTimeout + 1 :
             c = [source |-> "rag", length |-> n, score |-> Heuristic(n, t)]
  <2>1. PICK n \in 0 .. MaxLength, t \in 0 .. RagTimeout + 1 :
               c = [source |-> "rag", length |-> n, score |-> Heuristic(n, t)]
    BY <1>2
  <2>2. n \in Nat /\ t \in Nat
    BY MergeAssumption
  <2>3. Heuristic(n, t) \in ScoreType /\ (n > 0 => Strength(Heuristic(n, t)) > 0)
    BY <2>2, HeuristicFact
  <2> QED
    BY <2>1, <2>2, <2>3 DEF Candidate
<1>3. CASE c \in FromMemory
  <2>1. PICK n \in 1 .. MaxLength, e \in BOOLEAN : c = [source |-> "memory", length |-> n, score |-> Recalled(e)]
    BY <1>3 DEF FromMemory
  <2>2. n \in Nat /\ Recalled(e) \in ScoreType
    BY MergeAssumption, RecalledFact
  <2> QED
    BY <2>1, <2>2 DEF Candidate
<1> QED
  BY <1>1, <1>2, <1>3 DEF FromRag

Typed == candidates \in Seq(FromRag \union FromMemory)

LEMMA StrengthFact ==
  ASSUME Typed
  PROVE  /\ Len(candidates) \in Nat /\ DOMAIN candidates = 1 .. Len(candidates)
         /\ \A i \in DOMAIN candidates :
              /\ candidates[i].length \in Nat /\ candidates[i].source \in {"rag", "memory"}
              /\ StrengthOf(i) \in 0 .. One * One * One
              /\ candidates[i].source = "rag" /\ candidates[i].length > 0 => StrengthOf(i) > 0
<1>1. Len(candidates) \in Nat /\ DOMAIN candidates = 1 .. Len(candidates)
  BY LenProperties DEF Typed
<1>2. ASSUME NEW i \in DOMAIN candidates
      PROVE  /\ candidates[i].length \in Nat /\ candidates[i].source \in {"rag", "memory"}
             /\ StrengthOf(i) \in 0 .. One * One * One
             /\ candidates[i].source = "rag" /\ candidates[i].length > 0 => StrengthOf(i) > 0
  <2>1. candidates[i] \in FromRag \union FromMemory
    BY <1>1, <1>2, ElementOfSeq DEF Typed
  <2> DEFINE c == candidates[i]
             r == c.score.relevance
             f == c.score.confidence
             n == c.score.freshness
  <2>2. c \in Candidate /\ (c.source = "rag" /\ c.length > 0 => Strength(c.score) > 0)
    BY <2>1, FromFact
  <2>3. r \in 0 .. One /\ f \in 0 .. One /\ n \in 0 .. One
    BY <2>2 DEF Candidate, ScoreType
  <2>4. StrengthOf(i) = r * f * n
    BY DEF StrengthOf, Strength
  <2> HIDE DEF r, f, n
  <2>5. One \in Nat /\ r \in Nat /\ f \in Nat /\ n \in Nat /\ r <= One /\ f <= One /\ n <= One
    BY <2>3, OneFact
  <2>6. r * f \in Nat /\ r * f <= One * One
    BY <2>5, ProductFact
  <2>7. One * One \in Nat
    BY <2>5, ProductFact
  <2> DEFINE p == r * f
             q == One * One
  <2>8. p \in Nat /\ q \in Nat /\ p <= q
    BY <2>6, <2>7
  <2> HIDE DEF p, q
  <2>9. p * n \in Nat /\ p * n <= q * One
    BY <2>5, <2>8, ProductFact
  <2>10. q * One \in Nat
    BY <2>5, <2>8, ProductFact
  <2>11. p * n \in 0 .. q * One
    BY <2>9, <2>10
  <2>12. StrengthOf(i) \in 0 .. One * One * One
    BY <2>4, <2>11 DEF p, q
  <2>13. StrengthOf(i) = Strength(c.score)
    BY DEF StrengthOf
  <2> QED
    BY <2>2, <2>12, <2>13 DEF Candidate
<1> QED
  BY <1>1, <1>2

LEMMA UsableFact ==
  ASSUME Typed
  PROVE  /\ usable \subseteq DOMAIN candidates /\ usable \subseteq Nat
         /\ IsFiniteSet(usable) /\ Cardinality(usable) \in Nat
         /\ \A i \in usable : StrengthOf(i) \in Nat /\ StrengthOf(i) > 0
                              /\ candidates[i].length \in Nat /\ candidates[i].length > 0
<1>1. DOMAIN candidates = 1 .. Len(candidates) /\ Len(candidates) \in Nat
  BY StrengthFact
<1>2. usable \in SUBSET (1 .. Len(candidates))
  BY <1>1 DEF usable
<1>3. IsFiniteSet(usable)
  <2>1. IsFiniteSet(1 .. Len(candidates))
    BY <1>1, FS_Interval
  <2> QED
    BY <1>2, <2>1, FS_Subset
<1>4. Cardinality(usable) \in Nat
  BY <1>3, FS_CardinalityType
<1>5. ASSUME NEW i \in usable
      PROVE  StrengthOf(i) \in Nat /\ StrengthOf(i) > 0 /\ candidates[i].length \in Nat /\ candidates[i].length > 0
  <2>1. StrengthOf(i) \in 0 .. One * One * One /\ candidates[i].length \in Nat
    BY StrengthFact DEF usable
  <2> QED
    BY <2>1 DEF usable, Usable
<1> QED
  BY <1>1, <1>2, <1>3, <1>4, <1>5

\* There is a strongest one.
LEMMA StrongestFact ==
  ASSUME Typed, NEW S \in SUBSET usable, S # {}
  PROVE  /\ Strongest(S) \in S
         /\ \A j \in S : StrengthOf(j) <= StrengthOf(Strongest(S))
<1> DEFINE B == One * One * One
<1>1. \A i \in S : StrengthOf(i) \in 0 .. B /\ i \in Nat
  BY StrengthFact, UsableFact
<1>2. B \in Nat
  <2>1. One \in Nat
    BY OneFact
  <2>2. One * One \in Nat
    BY <2>1, ProductFact
  <2> DEFINE q == One * One
  <2>3. q \in Nat
    BY <2>2
  <2> HIDE DEF q
  <2>4. q * One \in Nat
    BY <2>1, <2>3, ProductFact
  <2> QED
    BY <2>4 DEF q
<1> HIDE DEF B
<1> DEFINE W == {B - StrengthOf(i) : i \in S}
<1>3. W \in SUBSET Nat /\ W # {}
  BY <1>1, <1>2
<1>4. PICK w \in W : \A v \in W : w <= v
  BY <1>3, LeastOf
<1>5. PICK s \in S : w = B - StrengthOf(s)
  BY <1>4
<1>6. \A j \in S : StrengthOf(j) <= StrengthOf(s)
  <2> SUFFICES ASSUME NEW j \in S PROVE StrengthOf(j) <= StrengthOf(s)
    OBVIOUS
  <2>1. B - StrengthOf(s) <= B - StrengthOf(j)
    BY <1>4, <1>5
  <2> QED
    BY <1>1, <1>2, <2>1
<1> DEFINE T == {i \in S : StrengthOf(i) = StrengthOf(s)}
<1>7. T \in SUBSET Nat /\ T # {}
  BY <1>1
<1>8. PICK m \in T : \A i \in T : m <= i
  BY <1>7, LeastOf
<1>9. m \in S /\ \A j \in S \ {m} : Stronger(m, j)
  <2> SUFFICES ASSUME NEW j \in S, j # m PROVE Stronger(m, j)
    OBVIOUS
  <2>1. StrengthOf(j) <= StrengthOf(m) /\ StrengthOf(j) \in Int /\ StrengthOf(m) \in Int
    BY <1>1, <1>6, <1>8
  <2>2. j \in Nat /\ m \in Nat /\ (StrengthOf(j) = StrengthOf(m) => m <= j)
    BY <1>1, <1>8
  <2> QED
    BY <2>1, <2>2 DEF Stronger
<1> DEFINE x == Strongest(S)
<1>10. x \in S /\ \A j \in S \ {x} : Stronger(x, j)
  BY <1>9 DEF Strongest
<1> HIDE DEF x
<1>11. ASSUME NEW j \in S PROVE StrengthOf(j) <= StrengthOf(x)
  BY <1>1, <1>10 DEF Stronger
<1> QED
  BY <1>10, <1>11 DEF x

-------------------------------------------------------------------------------
\* What is left to rank after the first n.
IsRest(g, n) == g = [i \in 0 .. n |-> IF i = 0 THEN usable ELSE Others(g[i - 1])]

RankedBy(g) ==
  LET n == Cardinality(usable) IN
  /\ g[0] = usable /\ \A i \in 1 .. n : g[i] = Others(g[i - 1])
  /\ Ranked = [i \in 1 .. n |-> Strongest(g[i - 1])]

LEMMA RestExists == ASSUME Typed PROVE \E g : RankedBy(g)
<1> DEFINE n == Cardinality(usable)
           step == [x \in (1 .. n) \X (SUBSET usable) |-> Others(x[2])]
<1>1. n \in Nat
  BY UsableFact
<1> HIDE DEF n
<1>2. step \in [(1 .. n) \X (SUBSET usable) -> SUBSET usable]
  BY DEF Others
<1>3. PICK g \in [0 .. n -> SUBSET usable] : Iterates(g, n, usable, step)
  BY <1>1, <1>2, IterationExists
<1>4. \A i \in 1 .. n : g[i] = Others(g[i - 1])
  <2> SUFFICES ASSUME NEW i \in 1 .. n PROVE g[i] = Others(g[i - 1])
    OBVIOUS
  <2>1. g[i - 1] \in SUBSET usable
    BY <1>1
  <2>2. step[<<i, g[i - 1]>>] = Others(g[i - 1])
    BY <2>1
  <2> QED
    BY <1>3, <2>2 DEF Iterates
<1>5. g[0] = usable
  BY <1>3 DEF Iterates
<1>6. IsRest(g, n)
  BY <1>1, <1>4, <1>5 DEF IsRest
<1> DEFINE k == CHOOSE s : IsRest(s, n)
<1>7. IsRest(k, n)
  BY <1>6
<1>8. Ranked = [i \in 1 .. n |-> Strongest(k[i - 1])]
  BY DEF Ranked, IsRest, n
<1> HIDE DEF k, step
<1>9. k[0] = usable /\ \A i \in 1 .. n : k[i] = Others(k[i - 1])
  BY <1>1, <1>7 DEF IsRest
<1>10. RankedBy(k)
  BY <1>8, <1>9 DEF RankedBy, n
<1> QED
  BY <1>10

\* All that is usable is ranked, and the strongest first.
LEMMA RankedFact ==
  ASSUME Typed
  PROVE  /\ Ranked \in Seq(usable) /\ Len(Ranked) = Cardinality(usable)
         /\ \A i \in usable : \E n \in 1 .. Len(Ranked) : Ranked[n] = i
         /\ usable # {} => Len(Ranked) >= 1 /\ Ranked[1] \in usable
                           /\ \A j \in usable : StrengthOf(j) <= StrengthOf(Ranked[1])
         /\ \A h, k \in 1 .. Len(Ranked) : h <= k => StrengthOf(Ranked[k]) <= StrengthOf(Ranked[h])
<1> DEFINE n == Cardinality(usable)
<1>1. n \in Nat /\ IsFiniteSet(usable)
  BY UsableFact
<1>2. PICK g : RankedBy(g)
  BY RestExists
<1>3. g[0] = usable /\ (\A i \in 1 .. n : g[i] = Others(g[i - 1])) /\ Ranked = [i \in 1 .. n |-> Strongest(g[i - 1])]
  BY <1>2 DEF RankedBy
<1> HIDE DEF n
<1> DEFINE Left(i) == g[i] \in SUBSET usable /\ IsFiniteSet(g[i]) /\ Cardinality(g[i]) = n - i
           P == {i \in Nat : i <= n => Left(i)}
<1>4. 0 \in P
  BY <1>1, <1>3 DEF n
<1>5. ASSUME NEW i \in Nat, i + 1 <= n, Left(i)
      PROVE  g[i] # {} /\ Strongest(g[i]) \in g[i] /\ g[i + 1] = g[i] \ {Strongest(g[i])}
  <2>1. g[i] # {}
    BY <1>1, <1>5, FS_EmptySet
  <2>2. Strongest(g[i]) \in g[i]
    BY <1>5, <2>1, StrongestFact
  <2>3. i + 1 \in 1 .. n /\ (i + 1) - 1 = i
    BY <1>1, <1>5
  <2>4. g[i + 1] = Others(g[i])
    BY <1>3, <2>3
  <2> QED
    BY <2>1, <2>2, <2>4 DEF Others
<1>6. ASSUME NEW i \in Nat, i \in P PROVE i + 1 \in P
  <2> SUFFICES ASSUME i + 1 <= n PROVE Left(i + 1)
    OBVIOUS
  <2>1. Left(i)
    BY <1>1, <1>6
  <2>2. Strongest(g[i]) \in g[i] /\ g[i + 1] = g[i] \ {Strongest(g[i])}
    BY <1>5, <2>1
  <2>3. IsFiniteSet(g[i + 1]) /\ Cardinality(g[i + 1]) = Cardinality(g[i]) - 1
    BY <2>1, <2>2, FS_RemoveElement
  <2> QED
    BY <1>1, <2>1, <2>2, <2>3
<1>7. P = Nat
  <2> HIDE DEF P
  <2> QED
    BY <1>4, <1>6, Induct DEF P
<1>8. \A i \in 0 .. n : Left(i)
  BY <1>7
<1>9. \A i \in 1 .. n : Ranked[i] = Strongest(g[i - 1]) /\ Ranked[i] \in usable
  <2> SUFFICES ASSUME NEW i \in 1 .. n PROVE Ranked[i] = Strongest(g[i - 1]) /\ Ranked[i] \in usable
    OBVIOUS
  <2>1. PICK k \in Nat : k = i - 1 /\ k + 1 <= n /\ k \in 0 .. n
    BY <1>1
  <2>2. Left(k)
    BY <1>8, <2>1
  <2>3. Strongest(g[k]) \in g[k]
    BY <1>5, <2>1, <2>2
  <2> QED
    BY <1>3, <2>1, <2>2, <2>3
<1>10. Ranked \in [1 .. n -> usable]
  BY <1>3, <1>9
<1>11. Ranked \in Seq(usable) /\ Len(Ranked) = n
  <2>1. Ranked \in Seq(usable)
    BY <1>1, <1>10, SeqDef
  <2>2. DOMAIN Ranked = 1 .. n
    BY <1>10
  <2> QED
    BY <1>1, <2>1, <2>2, LenProperties
<1> DEFINE Found(i) == \A s \in usable \ g[i] : \E m \in 1 .. i : Ranked[m] = s
           Q == {i \in Nat : i <= n => Found(i)}
<1>12. 0 \in Q
  BY <1>3
<1>13. ASSUME NEW i \in Nat, i \in Q PROVE i + 1 \in Q
  <2> SUFFICES ASSUME i + 1 <= n PROVE Found(i + 1)
    OBVIOUS
  <2> SUFFICES ASSUME NEW s \in usable, s \notin g[i + 1] PROVE \E m \in 1 .. i + 1 : Ranked[m] = s
    OBVIOUS
  <2>1. Left(i) /\ Found(i)
    BY <1>1, <1>8, <1>13
  <2>2. g[i + 1] = g[i] \ {Strongest(g[i])}
    BY <1>5, <2>1
  <2>3. CASE s \notin g[i]
    <3>1. PICK m \in 1 .. i : Ranked[m] = s
      BY <2>1, <2>3
    <3> QED
      BY <3>1
  <2>4. CASE s \in g[i]
    <3>1. s = Strongest(g[i])
      BY <2>2, <2>4
    <3>2. PICK k \in 1 .. n : k = i + 1 /\ k - 1 = i
      BY <1>1
    <3>3. Ranked[k] = s
      BY <1>9, <3>1, <3>2
    <3> QED
      BY <3>2, <3>3
  <2> QED
    BY <2>3, <2>4
<1>14. Q = Nat
  <2> HIDE DEF Q
  <2> QED
    BY <1>12, <1>13, Induct DEF Q
<1>15. \A i \in usable : \E m \in 1 .. Len(Ranked) : Ranked[m] = i
  <2>1. Found(n) /\ Left(n)
    BY <1>1, <1>8, <1>14
  <2>2. g[n] = {}
    BY <1>1, <2>1, FS_EmptySet
  <2> QED
    BY <1>11, <2>1, <2>2
<1>16. ASSUME usable # {}
       PROVE  Len(Ranked) >= 1 /\ Ranked[1] \in usable /\ \A j \in usable : StrengthOf(j) <= StrengthOf(Ranked[1])
  <2>1. n # 0
    BY <1>1, <1>16, FS_EmptySet DEF n
  <2>2. 1 \in 1 .. n
    BY <1>1, <2>1
  <2>3. Ranked[1] = Strongest(usable)
    BY <1>3, <1>9, <2>2
  <2> QED
    BY <1>1, <1>11, <1>16, <2>1, <2>3, StrongestFact
<1>17. ASSUME NEW h \in 1 .. n, NEW k \in 1 .. n, h <= k
       PROVE  StrengthOf(Ranked[k]) <= StrengthOf(Ranked[h])
  <2>1. PICK a \in Nat, b \in Nat : /\ a = h - 1 /\ b = k - 1 /\ a <= b /\ b + 1 <= n
                                   /\ a \in 0 .. n /\ b \in 0 .. n
    BY <1>1, <1>17
  <2> DEFINE R == {i \in Nat : a <= i /\ i <= b => g[i] \subseteq g[a]}
  <2>2. 0 \in R
    BY <2>1
  <2>3. ASSUME NEW i \in Nat, i \in R PROVE i + 1 \in R
    <3> SUFFICES ASSUME a <= i + 1, i + 1 <= b PROVE g[i + 1] \subseteq g[a]
      OBVIOUS
    <3>1. CASE a = i + 1
      BY <3>1
    <3>2. CASE a # i + 1
      <4>1. g[i] \subseteq g[a] /\ i + 1 <= n /\ i \in 0 .. n
        BY <1>1, <2>1, <2>3, <3>2
      <4>2. g[i + 1] \subseteq g[i]
        BY <1>5, <1>8, <4>1
      <4> QED
        BY <4>1, <4>2
    <3> QED
      BY <3>1, <3>2
  <2>4. R = Nat
    <3> HIDE DEF R
    <3> QED
      BY <2>2, <2>3, Induct DEF R
  <2>5. g[b] \subseteq g[a]
    BY <2>1, <2>4
  <2>6. Left(a) /\ Left(b) /\ a + 1 <= n
    BY <1>1, <1>8, <2>1
  <2>7. Ranked[h] = Strongest(g[a]) /\ Ranked[k] = Strongest(g[b])
    BY <1>9, <2>1
  <2>8. g[a] # {} /\ Strongest(g[b]) \in g[b]
    BY <1>5, <2>1, <2>6
  <2> QED
    BY <2>5, <2>6, <2>7, <2>8, StrongestFact
<1> QED
  BY <1>11, <1>15, <1>16, <1>17 DEF n

-------------------------------------------------------------------------------
(* What fits the budget *)

\* What one more text adds to those that are joined.
LEMMA JoinedFact ==
  ASSUME Typed, NEW s \in Seq(usable), NEW i \in usable
  PROVE  /\ Lengths(s) \in Nat /\ Joined(s) \in Nat
         /\ Joined(s) = Lengths(s) + (IF s = <<>> THEN 0 ELSE Len(s) - 1)
         /\ Lengths(Append(s, i)) = Lengths(s) + candidates[i].length
         /\ Joined(Append(s, i)) = Joined(s) + candidates[i].length + (IF s = <<>> THEN 0 ELSE 1)
<1> DEFINE t == Append(s, i)
           n == Len(s)
           f == [k \in DOMAIN s |-> candidates[s[k]].length]
           g == [k \in DOMAIN t |-> candidates[t[k]].length]
<1>1. /\ n \in Nat /\ DOMAIN s = 1 .. n /\ (s = <<>> <=> n = 0)
      /\ t \in Seq(usable) /\ Len(t) = n + 1 /\ DOMAIN t = 1 .. n + 1 /\ t # <<>>
      /\ (\A k \in 1 .. n : t[k] = s[k]) /\ t[n + 1] = i
  <2>1. n \in Nat /\ DOMAIN s = 1 .. n
    BY LenProperties
  <2>2. t \in Seq(usable) /\ t # <<>> /\ Len(t) = n + 1 /\ (\A k \in 1 .. n : t[k] = s[k]) /\ t[n + 1] = i
    BY AppendProperties
  <2>3. DOMAIN t = 1 .. n + 1
    BY <2>2, LenProperties
  <2>4. s = <<>> <=> n = 0
    BY EmptySeq
  <2> QED
    BY <2>1, <2>2, <2>3, <2>4
<1> HIDE DEF t, n
<1>2. \A u \in usable : candidates[u].length \in Nat
  BY UsableFact
<1>3. \A k \in 1 .. n : f[k] \in Nat /\ g[k] = f[k]
  <2> SUFFICES ASSUME NEW k \in 1 .. n PROVE f[k] \in Nat /\ g[k] = f[k]
    OBVIOUS
  <2>1. k \in DOMAIN s /\ k \in DOMAIN t /\ t[k] = s[k]
    BY <1>1
  <2>2. s[k] \in usable
    BY <1>1, <2>1, ElementOfSeq DEF n
  <2> QED
    BY <1>2, <2>1, <2>2
<1>4. g[n + 1] = candidates[i].length
  BY <1>1
<1>5. g[n + 1] \in Nat
  BY <1>2, <1>4
<1>6. Lengths(s) = SumTo(f, n) /\ Lengths(t) = SumTo(g, n + 1)
  BY <1>1 DEF Lengths, n
<1> HIDE DEF f, g
<1>7. SumTo(f, n) \in Nat /\ SumTo(g, n + 1) = SumTo(f, n) + g[n + 1]
  <2>1. n \in Nat
    BY <1>1
  <2> QED
    BY <1>3, <1>5, <2>1, SumStep
<1>8. Lengths(s) \in Nat /\ Lengths(t) = Lengths(s) + candidates[i].length
  BY <1>4, <1>6, <1>7
<1>9. Joined(s) = Lengths(s) + (IF s = <<>> THEN 0 ELSE n - 1)
  BY DEF Joined, n
<1>10. Joined(t) = Lengths(t) + n
  BY <1>1 DEF Joined
<1>11. Joined(s) \in Nat
  BY <1>1, <1>8, <1>9
<1>12. Joined(t) = Joined(s) + candidates[i].length + (IF s = <<>> THEN 0 ELSE 1)
  BY <1>1, <1>2, <1>8, <1>9, <1>10
<1> QED
  BY <1>8, <1>9, <1>11, <1>12 DEF t, n

LEMMA JoinedNothing == ASSUME Typed, usable # {} PROVE Joined(<<>>) = 0
<1> DEFINE f == [k \in DOMAIN <<>> |-> candidates[<<>>[k]].length]
<1>1. 0 \in Nat /\ \A i \in 1 .. 0 : f[i] \in Nat
  OBVIOUS
<1>2. Lengths(<<>>) = SumTo(f, 0)
  BY DEF Lengths
<1> HIDE DEF f
<1>3. PICK t : Totals(t, f, 0, Nat)
  BY <1>1, SumFact
<1> QED
  BY <1>2, <1>3 DEF Totals, Joined

-------------------------------------------------------------------------------
IsKept(g, ranked, n) == g = [i \in 0 .. n |-> IF i = 0 THEN <<>> ELSE Keep(g[i - 1], ranked[i])]

KeptBy(g, ranked) ==
  /\ Kept(ranked) = g[Len(ranked)] /\ g[0] = <<>>
  /\ \A i \in 1 .. Len(ranked) : g[i] = Keep(g[i - 1], ranked[i])

LEMMA KeptExists == ASSUME NEW ranked \in Seq(usable) PROVE \E g : KeptBy(g, ranked)
<1> DEFINE n == Len(ranked)
           S == Seq(usable)
           step == [x \in (1 .. n) \X S |-> Keep(x[2], ranked[x[1]])]
<1>1. n \in Nat /\ \A i \in 1 .. n : ranked[i] \in usable
  BY LenProperties, ElementOfSeq
<1>2. <<>> \in S
  BY EmptySeq
<1>3. \A s \in S, i \in usable : Append(s, i) \in S
  BY AppendProperties
<1> HIDE DEF n, S
<1>4. step \in [(1 .. n) \X S -> S]
  BY <1>1, <1>3 DEF Keep
<1>5. PICK g \in [0 .. n -> S] : Iterates(g, n, <<>>, step)
  BY <1>1, <1>2, <1>4, IterationExists
<1>6. \A i \in 1 .. n : g[i] = Keep(g[i - 1], ranked[i])
  <2> SUFFICES ASSUME NEW i \in 1 .. n PROVE g[i] = Keep(g[i - 1], ranked[i])
    OBVIOUS
  <2>1. g[i - 1] \in S
    BY <1>1
  <2>2. step[<<i, g[i - 1]>>] = Keep(g[i - 1], ranked[i])
    BY <2>1
  <2> QED
    BY <1>5, <2>2 DEF Iterates
<1>7. g[0] = <<>>
  BY <1>5 DEF Iterates
<1>8. IsKept(g, ranked, n)
  BY <1>1, <1>6, <1>7 DEF IsKept
<1> DEFINE k == CHOOSE s : IsKept(s, ranked, n)
<1>9. IsKept(k, ranked, n)
  BY <1>8
<1>10. Kept(ranked) = k[n]
  BY DEF Kept, IsKept, n
<1> HIDE DEF k, step
<1>11. k[0] = <<>> /\ \A i \in 1 .. n : k[i] = Keep(k[i - 1], ranked[i])
  BY <1>1, <1>9 DEF IsKept
<1>12. KeptBy(k, ranked)
  BY <1>10, <1>11 DEF KeptBy, n
<1> QED
  BY <1>12

\* After m of them: what is kept fits, what is not does not fit beside it, and the first
\* leads if it fits alone.
Within(s, ranked, m) ==
  /\ s \in Seq(usable) /\ (s # <<>> => Fits(s)) /\ (m = 0 => s = <<>>)
  /\ \A k \in 1 .. m : (\E j \in 1 .. Len(s) : s[j] = ranked[k]) \/ ~Fits(Append(s, ranked[k]))
  /\ s # <<>> => \E h \in 1 .. m : s[1] = ranked[h] /\ Fits(<<ranked[h]>>)
  /\ \A k \in 1 .. m : Fits(<<ranked[k]>>) => s # <<>> /\ \E h \in 1 .. k : s[1] = ranked[h]

\* What leads the texts that are kept still does so with one more candidate.
LEMMA LedFact ==
  ASSUME NEW ranked \in Seq(usable), NEW m \in Nat, NEW s, Within(s, ranked, m), s # <<>>
  PROVE  /\ \E h \in 1 .. m + 1 : s[1] = ranked[h] /\ Fits(<<ranked[h]>>)
         /\ \A k \in 1 .. m + 1 : Fits(<<ranked[k]>>) => \E h \in 1 .. k : s[1] = ranked[h]
<1>1. PICK h \in 1 .. m : s[1] = ranked[h] /\ Fits(<<ranked[h]>>)
  BY DEF Within
<1>2. h \in 1 .. m + 1
  OBVIOUS
<1>3. ASSUME NEW k \in 1 .. m + 1, Fits(<<ranked[k]>>) PROVE \E e \in 1 .. k : s[1] = ranked[e]
  <2>1. CASE k = m + 1
    <3>1. h \in 1 .. k
      BY <2>1
    <3> QED
      BY <1>1, <3>1
  <2>2. CASE k # m + 1
    <3>1. k \in 1 .. m
      BY <2>2
    <3> QED
      BY <1>3, <3>1 DEF Within
  <2> QED
    BY <2>1, <2>2
<1> QED
  BY <1>1, <1>2, <1>3

LEMMA KeepFact ==
  ASSUME Typed, NEW ranked \in Seq(usable), NEW m \in Nat, m + 1 <= Len(ranked),
         NEW s, Within(s, ranked, m)
  PROVE  Within(Keep(s, ranked[m + 1]), ranked, m + 1)
<1> DEFINE i == ranked[m + 1]
           t == Append(s, i)
<1>1. Len(ranked) \in Nat /\ \A k \in 1 .. Len(ranked) : ranked[k] \in usable
  BY LenProperties, ElementOfSeq
<1>2. i \in usable
  BY <1>1
<1>3. s \in Seq(usable) /\ Len(s) \in Nat
  BY LenProperties DEF Within
<1>4. CASE Fits(t)
  <2>1. Keep(s, i) = t
    BY <1>4 DEF Keep
  <2>2. /\ t \in Seq(usable) /\ Len(t) = Len(s) + 1
        /\ (\A k \in 1 .. Len(s) : t[k] = s[k]) /\ t[Len(s) + 1] = i
    BY <1>2, <1>3, AppendProperties
  <2>3. ASSUME NEW k \in 1 .. m + 1
        PROVE  (\E j \in 1 .. Len(t) : t[j] = ranked[k]) \/ ~Fits(Append(t, ranked[k]))
    <3>1. CASE k = m + 1
      <4>1. t[Len(t)] = ranked[k] /\ Len(t) \in 1 .. Len(t)
        BY <1>3, <2>2, <3>1
      <4> QED
        BY <4>1
    <3>2. CASE k # m + 1
      <4>1. k \in 1 .. m
        BY <3>2
      <4>2. CASE \E j \in 1 .. Len(s) : s[j] = ranked[k]
        <5>1. PICK j \in 1 .. Len(s) : s[j] = ranked[k]
          BY <4>2
        <5>2. j \in 1 .. Len(t) /\ t[j] = ranked[k]
          BY <1>3, <2>2, <5>1
        <5> QED
          BY <5>2
      <4>3. CASE ~Fits(Append(s, ranked[k]))
        <5> DEFINE u == ranked[k]
        <5>1. u \in usable
          BY <1>1, <4>1
        <5> HIDE DEF u, i
        <5>2. Joined(Append(s, u)) = Joined(s) + candidates[u].length + (IF s = <<>> THEN 0 ELSE 1)
          BY <1>3, <5>1, JoinedFact
        <5>3. Joined(Append(t, u)) = Joined(t) + candidates[u].length + (IF t = <<>> THEN 0 ELSE 1)
          BY <2>2, <5>1, JoinedFact
        <5>4. Joined(t) = Joined(s) + candidates[i].length + (IF s = <<>> THEN 0 ELSE 1) /\ Joined(s) \in Nat
          BY <1>2, <1>3, JoinedFact
        <5>5. t # <<>>
          BY <1>3, <2>2, EmptySeq
        <5>6. candidates[i].length \in Nat /\ candidates[u].length \in Nat
          BY <1>2, <5>1, UsableFact
        <5> HIDE DEF t
        <5>7. Joined(Append(s, u)) <= Joined(Append(t, u)) /\ Joined(Append(s, u)) \in Nat /\ Joined(Append(t, u)) \in Nat
          <6> DEFINE a == Joined(Append(s, u))
                     b == Joined(Append(t, u))
                     c == Joined(s)
                     d == Joined(t)
                     e == candidates[u].length
                     w == candidates[i].length
                     o == IF s = <<>> THEN 0 ELSE 1
          <6>1. a = c + e + o /\ b = d + e + 1 /\ d = c + w + o
            BY <5>2, <5>3, <5>4, <5>5
          <6>2. c \in Nat /\ e \in Nat /\ w \in Nat /\ o \in {0, 1}
            BY <5>4, <5>6
          <6> HIDE DEF a, b, c, d, e, w, o
          <6>3. a <= b /\ a \in Nat /\ b \in Nat
            BY <6>1, <6>2
          <6> QED
            BY <6>3 DEF a, b
        <5>8. ~(Joined(Append(s, u)) <= MaxChars)
          BY <4>3 DEF Fits, u
        <5>9. ~(Joined(Append(t, u)) <= MaxChars)
          BY <5>7, <5>8, MergeAssumption
        <5> QED
          BY <5>9 DEF Fits, u
      <4> QED
        BY <4>1, <4>2, <4>3 DEF Within
    <3> QED
      BY <3>1, <3>2
  <2>4. t # <<>>
    BY <1>3, <2>2, EmptySeq
  <2>5. /\ \E h \in 1 .. m + 1 : t[1] = ranked[h] /\ Fits(<<ranked[h]>>)
        /\ \A k \in 1 .. m + 1 : Fits(<<ranked[k]>>) => \E h \in 1 .. k : t[1] = ranked[h]
    <3>1. CASE s = <<>>
      <4>1. t = <<i>> /\ Fits(<<i>>)
        BY <1>4, <3>1
      <4>2. t[1] = i
        BY <4>1
      <4>3. \A k \in 1 .. m : ~Fits(<<ranked[k]>>)
        BY <3>1 DEF Within
      <4>4. m + 1 \in 1 .. m + 1 /\ i = ranked[m + 1]
        OBVIOUS
      <4> HIDE DEF i, t
      <4>5. ASSUME NEW k \in 1 .. m + 1, Fits(<<ranked[k]>>) PROVE \E h \in 1 .. k : t[1] = ranked[h]
        <5>1. k = m + 1
          BY <4>3, <4>5
        <5>2. k \in 1 .. k /\ t[1] = ranked[k]
          BY <4>2, <4>4, <5>1
        <5> QED
          BY <5>2
      <4>6. \E h \in 1 .. m + 1 : t[1] = ranked[h] /\ Fits(<<ranked[h]>>)
        BY <4>1, <4>2, <4>4
      <4> QED
        BY <4>5, <4>6
    <3>2. CASE s # <<>>
      <4>1. Len(s) >= 1
        BY <1>3, <3>2, EmptySeq
      <4>2. t[1] = s[1]
        BY <1>3, <2>2, <4>1
      <4> HIDE DEF t
      <4> QED
        BY <3>2, <4>2, LedFact
    <3> QED
      BY <3>1, <3>2
  <2> QED
    BY <1>4, <2>1, <2>2, <2>3, <2>4, <2>5 DEF Within
<1>5. CASE ~Fits(t)
  <2>1. Keep(s, i) = s
    BY <1>5 DEF Keep
  <2>2. ASSUME NEW k \in 1 .. m + 1
        PROVE  (\E j \in 1 .. Len(s) : s[j] = ranked[k]) \/ ~Fits(Append(s, ranked[k]))
    BY <1>5 DEF Within
  <2>3. s # <<>> => \E h \in 1 .. m + 1 : s[1] = ranked[h] /\ Fits(<<ranked[h]>>)
    BY LedFact
  <2>4. ASSUME NEW k \in 1 .. m + 1, Fits(<<ranked[k]>>)
        PROVE  s # <<>> /\ \E h \in 1 .. k : s[1] = ranked[h]
    <3>1. s # <<>>
      <4> SUFFICES ASSUME s = <<>> PROVE FALSE
        OBVIOUS
      <4>1. t = <<i>>
        OBVIOUS
      <4> HIDE DEF t
      <4>2. k = m + 1
        BY <2>4 DEF Within
      <4> QED
        BY <1>5, <2>4, <4>1, <4>2
    <3> QED
      BY <2>4, <3>1, LedFact
  <2>5. s \in Seq(usable) /\ (s # <<>> => Fits(s)) /\ m + 1 # 0
    BY DEF Within
  <2>6. Within(s, ranked, m + 1)
    BY <2>2, <2>3, <2>4, <2>5 DEF Within
  <2> QED
    BY <2>1, <2>6, Zenon
<1> QED
  BY <1>4, <1>5

LEMMA KeptFact ==
  ASSUME Typed, NEW ranked \in Seq(usable)
  PROVE  Within(Kept(ranked), ranked, Len(ranked))
<1> DEFINE n == Len(ranked)
<1>1. n \in Nat
  BY LenProperties
<1>2. PICK g : KeptBy(g, ranked)
  BY KeptExists
<1>3. Kept(ranked) = g[n] /\ g[0] = <<>> /\ \A i \in 1 .. n : g[i] = Keep(g[i - 1], ranked[i])
  BY <1>2 DEF KeptBy
<1> HIDE DEF n
<1> DEFINE P == {i \in Nat : i <= n => Within(g[i], ranked, i)}
<1>4. 0 \in P
  <2>1. <<>> \in Seq(usable)
    BY EmptySeq
  <2>2. Within(<<>>, ranked, 0)
    BY <2>1 DEF Within
  <2> QED
    BY <1>3, <2>2
<1>5. ASSUME NEW i \in Nat, i \in P PROVE i + 1 \in P
  <2> SUFFICES ASSUME i + 1 <= n PROVE Within(g[i + 1], ranked, i + 1)
    OBVIOUS
  <2>1. Within(g[i], ranked, i)
    BY <1>1, <1>5
  <2>2. Within(Keep(g[i], ranked[i + 1]), ranked, i + 1)
    BY <2>1, KeepFact DEF n
  <2>3. i + 1 \in 1 .. n /\ (i + 1) - 1 = i
    BY <1>1
  <2>4. g[i + 1] = Keep(g[i], ranked[i + 1])
    BY <1>3, <2>3
  <2> QED
    BY <2>2, <2>4
<1>6. P = Nat
  <2> HIDE DEF P
  <2> QED
    BY <1>4, <1>5, Induct DEF P
<1> QED
  BY <1>1, <1>3, <1>6 DEF n

LEMMA JoinedOne == ASSUME Typed, NEW i \in usable PROVE Joined(<<i>>) = candidates[i].length
<1>1. <<>> \in Seq(usable) /\ Append(<<>>, i) = <<i>>
  BY EmptySeq
<1>2. Joined(<<>>) = 0
  BY JoinedNothing
<1>3. Joined(Append(<<>>, i)) = Joined(<<>>) + candidates[i].length + 0
  BY <1>1, JoinedFact
<1>4. candidates[i].length \in Nat
  BY UsableFact
<1> QED
  BY <1>1, <1>2, <1>3, <1>4

\* What is joined.
LEMMA PartsFact ==
  ASSUME Typed, usable # {}
  PROVE  /\ Parts \in Seq(usable) /\ Joined(Parts) \in Nat
         /\ Len(Parts) > 1 => Lengths(Parts) + Len(Parts) - 1 <= MaxChars
         /\ Cardinality(usable) > 1 =>
              \A i \in usable : (\A n \in DOMAIN Parts : Parts[n] # i) => ~Fits(Append(Parts, i))
         /\ Parts = <<>> <=> able = {}
         /\ able # {} => Parts[1] \in able /\ \A i \in able : StrengthOf(i) <= StrengthOf(Parts[1])
         /\ \A i \in usable : usable = {i} => Parts = <<i>>
         /\ Joined(Parts) = 0 => \A i \in usable : candidates[i].length > MaxChars
<1> DEFINE c == Cardinality(usable)
<1>1. /\ Ranked \in Seq(usable) /\ Len(Ranked) = c /\ c >= 1 /\ Ranked[1] \in usable
      /\ \A i \in usable : \E n \in 1 .. Len(Ranked) : Ranked[n] = i
      /\ \A j \in usable : StrengthOf(j) <= StrengthOf(Ranked[1])
      /\ \A h, k \in 1 .. Len(Ranked) : h <= k => StrengthOf(Ranked[k]) <= StrengthOf(Ranked[h])
  BY RankedFact
<1>2. c \in Nat
  BY UsableFact
<1>3. \A i \in usable : usable = {i} => c = 1
  BY FS_Singleton
<1>4. \A i \in usable : candidates[i].length \in Nat /\ candidates[i].length > 0
  BY UsableFact
<1> HIDE DEF c
<1>5. CASE c = 1
  <2>1. Parts = Ranked /\ Ranked = <<Ranked[1]>>
    <3>1. Len(Ranked) = 1
      BY <1>1, <1>5
    <3>2. Ranked = <<Ranked[1]>>
      BY <1>1, <3>1
    <3> QED
      BY <3>1, <3>2 DEF Parts
  <2> DEFINE r == Ranked[1]
  <2>2. r \in usable /\ Parts = <<r>> /\ Joined(Parts) = candidates[r].length
    BY <1>1, <2>1, JoinedOne
  <2>3. Joined(Parts) \in Nat /\ Joined(Parts) # 0
    BY <1>4, <2>2
  <2> HIDE DEF r
  <2>4. Parts \in Seq(usable) /\ Len(Parts) = 1 /\ Parts[1] = r /\ Parts # <<>>
    BY <2>2
  <2>5. able = usable /\ able # {}
    BY <1>5 DEF able, c
  <2>6. \A i \in able : StrengthOf(i) <= StrengthOf(r)
    BY <1>1, <2>5 DEF r
  <2> QED
    BY <1>5, <2>2, <2>3, <2>4, <2>5, <2>6 DEF c, r
<1>6. CASE c # 1
  <2>1. Parts = Kept(Ranked)
    BY <1>1, <1>2, <1>6 DEF Parts
  <2>2. Within(Parts, Ranked, Len(Ranked))
    BY <1>1, <2>1, KeptFact
  <2> DEFINE p == Parts
  <2>3. p \in Seq(usable) /\ Len(p) \in Nat /\ DOMAIN p = 1 .. Len(p) /\ (p = <<>> <=> Len(p) = 0)
    BY <2>2, LenProperties, EmptySeq DEF Within
  <2>4. Lengths(p) \in Nat /\ Joined(p) \in Nat
        /\ Joined(p) = Lengths(p) + (IF p = <<>> THEN 0 ELSE Len(p) - 1)
    BY <1>1, <2>3, JoinedFact
  <2>5. p # <<>> => Joined(p) <= MaxChars
    BY <2>2 DEF Within, Fits
  <2>6. Len(p) > 1 => Lengths(p) + Len(p) - 1 <= MaxChars
    <3> HIDE DEF p
    <3> QED
      BY <2>3, <2>4, <2>5, MergeAssumption
  <2>7. ASSUME NEW i \in usable, \A n \in DOMAIN p : p[n] # i PROVE ~Fits(Append(p, i))
    <3>1. PICK n \in 1 .. Len(Ranked) : Ranked[n] = i
      BY <1>1
    <3> QED
      BY <2>2, <2>3, <2>7, <3>1 DEF Within
  <2>8. /\ p = <<>> <=> able = {}
        /\ able # {} => p[1] \in able /\ \A i \in able : StrengthOf(i) <= StrengthOf(p[1])
    <3>1. \A i \in usable : i \in able <=> Fits(<<i>>)
      <4>1. ASSUME NEW i \in usable PROVE i \in able <=> Fits(<<i>>)
        <5>1. Joined(<<i>>) = candidates[i].length
          BY JoinedOne
        <5> QED
          BY <1>6, <5>1 DEF able, Fits, c
      <4> QED
        BY <4>1
    <3>2. able \subseteq usable
      BY DEF able
    <3>3. ASSUME p # <<>> PROVE able # {}
      <4>1. PICK h \in 1 .. Len(Ranked) : p[1] = Ranked[h] /\ Fits(<<Ranked[h]>>)
        BY <2>2, <3>3 DEF Within
      <4>2. Ranked[h] \in usable
        BY <1>1, ElementOfSeq
      <4> QED
        BY <3>1, <4>1, <4>2
    <3>4. ASSUME NEW i \in able
          PROVE  p # <<>> /\ p[1] \in able /\ StrengthOf(i) <= StrengthOf(p[1])
      <4>1. PICK k \in 1 .. Len(Ranked) : Ranked[k] = i
        BY <1>1, <3>2
      <4>2. Fits(<<Ranked[k]>>)
        BY <3>1, <3>2, <4>1
      <4>3. p # <<>>
        BY <2>2, <4>2 DEF Within
      <4>4. PICK h \in 1 .. k : p[1] = Ranked[h]
        BY <2>2, <4>2 DEF Within
      <4>5. Len(Ranked) \in Nat
        BY <1>1, <1>2
      <4>6. h \in 1 .. Len(Ranked) /\ h <= k
        BY <4>5
      <4>7. StrengthOf(Ranked[k]) <= StrengthOf(Ranked[h])
        BY <1>1, <4>6
      <4>8. PICK e \in 1 .. Len(Ranked) : p[1] = Ranked[e] /\ Fits(<<Ranked[e]>>)
        BY <2>2, <4>3 DEF Within
      <4>9. Ranked[e] \in usable
        BY <1>1, ElementOfSeq
      <4> QED
        BY <3>1, <4>1, <4>3, <4>4, <4>7, <4>8, <4>9
    <3> QED
      BY <3>3, <3>4
  <2>9. ASSUME Joined(p) = 0, NEW i \in usable PROVE candidates[i].length > MaxChars
    <3>1. p = <<>>
      <4> SUFFICES ASSUME p # <<>> PROVE FALSE
        OBVIOUS
      <4>1. PICK q \in Seq(usable), u \in usable : p = Append(q, u)
        BY <2>3, SequenceEmptyOrAppend
      <4>2. Joined(Append(q, u)) = Joined(q) + candidates[u].length + (IF q = <<>> THEN 0 ELSE 1) /\ Joined(q) \in Nat
        BY <4>1, JoinedFact
      <4>3. candidates[u].length \in Nat /\ candidates[u].length > 0
        BY <1>4, <4>1
      <4>4. Joined(p) > 0
        BY <4>1, <4>2, <4>3
      <4> QED
        BY <2>9, <4>4
    <3>2. ~Fits(Append(<<>>, i))
      <4>1. \A n \in DOMAIN p : p[n] # i
        BY <3>1
      <4> QED
        BY <2>7, <2>9, <3>1, <4>1
    <3>3. ~(Joined(<<i>>) <= MaxChars)
      BY <3>2 DEF Fits
    <3>4. Joined(<<i>>) = candidates[i].length
      BY <2>9, JoinedOne
    <3>5. ~(candidates[i].length <= MaxChars) /\ candidates[i].length \in Nat
      BY <1>4, <2>9, <3>3, <3>4
    <3> QED
      BY <3>5, MergeAssumption
  <2> HIDE DEF p
  <2>10. ~(c <= 1)
    BY <1>1, <1>2, <1>6
  <2> QED
    BY <1>3, <1>6, <2>3, <2>4, <2>6, <2>7, <2>8, <2>9, <2>10 DEF p, c
<1> QED
  BY <1>5, <1>6

-------------------------------------------------------------------------------
(* The merge *)

\* The joining of what was given depends on nothing else.
LEMMA SameMerge ==
  ASSUME candidates' = candidates
  PROVE  usable' = usable /\ Ranked' = Ranked /\ Parts' = Parts /\ Resolution' = Resolution
         /\ \A i : StrengthOf(i)' = StrengthOf(i)
<1>1. usable' = usable /\ \A i : StrengthOf(i)' = StrengthOf(i)
  BY DEF usable, Usable, StrengthOf
<1>2. Ranked' = Ranked
  BY DEF Ranked, Others, usable, Usable, Strongest, Stronger, StrengthOf
<1>3. \A s : Kept(s)' = Kept(s) /\ Joined(s)' = Joined(s)
  BY DEF Kept, Keep, Fits, Joined, Lengths
<1>4. Parts' = Parts
  BY DEF Parts, Kept, Keep, Fits, Joined, Lengths, Ranked, Others, usable, Usable, Strongest, Stronger, StrengthOf
<1>5. Resolution' = Resolution
  <2>1. LmLabel' = LmLabel
    BY DEF LmLabel
  <2>2. Joined(Parts)' = Joined(Parts)
    BY <1>4 DEF Joined, Lengths
  <2>3. StrengthOf(Ranked[1])' = StrengthOf(Ranked[1]) /\ StrengthOf(1)' = StrengthOf(1)
    BY <1>2 DEF StrengthOf
  <2> QED
    BY <1>2, <2>1, <2>2, <2>3 DEF Resolution
<1> QED
  BY <1>1, <1>2, <1>4, <1>5

MergeDone == usable # {} /\ merged = Parts /\ trust = StrengthOf(Ranked[1])

ResolveDone ==
  /\ Len(candidates) \in 1 .. 2 /\ candidates[1].source = "rag"
  /\ Len(candidates) = 2 => candidates[2].source = "memory"
  /\ resolved = Resolution

\* What was merged and what was resolved is of the candidates, which stay as they are.
MergeIInv ==
  /\ Typed
  /\ (trust = 0 /\ merged = <<>>) \/ MergeDone
  /\ resolved = Unresolved \/ ResolveDone

LEMMA MergeInitIInv == MergeInit \/ NoMerge => MergeIInv
<1> SUFFICES ASSUME MergeInit \/ NoMerge PROVE MergeIInv
  OBVIOUS
<1>1. CASE NoMerge
  <2>1. Typed
    <3>1. <<>> \in Seq(FromRag \union FromMemory)
      BY EmptySeq
    <3> QED
      BY <1>1, <3>1 DEF NoMerge, Typed
  <2> QED
    BY <1>1, <2>1 DEF NoMerge, MergeIInv
<1>2. CASE MergeInit
  <2> DEFINE S == FromRag \union FromMemory
  <2>1. PICK n \in 0 .. MaxCandidates : candidates \in [1 .. n -> S]
    BY <1>2 DEF MergeInit
  <2>2. n \in Nat
    BY MergeAssumption
  <2> HIDE DEF S
  <2>3. candidates \in Seq(S)
    BY <2>1, <2>2, SeqDef
  <2> QED
    BY <1>2, <2>3 DEF S, Typed, MergeInit, MergeIInv
<1> QED
  BY <1>1, <1>2

LEMMA MergeNextIInv == MergeIInv /\ [MergeNext]_mergeVars => MergeIInv'
<1> SUFFICES ASSUME MergeIInv, [MergeNext]_mergeVars PROVE MergeIInv'
  OBVIOUS
<1>1. candidates' = candidates
  BY DEF MergeNext, Merge, Resolve, mergeVars
<1>2. usable' = usable /\ Ranked' = Ranked /\ Parts' = Parts /\ Resolution' = Resolution
      /\ \A i : StrengthOf(i)' = StrengthOf(i)
  BY <1>1, SameMerge
<1>3. Typed' /\ Typed
  BY <1>1 DEF MergeIInv, Typed
<1>4. CASE Merge
  <2>1. merged' = Parts /\ trust' = StrengthOf(Ranked[1]) /\ resolved' = resolved /\ Ranked # <<>>
    BY <1>4 DEF Merge
  <2>2. usable # {}
    <3> SUFFICES ASSUME usable = {} PROVE FALSE
      OBVIOUS
    <3>1. Cardinality(usable) = 0
      BY FS_EmptySet
    <3>2. Ranked \in Seq(usable) /\ Len(Ranked) = 0
      BY <1>3, <3>1, RankedFact
    <3> QED
      BY <2>1, <3>2, EmptySeq
  <2>3. MergeDone'
    BY <1>2, <2>1, <2>2 DEF MergeDone
  <2>4. ResolveDone => ResolveDone'
    BY <1>1, <1>2, <2>1 DEF ResolveDone
  <2> QED
    BY <1>3, <2>1, <2>3, <2>4 DEF MergeIInv, Unresolved
<1>5. CASE Resolve
  <2>1. ResolveDone'
    BY <1>1, <1>2, <1>5 DEF Resolve, ResolveDone
  <2>2. UNCHANGED <<merged, trust>>
    BY <1>5 DEF Resolve
  <2>3. MergeDone => MergeDone'
    BY <1>2, <2>2 DEF MergeDone
  <2> QED
    BY <1>3, <2>1, <2>2, <2>3 DEF MergeIInv
<1>6. CASE UNCHANGED mergeVars
  <2>1. UNCHANGED <<merged, trust, resolved>>
    BY <1>6 DEF mergeVars
  <2>2. (MergeDone => MergeDone') /\ (ResolveDone => ResolveDone')
    BY <1>1, <1>2, <2>1 DEF MergeDone, ResolveDone
  <2> QED
    BY <1>3, <2>1, <2>2 DEF MergeIInv, Unresolved
<1> QED
  BY <1>4, <1>5, <1>6 DEF MergeNext

\* The parts of MergeIsSound.
LEMMA MergedFact ==
  ASSUME MergeIInv
  PROVE  RespectsBudget /\ DropsOnlyWhatDoesNotFit /\ StrongestLeads
<1>1. Typed
  BY DEF MergeIInv
<1>2. CASE trust = 0 /\ merged = <<>>
  <2>1. ~(Len(merged) > 1) /\ ~(trust > 0)
    BY <1>2
  <2> QED
    BY <2>1 DEF RespectsBudget, DropsOnlyWhatDoesNotFit, StrongestLeads
<1>3. CASE MergeDone
  <2>1. usable # {} /\ merged = Parts /\ trust = StrengthOf(Ranked[1])
    BY <1>3 DEF MergeDone
  <2>2. /\ Len(Parts) > 1 => Lengths(Parts) + Len(Parts) - 1 <= MaxChars
        /\ Cardinality(usable) > 1 =>
             \A i \in usable : (\A n \in DOMAIN Parts : Parts[n] # i) => ~Fits(Append(Parts, i))
        /\ Parts = <<>> <=> able = {}
        /\ able # {} => Parts[1] \in able /\ \A i \in able : StrengthOf(i) <= StrengthOf(Parts[1])
    BY <1>1, <2>1, PartsFact
  <2>3. RespectsBudget /\ DropsOnlyWhatDoesNotFit
    BY <2>1, <2>2 DEF RespectsBudget, DropsOnlyWhatDoesNotFit
  <2>4. StrongestLeads
    <3>1. Ranked[1] \in usable /\ \A j \in usable : StrengthOf(j) <= StrengthOf(Ranked[1])
      BY <1>1, <2>1, RankedFact
    <3> QED
      BY <2>1, <2>2, <3>1 DEF StrongestLeads
  <2> QED
    BY <2>3, <2>4
<1> QED
  BY <1>2, <1>3 DEF MergeIInv

LEMMA ResolvedFact == ASSUME MergeIInv PROVE FailuresAreApart
<1> SUFFICES ASSUME resolved # Unresolved PROVE FailuresAreApart
  BY DEF FailuresAreApart
<1>1. Typed /\ ResolveDone
  BY DEF MergeIInv
<1>2. Len(candidates) \in 1 .. 2 /\ candidates[1].source = "rag"
      /\ (Len(candidates) = 2 => candidates[2].source = "memory") /\ resolved = Resolution
  BY <1>1 DEF ResolveDone
<1>3. CASE usable = {}
  BY <1>3 DEF FailuresAreApart
<1>4. CASE usable # {}
  <2>1. Ranked # <<>>
    <3>1. Len(Ranked) >= 1
      BY <1>1, <1>4, RankedFact
    <3> QED
      BY <3>1
  <2>2. /\ resolved.length = Joined(Parts) /\ resolved.trust = StrengthOf(Ranked[1])
        /\ resolved.label = IF LmLabel # "" THEN LmLabel ELSE "memory"
    BY <1>2, <2>1 DEF Resolution
  <2>3. \A i \in usable : StrengthOf(i) <= StrengthOf(Ranked[1]) /\ StrengthOf(i) \in Nat
    BY <1>1, <1>4, RankedFact, UsableFact
  <2>4. Ranked[1] \in usable
    BY <1>1, <1>4, RankedFact
  <2>5. resolved.length = 0 => \A i \in usable : candidates[i].length > MaxChars
    BY <1>1, <1>4, <2>2, PartsFact
  <2>6. \A i \in usable : resolved.trust >= StrengthOf(i)
    BY <2>2, <2>3, <2>4
  <2>7. ASSUME NEW i \in usable, usable = {i}
        PROVE  /\ resolved.length = candidates[i].length /\ resolved.trust = StrengthOf(i)
               /\ (i = 1 \/ candidates[1].score # Certain) => resolved.label = candidates[i].source
    <3>1. Parts = <<i>> /\ Ranked[1] = i
      BY <1>1, <2>4, <2>7, PartsFact
    <3>2. resolved.length = candidates[i].length /\ resolved.trust = StrengthOf(i)
      BY <1>1, <2>2, <3>1, JoinedOne
    <3>3. ASSUME i = 1 PROVE resolved.label = candidates[i].source
      <4>1. candidates[1].length > 0
        BY <3>3 DEF usable, Usable
      <4>2. LmLabel = "rag"
        BY <4>1 DEF LmLabel
      <4> QED
        BY <1>2, <2>2, <3>3, <4>2
    <3>4. ASSUME i # 1, candidates[1].score # Certain PROVE resolved.label = candidates[i].source
      <4>1. DOMAIN candidates = 1 .. Len(candidates)
        BY <1>1, StrengthFact
      <4>2. i = 2 /\ Len(candidates) = 2 /\ 1 \in DOMAIN candidates
        <5>1. i \in DOMAIN candidates
          BY DEF usable
        <5> QED
          BY <1>2, <3>4, <4>1, <5>1
      <4>3. ~Usable(1)
        BY <2>7, <3>4, <4>2 DEF usable
      <4>4. candidates[1].length \in Nat /\ StrengthOf(1) \in 0 .. One * One * One
            /\ (candidates[1].length > 0 => StrengthOf(1) > 0)
        BY <1>1, <1>2, <4>2, StrengthFact
      <4>5. ~(candidates[1].length > 0)
        BY <4>3, <4>4 DEF Usable
      <4>6. LmLabel = ""
        BY <3>4, <4>5 DEF LmLabel
      <4> QED
        BY <1>2, <2>2, <4>2, <4>6
    <3> QED
      BY <3>2, <3>3, <3>4
  <2> QED
    BY <2>5, <2>6, <2>7 DEF FailuresAreApart
<1> QED
  BY <1>3, <1>4

-------------------------------------------------------------------------------
(* What a text tells *)

Keys == {"name", "preference"}
Row  == [user : Nat, key : Keys, value : Values \union {NOVALUE}]
Fact == [key : Keys, value : Values \union {NOVALUE}]
Said == [user : Nat, text : Texts]

LEMMA PatternFact ==
  /\ Len(Patterns) = 3 /\ Kinds = {"name", "love", "like"}
  /\ \A n \in 1 .. 3 : Patterns[n] \in Kinds
  /\ \A p \in Kinds : (\E n \in 1 .. 3 : Patterns[n] = p) /\ KeyOf(p) \in Keys
<1>1. Len(Patterns) = 3 /\ DOMAIN Patterns = 1 .. 3
  BY DEF Patterns
<1>2. Patterns[1] = "name" /\ Patterns[2] = "love" /\ Patterns[3] = "like"
  BY DEF Patterns
<1>3. Kinds = {"name", "love", "like"}
  <2>1. Kinds = {Patterns[n] : n \in 1 .. 3}
    BY <1>1 DEF Kinds
  <2>2. 1 .. 3 = {1, 2, 3}
    OBVIOUS
  <2> QED
    BY <1>2, <2>1, <2>2
<1>4. \A n \in 1 .. 3 : n = 1 \/ n = 2 \/ n = 3
  OBVIOUS
<1> QED
  BY <1>1, <1>2, <1>3, <1>4 DEF KeyOf, Keys

LEMMA TextFact ==
  ASSUME NEW text \in Texts
  PROVE  /\ DOMAIN text \subseteq 1 .. 2
         /\ \A i \in DOMAIN text : text[i].value \in Values \union {NOVALUE}
<1>1. \A p \in Phrases : p.value \in Values \union {NOVALUE}
  BY DEF Phrases
<1>2. CASE \E p \in Phrases : text = <<p>>
  <2>1. PICK p \in Phrases : text = <<p>>
    BY <1>2
  <2>2. DOMAIN text = {1} /\ text[1] = p
    BY <2>1
  <2> QED
    BY <1>1, <2>2
<1>3. CASE \E p, q \in Phrases : text = <<p, q>>
  <2>1. PICK p \in Phrases, q \in Phrases : text = <<p, q>>
    BY <1>3
  <2>2. DOMAIN text = {1, 2} /\ text[1] = p /\ text[2] = q
    BY <2>1
  <2> QED
    BY <1>1, <2>2
<1> QED
  BY <1>2, <1>3 DEF Texts

IsExtract(g, text, n) == g = [i \in 0 .. n |-> IF i = 0 THEN <<>> ELSE ExtractFact(g[i - 1], text, Patterns[i])]

\* After some patterns: a fact for what they match, and no other.
Extracted(facts, text, n) ==
  /\ facts \in Seq(Fact)
  /\ \A i \in 1 .. Len(facts) :
       \E p \in Kinds : \E j \in Matches(text, p) : facts[i] = [key |-> KeyOf(p), value |-> text[j].value]
  /\ \A k \in 1 .. n :
       Matches(text, Patterns[k]) # {} => \E i \in 1 .. Len(facts) : facts[i].key = KeyOf(Patterns[k])

LEMMA ExtractStep ==
  ASSUME NEW text \in Texts, NEW n \in 0 .. 2, NEW facts, Extracted(facts, text, n)
  PROVE  Extracted(ExtractFact(facts, text, Patterns[n + 1]), text, n + 1)
<1> DEFINE p == Patterns[n + 1]
           new == ExtractFact(facts, text, p)
<1>1. p \in Kinds /\ KeyOf(p) \in Keys
  BY PatternFact
<1>2. facts \in Seq(Fact) /\ Len(facts) \in Nat
  BY LenProperties DEF Extracted
<1>3. \A k \in 1 .. n + 1 : k \in 1 .. n \/ k = n + 1
  OBVIOUS
<1>4. CASE Matches(text, p) = {}
  <2>1. new = facts
    BY <1>4 DEF ExtractFact
  <2> QED
    BY <1>3, <1>4, <2>1 DEF Extracted
<1>5. CASE Matches(text, p) # {}
  <2> DEFINE found == CHOOSE i \in Matches(text, p) : TRUE
             fact == [key |-> KeyOf(p), value |-> text[found].value]
  <2>1. found \in Matches(text, p)
    BY <1>5
  <2>2. new = Append(facts, fact)
    BY <1>5 DEF ExtractFact
  <2>3. fact \in Fact
    <3>1. text[found].value \in Values \union {NOVALUE}
      BY <2>1, TextFact DEF Matches
    <3> HIDE DEF found
    <3> QED
      BY <1>1, <3>1 DEF Fact
  <2> DEFINE key == KeyOf(p)
  <2>4. fact.key = key
    OBVIOUS
  <2>5. \E q \in Kinds : \E j \in Matches(text, q) : fact = [key |-> KeyOf(q), value |-> text[j].value]
    BY <1>1, <2>1
  <2> HIDE DEF fact, found, new
  <2>6. /\ new \in Seq(Fact) /\ Len(new) = Len(facts) + 1
        /\ (\A i \in 1 .. Len(facts) : new[i] = facts[i]) /\ new[Len(facts) + 1] = fact
    BY <1>2, <2>2, <2>3, AppendProperties
  <2>7. ASSUME NEW i \in 1 .. Len(new)
        PROVE  \E q \in Kinds : \E j \in Matches(text, q) : new[i] = [key |-> KeyOf(q), value |-> text[j].value]
    <3>1. i \in 1 .. Len(facts) \/ i = Len(facts) + 1
      BY <1>2, <2>6
    <3> QED
      BY <2>5, <2>6, <3>1 DEF Extracted
  <2>8. ASSUME NEW k \in 1 .. n + 1, Matches(text, Patterns[k]) # {}
        PROVE  \E i \in 1 .. Len(new) : new[i].key = KeyOf(Patterns[k])
    <3>1. CASE k = n + 1
      <4>1. Len(new) \in 1 .. Len(new) /\ new[Len(new)] = fact
        BY <1>2, <2>6
      <4> QED
        BY <2>4, <3>1, <4>1
    <3>2. CASE k \in 1 .. n
      <4>1. PICK i \in 1 .. Len(facts) : facts[i].key = KeyOf(Patterns[k])
        BY <2>8, <3>2 DEF Extracted
      <4>2. i \in 1 .. Len(new) /\ new[i] = facts[i]
        BY <1>2, <2>6
      <4> QED
        BY <4>1, <4>2
    <3> QED
      BY <1>3, <3>1, <3>2
  <2> QED
    BY <2>6, <2>7, <2>8 DEF Extracted, new
<1> QED
  BY <1>4, <1>5

LEMMA ExtractedFact == ASSUME NEW text \in Texts PROVE Extracted(ExtractFacts(text), text, 3)
<1> DEFINE a == ExtractFact(<<>>, text, Patterns[1])
           b == ExtractFact(a, text, Patterns[2])
           c == ExtractFact(b, text, Patterns[3])
           g == [i \in 0 .. 3 |-> IF i = 0 THEN <<>> ELSE IF i = 1 THEN a ELSE IF i = 2 THEN b ELSE c]
<1>1. Extracted(<<>>, text, 0)
  BY EmptySeq DEF Extracted
<1>2. Extracted(a, text, 1)
  BY <1>1, ExtractStep
<1>3. Extracted(b, text, 2)
  <2> HIDE DEF a
  <2>1. Extracted(ExtractFact(a, text, Patterns[1 + 1]), text, 1 + 1)
    BY <1>2, ExtractStep
  <2> QED
    BY <2>1
<1>4. Extracted(c, text, 3)
  <2> HIDE DEF b
  <2>1. Extracted(ExtractFact(b, text, Patterns[2 + 1]), text, 2 + 1)
    BY <1>3, ExtractStep
  <2> QED
    BY <2>1
<1>5. g[0] = <<>> /\ g[1] = a /\ g[2] = b /\ g[3] = c
  OBVIOUS
<1>6. \A i \in 1 .. 3 : g[i] = ExtractFact(g[i - 1], text, Patterns[i])
  <2> SUFFICES ASSUME NEW i \in 1 .. 3 PROVE g[i] = ExtractFact(g[i - 1], text, Patterns[i])
    OBVIOUS
  <2>1. (i = 1 /\ i - 1 = 0) \/ (i = 2 /\ i - 1 = 1) \/ (i = 3 /\ i - 1 = 2)
    OBVIOUS
  <2> HIDE DEF g
  <2> QED
    BY <1>5, <2>1
<1> HIDE DEF a, b, c
<1>7. IsExtract(g, text, 3)
  BY <1>5, <1>6 DEF IsExtract
<1> DEFINE h == CHOOSE k : IsExtract(k, text, 3)
<1>8. IsExtract(h, text, 3)
  BY <1>7
<1>9. ExtractFacts(text) = h[3]
  BY PatternFact DEF ExtractFacts, IsExtract
<1> HIDE DEF h, g
<1>10. h[0] = <<>> /\ \A i \in 1 .. 3 : h[i] = ExtractFact(h[i - 1], text, Patterns[i])
  BY <1>8 DEF IsExtract
<1>11. h[1] = ExtractFact(h[1 - 1], text, Patterns[1]) /\ h[2] = ExtractFact(h[2 - 1], text, Patterns[2])
       /\ h[3] = ExtractFact(h[3 - 1], text, Patterns[3])
  BY <1>10
<1>12. 1 - 1 = 0 /\ 2 - 1 = 1 /\ 3 - 1 = 2
  OBVIOUS
<1>13. h[1] = a
  BY <1>10, <1>11, <1>12 DEF a
<1>14. h[2] = b
  BY <1>11, <1>12, <1>13 DEF b
<1>15. h[3] = c
  BY <1>11, <1>12, <1>14 DEF c
<1> QED
  BY <1>4, <1>9, <1>15

-------------------------------------------------------------------------------
(* What the store keeps of it *)

IsTable(g, user, facts, n) ==
  g = [i \in 0 .. n |-> IF i = 0 THEN semantic ELSE UpsertFact(g[i - 1], user, facts[i])]

\* After n facts of user: one row for each, and the others as they were.
Upserted(table, user, facts, n) ==
  /\ table \in SUBSET Row
  /\ \A row \in table :
       \/ row \in semantic /\ ~(row.user = user /\ \E i \in 1 .. n : facts[i].key = row.key)
       \/ row.user = user /\ \E i \in 1 .. n : facts[i] = [key |-> row.key, value |-> row.value]
  /\ \A row \in semantic :
       row \in table \/ (row.user = user /\ \E i \in 1 .. n : facts[i].key = row.key)
  /\ \A i \in 1 .. n : \E row \in table : row.user = user /\ row.key = facts[i].key
  /\ \A r, s \in table : r.user = s.user /\ r.key = s.key => r = s

LEMMA UpsertStep ==
  ASSUME NEW user \in Nat, NEW facts \in Seq(Fact), NEW n \in Nat, n + 1 <= Len(facts),
         NEW table, Upserted(table, user, facts, n)
  PROVE  Upserted(UpsertFact(table, user, facts[n + 1]), user, facts, n + 1)
<1> DEFINE fact == facts[n + 1]
           new  == [user |-> user, key |-> fact.key, value |-> fact.value]
           next == UpsertFact(table, user, fact)
<1>1. fact \in Fact
  <2>1. Len(facts) \in Nat
    BY LenProperties
  <2>2. n + 1 \in 1 .. Len(facts)
    BY <2>1
  <2> QED
    BY <2>2, ElementOfSeq
<1>2. new \in Row /\ new.user = user /\ new.key = fact.key /\ fact = [key |-> new.key, value |-> new.value]
  BY <1>1 DEF Fact, Row
<1>3. next = {row \in table : ~(row.user = user /\ row.key = fact.key)} \union {new}
  BY DEF UpsertFact
<1>4. table \in SUBSET Row
  BY DEF Upserted
<1>5. \A i \in 1 .. n + 1 : i \in 1 .. n \/ i = n + 1
  OBVIOUS
<1>6. n + 1 \in 1 .. n + 1 /\ \A i \in 1 .. n : i \in 1 .. n + 1
  OBVIOUS
<1> HIDE DEF new, next
<1>7. next \in SUBSET Row
  BY <1>2, <1>3, <1>4
<1>8. ASSUME NEW row \in next
      PROVE  \/ row \in semantic /\ ~(row.user = user /\ \E i \in 1 .. n + 1 : facts[i].key = row.key)
             \/ row.user = user /\ \E i \in 1 .. n + 1 : facts[i] = [key |-> row.key, value |-> row.value]
  <2>1. CASE row = new
    BY <1>2, <1>6, <2>1
  <2>2. CASE row \in table /\ ~(row.user = user /\ row.key = fact.key)
    <3>1. CASE row \in semantic /\ ~(row.user = user /\ \E i \in 1 .. n : facts[i].key = row.key)
      BY <1>5, <2>2, <3>1
    <3>2. CASE row.user = user /\ \E i \in 1 .. n : facts[i] = [key |-> row.key, value |-> row.value]
      BY <1>6, <3>2
    <3> QED
      BY <2>2, <3>1, <3>2 DEF Upserted
  <2> QED
    BY <1>3, <2>1, <2>2
<1>9. ASSUME NEW row \in semantic
      PROVE  row \in next \/ (row.user = user /\ \E i \in 1 .. n + 1 : facts[i].key = row.key)
  <2>1. CASE row \in table
    BY <1>3, <1>6, <2>1
  <2>2. CASE row \notin table
    BY <1>6, <2>2 DEF Upserted
  <2> QED
    BY <2>1, <2>2
<1>10. ASSUME NEW i \in 1 .. n + 1 PROVE \E row \in next : row.user = user /\ row.key = facts[i].key
  <2>1. CASE facts[i].key = fact.key
    BY <1>2, <1>3, <2>1
  <2>2. CASE facts[i].key # fact.key
    <3>1. i \in 1 .. n
      BY <1>5, <2>2
    <3>2. PICK row \in table : row.user = user /\ row.key = facts[i].key
      BY <3>1 DEF Upserted
    <3> QED
      BY <1>3, <2>2, <3>2
  <2> QED
    BY <2>1, <2>2
<1>11. ASSUME NEW r \in next, NEW s \in next, r.user = s.user, r.key = s.key PROVE r = s
  BY <1>2, <1>3, <1>11 DEF Upserted
<1> QED
  BY <1>7, <1>8, <1>9, <1>10, <1>11 DEF Upserted, next

TableOK ==
  semantic \in SUBSET Row /\ \A r, s \in semantic : r.user = s.user /\ r.key = s.key => r = s

LEMMA UpsertedFact ==
  ASSUME NEW user \in Nat, NEW facts \in Seq(Fact), TableOK
  PROVE  Upserted(UpsertFacts(user, facts), user, facts, Len(facts))
<1> DEFINE n == Len(facts)
           S == SUBSET Row
           step == [x \in (1 .. n) \X S |-> UpsertFact(x[2], user, facts[x[1]])]
<1>1. n \in Nat /\ \A i \in 1 .. n : facts[i] \in Fact
  BY LenProperties, ElementOfSeq
<1>2. semantic \in S
  BY DEF TableOK
<1>3. ASSUME NEW t \in S, NEW fact \in Fact PROVE UpsertFact(t, user, fact) \in S
  BY DEF UpsertFact, Row, Fact
<1> HIDE DEF n, S
<1>4. step \in [(1 .. n) \X S -> S]
  BY <1>1, <1>3
<1>5. PICK g \in [0 .. n -> S] : Iterates(g, n, semantic, step)
  BY <1>1, <1>2, <1>4, IterationExists
<1>6. \A i \in 1 .. n : g[i] = UpsertFact(g[i - 1], user, facts[i])
  <2> SUFFICES ASSUME NEW i \in 1 .. n PROVE g[i] = UpsertFact(g[i - 1], user, facts[i])
    OBVIOUS
  <2>1. g[i - 1] \in S
    BY <1>1
  <2>2. step[<<i, g[i - 1]>>] = UpsertFact(g[i - 1], user, facts[i])
    BY <2>1
  <2> QED
    BY <1>5, <2>2 DEF Iterates
<1>7. g[0] = semantic
  BY <1>5 DEF Iterates
<1>8. IsTable(g, user, facts, n)
  BY <1>1, <1>6, <1>7 DEF IsTable
<1> DEFINE k == CHOOSE t : IsTable(t, user, facts, n)
<1>9. IsTable(k, user, facts, n)
  BY <1>8
<1>10. UpsertFacts(user, facts) = k[n]
  BY DEF UpsertFacts, IsTable, n
<1> HIDE DEF k, step
<1>11. k[0] = semantic /\ \A i \in 1 .. n : k[i] = UpsertFact(k[i - 1], user, facts[i])
  BY <1>1, <1>9 DEF IsTable
<1> DEFINE P == {i \in Nat : i <= n => Upserted(k[i], user, facts, i)}
<1>12. 0 \in P
  <2>1. Upserted(semantic, user, facts, 0)
    BY DEF Upserted, TableOK
  <2> QED
    BY <1>11, <2>1
<1>13. ASSUME NEW i \in Nat, i \in P PROVE i + 1 \in P
  <2> SUFFICES ASSUME i + 1 <= n PROVE Upserted(k[i + 1], user, facts, i + 1)
    OBVIOUS
  <2>1. Upserted(k[i], user, facts, i)
    BY <1>1, <1>13
  <2>2. Upserted(UpsertFact(k[i], user, facts[i + 1]), user, facts, i + 1)
    BY <2>1, UpsertStep DEF n
  <2>3. i + 1 \in 1 .. n /\ (i + 1) - 1 = i
    BY <1>1
  <2>4. k[i + 1] = UpsertFact(k[i], user, facts[i + 1])
    BY <1>11, <2>3
  <2> QED
    BY <2>2, <2>4
<1>14. P = Nat
  <2> HIDE DEF P
  <2> QED
    BY <1>12, <1>13, Induct DEF P
<1> QED
  BY <1>1, <1>10, <1>14 DEF n

\* What is told of a user and a key is of the last text that mentions it.
LatestOf(user, key, value) ==
  \E m \in Mentions(user, key) :
    /\ said[m[1]].text[m[2]].value = value
    /\ \A later \in Mentions(user, key) : later[1] <= m[1]

KnowsLatest == \A row \in semantic : LatestOf(row.user, row.key, row.value)

KnowsAll ==
  \A user \in Nat, key \in Keys :
    Mentions(user, key) # {} => \E row \in semantic : row.user = user /\ row.key = key

Episodes ==
  /\ episodic \in Seq(Said)
  /\ \A i \in 1 .. Len(episodic) :
       (\E j \in 1 .. Len(said) : said[j] = episodic[i]) /\ Salience(episodic[i].text) >= SalienceThreshold

\* The store knows of each thing what was last told, and keeps what it was given; and so
\* are the answers since.
MemoryIInv ==
  /\ conversations \in Nat /\ open \subseteq Nat /\ said \in Seq(Said)
  /\ TableOK /\ KnowsLatest /\ KnowsAll /\ Episodes
  /\ RecallIsOwnAndLatest

LEMMA SameMentions ==
  ASSUME said' = said
  PROVE  \A user, key, value : /\ Mentions(user, key)' = Mentions(user, key)
                               /\ LatestOf(user, key, value)' <=> LatestOf(user, key, value)
<1>1. \A user, key : Mentions(user, key)' = Mentions(user, key)
  BY DEF Mentions
<1> QED
  BY <1>1 DEF LatestOf

\* The mentions after one more text.
LEMMA MoreMentions ==
  ASSUME said \in Seq(Said), NEW user \in Nat, NEW text \in Texts,
         said' = Append(said, [user |-> user, text |-> text])
  PROVE  LET n == Len(said) + 1 IN
         /\ said' \in Seq(Said) /\ Len(said') = n /\ n \in Nat
         /\ \A i \in 1 .. Len(said) : said'[i] = said[i]
         /\ said'[n] = [user |-> user, text |-> text]
         /\ \A u, key : \A m \in Mentions(u, key) :
              m \in Mentions(u, key)' /\ m[1] < n /\ m[1] \in 1 .. Len(said)
         /\ \A u, key : \A m \in Mentions(u, key)' :
              /\ m[1] \in 1 .. n
              /\ m \notin Mentions(u, key) =>
                   /\ m[1] = n /\ u = user
                   /\ \E p \in Kinds : KeyOf(p) = key /\ m[2] \in Matches(text, p)
         /\ \A p \in Kinds : \A j \in Matches(text, p) : <<n, j>> \in Mentions(user, KeyOf(p))'
<1> DEFINE n == Len(said) + 1
           new == [user |-> user, text |-> text]
<1>1. new \in Said /\ new.user = user /\ new.text = text
  BY DEF Said
<1> HIDE DEF new
<1>2. /\ said' \in Seq(Said) /\ Len(said') = n /\ n \in Nat /\ Len(said) \in Nat
      /\ (\A i \in 1 .. Len(said) : said'[i] = said[i]) /\ said'[n] = new
      /\ DOMAIN said = 1 .. Len(said) /\ DOMAIN said' = 1 .. n
  <2>1. said' = Append(said, new)
    BY DEF new
  <2>2. /\ said' \in Seq(Said) /\ Len(said') = n /\ (\A i \in 1 .. Len(said) : said'[i] = said[i])
        /\ said'[n] = new
    BY <1>1, <2>1, AppendProperties
  <2> QED
    BY <2>2, LenProperties
<1>3. ASSUME NEW u, NEW key, NEW m \in Mentions(u, key)
      PROVE  m \in Mentions(u, key)' /\ m[1] < n /\ m[1] \in 1 .. Len(said)
  <2>1. m[1] \in 1 .. Len(said) /\ m \in (1 .. Len(said)) \X (1 .. 2)
    BY <1>2 DEF Mentions
  <2>2. m \in (DOMAIN said') \X (1 .. 2) /\ said'[m[1]] = said[m[1]] /\ m[1] < n
    BY <1>2, <2>1
  <2> QED
    BY <2>1, <2>2 DEF Mentions
<1>4. ASSUME NEW u, NEW key, NEW m \in Mentions(u, key)'
      PROVE  /\ m[1] \in 1 .. n
             /\ m \notin Mentions(u, key) =>
                  m[1] = n /\ u = user /\ \E p \in Kinds : KeyOf(p) = key /\ m[2] \in Matches(text, p)
  <2>1. /\ m \in (1 .. n) \X (1 .. 2) /\ said'[m[1]].user = u
        /\ \E p \in Kinds : KeyOf(p) = key /\ m[2] \in Matches(said'[m[1]].text, p)
    BY <1>2 DEF Mentions
  <2>2. CASE m[1] = n
    BY <1>1, <1>2, <2>1, <2>2
  <2>3. CASE m[1] # n
    <3>1. m[1] \in 1 .. Len(said) /\ m \in (DOMAIN said) \X (1 .. 2)
      BY <1>2, <2>1, <2>3
    <3>2. said'[m[1]] = said[m[1]]
      BY <1>2, <3>1
    <3>3. m \in Mentions(u, key)
      BY <2>1, <3>1, <3>2 DEF Mentions
    <3> QED
      BY <2>1, <3>3
  <2> QED
    BY <2>2, <2>3
<1>5. ASSUME NEW p \in Kinds, NEW j \in Matches(text, p) PROVE <<n, j>> \in Mentions(user, KeyOf(p))'
  <2>1. j \in 1 .. 2
    BY TextFact DEF Matches
  <2>2. <<n, j>> \in (DOMAIN said') \X (1 .. 2) /\ <<n, j>>[1] = n /\ <<n, j>>[2] = j
    BY <1>2, <2>1
  <2> HIDE DEF n
  <2> QED
    BY <1>1, <1>2, <2>2 DEF Mentions
<1> QED
  BY <1>2, <1>3, <1>4, <1>5 DEF new

\* What a text tells of a user replaces what the store knew.
LEMMA CommitTable ==
  ASSUME MemoryIInv, NEW user \in Nat, NEW text \in Texts, Commit(user, text)
  PROVE  TableOK' /\ KnowsLatest' /\ KnowsAll'
<1> DEFINE n == Len(said) + 1
           facts == ExtractFacts(text)
<1>1. said \in Seq(Said) /\ said' = Append(said, [user |-> user, text |-> text])
  BY DEF MemoryIInv, Commit
<1>2. Extracted(facts, text, 3)
  BY ExtractedFact
<1>3. facts \in Seq(Fact) /\ TableOK
  BY <1>2 DEF Extracted, MemoryIInv
<1> DEFINE f == Len(facts)
<1>4. Upserted(semantic', user, facts, f)
  <2>1. semantic' = UpsertFacts(user, facts)
    BY DEF Commit
  <2> QED
    BY <1>3, <2>1, UpsertedFact
<1> HIDE DEF facts
<1>5. TableOK'
  BY <1>4 DEF Upserted, TableOK
<1>6. /\ n \in Nat /\ Len(said) \in Nat
      /\ \A i \in 1 .. Len(said) : said'[i] = said[i]
      /\ said'[n] = [user |-> user, text |-> text]
  BY <1>1, MoreMentions, LenProperties
<1>7. \A u, key : \A m \in Mentions(u, key) : m \in Mentions(u, key)' /\ m[1] < n /\ m[1] \in 1 .. Len(said)
  BY <1>1, MoreMentions
<1>8. \A u, key : \A m \in Mentions(u, key)' :
        /\ m[1] \in 1 .. n
        /\ m \notin Mentions(u, key) =>
             m[1] = n /\ u = user /\ \E p \in Kinds : KeyOf(p) = key /\ m[2] \in Matches(text, p)
  BY <1>1, MoreMentions
<1>9. \A p \in Kinds : \A j \in Matches(text, p) : <<n, j>> \in Mentions(user, KeyOf(p))'
  BY <1>1, MoreMentions
<1> HIDE DEF n
<1>10. \A p \in Kinds : Matches(text, p) # {} => \E i \in 1 .. f : facts[i].key = KeyOf(p)
  BY <1>2, PatternFact DEF Extracted
\* A key without a fact has no new mention.
<1>11. ASSUME NEW u, NEW key, ~(u = user /\ \E i \in 1 .. f : facts[i].key = key)
       PROVE  \A m \in Mentions(u, key)' : m \in Mentions(u, key)
  BY <1>8, <1>10, <1>11
<1>12. KnowsLatest'
  <2> SUFFICES ASSUME NEW row \in semantic' PROVE LatestOf(row.user, row.key, row.value)'
    BY DEF KnowsLatest
  <2>1. CASE row \in semantic /\ ~(row.user = user /\ \E i \in 1 .. f : facts[i].key = row.key)
    <3>1. PICK m \in Mentions(row.user, row.key) :
                 /\ said[m[1]].text[m[2]].value = row.value
                 /\ \A later \in Mentions(row.user, row.key) : later[1] <= m[1]
      BY <2>1 DEF MemoryIInv, KnowsLatest, LatestOf
    <3>2. m \in Mentions(row.user, row.key)' /\ said'[m[1]] = said[m[1]]
      BY <1>6, <1>7, <3>1
    <3>3. \A later \in Mentions(row.user, row.key)' : later[1] <= m[1]
      BY <1>11, <2>1, <3>1
    <3> QED
      BY <3>1, <3>2, <3>3 DEF LatestOf
  <2>2. CASE row.user = user /\ \E i \in 1 .. f : facts[i] = [key |-> row.key, value |-> row.value]
    <3>1. PICK i \in 1 .. f : facts[i] = [key |-> row.key, value |-> row.value]
      BY <2>2
    <3>2. PICK p \in Kinds : \E j \in Matches(text, p) : facts[i] = [key |-> KeyOf(p), value |-> text[j].value]
      BY <1>2 DEF Extracted
    <3>3. PICK j \in Matches(text, p) : facts[i] = [key |-> KeyOf(p), value |-> text[j].value]
      BY <3>2
    <3>4. row.key = KeyOf(p) /\ row.value = text[j].value
      BY <3>1, <3>3
    <3>5. <<n, j>> \in Mentions(row.user, row.key)'
      BY <1>9, <2>2, <3>3, <3>4
    <3>6. said'[<<n, j>>[1]].text[<<n, j>>[2]].value = row.value
      BY <1>6, <3>4
    <3>7. \A later \in Mentions(row.user, row.key)' : later[1] <= <<n, j>>[1]
      BY <1>6, <1>8
    <3> QED
      BY <3>5, <3>6, <3>7 DEF LatestOf
  <2> QED
    BY <1>4, <2>1, <2>2 DEF Upserted
<1>13. KnowsAll'
  <2> SUFFICES ASSUME NEW u \in Nat, NEW key \in Keys, NEW m \in Mentions(u, key)'
               PROVE  \E row \in semantic' : row.user = u /\ row.key = key
    BY DEF KnowsAll
  <2>1. CASE u = user /\ \E i \in 1 .. f : facts[i].key = key
    BY <1>4, <2>1 DEF Upserted
  <2>2. CASE ~(u = user /\ \E i \in 1 .. f : facts[i].key = key)
    <3>1. m \in Mentions(u, key)
      BY <1>11, <2>2
    <3>2. PICK row \in semantic : row.user = u /\ row.key = key
      BY <3>1 DEF MemoryIInv, KnowsAll
    <3>3. row \in semantic'
      BY <1>4, <2>2, <3>2 DEF Upserted
    <3> QED
      BY <3>2, <3>3
  <2> QED
    BY <2>1, <2>2
<1> QED
  BY <1>5, <1>12, <1>13

-------------------------------------------------------------------------------
(* What is recalled *)

IsFound(g, user, keyword, n) ==
  g = [i \in 0 .. n |-> IF i = 0 THEN <<>> ELSE SearchRow(g[i - 1], episodic[n + 1 - i], user, keyword)]

\* What a search finds: texts of the user that were kept, and no more than it may.
Found(found, user) ==
  /\ found \in Seq(Texts) /\ Len(found) <= EpisodeLimit
  /\ \A i \in 1 .. Len(found) : \E j \in 1 .. Len(episodic) : episodic[j] = [user |-> user, text |-> found[i]]

LEMMA FoundStep ==
  ASSUME episodic \in Seq(Said), NEW j \in 1 .. Len(episodic), NEW user, NEW keyword,
         NEW found, Found(found, user)
  PROVE  Found(SearchRow(found, episodic[j], user, keyword), user)
<1> DEFINE row == episodic[j]
           new == SearchRow(found, row, user, keyword)
<1>1. row \in Said
  BY ElementOfSeq
<1>2. row.text \in Texts /\ row = [user |-> row.user, text |-> row.text]
  BY <1>1 DEF Said
<1>3. found \in Seq(Texts) /\ Len(found) \in Nat /\ EpisodeLimit \in Nat
  BY LenProperties, MemoryAssumption DEF Found
<1>4. CASE new = found
  BY <1>4
<1>5. CASE new = Append(found, row.text) /\ Len(found) < EpisodeLimit /\ row.user = user
  <2>1. /\ new \in Seq(Texts) /\ Len(new) = Len(found) + 1
        /\ (\A i \in 1 .. Len(found) : new[i] = found[i]) /\ new[Len(found) + 1] = row.text
    BY <1>2, <1>3, <1>5, AppendProperties
  <2>2. episodic[j] = [user |-> user, text |-> row.text]
    BY <1>2, <1>5
  <2> HIDE DEF new, row
  <2>3. ASSUME NEW i \in 1 .. Len(new)
        PROVE  \E k \in 1 .. Len(episodic) : episodic[k] = [user |-> user, text |-> new[i]]
    <3>1. i \in 1 .. Len(found) \/ i = Len(found) + 1
      BY <1>3, <2>1
    <3> QED
      BY <2>1, <2>2, <3>1 DEF Found
  <2>4. Len(new) <= EpisodeLimit
    BY <1>3, <1>5, <2>1
  <2> QED
    BY <2>1, <2>3, <2>4 DEF Found, new, row
<1>6. new = found \/ (new = Append(found, row.text) /\ Len(found) < EpisodeLimit /\ row.user = user)
  BY DEF SearchRow
<1> QED
  BY <1>4, <1>5, <1>6

LEMMA FoundFact ==
  ASSUME episodic \in Seq(Said), NEW user, NEW keyword
  PROVE  Found(SearchEpisodes(user, keyword), user)
<1> DEFINE n == Len(episodic)
           S == Seq(Texts)
           step == [x \in (1 .. n) \X S |-> SearchRow(x[2], episodic[n + 1 - x[1]], user, keyword)]
<1>1. n \in Nat
  BY LenProperties
<1>2. <<>> \in S /\ Found(<<>>, user)
  BY EmptySeq, MemoryAssumption DEF Found
<1>3. ASSUME NEW s \in S, NEW i \in 1 .. n PROVE SearchRow(s, episodic[n + 1 - i], user, keyword) \in S
  <2> DEFINE row == episodic[n + 1 - i]
  <2>1. n + 1 - i \in 1 .. n
    BY <1>1
  <2>2. row \in Said
    BY <2>1, ElementOfSeq
  <2>3. row.text \in Texts
    BY <2>2 DEF Said
  <2>4. Append(s, row.text) \in S
    BY <2>3, AppendProperties
  <2> QED
    BY <2>4 DEF SearchRow
<1> HIDE DEF n, S
<1>4. step \in [(1 .. n) \X S -> S]
  BY <1>3
<1>5. PICK g \in [0 .. n -> S] : Iterates(g, n, <<>>, step)
  BY <1>1, <1>2, <1>4, IterationExists
<1>6. \A i \in 1 .. n : g[i] = SearchRow(g[i - 1], episodic[n + 1 - i], user, keyword)
  <2> SUFFICES ASSUME NEW i \in 1 .. n PROVE g[i] = SearchRow(g[i - 1], episodic[n + 1 - i], user, keyword)
    OBVIOUS
  <2>1. g[i - 1] \in S
    BY <1>1
  <2>2. step[<<i, g[i - 1]>>] = SearchRow(g[i - 1], episodic[n + 1 - i], user, keyword)
    BY <2>1
  <2> QED
    BY <1>5, <2>2 DEF Iterates
<1>7. g[0] = <<>>
  BY <1>5 DEF Iterates
<1>8. IsFound(g, user, keyword, n)
  BY <1>1, <1>6, <1>7 DEF IsFound
<1> DEFINE k == CHOOSE t : IsFound(t, user, keyword, n)
<1>9. IsFound(k, user, keyword, n)
  BY <1>8
<1>10. SearchEpisodes(user, keyword) = IF keyword = <<>> THEN <<>> ELSE k[n]
  BY DEF SearchEpisodes, IsFound, n
<1> HIDE DEF k, step
<1>11. k[0] = <<>> /\ \A i \in 1 .. n : k[i] = SearchRow(k[i - 1], episodic[n + 1 - i], user, keyword)
  BY <1>1, <1>9 DEF IsFound
<1> DEFINE P == {i \in Nat : i <= n => Found(k[i], user)}
<1>12. 0 \in P
  BY <1>2, <1>11
<1>13. ASSUME NEW i \in Nat, i \in P PROVE i + 1 \in P
  <2> SUFFICES ASSUME i + 1 <= n PROVE Found(k[i + 1], user)
    OBVIOUS
  <2>1. Found(k[i], user)
    BY <1>1, <1>13
  <2>2. n + 1 - (i + 1) \in 1 .. n /\ i + 1 \in 1 .. n /\ (i + 1) - 1 = i
    BY <1>1
  <2>3. Found(SearchRow(k[i], episodic[n + 1 - (i + 1)], user, keyword), user)
    BY <2>1, <2>2, FoundStep DEF n
  <2>4. k[i + 1] = SearchRow(k[i], episodic[n + 1 - (i + 1)], user, keyword)
    BY <1>11, <2>2
  <2> QED
    BY <2>3, <2>4
<1>14. P = Nat
  <2> HIDE DEF P
  <2> QED
    BY <1>12, <1>13, Induct DEF P
<1>15. Found(k[n], user)
  BY <1>1, <1>14
<1> QED
  BY <1>2, <1>10, <1>15

\* What a lookup answers.
AnswerOK(a) ==
  /\ \A fact \in a.facts : LatestOf(a.user, fact.key, fact.value)
  /\ \A key \in Keys : Mentions(a.user, key) # {} => \E fact \in a.facts : \A f \in a.facts : (f.key = key) <=> (f = fact)
  /\ Len(a.episodes) <= EpisodeLimit
  /\ \A n \in DOMAIN a.episodes :
       \E j \in DOMAIN said :
         said[j] = [user |-> a.user, text |-> a.episodes[n]] /\ Salience(a.episodes[n]) >= SalienceThreshold

LEMMA AnswerFact ==
  ASSUME MemoryIInv, NEW user \in Nat, NEW episodes, Found(episodes, user)
  PROVE  AnswerOK([user |-> user, facts |-> GetFacts(user), episodes |-> episodes])
<1> DEFINE a == [user |-> user, facts |-> GetFacts(user), episodes |-> episodes]
<1>1. a.user = user /\ a.facts = GetFacts(user) /\ a.episodes = episodes
  OBVIOUS
<1> HIDE DEF a
<1>2. ASSUME NEW fact \in GetFacts(user) PROVE LatestOf(user, fact.key, fact.value)
  <2>1. PICK row \in semantic : row.user = user /\ fact = [key |-> row.key, value |-> row.value]
    BY <1>2 DEF GetFacts
  <2>2. LatestOf(row.user, row.key, row.value)
    BY DEF MemoryIInv, KnowsLatest
  <2> QED
    BY <2>1, <2>2
<1>3. ASSUME NEW key \in Keys, Mentions(user, key) # {}
      PROVE  \E fact \in GetFacts(user) : \A f \in GetFacts(user) : (f.key = key) <=> (f = fact)
  <2>1. PICK row \in semantic : row.user = user /\ row.key = key
    BY <1>3 DEF MemoryIInv, KnowsAll
  <2> DEFINE fact == [key |-> row.key, value |-> row.value]
  <2>2. fact \in GetFacts(user) /\ fact.key = key
    BY <2>1 DEF GetFacts
  <2>3. ASSUME NEW f \in GetFacts(user), f.key = key PROVE f = fact
    <3>1. PICK r \in semantic : r.user = user /\ f = [key |-> r.key, value |-> r.value]
      BY DEF GetFacts
    <3>2. r.key = key
      BY <2>3, <3>1
    <3>3. r = row
      BY <2>1, <3>1, <3>2 DEF MemoryIInv, TableOK
    <3> QED
      BY <3>1, <3>3
  <2> HIDE DEF fact
  <2> QED
    BY <2>2, <2>3
<1>4. Len(episodes) <= EpisodeLimit /\ DOMAIN episodes = 1 .. Len(episodes) /\ DOMAIN said = 1 .. Len(said)
  BY LenProperties DEF Found, MemoryIInv
<1>5. ASSUME NEW n \in 1 .. Len(episodes)
      PROVE  \E j \in 1 .. Len(said) :
               said[j] = [user |-> user, text |-> episodes[n]] /\ Salience(episodes[n]) >= SalienceThreshold
  <2>1. PICK i \in 1 .. Len(episodic) : episodic[i] = [user |-> user, text |-> episodes[n]]
    BY DEF Found
  <2>2. episodic[i].text = episodes[n]
    BY <2>1
  <2>3. PICK j \in 1 .. Len(said) : said[j] = episodic[i]
    BY DEF MemoryIInv, Episodes
  <2>4. Salience(episodic[i].text) >= SalienceThreshold
    BY DEF MemoryIInv, Episodes
  <2> QED
    BY <2>1, <2>2, <2>3, <2>4
<1> QED
  BY <1>1, <1>2, <1>3, <1>4, <1>5 DEF AnswerOK, a

LEMMA SameRecall ==
  ASSUME said' = said, answers' = answers PROVE RecallIsOwnAndLatest' <=> RecallIsOwnAndLatest
  BY DEF RecallIsOwnAndLatest, Mentions

LEMMA AnswerRecall ==
  ASSUME said' = said, NEW a, AnswerOK(a), answers' = <<a>> PROVE RecallIsOwnAndLatest'
<1>1. \A user, key : Mentions(user, key)' = Mentions(user, key)
  BY SameMentions
<1>2. DOMAIN answers' = {1} /\ answers'[1] = a
  OBVIOUS
<1> QED
  BY <1>1, <1>2 DEF RecallIsOwnAndLatest, AnswerOK, LatestOf, Keys

LEMMA NothingRecalled == ASSUME answers' = <<>> PROVE RecallIsOwnAndLatest'
<1>1. DOMAIN answers' = {}
  OBVIOUS
<1> QED
  BY <1>1 DEF RecallIsOwnAndLatest

LEMMA SameStore ==
  ASSUME UNCHANGED <<semantic, episodic, said>>
  PROVE  /\ TableOK' <=> TableOK
         /\ KnowsLatest' <=> KnowsLatest
         /\ KnowsAll' <=> KnowsAll
         /\ Episodes' <=> Episodes
<1>1. KnowsLatest' <=> KnowsLatest
  BY SameMentions DEF KnowsLatest
<1>2. KnowsAll' <=> KnowsAll
  BY SameMentions DEF KnowsAll
<1>3. TableOK' <=> TableOK
  BY DEF TableOK
<1>4. Episodes' <=> Episodes
  BY DEF Episodes
<1> QED
  BY <1>1, <1>2, <1>3, <1>4

\* An empty store.
LEMMA NothingTold ==
  ASSUME semantic' = {}, episodic' = <<>>, said' = <<>>
  PROVE  said' \in Seq(Said) /\ TableOK' /\ KnowsLatest' /\ KnowsAll' /\ Episodes'
<1>1. said' \in Seq(Said) /\ episodic' \in Seq(Said) /\ Len(episodic') = 0 /\ DOMAIN said' = {}
  BY EmptySeq
<1>2. \A u, key : Mentions(u, key)' = {}
  BY <1>1 DEF Mentions
<1>3. TableOK' /\ KnowsLatest'
  BY DEF TableOK, KnowsLatest
<1>4. KnowsAll'
  BY <1>2 DEF KnowsAll
<1>5. Episodes'
  BY <1>1 DEF Episodes
<1> QED
  BY <1>1, <1>3, <1>4, <1>5

LEMMA CommitEpisodes ==
  ASSUME MemoryIInv, NEW user \in Nat, NEW text \in Texts, Commit(user, text)
  PROVE  said' \in Seq(Said) /\ Episodes'
<1> DEFINE new == [user |-> user, text |-> text]
<1>1. new \in Said /\ new.text = text
  BY DEF Said
<1>2. said \in Seq(Said) /\ said' = Append(said, new) /\ episodic \in Seq(Said)
  BY DEF MemoryIInv, Commit, Episodes
<1>3. \/ episodic' = episodic
      \/ Salience(text) >= SalienceThreshold /\ episodic' = Append(episodic, new)
  BY DEF Commit
<1> HIDE DEF new
<1>4. /\ said' \in Seq(Said) /\ Len(said') = Len(said) + 1 /\ Len(said) \in Nat
      /\ (\A i \in 1 .. Len(said) : said'[i] = said[i]) /\ said'[Len(said) + 1] = new
  BY <1>1, <1>2, AppendProperties, LenProperties
<1>5. \A i \in 1 .. Len(episodic) :
        (\E j \in 1 .. Len(said') : said'[j] = episodic[i]) /\ Salience(episodic[i].text) >= SalienceThreshold
  <2> SUFFICES ASSUME NEW i \in 1 .. Len(episodic)
               PROVE  (\E j \in 1 .. Len(said') : said'[j] = episodic[i]) /\ Salience(episodic[i].text) >= SalienceThreshold
    OBVIOUS
  <2>1. PICK j \in 1 .. Len(said) : said[j] = episodic[i]
    BY DEF MemoryIInv, Episodes
  <2>2. j \in 1 .. Len(said') /\ said'[j] = episodic[i]
    BY <1>4, <2>1
  <2> QED
    BY <2>2 DEF MemoryIInv, Episodes
<1>6. CASE episodic' = episodic
  <2>1. \A t : Salience(t)' = Salience(t)
    BY DEF Salience
  <2> QED
    BY <1>2, <1>4, <1>5, <1>6, <2>1 DEF Episodes
<1>7. CASE Salience(text) >= SalienceThreshold /\ episodic' = Append(episodic, new)
  <2>1. /\ episodic' \in Seq(Said) /\ Len(episodic') = Len(episodic) + 1 /\ Len(episodic) \in Nat
        /\ (\A i \in 1 .. Len(episodic) : episodic'[i] = episodic[i]) /\ episodic'[Len(episodic) + 1] = new
    BY <1>1, <1>2, <1>7, AppendProperties, LenProperties
  <2>2. ASSUME NEW i \in 1 .. Len(episodic')
        PROVE  (\E j \in 1 .. Len(said') : said'[j] = episodic'[i]) /\ Salience(episodic'[i].text) >= SalienceThreshold
    <3>1. CASE i \in 1 .. Len(episodic)
      BY <1>5, <2>1, <3>1
    <3>2. CASE i = Len(episodic) + 1
      <4>1. episodic'[i] = new /\ Len(said) + 1 \in 1 .. Len(said')
        BY <1>4, <2>1, <3>2
      <4> QED
        BY <1>1, <1>4, <1>7, <4>1
    <3> QED
      BY <2>1, <3>1, <3>2
  <2> QED
    BY <1>4, <2>1, <2>2 DEF Episodes
<1> QED
  BY <1>3, <1>6, <1>7

LEMMA MemoryInitIInv == MemoryInit => MemoryIInv
<1> SUFFICES ASSUME MemoryInit PROVE MemoryIInv
  OBVIOUS
<1>1. /\ said \in Seq(Said) /\ episodic \in Seq(Said) /\ Len(episodic) = 0 /\ DOMAIN said = {}
      /\ DOMAIN answers = {}
  BY EmptySeq DEF MemoryInit
<1>2. \A u, key : Mentions(u, key) = {}
  BY <1>1 DEF Mentions
<1>3. TableOK /\ KnowsLatest
  BY DEF TableOK, KnowsLatest, MemoryInit
<1>4. KnowsAll
  BY <1>2 DEF KnowsAll
<1>5. Episodes
  BY <1>1 DEF Episodes
<1>6. RecallIsOwnAndLatest
  BY <1>1 DEF RecallIsOwnAndLatest
<1> QED
  BY <1>1, <1>3, <1>4, <1>5, <1>6 DEF MemoryIInv, MemoryInit

LEMMA MemoryNextIInv == ASSUME MemoryIInv, [MemoryNext]_<<conversations, open, semantic, episodic, said, answers>>
  PROVE MemoryIInv'
<1>1. conversations \in Nat /\ open \subseteq Nat /\ said \in Seq(Said)
  BY DEF MemoryIInv
<1>2. ASSUME UNCHANGED <<semantic, episodic, said>>
      PROVE  said' \in Seq(Said) /\ TableOK' /\ KnowsLatest' /\ KnowsAll' /\ Episodes'
  BY <1>1, <1>2, SameStore DEF MemoryIInv
<1>3. CASE OpenConversation
  <2>1. conversations' \in Nat /\ open' \subseteq Nat
    BY <1>1, <1>3 DEF OpenConversation
  <2> QED
    BY <1>2, <1>3, <2>1, SameRecall DEF MemoryIInv, OpenConversation
<1>4. CASE \E user \in open : CloseConversation(user)
  BY <1>1, <1>2, <1>4, SameRecall DEF MemoryIInv, CloseConversation
<1>5. ASSUME NEW user \in open, NEW text \in Texts, Commit(user, text) PROVE MemoryIInv'
  <2>1. user \in Nat
    BY <1>1
  <2>2. conversations' \in Nat /\ open' \subseteq Nat /\ answers' = <<>>
    BY <1>1, <1>5 DEF Commit
  <2>3. TableOK' /\ KnowsLatest' /\ KnowsAll'
    BY <1>5, <2>1, CommitTable
  <2>4. said' \in Seq(Said) /\ Episodes'
    BY <1>5, <2>1, CommitEpisodes
  <2> QED
    BY <2>2, <2>3, <2>4, NothingRecalled DEF MemoryIInv
<1>6. ASSUME NEW user \in Nat, NEW episodes, Found(episodes, user),
             answers' = <<[user |-> user, facts |-> GetFacts(user), episodes |-> episodes]>>,
             UNCHANGED <<conversations, open, semantic, episodic, said>>
      PROVE  MemoryIInv'
  <2>1. RecallIsOwnAndLatest'
    BY <1>6, AnswerFact, AnswerRecall
  <2> QED
    BY <1>1, <1>2, <1>6, <2>1 DEF MemoryIInv
<1>7. ASSUME NEW user \in open, NEW query, HandleLookup(user, query) PROVE MemoryIInv'
  <2>1. Found(SearchEpisodes(user, query), user)
    BY FoundFact DEF MemoryIInv, Episodes
  <2> QED
    BY <1>1, <1>6, <1>7, <2>1 DEF HandleLookup
<1>8. ASSUME NEW user \in 1 .. conversations, ReadFacts(user) PROVE MemoryIInv'
  <2>1. Found(<<>>, user) /\ user \in Nat
    BY <1>1, EmptySeq, MemoryAssumption DEF Found
  <2> QED
    BY <1>6, <1>8, <2>1 DEF ReadFacts
<1>9. CASE RestartServer
  <2>1. conversations' \in Nat /\ open' \subseteq Nat /\ answers' = <<>>
    BY <1>1, <1>9 DEF RestartServer
  <2>2. said' \in Seq(Said) /\ TableOK' /\ KnowsLatest' /\ KnowsAll' /\ Episodes'
    BY <1>2, <1>9, NothingTold DEF RestartServer
  <2> QED
    BY <2>1, <2>2, NothingRecalled DEF MemoryIInv
<1>10. CASE UNCHANGED <<conversations, open, semantic, episodic, said, answers>>
  BY <1>1, <1>2, <1>10, SameRecall DEF MemoryIInv
<1> QED
  BY <1>3, <1>4, <1>5, <1>7, <1>8, <1>9, <1>10 DEF MemoryNext

-------------------------------------------------------------------------------
(* The window of turns *)

Ending(s, n) == SubSeq(s, Len(s) - n + 1, Len(s))

Fit(s, n) == n <= MaxTurns /\ (n <= 1 \/ Chars(Ending(s, n)) <= MaxTurnChars)

Longest(s, w) == Fit(s, w) /\ \A n \in w + 1 .. Len(s) : ~Fit(s, n)

\* Both are what the turns' lengths are, and the window is not longer.
WindowIInv ==
  /\ added \in Seq(Nat) /\ window \in Seq(Nat) /\ Len(window) <= Len(added)
  /\ WindowIsLongest

LEMMA EndingFact ==
  ASSUME NEW s \in Seq(Nat), NEW n \in 0 .. Len(s)
  PROVE  /\ Ending(s, n) \in Seq(Nat) /\ Len(Ending(s, n)) = n
         /\ \A i \in 1 .. n : Ending(s, n)[i] = s[Len(s) - n + i]
<1>1. Len(s) \in Nat /\ \A i \in 1 .. Len(s) : s[i] \in Nat
  BY LenProperties, ElementOfSeq
<1> DEFINE m == Len(s) - n + 1
<1>2. m \in Int /\ Len(s) \in Int /\ \A i \in m .. Len(s) : s[i] \in Nat
  BY <1>1
<1>3. /\ SubSeq(s, m, Len(s)) \in Seq(Nat)
      /\ Len(SubSeq(s, m, Len(s))) = IF m <= Len(s) THEN Len(s) - m + 1 ELSE 0
      /\ \A i \in 1 .. Len(s) - m + 1 : SubSeq(s, m, Len(s))[i] = s[m + i - 1]
  BY <1>2, SubSeqProperties
<1>4. Len(s) - m + 1 = n /\ (m <= Len(s) <=> n > 0)
  BY <1>1
<1>5. ASSUME NEW i \in 1 .. n PROVE m + i - 1 = Len(s) - n + i
  BY <1>1
<1> HIDE DEF m
<1> QED
  BY <1>1, <1>3, <1>4, <1>5 DEF Ending, m

\* The end of an end is an end.
LEMMA EndingOfEnding ==
  ASSUME NEW s \in Seq(Nat), NEW k \in 0 .. Len(s), NEW n \in 0 .. k
  PROVE  SubSeq(Ending(s, k), k - n + 1, k) = Ending(s, n)
<1>1. Len(s) \in Nat
  BY LenProperties
<1>2. n \in 0 .. Len(s)
  BY <1>1
<1> DEFINE e == Ending(s, k)
           m == k - n + 1
<1>3. e \in Seq(Nat) /\ Len(e) = k /\ \A i \in 1 .. k : e[i] = s[Len(s) - k + i]
  BY EndingFact
<1>4. /\ Ending(s, n) \in Seq(Nat) /\ Len(Ending(s, n)) = n
      /\ \A i \in 1 .. n : Ending(s, n)[i] = s[Len(s) - n + i]
  BY <1>2, EndingFact
<1>5. SubSeq(e, m, k) = Ending(e, n)
  BY <1>1, <1>3 DEF Ending
<1>6. /\ Ending(e, n) \in Seq(Nat) /\ Len(Ending(e, n)) = n
      /\ \A i \in 1 .. n : Ending(e, n)[i] = e[Len(e) - n + i]
  BY <1>3, EndingFact
<1>7. ASSUME NEW i \in 1 .. n PROVE Ending(e, n)[i] = Ending(s, n)[i]
  <2>1. Len(e) - n + i \in 1 .. k /\ Len(s) - k + (Len(e) - n + i) = Len(s) - n + i
    BY <1>1, <1>3
  <2>2. e[Len(e) - n + i] = s[Len(s) - k + (Len(e) - n + i)]
    BY <1>3, <2>1
  <2> QED
    BY <1>4, <1>6, <2>1, <2>2
<1>8. Ending(e, n) = Ending(s, n)
  BY <1>4, <1>6, <1>7, SeqEqual
<1> QED
  BY <1>5, <1>8

\* One more turn at the end.
LEMMA EndingGrows ==
  ASSUME NEW s \in Seq(Nat), NEW x \in Nat, NEW n \in 0 .. Len(s)
  PROVE  LET t == Append(s, x) IN
         /\ Ending(t, n + 1) = Append(Ending(s, n), x)
         /\ Chars(Ending(s, n)) \in Nat /\ Chars(Ending(t, n + 1)) = Chars(Ending(s, n)) + x
<1> DEFINE t == Append(s, x)
           e == Ending(s, n)
           f == Ending(t, n + 1)
           g == Append(e, x)
<1>1. Len(s) \in Nat /\ n \in Nat
  BY LenProperties
<1>2. t \in Seq(Nat) /\ Len(t) = Len(s) + 1 /\ (\A i \in 1 .. Len(s) : t[i] = s[i]) /\ t[Len(s) + 1] = x
  BY AppendProperties
<1> HIDE DEF t
<1>3. e \in Seq(Nat) /\ Len(e) = n /\ \A i \in 1 .. n : e[i] = s[Len(s) - n + i]
  BY EndingFact
<1>4. f \in Seq(Nat) /\ Len(f) = n + 1 /\ \A i \in 1 .. n + 1 : f[i] = t[Len(t) - (n + 1) + i]
  <2>1. n + 1 \in 0 .. Len(t)
    BY <1>1, <1>2
  <2> QED
    BY <1>2, <2>1, EndingFact
<1>5. g \in Seq(Nat) /\ Len(g) = n + 1 /\ (\A i \in 1 .. n : g[i] = e[i]) /\ g[n + 1] = x
  BY <1>3, AppendProperties
<1> HIDE DEF e, f, g
<1>6. ASSUME NEW i \in 1 .. n + 1 PROVE f[i] = g[i]
  <2>1. f[i] = t[Len(s) - n + i]
    BY <1>1, <1>2, <1>4
  <2>2. CASE i \in 1 .. n
    <3>1. Len(s) - n + i \in 1 .. Len(s)
      BY <1>1, <2>2
    <3> QED
      BY <1>2, <1>3, <1>5, <2>1, <2>2, <3>1
  <2>3. CASE i = n + 1
    <3>1. Len(s) - n + i = Len(s) + 1
      BY <1>1, <2>3
    <3> QED
      BY <1>2, <1>5, <2>1, <2>3, <3>1
  <2> QED
    BY <2>2, <2>3
<1>7. f = g
  BY <1>4, <1>5, <1>6, SeqEqual
<1>8. \A i \in 1 .. n : e[i] \in Nat /\ g[i] = e[i]
  BY <1>3, <1>5, ElementOfSeq
<1>9. SumTo(e, n) \in Nat /\ SumTo(g, n + 1) = SumTo(e, n) + g[n + 1]
  BY <1>1, <1>5, <1>8, SumStep
<1>10. Chars(e) \in Nat /\ Chars(f) = Chars(e) + x
  BY <1>3, <1>5, <1>7, <1>9 DEF Chars
<1> QED
  BY <1>7, <1>10 DEF e, f, g, t

\* What is dropped of kept turns, there is at least one: the fewest that leave those that
\* fit, but not the last.
Drop(kept, n) ==
  /\ \/ Chars(SubSeq(kept, n + 1, Len(kept))) <= MaxTurnChars
     \/ n = Len(kept) - 1
  /\ \A k \in 0 .. n - 1 : Chars(SubSeq(kept, k + 1, Len(kept))) > MaxTurnChars

LEMMA DropFact ==
  ASSUME NEW kept \in Seq(Nat), Len(kept) > 0
  PROVE  LET d == CHOOSE n \in 0 .. Len(kept) - 1 : Drop(kept, n) IN d \in 0 .. Len(kept) - 1 /\ Drop(kept, d)
<1> DEFINE k == Len(kept)
           S == {n \in 0 .. k - 1 : Chars(SubSeq(kept, n + 1, k)) <= MaxTurnChars \/ n = k - 1}
<1>1. k \in Nat /\ k > 0
  BY LenProperties
<1> HIDE DEF k
<1>2. k - 1 \in S /\ S \in SUBSET Nat
  BY <1>1
<1>3. PICK n \in S : \A i \in S : n <= i
  BY <1>2, LeastOf
<1>4. ASSUME NEW j \in 0 .. n - 1 PROVE Chars(SubSeq(kept, j + 1, k)) > MaxTurnChars
  <2>1. n \in 0 .. k - 1
    OBVIOUS
  <2>2. j \in 0 .. k - 1 /\ j \notin S
    BY <1>1, <1>3, <2>1
  <2>3. ~(Chars(SubSeq(kept, j + 1, k)) <= MaxTurnChars)
    BY <2>2
  <2>4. k - j \in 0 .. k /\ j + 1 = k - (k - j) + 1
    BY <1>1, <2>2
  <2>5. SubSeq(kept, j + 1, k) = Ending(kept, k - j)
    BY <2>4 DEF Ending, k
  <2>6. Chars(SubSeq(kept, j + 1, k)) \in Nat
    <3>1. PICK c \in Nat : c = k - j
      BY <2>4
    <3>2. Ending(kept, c) \in Seq(Nat) /\ Len(Ending(kept, c)) = c
      BY <2>4, <3>1, EndingFact DEF k
    <3>3. \A i \in 1 .. c : Ending(kept, c)[i] \in Nat
      BY <3>2, ElementOfSeq
    <3>4. PICK t : Totals(t, Ending(kept, c), c, Nat)
      BY <3>3, SumFact
    <3>5. SumTo(Ending(kept, c), c) \in Nat
      BY <3>4 DEF Totals
    <3> QED
      BY <2>5, <3>1, <3>2, <3>5 DEF Chars
  <2> QED
    BY <2>3, <2>6, MemoryAssumption
<1>5. n \in 0 .. k - 1 /\ Drop(kept, n)
  BY <1>3, <1>4 DEF Drop, k
<1> QED
  BY <1>5 DEF k

\* The longest end that fits, after one more turn.
LEMMA WindowGrows ==
  ASSUME NEW s \in Seq(Nat), NEW x \in Nat, NEW w \in 0 .. Len(s), Longest(s, w)
  PROVE  LET t == Append(s, x) IN
         \E v \in 0 .. Len(t) : AddedTurn(Append(Ending(s, w), x)) = Ending(t, v) /\ Longest(t, v)
<1> DEFINE t == Append(s, x)
           all == Append(Ending(s, w), x)
           kept == IF Len(all) > MaxTurns THEN Tail(all) ELSE all
           k == IF w + 1 > MaxTurns THEN w ELSE w + 1
           d == CHOOSE n \in 0 .. Len(kept) - 1 : Drop(kept, n)
           v == k - d
<1>1. /\ Len(s) \in Nat /\ w \in Nat /\ w <= Len(s) /\ MaxTurns \in Nat \ {0} /\ MaxTurnChars \in Nat
      /\ w <= MaxTurns
  BY LenProperties, MemoryAssumption DEF Longest, Fit
<1>2. t \in Seq(Nat) /\ Len(t) = Len(s) + 1
  BY AppendProperties
<1>3. AddedTurn(all) = SubSeq(kept, d + 1, Len(kept))
  BY DEF AddedTurn, Drop
<1>4. all = Ending(t, w + 1)
  BY EndingGrows
<1>5. ASSUME NEW n \in 0 .. Len(s)
      PROVE  Chars(Ending(s, n)) \in Nat /\ Chars(Ending(t, n + 1)) = Chars(Ending(s, n)) + x
  BY EndingGrows
<1>6. k \in 1 .. MaxTurns /\ k <= Len(t) /\ (k = w \/ k = w + 1) /\ (k # w + 1 => k = MaxTurns)
  BY <1>1, <1>2
<1> HIDE DEF t, all
<1>7. kept = Ending(t, k) /\ kept \in Seq(Nat) /\ Len(kept) = k
  <2>1. w + 1 \in 0 .. Len(t) /\ k \in 0 .. Len(t)
    BY <1>1, <1>2, <1>6
  <2>2. all \in Seq(Nat) /\ Len(all) = w + 1
    BY <1>2, <1>4, <2>1, EndingFact
  <2>3. CASE w + 1 > MaxTurns
    <3>1. kept = Tail(all) /\ k = w
      BY <2>2, <2>3
    <3>2. all # <<>>
      BY <1>1, <2>2
    <3>3. Tail(all) = SubSeq(all, 2, w + 1)
      BY <2>2, <3>2, TailIsSubSeq
    <3>4. SubSeq(Ending(t, w + 1), (w + 1) - w + 1, w + 1) = Ending(t, w)
      <4>1. w \in 0 .. w + 1
        BY <1>1
      <4> QED
        BY <1>2, <2>1, <4>1, EndingOfEnding
    <3>5. (w + 1) - w + 1 = 2
      BY <1>1
    <3> HIDE DEF kept, k
    <3>6. kept = Ending(t, k)
      BY <1>4, <3>1, <3>3, <3>4, <3>5
    <3> QED
      BY <1>2, <2>1, <3>6, EndingFact
  <2>4. CASE ~(w + 1 > MaxTurns)
    <3>1. kept = all /\ k = w + 1
      BY <2>2, <2>4
    <3> QED
      BY <1>4, <2>2, <3>1
  <2> QED
    BY <2>3, <2>4
<1> HIDE DEF kept, k
<1>8. d \in 0 .. k - 1 /\ Drop(kept, d)
  <2>1. kept \in Seq(Nat) /\ Len(kept) > 0
    BY <1>6, <1>7
  <2>2. d \in 0 .. Len(kept) - 1 /\ Drop(kept, d)
    <3> HIDE DEF Drop
    <3> QED
      BY <2>1, DropFact
  <2> HIDE DEF d
  <2> QED
    BY <1>7, <2>2
<1> HIDE DEF d
<1>9. v \in 1 .. k
  BY <1>6, <1>8
<1>10. d + 1 = k - v + 1 /\ v \in 0 .. k /\ k \in 0 .. Len(t) /\ v \in 0 .. Len(t)
  BY <1>2, <1>6, <1>8, <1>9
<1>11. AddedTurn(all) = Ending(t, v)
  <2>1. SubSeq(Ending(t, k), k - v + 1, k) = Ending(t, v)
    BY <1>2, <1>10, EndingOfEnding
  <2> QED
    BY <1>3, <1>7, <1>10, <2>1
<1>12. ASSUME NEW n \in v + 1 .. k PROVE Chars(Ending(t, n)) > MaxTurnChars
  <2>1. PICK j \in 0 .. d - 1 : j = k - n
    BY <1>6, <1>8, <1>9
  <2>2. Chars(SubSeq(kept, j + 1, Len(kept))) > MaxTurnChars
    BY <1>8 DEF Drop
  <2>3. j + 1 = k - n + 1 /\ n \in 0 .. k
    BY <1>6, <1>9, <2>1
  <2>4. SubSeq(Ending(t, k), k - n + 1, k) = Ending(t, n)
    BY <1>2, <1>10, <2>3, EndingOfEnding
  <2> QED
    BY <1>7, <2>2, <2>3, <2>4
<1>13. v = 1 \/ Chars(Ending(t, v)) <= MaxTurnChars
  <2>1. CASE Chars(SubSeq(kept, d + 1, Len(kept))) <= MaxTurnChars
    BY <1>3, <1>11, <2>1
  <2>2. CASE d = Len(kept) - 1
    BY <1>6, <1>7, <2>2
  <2> QED
    BY <1>8, <2>1, <2>2 DEF Drop
<1> HIDE DEF v
<1>14. Fit(t, v)
  BY <1>1, <1>6, <1>9, <1>13 DEF Fit
<1>15. ASSUME NEW n \in v + 1 .. Len(t) PROVE ~Fit(t, n)
  <2>1. n \in Nat /\ n > 1
    BY <1>2, <1>6, <1>9
  <2>2. CASE n \in v + 1 .. k
    <3>1. Chars(Ending(t, n)) > MaxTurnChars
      BY <1>12, <2>2
    <3>2. Chars(Ending(t, n)) \in Nat
      <4>1. PICK m \in 0 .. Len(s) : n = m + 1
        BY <1>1, <1>2, <2>1
      <4>2. Chars(Ending(s, m)) \in Nat /\ Chars(Ending(t, m + 1)) = Chars(Ending(s, m)) + x
        BY <1>5
      <4> QED
        BY <4>1, <4>2
    <3> QED
      BY <1>1, <2>1, <3>1, <3>2 DEF Fit
  <2>3. CASE n > MaxTurns
    BY <1>1, <2>1, <2>3 DEF Fit
  <2>4. CASE n <= MaxTurns /\ n \notin v + 1 .. k
    <3>1. PICK m \in w + 1 .. Len(s) : n = m + 1 /\ m <= MaxTurns
      BY <1>1, <1>2, <1>6, <1>9, <2>1, <2>4
    <3>2. ~Fit(s, m)
      BY DEF Longest
    <3>3. m > 1 /\ ~(Chars(Ending(s, m)) <= MaxTurnChars)
      BY <1>1, <3>1, <3>2 DEF Fit
    <3>4. m \in 0 .. Len(s)
      BY <1>1, <3>1
    <3>5. Chars(Ending(s, m)) \in Nat /\ Chars(Ending(t, m + 1)) = Chars(Ending(s, m)) + x
      BY <1>5, <3>4
    <3>6. ~(Chars(Ending(t, n)) <= MaxTurnChars)
      BY <1>1, <3>1, <3>3, <3>5
    <3> QED
      BY <2>1, <3>6 DEF Fit
  <2> QED
    BY <1>1, <2>1, <2>2, <2>3, <2>4
<1> QED
  BY <1>10, <1>11, <1>14, <1>15 DEF Longest, t, all

LEMMA WindowLongest ==
  ASSUME added \in Seq(Nat), window \in Seq(Nat)
  PROVE  WindowIsLongest <=> window = Ending(added, Len(window)) /\ Longest(added, Len(window))
BY DEF WindowIsLongest, Longest, Fit, Ending

LEMMA WindowLongestNext ==
  ASSUME added' \in Seq(Nat), window' \in Seq(Nat)
  PROVE  WindowIsLongest' <=> window' = Ending(added', Len(window')) /\ Longest(added', Len(window'))
BY DEF WindowIsLongest, Longest, Fit, Ending

LEMMA WindowNextIInv == ASSUME WindowIInv, [WorkingNext]_<<added, window>> PROVE WindowIInv'
<1>1. ASSUME NEW x \in 0 .. MaxTurnChars + 1, AddTurn(x) PROVE WindowIInv'
  <2> DEFINE w == Len(window)
             t == Append(added, x)
  <2>1. x \in Nat
    BY MemoryAssumption
  <2>2. /\ added \in Seq(Nat) /\ window \in Seq(Nat) /\ w \in 0 .. Len(added)
        /\ window = Ending(added, w) /\ Longest(added, w)
    BY WindowLongest, LenProperties DEF WindowIInv
  <2>3. added' = t /\ window' = AddedTurn(Append(window, x))
    BY <1>1 DEF AddTurn
  <2> HIDE DEF w
  <2>4. PICK v \in 0 .. Len(t) : AddedTurn(Append(Ending(added, w), x)) = Ending(t, v) /\ Longest(t, v)
    BY <2>1, <2>2, WindowGrows
  <2>5. t \in Seq(Nat) /\ Len(t) \in Nat
    BY <2>1, <2>2, AppendProperties, LenProperties
  <2> HIDE DEF t
  <2>6. window' = Ending(t, v) /\ window' \in Seq(Nat) /\ Len(window') = v
    BY <2>2, <2>3, <2>4, <2>5, EndingFact
  <2>7. WindowIsLongest'
    BY <2>3, <2>4, <2>5, <2>6, WindowLongestNext
  <2> QED
    BY <2>3, <2>5, <2>6, <2>7 DEF WindowIInv
<1>2. CASE ResetTurns
  <2>1. added' = <<>> /\ window' = <<>>
    BY <1>2 DEF ResetTurns
  <2>2. added' \in Seq(Nat) /\ window' \in Seq(Nat) /\ Len(added') = 0 /\ Len(window') = 0
    BY <2>1, EmptySeq
  <2>3. Ending(<<>>, 0) = <<>> /\ Longest(<<>>, 0)
    <3>1. Ending(<<>>, 0) = <<>>
      BY SubSeqEmpty DEF Ending
    <3> QED
      BY <3>1, MemoryAssumption DEF Longest, Fit
  <2>4. WindowIsLongest'
    BY <2>1, <2>2, <2>3, WindowLongestNext
  <2> QED
    BY <2>2, <2>4 DEF WindowIInv
<1>3. CASE UNCHANGED <<added, window>>
  BY <1>3 DEF WindowIInv, WindowIsLongest
<1> QED
  BY <1>1, <1>2, <1>3 DEF WorkingNext

LEMMA WindowInitIInv == MemoryInit => WindowIInv
<1> SUFFICES ASSUME MemoryInit PROVE WindowIInv
  OBVIOUS
<1>1. added = <<>> /\ window = <<>>
  BY DEF MemoryInit
<1>2. added \in Seq(Nat) /\ window \in Seq(Nat) /\ Len(added) = 0 /\ Len(window) = 0
  BY <1>1, EmptySeq
<1>3. Ending(<<>>, 0) = <<>> /\ Longest(<<>>, 0)
  <2>1. Ending(<<>>, 0) = <<>>
    BY SubSeqEmpty DEF Ending
  <2> QED
    BY <2>1, MemoryAssumption DEF Longest, Fit
<1>4. WindowIsLongest
  BY <1>1, <1>2, <1>3, WindowLongest
<1> QED
  BY <1>2, <1>4 DEF WindowIInv

-------------------------------------------------------------------------------
(* The invariants of the specification *)

Shared == <<retrievalVars, memoryVars, mergeVars, historyVars, part>>

\* Each part keeps what it needs, whichever part is under way.
KnowledgeIInv == MergeIInv /\ HistoryIInv /\ MemoryIInv /\ WindowIInv

LEMMA KnowledgeInit == Init => KnowledgeIInv
<1> SUFFICES ASSUME Init PROVE KnowledgeIInv
  OBVIOUS
<1>1. MemoryInit /\ (MergeInit \/ NoMerge) /\ HistoryInit
  BY DEF Init, Merges, Histories, NoHistory
<1> QED
  BY <1>1, MergeInitIInv, HistoryInitIInv, MemoryInitIInv, WindowInitIInv DEF KnowledgeIInv

LEMMA KnowledgeNext == KnowledgeIInv /\ [Next]_Shared => KnowledgeIInv'
<1> SUFFICES ASSUME KnowledgeIInv, [Next]_Shared PROVE KnowledgeIInv'
  OBVIOUS
<1>1. MergeIInv'
  <2>1. [MergeNext]_mergeVars
    BY DEF Next, Shared
  <2> QED
    BY <2>1, MergeNextIInv DEF KnowledgeIInv
<1>2. HistoryIInv'
  <2>1. [HistoryNext]_historyVars
    BY DEF Next, Shared
  <2> QED
    BY <2>1, HistoryNextIInv DEF KnowledgeIInv
<1>3. MemoryIInv'
  <2>1. MemoryNext \/ WorkingNext \/ UNCHANGED memoryVars
    BY DEF Next, Shared
  <2>2. WorkingNext => UNCHANGED <<conversations, open, semantic, episodic, said, answers>>
    BY DEF WorkingNext, AddTurn, ResetTurns
  <2>3. [MemoryNext]_<<conversations, open, semantic, episodic, said, answers>>
    BY <2>1, <2>2 DEF memoryVars
  <2> QED
    BY <2>3, MemoryNextIInv DEF KnowledgeIInv
<1>4. WindowIInv'
  <2>1. MemoryNext \/ WorkingNext \/ UNCHANGED memoryVars
    BY DEF Next, Shared
  <2>2. MemoryNext => UNCHANGED <<added, window>>
    BY DEF MemoryNext, OpenConversation, CloseConversation, Commit, HandleLookup, RestartServer, ReadFacts,
           working
  <2>3. [WorkingNext]_<<added, window>>
    BY <2>1, <2>2 DEF memoryVars
  <2> QED
    BY <2>3, WindowNextIInv DEF KnowledgeIInv
<1> QED
  BY <1>1, <1>2, <1>3, <1>4 DEF KnowledgeIInv

LEMMA SpecKnowledge == Spec => []KnowledgeIInv
<1>1. KnowledgeIInv /\ [Next]_<<retrievalVars, memoryVars, mergeVars, historyVars, part>> => KnowledgeIInv'
  BY KnowledgeNext DEF Shared
<1> QED
  BY <1>1, KnowledgeInit, PTL DEF Spec

\* For any candidates, budget and order of the two sources: the merge is within the
\* budget, drops only what does not fit beside what is stronger, is led by the strongest
\* that fits though trusted as the strongest of all, is empty only if nothing fits, and is
\* silenced by no failure.  The references of a prompt stand where they were asked for, in
\* order and up to the first repeat, which hides itself and all after it.  And from its
\* first text on a response has had no more shots than it is charged with, exactly as
\* many if the output loop saw it begin (merge_candidates, resolve_reference_conditioning,
\* process_reference_text, MultiShotGate).
THEOREM PromptIsSoundHolds == Spec => []PromptIsSound
<1>1. KnowledgeIInv => PromptIsSound
  BY MergedFact, ResolvedFact, HistoryIsSoundFact DEF KnowledgeIInv, PromptIsSound, MergeIsSound
<1> QED
  BY <1>1, SpecKnowledge, PTL

\* However conversations commit, ask, close and open beside each other, and however often
\* the server restarts: what is recalled is of the conversation that asks and the last it
\* told, one fact of a thing; the episodes are its own, salient and within the limit; and
\* the window of turns is the longest end within both limits (MemoryStore,
\* MemoryCognitiveService.handle, WorkingMemory.add_turn).
THEOREM MemoryIsSoundHolds == Spec => []MemoryIsSound
<1>1. KnowledgeIInv => MemoryIsSound
  BY DEF KnowledgeIInv, MemoryIInv, WindowIInv, MemoryIsSound
<1> QED
  BY <1>1, SpecKnowledge, PTL

===============================================================================
