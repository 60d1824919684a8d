---------------------------- MODULE WaitingProofs ----------------------------
(***************************************************************************)
(* The limiter, the timeout queue and the send window for any number of    *)
(* goroutines, slots, ids, frame lengths and window sizes: no signal is    *)
(* lost, no slot is given twice, the ids leave the queue in their order,   *)
(* the window is exact, and limiter and window implement a credit counter. *)
(***************************************************************************)
EXTENDS Waiting, FiniteSetTheorems, SequenceTheorems, TLAPS

-----------------------------------------------------------------------------
(* The limiter.                                                            *)

(* The inductive invariant of the limiter.  That a slot is either free or  *)
(* held bounds the quota, which Release only increments.                   *)
LimiterIInv == LimiterInv /\ quota + held = Quota

(* The goroutines at a label are finitely many.                            *)
LEMMA AtFinite ==
  ASSUME NEW l
  PROVE  IsFiniteSet(At(l)) /\ Cardinality(At(l)) \in Nat
<1>1. At(l) \in SUBSET Callers
  BY DEF At
<1> QED
  BY <1>1, CallersAssumption, FS_Subset, FS_CardinalityType

(* Nobody has called WaitAllow and all slots are free.                     *)
LEMMA LimiterInitIInv == LimiterInit => LimiterIInv
<1> SUFFICES ASSUME LimiterInit PROVE LimiterIInv
  OBVIOUS
<1>1. LimiterTypeOK /\ quota + held = Quota
  BY QuotaAssumption, ReleasersAssumption DEF LimiterInit, LimiterTypeOK
<1>2. NoLostSignal
  BY DEF LimiterInit, NoLostSignal, At
<1> QED
  BY <1>1, <1>2 DEF LimiterIInv, LimiterInv

(* Every step in WaitAllow and Release keeps the invariant.                *)
LEMMA LimiterStepIInv == LimiterIInv /\ [LimiterNext]_limiterVars => LimiterIInv'
<1> SUFFICES ASSUME LimiterIInv, [LimiterNext]_limiterVars PROVE LimiterIInv'
  OBVIOUS
<1> USE QuotaAssumption, ReleasersAssumption DEF LimiterIInv, LimiterInv
<1> DEFINE check == Cardinality(At("check"))
<1>0. IsFiniteSet(At("check")) /\ check \in Nat
  BY AtFinite
<1>1. ASSUME NEW t \in Callers, CallWaitAllow(t) PROVE LimiterIInv'
  <2>1. LimiterTypeOK' /\ (quota + held = Quota)'
    BY <1>1 DEF CallWaitAllow, LimiterTypeOK
  <2>2. /\ At("check")' = At("check") \cup {t} /\ t \notin At("check")
        /\ At("parked")' = At("parked")
    BY <1>1 DEF CallWaitAllow, At, LimiterTypeOK
  <2>3. check' = check + 1
    BY <1>0, <2>2, FS_AddElement
  <2>4. NoLostSignal'
    BY <1>0, <1>1, <2>2, <2>3 DEF CallWaitAllow, NoLostSignal, LimiterTypeOK
  <2> QED
    BY <2>1, <2>4
<1>2. ASSUME NEW t \in Callers, Sleep(t) PROVE LimiterIInv'
  <2>1. LimiterTypeOK' /\ (quota + held = Quota)'
    BY <1>2 DEF Sleep, LimiterTypeOK
  <2>2. At("check")' = At("check") \ {t}
    BY <1>2 DEF Sleep, At, LimiterTypeOK
  <2>3. check' \in Nat
    BY <1>0, <2>2, FS_RemoveElement, FS_CardinalityType
  <2>4. NoLostSignal'
    BY <1>2, <2>1, <2>3 DEF Sleep, NoLostSignal, LimiterTypeOK
  <2> QED
    BY <2>1, <2>4
<1>3. ASSUME NEW t \in Callers, Allow(t) PROVE LimiterIInv'
  <2>1. LimiterTypeOK' /\ (quota + held = Quota)'
    BY <1>3 DEF Allow, LimiterTypeOK
  <2>2. /\ At("check")' = At("check") \ {t} /\ t \in At("check")
        /\ At("parked")' = At("parked")
    BY <1>3 DEF Allow, At, LimiterTypeOK
  <2>3. check' = check - 1
    BY <1>0, <2>2, FS_RemoveElement
  <2>4. NoLostSignal'
    BY <1>0, <1>3, <2>2, <2>3 DEF Allow, NoLostSignal, LimiterTypeOK
  <2> QED
    BY <2>1, <2>4
<1>4. ASSUME Release PROVE LimiterIInv'
  <2>1. LimiterTypeOK' /\ (quota + held = Quota)'
    BY <1>4 DEF Release, LimiterTypeOK
  <2>2. At("check")' = At("check") /\ At("parked")' = At("parked")
    BY <1>4 DEF Release, At
  <2>3. check' = check
    BY <2>2
  <2>4. NoLostSignal'
    BY <1>0, <1>4, <2>2, <2>3 DEF Release, NoLostSignal, LimiterTypeOK
  <2> QED
    BY <2>1, <2>4
<1>5. ASSUME Signal, At("parked") = {}, UNCHANGED at PROVE LimiterIInv'
  <2>1. LimiterTypeOK' /\ (quota + held = Quota)'
    BY <1>5 DEF Signal, LimiterTypeOK
  <2>2. At("parked")' = {}
    BY <1>5 DEF At
  <2> QED
    BY <2>1, <2>2 DEF NoLostSignal
<1>6. ASSUME Signal, NEW t \in At("parked"), at' = [at EXCEPT ![t] = "check"]
      PROVE  LimiterIInv'
  <2>0. t \in Callers /\ at[t] = "parked"
    BY DEF At
  <2>1. LimiterTypeOK' /\ (quota + held = Quota)'
    BY <1>6, <2>0 DEF Signal, LimiterTypeOK
  <2>2. At("check")' = At("check") \cup {t} /\ t \notin At("check")
    BY <1>6, <2>0 DEF At, LimiterTypeOK
  <2>3. check' = check + 1
    BY <1>0, <2>2, FS_AddElement
  <2>4. quota <= check + signals
    BY <1>6 DEF NoLostSignal
  <2>5. NoLostSignal'
    BY <1>0, <1>6, <2>3, <2>4 DEF Signal, NoLostSignal, LimiterTypeOK
  <2> QED
    BY <2>1, <2>5
<1>7. ASSUME UNCHANGED limiterVars PROVE LimiterIInv'
  BY <1>7 DEF limiterVars, LimiterTypeOK, NoLostSignal, At
<1> QED
  BY <1>1, <1>2, <1>3, <1>4, <1>5, <1>6, <1>7 DEF LimiterNext, Signal

(* The invariant of the limiter holds in every behaviour.                  *)
LEMMA LimiterInvariance == LimiterSpec => []LimiterIInv
<1> QED
  BY LimiterInitIInv, LimiterStepIInv, PTL DEF LimiterSpec

(* No free slot is slept through, for any number of goroutines, any quota  *)
(* and any number of Releases between their Unlock and their Signal; and   *)
(* no more than Quota slots are ever out.                                  *)
THEOREM LimiterSafe == LimiterSpec => []LimiterInv
<1>1. LimiterIInv => LimiterInv
  BY DEF LimiterIInv
<1> QED
  BY LimiterInvariance, <1>1, PTL

(* Every step of the limiter takes a slot, gives one back or does neither. *)
LEMMA LimiterStepRefines ==
  LimiterIInv /\ [LimiterNext]_limiterVars => [Slots!Next]_<<quota, TRUE>>
<1> SUFFICES ASSUME LimiterIInv, [LimiterNext]_limiterVars
             PROVE  Slots!Next \/ UNCHANGED <<quota, TRUE>>
  OBVIOUS
<1>1. ASSUME NEW t \in Callers, CallWaitAllow(t) \/ Sleep(t) PROVE UNCHANGED quota
  BY <1>1 DEF CallWaitAllow, Sleep
<1>2. ASSUME NEW t \in Callers, Allow(t) PROVE Slots!Next
  <2>1. Slots!Take(1)
    BY <1>2 DEF Allow, Slots!Take, LimiterIInv, LimiterInv, LimiterTypeOK
  <2> QED
    BY <2>1 DEF Slots!Next
<1>3. ASSUME Release PROVE Slots!Next
  <2>1. Slots!Give(1)
    BY <1>3 DEF Release, Slots!Give
  <2> QED
    BY <2>1 DEF Slots!Next
<1>4. ASSUME Signal \/ UNCHANGED limiterVars PROVE UNCHANGED quota
  BY <1>4 DEF Signal, limiterVars
<1> QED
  BY <1>1, <1>2, <1>3, <1>4 DEF LimiterNext

(* The limiter implements the credit counter: WaitAllow never takes a slot *)
(* that is not free, and Release gives back exactly one.                   *)
THEOREM LimiterRefinement == LimiterSpec => Slots!Spec
<1>1. LimiterInit => Slots!Init
  BY DEF LimiterInit, Slots!Init
<1> QED
  BY <1>1, LimiterInvariance, LimiterStepRefines, PTL DEF LimiterSpec, Slots!Spec

-----------------------------------------------------------------------------
(* The timeout queue.                                                      *)

QueueTypeOK ==
  /\ queue \in Seq(Nat) /\ taken \in Seq(Nat) /\ adds \in Nat /\ unheard \in Nat
  /\ next \in [Readers -> {"call", "look", "wait", "asleep", "deadline", "returned"}]
  /\ locked \in BOOLEAN /\ done \in BOOLEAN

Inside == {"look", "wait"}

(* Who is between Lock and Unlock or Wait holds the mutex, alone.  The     *)
(* mutex may be held by nobody: Next returns without unlocking it.         *)
MutexOwned ==
  /\ \A r, s \in Readers : next[r] \in Inside /\ next[s] \in Inside => r = s
  /\ \A r \in Readers : next[r] \in Inside => locked

(* Between the look at the queue and Wait nothing is added: Add needs the  *)
(* mutex.  (Close does not.)                                               *)
WaitIsEmpty == \A r \in Readers : next[r] = "wait" => queue = << >>

(* The two parts of QueueInv that are inductive.                           *)
InOrder == taken \o queue = [k \in 1 .. adds |-> k]

NoAddUnheard ==
  \/ Len(queue) <= Cardinality(ReadersAt({"call", "look"})) + unheard
  \/ ReadersAt({"asleep"}) = {}

(* The inductive invariant of the queue.                                   *)
QueueIInv == QueueTypeOK /\ MutexOwned /\ WaitIsEmpty /\ InOrder /\ NoAddUnheard

(* Readers at given labels are finitely many.                              *)
LEMMA ReadersFinite ==
  ASSUME NEW L
  PROVE  IsFiniteSet(ReadersAt(L)) /\ Cardinality(ReadersAt(L)) \in Nat
<1>1. ReadersAt(L) \in SUBSET Readers
  BY DEF ReadersAt
<1> QED
  BY <1>1, ReadersAssumption, FS_Subset, FS_CardinalityType

(* The empty queue: nobody sleeps and nobody holds the mutex.              *)
LEMMA QueueInitIInv == QueueInit => QueueIInv
<1> SUFFICES ASSUME QueueInit PROVE QueueIInv
  OBVIOUS
<1>0. QueueTypeOK
  BY EmptySeq DEF QueueInit, QueueTypeOK
<1>1. MutexOwned /\ WaitIsEmpty
  BY DEF QueueInit, MutexOwned, WaitIsEmpty, Inside
<1>2. InOrder
  BY DEF QueueInit, InOrder
<1>3. NoAddUnheard
  BY DEF QueueInit, NoAddUnheard, ReadersAt
<1> QED
  BY <1>0, <1>1, <1>2, <1>3 DEF QueueIInv

(* Appending to the second of two sequences appends to both.               *)
LEMMA AppendConcat ==
  ASSUME NEW S, NEW s \in Seq(S), NEW t \in Seq(S), NEW e \in S
  PROVE  s \o Append(t, e) = Append(s \o t, e)
<1>1. Append(t, e) = t \o <<e>> /\ <<e>> \in Seq(S) /\ s \o t \in Seq(S)
  BY AppendIsConcat, ConcatProperties
<1>2. Append(s \o t, e) = (s \o t) \o <<e>>
  BY <1>1, AppendIsConcat
<1> QED
  BY <1>1, <1>2, ConcatAssociative

(* An id added is the next number, and is behind those that wait.          *)
LEMMA AddInOrder == QueueIInv /\ AddItem => InOrder'
<1> SUFFICES ASSUME QueueIInv, AddItem PROVE InOrder'
  OBVIOUS
<1>1. queue \in Seq(Nat) /\ taken \in Seq(Nat) /\ adds \in Nat /\ adds + 1 \in Nat
  BY DEF QueueIInv, QueueTypeOK
<1>2. taken \o Append(queue, adds + 1) = Append(taken \o queue, adds + 1)
  BY <1>1, AppendConcat
<1>3. Append([k \in 1 .. adds |-> k], adds + 1) = [k \in 1 .. adds + 1 |-> k]
  BY <1>1
<1> QED
  BY <1>2, <1>3 DEF QueueIInv, AddItem, InOrder

(* The id at the head of the queue goes to the end of those taken.         *)
LEMMA MoveHead ==
  ASSUME NEW S, NEW s \in Seq(S), NEW t \in Seq(S), t # << >>
  PROVE  Append(s, Head(t)) \o Tail(t) = s \o t
<1> DEFINE a == Append(s, Head(t))
<1>1. /\ Head(t) \in S /\ Tail(t) \in Seq(S) /\ Len(Tail(t)) = Len(t) - 1
      /\ \A i \in 1 .. Len(Tail(t)) : Tail(t)[i] = t[i + 1]
  BY HeadTailProperties
<1>2. /\ a \in Seq(S) /\ Len(a) = Len(s) + 1
      /\ \A i \in 1 .. Len(s) : a[i] = s[i]
      /\ a[Len(s) + 1] = Head(t)
  BY <1>1, AppendProperties
<1>3. /\ a \o Tail(t) \in Seq(S) /\ Len(a \o Tail(t)) = Len(a) + Len(Tail(t))
      /\ \A i \in 1 .. Len(a) + Len(Tail(t)) :
           (a \o Tail(t))[i] = IF i <= Len(a) THEN a[i] ELSE Tail(t)[i - Len(a)]
  BY <1>1, <1>2, ConcatProperties
<1>4. /\ s \o t \in Seq(S) /\ Len(s \o t) = Len(s) + Len(t)
      /\ \A i \in 1 .. Len(s) + Len(t) :
           (s \o t)[i] = IF i <= Len(s) THEN s[i] ELSE t[i - Len(s)]
  BY ConcatProperties
<1>5. Len(s) \in Nat /\ Len(t) \in Nat /\ Len(t) > 0 /\ Head(t) = t[1]
  BY LenProperties, EmptySeq
<1>6. \A i \in 1 .. Len(s) + Len(t) : (a \o Tail(t))[i] = (s \o t)[i]
  <2> SUFFICES ASSUME NEW i \in 1 .. Len(s) + Len(t)
               PROVE  (a \o Tail(t))[i] = (s \o t)[i]
    OBVIOUS
  <2>1. CASE i <= Len(s)
    BY <1>1, <1>2, <1>3, <1>4, <1>5, <2>1
  <2>2. CASE i = Len(s) + 1
    BY <1>1, <1>2, <1>3, <1>4, <1>5, <2>2
  <2>3. CASE i > Len(s) + 1
    BY <1>1, <1>2, <1>3, <1>4, <1>5, <2>3
  <2> QED
    BY <1>5, <2>1, <2>2, <2>3
<1>7. Len(a \o Tail(t)) = Len(s \o t)
  BY <1>1, <1>2, <1>3, <1>4, <1>5
<1> QED
  BY <1>3, <1>4, <1>6, <1>7, SeqEqual

(* Every step of Add, Close and Next keeps the invariant.                  *)
LEMMA QueueStepIInv == QueueIInv /\ [QueueNext]_queueVars => QueueIInv'
<1> SUFFICES ASSUME QueueIInv, [QueueNext]_queueVars PROVE QueueIInv'
  OBVIOUS
<1> USE AddsAssumption DEF QueueIInv
<1> DEFINE awake == Cardinality(ReadersAt({"call", "look"}))
<1>0. IsFiniteSet(ReadersAt({"call", "look"})) /\ awake \in Nat /\ Len(queue) \in Nat
  BY ReadersFinite DEF QueueTypeOK
<1>1. ASSUME AddItem PROVE QueueIInv'
  <2>1. QueueTypeOK' /\ MutexOwned'
    BY <1>1 DEF AddItem, QueueTypeOK, MutexOwned
  <2>2. WaitIsEmpty'
    BY <1>1 DEF AddItem, WaitIsEmpty, MutexOwned, Inside
  <2>3. Len(queue') = Len(queue) + 1
    BY <1>1 DEF AddItem, QueueTypeOK
  <2>4. /\ ReadersAt({"call", "look"})' = ReadersAt({"call", "look"})
        /\ ReadersAt({"asleep"})' = ReadersAt({"asleep"})
    BY <1>1 DEF AddItem, ReadersAt
  <2>5. awake' = awake
    BY <2>4
  <2>6. NoAddUnheard'
    BY <1>0, <1>1, <2>3, <2>4, <2>5 DEF AddItem, NoAddUnheard, QueueTypeOK
  <2> QED
    BY <1>1, <2>1, <2>2, <2>6, AddInOrder
<1>2. ASSUME SignalReader PROVE QueueIInv'
  <2>1. CASE ReadersAt({"asleep"}) = {} /\ UNCHANGED next
    <3>1. QueueTypeOK' /\ MutexOwned' /\ WaitIsEmpty' /\ InOrder'
      BY <1>2, <2>1 DEF SignalReader, QueueTypeOK, MutexOwned, WaitIsEmpty, InOrder
    <3>2. ReadersAt({"asleep"})' = {}
      BY <2>1 DEF ReadersAt
    <3> QED
      BY <3>1, <3>2 DEF NoAddUnheard
  <2>2. ASSUME NEW r \in ReadersAt({"asleep"}), Goes(r, "call") PROVE QueueIInv'
    <3>0. r \in Readers /\ next[r] = "asleep"
      BY DEF ReadersAt
    <3>1. QueueTypeOK' /\ InOrder'
      BY <1>2, <2>2, <3>0 DEF SignalReader, QueueTypeOK, InOrder, Goes
    <3>2. MutexOwned' /\ WaitIsEmpty'
      BY <1>2, <2>2, <3>0 DEF SignalReader, QueueTypeOK, MutexOwned, WaitIsEmpty, Goes, Inside
    <3>3. /\ ReadersAt({"call", "look"})' = ReadersAt({"call", "look"}) \cup {r}
          /\ r \notin ReadersAt({"call", "look"})
      BY <2>2, <3>0 DEF ReadersAt, Goes, QueueTypeOK
    <3>4. awake' = awake + 1
      BY <1>0, <3>3, FS_AddElement
    <3>5. Len(queue) <= awake + unheard
      BY <2>2 DEF NoAddUnheard
    <3>6. NoAddUnheard'
      BY <1>0, <1>2, <3>4, <3>5 DEF SignalReader, NoAddUnheard, QueueTypeOK
    <3> QED
      BY <3>1, <3>2, <3>6
  <2> QED
    BY <1>2, <2>1, <2>2 DEF SignalReader
<1>3. ASSUME CloseQueue PROVE QueueIInv'
  <2>1. QueueTypeOK' /\ MutexOwned' /\ WaitIsEmpty' /\ InOrder'
    BY <1>3 DEF CloseQueue, QueueTypeOK, MutexOwned, WaitIsEmpty, InOrder
  <2>2. NoAddUnheard'
    BY <1>0, <1>3 DEF CloseQueue, NoAddUnheard, ReadersAt, QueueTypeOK
  <2> QED
    BY <2>1, <2>2
<1>4. ASSUME NEW r \in Readers, LockQueue(r) PROVE QueueIInv'
  <2>1. QueueTypeOK' /\ InOrder'
    BY <1>4 DEF LockQueue, QueueTypeOK, InOrder, Goes
  <2>2. MutexOwned' /\ WaitIsEmpty'
    BY <1>4 DEF LockQueue, QueueTypeOK, MutexOwned, WaitIsEmpty, Goes, Inside
  <2>3. /\ ReadersAt({"call", "look"})' = ReadersAt({"call", "look"})
        /\ ReadersAt({"asleep"})' = ReadersAt({"asleep"})
    BY <1>4 DEF LockQueue, ReadersAt, Goes, QueueTypeOK
  <2>4. NoAddUnheard'
    BY <1>0, <1>4, <2>3 DEF LockQueue, NoAddUnheard
  <2> QED
    BY <2>1, <2>2, <2>4
<1>5. ASSUME NEW r \in Readers, TakeItem(r) PROVE QueueIInv'
  <2>0. /\ Head(queue) \in Nat /\ Tail(queue) \in Seq(Nat) /\ Len(Tail(queue)) = Len(queue) - 1
    BY <1>5, HeadTailProperties DEF TakeItem, QueueTypeOK
  <2>1. QueueTypeOK'
    <3>1. Append(taken, Head(queue)) \in Seq(Nat)
      BY <2>0, AppendProperties DEF QueueTypeOK
    <3> QED
      BY <1>5, <2>0, <3>1 DEF TakeItem, QueueTypeOK, Goes
  <2>2. InOrder'
    <3>1. Append(taken, Head(queue)) \o Tail(queue) = taken \o queue
      BY <1>5, MoveHead DEF TakeItem, QueueTypeOK
    <3> QED
      BY <1>5, <3>1 DEF TakeItem, InOrder
  <2>3. \A s \in Readers : next'[s] \notin Inside
    BY <1>5 DEF TakeItem, QueueTypeOK, MutexOwned, Goes, Inside
  <2>4. MutexOwned' /\ WaitIsEmpty'
    BY <2>3 DEF MutexOwned, WaitIsEmpty, Inside
  <2>5. /\ ReadersAt({"call", "look"})' = ReadersAt({"call", "look"}) \ {r}
        /\ r \in ReadersAt({"call", "look"})
        /\ ReadersAt({"asleep"})' = ReadersAt({"asleep"})
    BY <1>5 DEF TakeItem, ReadersAt, Goes, QueueTypeOK
  <2>6. awake' = awake - 1
    BY <1>0, <2>5, FS_RemoveElement
  <2>7. NoAddUnheard'
    BY <1>0, <1>5, <2>0, <2>5, <2>6 DEF TakeItem, NoAddUnheard, QueueTypeOK
  <2> QED
    BY <2>1, <2>2, <2>4, <2>7
<1>6. ASSUME NEW r \in Readers, QueueClosed(r) \/ QueueEmpty(r) \/ SleepReader(r)
      PROVE  QueueIInv'
  <2>1. QueueTypeOK' /\ InOrder'
    BY <1>6 DEF QueueClosed, QueueEmpty, SleepReader, QueueTypeOK, InOrder, Goes
  <2>2. MutexOwned' /\ WaitIsEmpty'
    BY <1>6 DEF QueueClosed, QueueEmpty, SleepReader, QueueTypeOK, MutexOwned, WaitIsEmpty, Goes, Inside
  <2>3. queue' = << >> /\ unheard' \in Nat
    BY <1>6 DEF QueueClosed, QueueEmpty, SleepReader, WaitIsEmpty, QueueTypeOK
  <2>4. awake' \in Nat
    <3>1. ReadersAt({"call", "look"})' \in SUBSET Readers
      BY DEF ReadersAt
    <3> QED
      BY <3>1, ReadersAssumption, FS_Subset, FS_CardinalityType
  <2>5. NoAddUnheard'
    BY <2>3, <2>4 DEF NoAddUnheard
  <2> QED
    BY <2>1, <2>2, <2>5
<1>7. ASSUME NEW r \in Readers, Deadline(r) PROVE QueueIInv'
  <2>1. QueueTypeOK' /\ InOrder'
    BY <1>7 DEF Deadline, QueueTypeOK, InOrder, Goes
  <2>2. MutexOwned' /\ WaitIsEmpty'
    BY <1>7 DEF Deadline, QueueTypeOK, MutexOwned, WaitIsEmpty, Goes, Inside
  <2>3. /\ ReadersAt({"call", "look"})' \in SUBSET Readers
        /\ ReadersAt({"call", "look"}) \subseteq ReadersAt({"call", "look"})'
        /\ ReadersAt({"asleep"})' = ReadersAt({"asleep"})
    BY <1>7 DEF Deadline, ReadersAt, Goes, QueueTypeOK
  <2>4. awake <= awake' /\ awake' \in Nat
    BY <2>3, ReadersAssumption, FS_Subset, FS_CardinalityType
  <2>5. NoAddUnheard'
    BY <1>0, <1>7, <2>3, <2>4 DEF Deadline, NoAddUnheard, QueueTypeOK
  <2> QED
    BY <2>1, <2>2, <2>5
<1>8. ASSUME UNCHANGED queueVars PROVE QueueIInv'
  BY <1>8 DEF queueVars, QueueTypeOK, MutexOwned, WaitIsEmpty, InOrder, NoAddUnheard, ReadersAt
<1> QED
  BY <1>1, <1>2, <1>3, <1>4, <1>5, <1>6, <1>7, <1>8 DEF QueueNext

(* At most one reader is between Lock and Unlock.                          *)
LEMMA OneInside == QueueIInv => Cardinality(ReadersAt({"look", "wait"})) <= 1
<1> SUFFICES ASSUME QueueIInv PROVE Cardinality(ReadersAt({"look", "wait"})) <= 1
  OBVIOUS
<1>1. CASE ReadersAt({"look", "wait"}) = {}
  BY <1>1, FS_EmptySet
<1>2. ASSUME NEW r \in ReadersAt({"look", "wait"})
      PROVE  Cardinality(ReadersAt({"look", "wait"})) <= 1
  <2>1. ReadersAt({"look", "wait"}) = {r}
    BY DEF QueueIInv, MutexOwned, ReadersAt, Inside
  <2>2. Cardinality({r}) = 1
    BY FS_Singleton
  <2> QED
    BY <2>1, <2>2
<1> QED
  BY <1>1, <1>2

(* For any number of readers and of ids added: the ids are taken in the    *)
(* order of their deadlines, each once, one reader at a time is in the     *)
(* critical section, and no Add is slept through, although Add signals     *)
(* after it has unlocked and Close never locks.                            *)
THEOREM QueueSafe == QueueSpec => []QueueInv
<1>1. QueueIInv => QueueInv
  BY OneInside DEF QueueIInv, QueueInv, InOrder, NoAddUnheard
<1> QED
  BY QueueInitIInv, QueueStepIInv, <1>1, PTL DEF QueueSpec

-----------------------------------------------------------------------------
(* The send window.                                                        *)

USE AmountsAssumption, WindowsAssumption, WidthAssumption

(* The uint32 arithmetic of fc.n: a value in range is its own remainder.   *)
LEMMA ModSmall ==
  ASSUME NEW x \in Int, 0 <= x, x < Modulus
  PROVE  x % Modulus = x
  BY SMTT(30)

(* Whatever is added to or taken from fc.n, the result is in range.        *)
LEMMA ModRange ==
  ASSUME NEW x \in Int
  PROVE  x % Modulus \in 0 .. Modulus - 1
  BY SMTT(30)

(* The inductive invariant.  NoLostWakeup alone is not inductive: Return   *)
(* shrinks the window and must not wake anyone, which needs n to stay a    *)
(* plain number, and that is WindowExact.                                  *)
IInv == TypeOK /\ NoLostWakeup /\ WindowExact

(* A new window is open, holds what was granted, and nobody waits.         *)
LEMMA InitIInv == Init => IInv
<1> SUFFICES ASSUME Init PROVE IInv
  OBVIOUS
<1> PICK w \in Windows : n = w /\ due = w
  BY DEF Init
<1>1. TypeOK
  BY DEF Init, TypeOK
<1>2. NoLostWakeup
  BY DEF Init, NoLostWakeup
<1>3. WindowExact
  BY DEF WindowExact
<1> QED
  BY <1>1, <1>2, <1>3 DEF IInv

(* After a broadcast nobody is parked, and nobody has left Wait.           *)
LEMMA BroadcastWakes ==
  ASSUME TypeOK, Broadcast
  PROVE  /\ pc' \in [Threads -> {"idle", "check", "parked"}]
         /\ \A t \in Threads : pc'[t] # "parked" /\ (pc'[t] = "idle" <=> pc[t] = "idle")
  BY DEF TypeOK, Broadcast

(* Every step of a goroutine or of the peer keeps the invariant.           *)
LEMMA StepIInv == IInv /\ [Next]_vars => IInv'
<1> SUFFICES ASSUME IInv, [Next]_vars PROVE IInv'
  OBVIOUS
<1> USE DEF IInv
<1>1. ASSUME NEW t \in Threads, NEW k \in Amounts, CallWait(t, k) PROVE IInv'
  <2>1. TypeOK'
    BY <1>1 DEF CallWait, TypeOK
  <2>2. NoLostWakeup'
    BY <1>1 DEF CallWait, NoLostWakeup, TypeOK
  <2>3. WindowExact'
    BY <1>1 DEF CallWait, WindowExact
  <2> QED
    BY <2>1, <2>2, <2>3
<1>2. ASSUME NEW t \in Threads, Park(t) PROVE IInv'
  <2>1. TypeOK'
    BY <1>2 DEF Park, TypeOK
  <2>2. NoLostWakeup'
    BY <1>2 DEF Park, NoLostWakeup, TypeOK
  <2>3. WindowExact'
    BY <1>2 DEF Park, WindowExact
  <2> QED
    BY <2>1, <2>2, <2>3
<1>3. ASSUME NEW t \in Threads, Return(t) PROVE IInv'
  <2>1. n \in 0 .. Modulus - 1 /\ need[t] \in Amounts /\ need[t] \in Nat
    BY <1>3 DEF Return, TypeOK
  <2>2. n' \in 0 .. Modulus - 1
    BY <1>3, <2>1, ModRange DEF Return
  <2>3. TypeOK'
    BY <1>3, <2>1, <2>2 DEF Return, TypeOK
  <2>4. ok => n' = n - need[t]
    BY <1>3, <2>1, ModSmall DEF Return
  <2>5. WindowExact'
    BY <1>3, <2>1, <2>4 DEF Return, WindowExact
  <2>6. NoLostWakeup'
    <3> SUFFICES ASSUME NEW u \in Threads, pc'[u] = "parked"
                 PROVE  ok' /\ need'[u] > n'
      BY DEF NoLostWakeup
    <3>1. u # t /\ pc[u] = "parked"
      BY <1>3 DEF Return, TypeOK
    <3>2. ok /\ need[u] > n /\ need[u] \in Nat
      BY <3>1 DEF NoLostWakeup, TypeOK
    <3>3. n' <= n
      BY <2>1, <2>4, <3>2
    <3>4. ok' = ok /\ need' = need
      BY <1>3 DEF Return
    <3> QED
      BY <2>1, <2>2, <3>2, <3>3, <3>4
  <2> QED
    BY <2>3, <2>5, <2>6
<1>4. ASSUME NEW k \in Amounts, Add(k) PROVE IInv'
  <2>1. n \in 0 .. Modulus - 1 /\ k \in Nat /\ due \in Int
    BY DEF TypeOK
  <2>2. n' \in 0 .. Modulus - 1
    BY <1>4, <2>1, ModRange DEF Add
  <2>3. TypeOK'
    BY <1>4, <2>1, <2>2, BroadcastWakes DEF Add, TypeOK
  <2>4. ok => n' = n + k
    BY <1>4, <2>1, ModSmall DEF Add
  <2>5. WindowExact'
    BY <1>4, <2>1, <2>4 DEF Add, WindowExact
  <2>6. NoLostWakeup'
    BY <1>4, BroadcastWakes DEF Add, NoLostWakeup
  <2> QED
    BY <2>3, <2>5, <2>6
<1>5. ASSUME NEW w \in Windows, Acquire(w) PROVE IInv'
  <2>1. w \in 0 .. MaxWindow /\ w \in 0 .. Modulus - 1
    OBVIOUS
  <2>2. TypeOK'
    BY <1>5, <2>1 DEF Acquire, Reset, TypeOK
  <2>3. NoLostWakeup'
    BY <1>5 DEF Acquire, Reset, NoLostWakeup, Waiting
  <2>4. WindowExact'
    BY <1>5, <2>1 DEF Acquire, Reset, WindowExact
  <2> QED
    BY <2>2, <2>3, <2>4
<1>6. ASSUME Disable PROVE IInv'
  <2>1. TypeOK'
    BY <1>6, BroadcastWakes DEF Disable, TypeOK, Waiting
  <2>2. NoLostWakeup'
    BY <1>6, BroadcastWakes DEF Disable, NoLostWakeup
  <2>3. WindowExact'
    BY <1>6 DEF Disable, WindowExact
  <2> QED
    BY <2>1, <2>2, <2>3
<1>7. ASSUME UNCHANGED vars PROVE IInv'
  BY <1>7 DEF vars, TypeOK, NoLostWakeup, WindowExact
<1> QED
  BY <1>1, <1>2, <1>3, <1>4, <1>5, <1>6, <1>7 DEF Next

(* The window is well typed, no wake-up is lost and the window is exact.   *)
LEMMA Invariance == Spec => []IInv
<1> QED
  BY InitIInv, StepIInv, PTL DEF Spec

(* No wake-up is lost, for any number of goroutines and any frame sizes:   *)
(* whoever sleeps in Wait sleeps on an open window that is too small.      *)
THEOREM WakeupSafe == Spec => []NoLostWakeup
<1>1. IInv => NoLostWakeup
  BY DEF IInv
<1> QED
  BY Invariance, <1>1, PTL

(* The window holds what the peer granted less what Wait let through, for  *)
(* every window size and every width of the counter above MaxWindow.       *)
THEOREM WindowSafe == Spec => []WindowExact
<1>1. IInv => WindowExact
  BY DEF IInv
<1> QED
  BY Invariance, <1>1, PTL

(* A new window is a new credit counter.                                   *)
LEMMA InitRefines == Init => Abstract!Init
<1> SUFFICES ASSUME Init PROVE Abstract!Init
  OBVIOUS
<1> PICK w \in Windows : n = w /\ ok = TRUE
  BY DEF Init
<1> QED
  BY DEF Abstract!Init

(* Each step of the window takes, gives, closes, opens or changes nothing. *)
LEMMA StepRefines ==
  IInv /\ [Next]_vars => [Abstract!Next]_<<IF ok THEN n ELSE 0, ok>>
<1> SUFFICES ASSUME IInv, [Next]_vars
             PROVE  Abstract!Next \/ UNCHANGED <<IF ok THEN n ELSE 0, ok>>
  OBVIOUS
<1> USE DEF IInv
<1>0. n \in Nat /\ ok \in BOOLEAN /\ n < Modulus
  BY DEF TypeOK
<1>1. ASSUME NEW t \in Threads, NEW k \in Amounts, CallWait(t, k)
      PROVE  UNCHANGED <<n, ok>>
  BY <1>1 DEF CallWait
<1>2. ASSUME NEW t \in Threads, Park(t) PROVE UNCHANGED <<n, ok>>
  BY <1>2 DEF Park
<1>3. ASSUME NEW t \in Threads, Return(t)
      PROVE  Abstract!Next \/ UNCHANGED <<IF ok THEN n ELSE 0, ok>>
  <2>1. need[t] \in Amounts /\ need[t] \in Nat
    BY <1>3 DEF Return, TypeOK
  <2>2. CASE ok
    <3>1. need[t] <= n /\ ok' = ok
      BY <1>0, <1>3, <2>1, <2>2 DEF Return
    <3>2. n' = n - need[t]
      BY <1>0, <1>3, <2>1, <3>1, ModSmall DEF Return
    <3>3. Abstract!Take(need[t])
      BY <2>2, <3>1, <3>2 DEF Abstract!Take
    <3> QED
      BY <2>1, <3>3 DEF Abstract!Next
  <2>3. CASE ~ ok
    BY <1>3, <2>3 DEF Return
  <2> QED
    BY <2>2, <2>3
<1>4. ASSUME NEW k \in Amounts, Add(k)
      PROVE  Abstract!Next \/ UNCHANGED <<IF ok THEN n ELSE 0, ok>>
  <2>1. CASE ok
    <3>1. n' = n + k /\ ok' = ok
      BY <1>0, <1>4, <2>1, ModSmall DEF Add
    <3>2. Abstract!Give(k)
      BY <2>1, <3>1 DEF Abstract!Give
    <3> QED
      BY <3>2 DEF Abstract!Next
  <2>2. CASE ~ ok
    BY <1>4, <2>2 DEF Add
  <2> QED
    BY <2>1, <2>2
<1>5. ASSUME NEW w \in Windows, Acquire(w) PROVE Abstract!Next
  <2>1. Abstract!Open(w)
    BY <1>5 DEF Acquire, Reset, Abstract!Open
  <2> QED
    BY <2>1 DEF Abstract!Next
<1>6. ASSUME Disable PROVE Abstract!Next
  <2>1. Abstract!Close
    BY <1>6 DEF Disable, Abstract!Close
  <2> QED
    BY <2>1 DEF Abstract!Next
<1>7. ASSUME UNCHANGED vars PROVE UNCHANGED <<n, ok>>
  BY <1>7 DEF vars
<1>8. UNCHANGED <<n, ok>> => UNCHANGED <<IF ok THEN n ELSE 0, ok>>
  OBVIOUS
<1> QED
  BY <1>1, <1>2, <1>3, <1>4, <1>5, <1>6, <1>7, <1>8 DEF Next

(* The send window implements the credit counter: no order of Wait, Add,   *)
(* Reset and Disable lets a goroutine take what the balance does not cover *)
(* or take anything from a disabled window.                                *)
THEOREM Refinement == Spec => ImplementsCredit
<1> QED
  BY Invariance, InitRefines, StepRefines, PTL DEF Spec, ImplementsCredit, Abstract!Spec
=============================================================================
