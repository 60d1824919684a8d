---------------------------- MODULE TimeoutQueue ----------------------------
(***************************************************************************)
(* loader/timeout_queue.go: the ids of streams in the order of their       *)
(* deadlines, which is that of Add.  A goroutine of Loader.Run takes them  *)
(* with Next and ends their streams; Shutdown calls Run again, so there    *)
(* may be two.  Close does not take the mutex, and Next keeps it when it   *)
(* finds the queue empty and closed.                                       *)
(***************************************************************************)
EXTENDS Integers, Sequences, FiniteSets

CONSTANTS Readers,   \* the goroutines of Loader.Run
          MaxAdds    \* bound on the ids added

ASSUME AddsAssumption == MaxAdds \in Nat
ASSUME ReadersAssumption == IsFiniteSet(Readers)

VARIABLES queue,     \* q.queue: the ids are numbered as they are added
          locked,    \* q.cond.L is taken
          next,      \* where each reader is in Next
          done,      \* q.done is closed
          adds,      \* ids added
          unheard,   \* Add and Close that have not signalled yet
          taken      \* history: the ids Next has taken, in order

queueVars == <<queue, locked, next, done, adds, unheard, taken>>

ReadersAt(labels) == {r \in Readers : next[r] \in labels}

QueueInit ==
  /\ queue = << >> /\ locked = FALSE
  /\ next = [r \in Readers |-> "call"]
  /\ done = FALSE /\ adds = 0 /\ unheard = 0 /\ taken = << >>

Goes(r, label) == next' = [next EXCEPT ![r] = label]

(* Mutant of AddItem: a signal only for the first item.                    *)
AddItemOnce ==
  /\ ~ locked /\ adds < MaxAdds
  /\ adds' = adds + 1
  /\ queue' = Append(queue, adds')
  /\ unheard' = IF queue = << >> THEN unheard + 1 ELSE unheard
  /\ UNCHANGED <<locked, next, done, taken>>

(* Add, up to Unlock.                                                      *)
AddItem ==
  /\ ~ locked /\ adds < MaxAdds
  /\ adds' = adds + 1
  /\ queue' = Append(queue, adds')
  /\ unheard' = unheard + 1
  /\ UNCHANGED <<locked, next, done, taken>>

(* cond.Signal at the end of Add and of Close.                             *)
SignalReader ==
  /\ unheard > 0 /\ unheard' = unheard - 1
  /\ \/ ReadersAt({"asleep"}) = {} /\ UNCHANGED next
     \/ \E r \in ReadersAt({"asleep"}) : Goes(r, "call")
  /\ UNCHANGED <<queue, locked, done, adds, taken>>

(* Lock: at the beginning of Next, and after a wake-up.                    *)
LockQueue(r) ==
  /\ next[r] = "call" /\ ~ locked
  /\ locked' = TRUE /\ Goes(r, "look")
  /\ UNCHANGED <<queue, done, adds, unheard, taken>>

(* Under the mutex: take an item and unlock, or return with the mutex      *)
(* still held, or go on to sleep.                                          *)
TakeItem(r) ==
  /\ next[r] = "look" /\ queue # << >>
  /\ taken' = Append(taken, Head(queue)) /\ queue' = Tail(queue)
  /\ locked' = FALSE /\ Goes(r, "deadline")
  /\ UNCHANGED <<done, adds, unheard>>

QueueClosed(r) ==
  /\ next[r] = "look" /\ queue = << >> /\ done
  /\ Goes(r, "returned")
  /\ UNCHANGED <<queue, locked, done, adds, unheard, taken>>

QueueEmpty(r) ==
  /\ next[r] = "look" /\ queue = << >> /\ ~ done
  /\ Goes(r, "wait")
  /\ UNCHANGED <<queue, locked, done, adds, unheard, taken>>

(* cond.Wait.  A Close since QueueEmpty has signalled to nobody.           *)
SleepReader(r) ==
  /\ next[r] = "wait"
  /\ locked' = FALSE /\ Goes(r, "asleep")
  /\ UNCHANGED <<queue, done, adds, unheard, taken>>

(* The deadline passes and the stream is ended, if it is still there; or   *)
(* the queue is closed.                                                    *)
Deadline(r) ==
  /\ next[r] = "deadline"
  /\ Goes(r, "call") \/ (done /\ Goes(r, "returned"))
  /\ UNCHANGED <<queue, locked, done, adds, unheard, taken>>

CloseQueue ==
  /\ ~ done /\ done' = TRUE
  /\ unheard' = unheard + 1
  /\ UNCHANGED <<queue, locked, next, adds, taken>>

QueueNext ==
  \/ AddItem \/ SignalReader \/ CloseQueue
  \/ \E r \in Readers : \/ LockQueue(r) \/ TakeItem(r) \/ QueueClosed(r) \/ QueueEmpty(r)
                        \/ SleepReader(r) \/ Deadline(r)

QueueSpec == QueueInit /\ [][QueueNext]_queueVars

(* The ids are taken in the order in which they were added, each once, and *)
(* as long as the queue has some and readers sleep, enough of the others   *)
(* are awake or about to be woken: no Add goes unheard, though Signal is   *)
(* called after Unlock and wakes one reader.                               *)
QueueInv ==
  /\ taken \o queue = [k \in 1 .. adds |-> k]
  /\ Cardinality(ReadersAt({"look", "wait"})) <= 1
  /\ \/ Len(queue) <= Cardinality(ReadersAt({"call", "look"})) + unheard
     \/ ReadersAt({"asleep"}) = {}
=============================================================================
