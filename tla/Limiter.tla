------------------------------ MODULE Limiter ------------------------------
(***************************************************************************)
(* loader/streams/limiter: the quota of streams the server allows at once. *)
(* WaitAllow takes a slot or sleeps on a condition variable; Release gives *)
(* the slot back under the mutex, unlocks, and only then signals (its two  *)
(* defers run in that order), so a newcomer can take the slot between the  *)
(* two and the signal wakes somebody who finds nothing.                    *)
(***************************************************************************)
EXTENDS Naturals, FiniteSets

CONSTANTS Callers,   \* goroutines that may call WaitAllow
          Quota,     \* the limit; 0 is served by noopLimiter instead
          Releasers  \* goroutines that may be inside Release at once

ASSUME QuotaAssumption == Quota \in Nat \ {0}
ASSUME ReleasersAssumption == Releasers \in Nat \ {0}
ASSUME CallersAssumption == IsFiniteSet(Callers)

VARIABLES quota,     \* l.quota
          at,        \* where each goroutine is in WaitAllow
          signals,   \* Releases that have unlocked and not signalled yet
          held       \* history: slots taken and not given back

limiterVars == <<quota, at, signals, held>>

At(label) == {t \in Callers : at[t] = label}

LimiterInit == /\ quota = Quota
               /\ at = [t \in Callers |-> "idle"]
               /\ signals = 0
               /\ held = 0

CallWaitAllow(t) ==
  /\ at[t] = "idle"
  /\ at' = [at EXCEPT ![t] = "check"]
  /\ UNCHANGED <<quota, signals, held>>

Sleep(t) ==
  /\ at[t] = "check"
  /\ quota = 0
  /\ at' = [at EXCEPT ![t] = "parked"]
  /\ UNCHANGED <<quota, signals, held>>

Allow(t) ==
  /\ at[t] = "check"
  /\ quota # 0
  /\ quota' = quota - 1
  /\ held' = held + 1
  /\ at' = [at EXCEPT ![t] = "idle"]
  /\ UNCHANGED signals

(* Mutants of Release: no signal; the slot is given back twice.            *)
ReleaseSilent ==
  /\ held > 0
  /\ quota' = quota + 1
  /\ held' = held - 1
  /\ UNCHANGED <<at, signals>>

ReleaseTwice ==
  /\ held > 0
  /\ signals < Releasers
  /\ quota' = quota + 2
  /\ held' = held - 1
  /\ signals' = signals + 1
  /\ UNCHANGED at

(* The receiver gives back a slot that some stream holds.                  *)
Release ==
  /\ held > 0
  /\ signals < Releasers
  /\ quota' = quota + 1
  /\ held' = held - 1
  /\ signals' = signals + 1
  /\ UNCHANGED at

(* cond.Signal wakes one sleeper; with nobody asleep it does nothing.      *)
Signal ==
  /\ signals > 0
  /\ signals' = signals - 1
  /\ \/ At("parked") = {} /\ UNCHANGED at
     \/ \E t \in At("parked") : at' = [at EXCEPT ![t] = "check"]
  /\ UNCHANGED <<quota, held>>

LimiterNext == \/ \E t \in Callers : CallWaitAllow(t) \/ Sleep(t) \/ Allow(t)
               \/ Release
               \/ Signal

LimiterSpec == LimiterInit /\ [][LimiterNext]_limiterVars

LimiterTypeOK == /\ quota \in 0 .. Quota
                 /\ at \in [Callers -> {"idle", "check", "parked"}]
                 /\ signals \in 0 .. Releasers
                 /\ held \in 0 .. Quota

(* As long as slots are free and goroutines sleep, enough goroutines are   *)
(* awake or about to be woken to take them.                                *)
NoLostSignal ==
  \/ quota <= Cardinality(At("check")) + signals
  \/ At("parked") = {}

(* No free slot is slept through: Release signals once for each slot,      *)
(* after unlocking, and whoever the signal wakes, nobody is forgotten.     *)
LimiterInv == LimiterTypeOK /\ NoLostSignal

(* A free slot and a sleeping goroutine do not last: someone takes it.     *)
SlotTaken == (quota > 0 /\ At("parked") # {}) ~> (quota = 0 \/ At("parked") = {})

Slots == INSTANCE Credit WITH avail <- quota, open <- TRUE,
                              Amounts <- {1}, Balances <- {Quota}

(* The limiter is a credit counter with amount 1 that leaves no caller     *)
(* asleep beside a free slot: WaitAllow takes one slot, and Release gives  *)
(* one.                                                                    *)
LimiterServes == Slots!Spec /\ SlotTaken
=============================================================================
