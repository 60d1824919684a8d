---------------------------- MODULE FlowControl ----------------------------
(***************************************************************************)
(* loader/flowcontrol: the send window of a stream or of the connection.   *)
(* Wait blocks the sending goroutine on a condition variable until the     *)
(* window covers a frame; Add and Disable broadcast; Reset re-arms the     *)
(* window of a pooled stream.  Every method body runs under the mutex, so  *)
(* one critical section is one step: Wait has one for each turn of its     *)
(* loop, since cond.Wait unlocks.                                          *)
(***************************************************************************)
EXTENDS Integers

CONSTANTS Threads,    \* goroutines that may call Wait
          Amounts,    \* frame lengths and WINDOW_UPDATE increments
          Windows,    \* windows a stream may start with
          MaxWindow,  \* the largest window a peer may grant (2^31 - 1)
          Modulus     \* fc.n is a uint32 (2^32)

ASSUME AmountsAssumption == Amounts \subseteq Nat \ {0}
ASSUME WindowsAssumption == Windows \subseteq 0 .. MaxWindow
ASSUME WidthAssumption == MaxWindow \in Nat /\ Modulus \in Nat /\ MaxWindow < Modulus

VARIABLES n, ok,      \* the fields of the FlowControl
          pc, need,   \* where each goroutine is in Wait, and the argument it gave
          due,        \* history: granted less taken since the last Reset
          refused,    \* history: goroutines inside Wait when Disable was called
          ret         \* history: what the last Wait of each goroutine returned

vars == <<n, ok, pc, need, due, refused, ret>>

Waiting == {t \in Threads : pc[t] # "idle"}

Init == /\ n \in Windows /\ due = n
        /\ ok = TRUE
        /\ pc = [t \in Threads |-> "idle"]
        /\ need = [t \in Threads |-> 0]
        /\ refused = {}
        /\ ret = [t \in Threads |-> TRUE]

(* Wait(0) returns at once and touches nothing; Amounts leaves it out.     *)
CallWait(t, k) ==
  /\ pc[t] = "idle"
  /\ pc' = [pc EXCEPT ![t] = "check"]
  /\ need' = [need EXCEPT ![t] = k]
  /\ refused' = refused \ {t}
  /\ UNCHANGED <<n, ok, due, ret>>

Park(t) ==
  /\ pc[t] = "check"
  /\ need[t] > n /\ ok
  /\ pc' = [pc EXCEPT ![t] = "parked"]
  /\ UNCHANGED <<n, ok, need, due, refused, ret>>

(* Mutants of Return: it does not look at the window again after a wake-up; *)
(* it returns true.                                                        *)
ReturnUnchecked(t) ==
  /\ pc[t] = "check"
  /\ n' = (n - need[t]) % Modulus
  /\ pc' = [pc EXCEPT ![t] = "idle"]
  /\ ret' = [ret EXCEPT ![t] = ok]
  /\ due' = IF ok THEN due - need[t] ELSE due
  /\ UNCHANGED <<ok, need, refused>>

ReturnTrue(t) ==
  /\ pc[t] = "check"
  /\ ~ (need[t] > n /\ ok)
  /\ n' = (n - need[t]) % Modulus
  /\ pc' = [pc EXCEPT ![t] = "idle"]
  /\ ret' = [ret EXCEPT ![t] = TRUE]
  /\ due' = IF ok THEN due - need[t] ELSE due
  /\ UNCHANGED <<ok, need, refused>>

(* The loop is left: the window shrinks even when it has been disabled.    *)
Return(t) ==
  /\ pc[t] = "check"
  /\ ~ (need[t] > n /\ ok)
  /\ n' = (n - need[t]) % Modulus
  /\ pc' = [pc EXCEPT ![t] = "idle"]
  /\ ret' = [ret EXCEPT ![t] = ok]
  /\ due' = IF ok THEN due - need[t] ELSE due
  /\ UNCHANGED <<ok, need, refused>>

(* Everyone asleep in cond.Wait goes for the mutex again.                  *)
Broadcast == pc' = [t \in Threads |-> IF pc[t] = "parked" THEN "check" ELSE pc[t]]

(* Mutant of Add: no broadcast.                                            *)
AddSilent(k) ==
  /\ ok => n + k <= MaxWindow
  /\ n' = (n + k) % Modulus
  /\ due' = IF ok THEN due + k ELSE due
  /\ UNCHANGED <<ok, pc, need, refused, ret>>

(* A peer never grants more than MaxWindow (RFC 9113, 6.9.1).              *)
Add(k) ==
  /\ ok => n + k <= MaxWindow
  /\ n' = (n + k) % Modulus
  /\ due' = IF ok THEN due + k ELSE due
  /\ Broadcast
  /\ UNCHANGED <<ok, need, refused, ret>>

(* Reset wakes nobody.                                                     *)
Reset(w) ==
  /\ n' = w
  /\ ok' = TRUE
  /\ due' = w
  /\ UNCHANGED <<pc, need, refused, ret>>

Disable ==
  /\ ok' = FALSE
  /\ refused' = refused \cup Waiting
  /\ Broadcast
  /\ UNCHANGED <<n, need, due, ret>>

(* Pool.Acquire alone calls Reset, on the one goroutine that calls Wait,   *)
(* so the program resets a window only when no Wait is pending on it.      *)
Acquire(w) == Waiting = {} /\ Reset(w)

Next == \/ \E t \in Threads : \/ \E k \in Amounts : CallWait(t, k)
                              \/ Park(t)
                              \/ Return(t)
        \/ \E k \in Amounts : Add(k)
        \/ \E w \in Windows : Acquire(w)
        \/ Disable

Spec == Init /\ [][Next]_vars

TypeOK ==
  /\ n \in 0 .. Modulus - 1
  /\ ok \in BOOLEAN
  /\ pc \in [Threads -> {"idle", "check", "parked"}]
  /\ need \in [Threads -> Amounts \cup {0}]
  /\ \A t \in Threads : pc[t] # "idle" => need[t] \in Amounts
  /\ due \in Int
  /\ refused \subseteq Threads
  /\ ret \in [Threads -> BOOLEAN]

(* No wake-up is lost: a goroutine asleep in cond.Wait sleeps with reason, *)
(* the window being open and too small for its frame.  (Wait's loop and    *)
(* the broadcasts of Add and Disable.)                                     *)
NoLostWakeup ==
  \A t \in Threads : pc[t] = "parked" => ok /\ need[t] > n

(* The window is exact while it is open: it holds what the peer granted    *)
(* less what Wait let through, and that is never negative, so no           *)
(* interleaving of senders and WINDOW_UPDATEs overdraws the window or      *)
(* wraps the uint32.                                                       *)
WindowExact == ok => n = due /\ due \in 0 .. MaxWindow

(* types.FlowControl: Disable releases everyone.  A Wait that is pending   *)
(* when the window is disabled returns, unless a Reset arms the window     *)
(* again, and it returns false.                                            *)
DisableReleases ==
  \A t \in Threads :
    /\ ~ok /\ pc[t] # "idle" ~> pc[t] = "idle"
    /\ [](pc[t] = "idle" /\ t \in refused => ret[t] = FALSE)

(* The window is a credit counter; once disabled its value means nothing.  *)
Abstract == INSTANCE Credit WITH avail <- IF ok THEN n ELSE 0,
                                 open <- ok,
                                 Balances <- Windows

(* Every behaviour of the window is one of the credit counter: whatever    *)
(* the goroutines do, Wait takes only what the balance covers.             *)
ImplementsCredit == Abstract!Spec
=============================================================================
