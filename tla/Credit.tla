------------------------------- MODULE Credit -------------------------------
(***************************************************************************)
(* What a credit counter promises its callers, without locks or condition  *)
(* variables: a balance from which a caller takes an amount only when the  *)
(* balance covers it, and to which the other side gives.  A counter can be *)
(* closed, after which nothing is taken from it, and opened again with a   *)
(* fresh balance.  FlowControl (a window of bytes, amounts of any size)    *)
(* and Limiter (a quota of streams, amount 1) both implement it.           *)
(***************************************************************************)
EXTENDS Naturals

CONSTANTS Amounts,   \* what may be taken or given in one call
          Balances   \* the balances a counter may be opened with

VARIABLES avail,     \* the balance
          open       \* FALSE once closed

Init == avail \in Balances /\ open = TRUE

Take(k) == open /\ k <= avail /\ avail' = avail - k /\ UNCHANGED open

Give(k) == open /\ avail' = avail + k /\ UNCHANGED open

Close == open' = FALSE /\ avail' = 0

Open(k) == open' = TRUE /\ avail' = k

Next == \/ \E k \in Amounts : Take(k) \/ Give(k)
        \/ Close
        \/ \E k \in Balances : Open(k)

Spec == Init /\ [][Next]_<<avail, open>>
=============================================================================
