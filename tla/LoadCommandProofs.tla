-------------------------- MODULE LoadCommandProofs --------------------------
(***************************************************************************)
(* The end of a run, for any number of clients, requests and capacities:   *)
(* whatever fails, the channels keep to their capacity, no stream is       *)
(* released twice, nobody reports to a closed reporter unless a load loop  *)
(* left streams behind, and a run without error has reported every         *)
(* request.                                                                *)
(***************************************************************************)
EXTENDS LoadCommand, FiniteSetTheorems, TLAPS

(* The capacities and bounds one by one.                                   *)
LEMMA Sizes ==
  Count \in Nat /\ ChanCap \in Nat \ {0} /\ PhoutCap \in Nat \ {0}
  BY SizesAssumption

USE Sizes

-----------------------------------------------------------------------------
(* Counting.                                                               *)

One(b) == IF b THEN 1 ELSE 0

(* As many units as the clients have together, so that a sum over the      *)
(* clients is a cardinality.                                               *)
Units(u) == {p \in Clients \X Nat : p[2] < u[p[1]]}

(* One more unit for one client is one more unit.                          *)
LEMMA UnitsUp ==
  ASSUME NEW u \in [Clients -> Nat], NEW c \in Clients, IsFiniteSet(Units(u))
  PROVE  /\ IsFiniteSet(Units([u EXCEPT ![c] = @ + 1]))
         /\ Cardinality(Units([u EXCEPT ![c] = @ + 1])) = Cardinality(Units(u)) + 1
<1> DEFINE v == [u EXCEPT ![c] = @ + 1]
<1>1. \A d \in Clients : v[d] = IF d = c THEN u[c] + 1 ELSE u[d]
  OBVIOUS
<1>2. \A d \in Clients, k \in Nat : k < v[d] <=> k < u[d] \/ (d = c /\ k = u[c])
  BY <1>1
<1> HIDE DEF v
<1>3. \A d \in Clients, k \in Nat :
        <<d, k>> \in Units(v) <=> <<d, k>> \in Units(u) \cup {<<c, u[c]>>}
  BY <1>2 DEF Units
<1>4. Units(v) \subseteq Clients \X Nat /\ Units(u) \cup {<<c, u[c]>>} \subseteq Clients \X Nat
  BY DEF Units
<1>5. Units(v) = Units(u) \cup {<<c, u[c]>>}
  BY <1>3, <1>4
<1>6. <<c, u[c]>> \notin Units(u)
  BY DEF Units
<1>7. IsFiniteSet(Units(v)) /\ Cardinality(Units(v)) = Cardinality(Units(u)) + 1
  BY <1>5, <1>6, FS_AddElement
<1> QED
  BY <1>7 DEF v

(* One unit less for one client is one unit less.                          *)
LEMMA UnitsDown ==
  ASSUME NEW u \in [Clients -> Nat], NEW c \in Clients, u[c] > 0, IsFiniteSet(Units(u))
  PROVE  /\ IsFiniteSet(Units([u EXCEPT ![c] = @ - 1]))
         /\ Cardinality(Units([u EXCEPT ![c] = @ - 1])) = Cardinality(Units(u)) - 1
<1> DEFINE v == [u EXCEPT ![c] = @ - 1]
<1>1. \A d \in Clients : v[d] = IF d = c THEN u[c] - 1 ELSE u[d]
  OBVIOUS
<1>2. \A d \in Clients, k \in Nat : k < v[d] <=> k < u[d] /\ ~ (d = c /\ k = u[c] - 1)
  BY <1>1
<1> HIDE DEF v
<1>3. \A d \in Clients, k \in Nat :
        <<d, k>> \in Units(v) <=> <<d, k>> \in Units(u) \ {<<c, u[c] - 1>>}
  BY <1>2 DEF Units
<1>4. Units(v) \subseteq Clients \X Nat /\ Units(u) \ {<<c, u[c] - 1>>} \subseteq Clients \X Nat
  BY DEF Units
<1>5. Units(v) = Units(u) \ {<<c, u[c] - 1>>}
  BY <1>3, <1>4
<1>6. <<c, u[c] - 1>> \in Units(u)
  BY DEF Units
<1>7. IsFiniteSet(Units(v)) /\ Cardinality(Units(v)) = Cardinality(Units(u)) - 1
  <2> DEFINE e == <<c, u[c] - 1>>
  <2>1. Units(v) = Units(u) \ {e} /\ e \in Units(u)
    BY <1>5, <1>6
  <2> HIDE DEF e
  <2> QED
    BY <2>1, FS_RemoveElement
<1> QED
  BY <1>7 DEF v

-----------------------------------------------------------------------------
(* The inductive invariant.                                                *)

(* Requests of a client that no server has answered.                       *)
Sending(c) ==
  One(lg[c] \in {"refused", "window", "send"}) + frames[c] + One(fp[c] = "frame")
    + One(sl[c] = "frame") + wire[c]

(* A stream is in use for each request under way and for the response that *)
(* is being processed, until a GOAWAY ends the streams that are left,      *)
(* which a refused request is not one of; and a load loop that waited for  *)
(* its streams left none.                                                  *)
CountedOf(c) ==
  /\ Sending(c) <= made /\ inUse[c] <= made
  /\ recv[c] \in {"read", "ping"} => Sending(c) <= inUse[c]
  /\ recv[c] \in {"end", "release"} => Sending(c) + 1 <= inUse[c]
  /\ One(lg[c] = "refused") + One(recv[c] \in {"eachEnd", "eachRelease"}) <= inUse[c]
  /\ lg[c] = "done" /\ c \notin gaveUp => inUse[c] = 0

Counted == \A c \in Clients : CountedOf(c)

AllDone == \A c \in Clients : lg[c] = "done"

(* The reporter is closed after the last load loop, and the command waits  *)
(* for it.                                                                 *)
Ending ==
  /\ main = "start" => rep = "off"
  /\ main = "gwait" => AllDone
  /\ repClosed => AllDone
  /\ main = "returned" /\ err # "setup" => AllDone /\ rep = "exit"
  /\ rep = "exit" => repClosed
  /\ rep = "exit" /\ err = "none" => repChan = 0

(* The streams each client has yet to report.                              *)
unreported == [c \in Clients |-> inUse[c] - One(recv[c] \in {"release", "eachRelease"})]

(* Every request is in a stream, in the reporter's channel or in the       *)
(* report; one is lost when the reporter fails.                            *)
Accounted ==
  /\ IsFiniteSet(Units(unreported))
  /\ lines + repChan + Cardinality(Units(unreported)) <= made
  /\ rep \in {"off", "run"} \/ (rep = "exit" /\ err = "none") =>
       lines + repChan + Cardinality(Units(unreported)) = made

(* The inductive invariant.  TypeOK is not inductive by itself: that inUse *)
(* stays above zero is Counted, that lines stays below made is Accounted.  *)
IInv == TypeOK /\ Counted /\ Ending /\ Accounted /\ NoReportAfterClose


(* Before the start there is nothing to count.                             *)
LEMMA InitIInv == Init => IInv
<1> SUFFICES ASSUME Init PROVE IInv
  OBVIOUS
<1>1. TypeOK
  <2>1. quota \in [Clients -> Nat] /\ credit \in [Clients -> Nat] /\ due \in [Clients -> Nat]
    BY SettingsAssumption DEF Init, Every
  <2>2. /\ lgDone \in [Clients -> BOOLEAN] /\ runDone \in [Clients -> BOOLEAN]
        /\ runErr \in [Clients -> BOOLEAN] /\ deadline \in [Clients -> BOOLEAN]
        /\ broken \in [Clients -> BOOLEAN]
        /\ inUse \in [Clients -> 0 .. made] /\ wire \in [Clients -> 0 .. made] /\ made \in Nat
    BY DEF Init, Every
  <2>3. /\ lg \in [Clients -> {"fetch", "allow", "refused", "window", "send", "wait", "done"}]
        /\ frames \in [Clients -> 0..ChanCap] /\ prio \in [Clients -> 0..1]
        /\ fp \in [Clients -> {"select", "frame", "priority", "exit"}]
        /\ sl \in [Clients -> {"select", "frame", "priority", "exit"}]
        /\ recv \in [Clients -> {"read", "end", "release", "ping", "goaway", "each", "eachEnd", "eachRelease",
                                 "exit"}]
        /\ run \in [Clients -> {"on", "returned"}]
    BY DEF Init, Every
  <2>4. /\ gDone \in BOOLEAN /\ created \subseteq Clients /\ gaveUp \subseteq Clients
        /\ repClosed \in BOOLEAN /\ panicked \in BOOLEAN
    BY DEF Init
  <2>5. n \in Nat /\ repChan \in 0 .. PhoutCap /\ lines \in 0 .. made
    BY DEF Init
  <2> QED
    BY <2>1, <2>2, <2>3, <2>4, <2>5 DEF Init, TypeOK
<1>3. Counted
  BY DEF Init, Counted, CountedOf, Sending, One, Every
<1>4. Ending
  BY DEF Init, Ending
<1>5. Units(unreported) = {}
  BY DEF Init, Units, unreported, Every, One
<1>6. Accounted
  BY <1>5, FS_EmptySet DEF Init, Accounted
<1> QED
  BY <1>1, <1>3, <1>4, <1>6 DEF IInv, Init, NoReportAfterClose

(* What the invariant says of the numbers a step changes.                  *)
LEMMA Numbers ==
  ASSUME TypeOK, Counted, Accounted
  PROVE  /\ unreported \in [Clients -> Nat]
         /\ Cardinality(Units(unreported)) \in Nat
         /\ \A c \in Clients : Sending(c) \in Nat
<1>2. \A c \in Clients : Sending(c) \in Nat
  <2> SUFFICES ASSUME NEW c \in Clients PROVE Sending(c) \in Nat
    OBVIOUS
  <2>1. frames[c] \in Nat /\ wire[c] \in Nat
    BY DEF TypeOK
  <2> QED
    BY <2>1 DEF Sending, One
<1>3. \A c \in Clients : inUse[c] - One(recv[c] \in {"release", "eachRelease"}) \in Nat
  BY <1>2 DEF TypeOK, Counted, CountedOf, One
<1> QED
  BY <1>2, <1>3, FS_CardinalityType DEF unreported, Accounted

(* A refused request is under way.                                         *)
LEMMA RefusedSending ==
  ASSUME TypeOK, NEW c \in Clients
  PROVE  Sending(c) >= One(lg[c] = "refused") /\ One(lg[c] = "refused") \in {0, 1}
<1>1. frames[c] \in Nat /\ wire[c] \in Nat
  BY DEF TypeOK
<1> QED
  BY <1>1 DEF Sending, One

(* A client that takes no step stays as it is, whoever makes a request.    *)
LEMMA OthersCounted ==
  ASSUME NEW d \in Clients, CountedOf(d), made \in Nat, made' \in Nat, made <= made',
         Sending(d) \in Nat, inUse[d] \in Nat,
         UNCHANGED <<lg[d], frames[d], fp[d], sl[d], wire[d], inUse[d], recv[d]>>,
         d \in gaveUp' <=> d \in gaveUp
  PROVE  CountedOf(d)'
<1>1. Sending(d)' = Sending(d)
  BY DEF Sending
<1> QED
  BY <1>1 DEF CountedOf

(* What is left alone by a step that neither makes nor reports a request.  *)
LEMMA SameAccount ==
  ASSUME IInv, unreported' = unreported, UNCHANGED <<made, lines, repChan, rep>>,
         err' = "none" => err = "none"
  PROVE  Accounted'
<1>1. Units(unreported)' = Units(unreported)
  BY DEF Units
<1> QED
  BY <1>1 DEF IInv, Accounted

(* A receiver reports a stream: to the channel, or to a closed one, which  *)
(* is a panic.                                                             *)
LEMMA ReportKeeps ==
  ASSUME IInv, NEW c \in Clients, NEW here, NEW nxt, Report(c, here, nxt),
         inUse[c] > One(lg[c] = "refused"),
         \/ here = "end" /\ nxt = "release"
         \/ here = "eachEnd" /\ nxt = "eachRelease"
  PROVE  IInv'
<1> USE DEF IInv
<1> DEFINE owed == Cardinality(Units(unreported))
<1>0. /\ unreported \in [Clients -> Nat] /\ owed \in Nat
      /\ \A d \in Clients : Sending(d) \in Nat
  BY Numbers
<1>1. /\ recv[c] = here
      /\ UNCHANGED <<main, gDone, err, created, n, lg, lgDone, made, gaveUp, inUse, frames, fp, sl,
                     prio, run, runDone, runErr, deadline, broken, wire, due, rep,
                     repClosed, lines>>
  BY DEF Report, cmdVars, loopVars, sendVars, runVars, serverVars
<1>a. inUse[c] \in Nat /\ inUse[c] > 0 /\ UNCHANGED <<quota, credit>>
  BY DEF Report, loopVars, TypeOK, One
<1>2. CASE repClosed
  <2>1. panicked' = TRUE /\ recv' = recv /\ repChan' = repChan
    BY <1>2 DEF Report
  <2>2. TypeOK'
    BY <1>1, <1>a, <2>1 DEF TypeOK
  <2>3. Counted'
    BY <1>1, <2>1 DEF Counted, CountedOf, Sending
  <2>4. Ending'
    BY <1>1, <2>1 DEF Ending, AllDone
  <2>5. unreported' = unreported
    BY <1>1, <2>1 DEF unreported
  <2>6. Accounted'
    BY <1>1, <2>1, <2>5, SameAccount
  <2>7. c \in gaveUp
    BY <1>2, <1>a DEF Counted, CountedOf, Ending, AllDone
  <2> QED
    BY <1>1, <2>2, <2>3, <2>4, <2>6, <2>7 DEF NoReportAfterClose
<1>3. CASE ~ repClosed
  <2>1. /\ repChan < PhoutCap /\ repChan' = repChan + 1 /\ panicked' = panicked
        /\ recv' = [recv EXCEPT ![c] = nxt]
    BY <1>3 DEF Report
  <2>2. TypeOK'
    <3>1. /\ recv' \in [Clients -> {"read", "end", "release", "ping", "goaway", "each",
                                    "eachEnd", "eachRelease", "exit"}]
          /\ repChan' \in 0 .. PhoutCap
      BY <2>1 DEF TypeOK
    <3> QED
      BY <1>1, <1>a, <2>1, <3>1 DEF TypeOK
  <2>3. Counted'
    <3> SUFFICES ASSUME NEW d \in Clients PROVE CountedOf(d)'
      BY DEF Counted
    <3>1. CASE d # c
      BY <1>0, <1>1, <2>1, <3>1, OthersCounted DEF TypeOK, Counted
    <3>2. CASE d = c
      <4>1. recv'[c] = nxt
        BY <2>1 DEF TypeOK
      <4>2. Sending(c)' = Sending(c)
        BY <1>1 DEF Sending
      <4> QED
        BY <1>0, <1>1, <3>2, <4>1, <4>2 DEF Counted, CountedOf, TypeOK, One
    <3> QED
      BY <3>1, <3>2
  <2>4. Ending' /\ NoReportAfterClose'
    BY <1>1, <1>3, <2>1 DEF Ending, AllDone, NoReportAfterClose
  <2>5. unreported' = [unreported EXCEPT ![c] = @ - 1] /\ unreported[c] > 0
    <3>1. /\ recv'[c] = nxt /\ inUse[c] \in Nat
          /\ \A d \in Clients : d # c => recv'[d] = recv[d]
      BY <2>1 DEF TypeOK
    <3>2. unreported[c] = inUse[c]
      BY <1>1 DEF unreported, One, TypeOK
    <3>3. unreported'[c] = inUse[c] - 1
      BY <1>1, <3>1 DEF unreported, One
    <3>4. \A d \in Clients : d # c => unreported'[d] = unreported[d]
      BY <1>1, <3>1 DEF unreported
    <3>5. unreported' = [d \in Clients |-> unreported'[d]]
      BY DEF unreported
    <3> QED
      BY <1>0, <1>a, <3>1, <3>2, <3>3, <3>4, <3>5
  <2>6. IsFiniteSet(Units(unreported)') /\ owed' = owed - 1
    BY <1>0, <2>5, UnitsDown DEF Accounted, Units
  <2>7. /\ lines \in Nat /\ repChan \in Nat /\ made \in Nat /\ lines + repChan + owed <= made
        /\ rep \in {"off", "run"} => lines + repChan + owed = made
    BY DEF TypeOK, Accounted
  <2>8. lines' + repChan' + owed' = lines + repChan + owed
    BY <1>0, <1>1, <2>1, <2>6, <2>7
  <2>9. Accounted'
    BY <1>1, <1>3, <2>6, <2>7, <2>8 DEF Accounted, Ending
  <2> QED
    BY <2>2, <2>3, <2>4, <2>9
<1> QED
  BY <1>2, <1>3

(* A receiver releases a stream it has reported.                           *)
LEMMA ReleaseKeeps ==
  ASSUME IInv, NEW c \in Clients, NEW here, NEW nxt, Release(c, here, nxt),
         \/ here = "release" /\ nxt = "read"
         \/ here = "eachRelease" /\ nxt = "each"
  PROVE  IInv'
<1> USE DEF IInv
<1>0. \A d \in Clients : Sending(d) \in Nat
  BY Numbers
<1>1. /\ recv[c] = here
      /\ inUse' = [inUse EXCEPT ![c] = @ - 1] /\ recv' = [recv EXCEPT ![c] = nxt]
      /\ quota' = [quota EXCEPT ![c] = IF here = "release" THEN @ + 1 ELSE @] /\ credit' = credit
      /\ UNCHANGED <<main, gDone, err, created, n, lg, lgDone, made, gaveUp, frames, fp, sl, prio, run,
                     runDone, runErr, deadline, broken, wire, due, rep, repClosed, repChan,
                     lines, panicked>>
  BY DEF Release, cmdVars, loopVars, sendVars, runVars, serverVars, repVars
<1>2. inUse[c] \in Nat /\ inUse[c] > 0 /\ inUse[c] <= made
  BY <1>0, <1>1 DEF TypeOK, Counted, CountedOf, One
<1>3. /\ inUse'[c] = inUse[c] - 1 /\ recv'[c] = nxt
      /\ \A d \in Clients : d # c => inUse'[d] = inUse[d] /\ recv'[d] = recv[d]
  BY <1>1 DEF TypeOK
<1>4. TypeOK'
  <2>1. /\ recv' \in [Clients -> {"read", "end", "release", "ping", "goaway", "each",
                                  "eachEnd", "eachRelease", "exit"}]
        /\ inUse' \in [Clients -> 0 .. made] /\ quota' \in [Clients -> Nat]
    BY <1>1, <1>2 DEF TypeOK
  <2> QED
    BY <1>1, <2>1 DEF TypeOK
<1>5. Counted'
  <2> SUFFICES ASSUME NEW d \in Clients PROVE CountedOf(d)'
    BY DEF Counted
  <2>1. CASE d # c
    BY <1>0, <1>1, <1>3, <2>1, OthersCounted DEF TypeOK, Counted
  <2>2. CASE d = c
    <3>1. Sending(c)' = Sending(c)
      BY <1>1 DEF Sending
    <3>2. made \in Nat /\ CountedOf(c)
      BY DEF TypeOK, Counted
    <3>3. lg[c] = "done" => c \in gaveUp
      BY <1>2 DEF Counted, CountedOf
    <3>4. Sending(c) >= One(lg[c] = "refused") /\ One(lg[c] = "refused") \in {0, 1}
      BY RefusedSending
    <3>5. One(nxt \in {"eachEnd", "eachRelease"}) = 0 /\ One(lg[c] = "refused") <= inUse[c] - 1
      BY <1>0, <1>1, <1>2, <3>2, <3>4 DEF CountedOf, One
    <3>6. UNCHANGED One(lg[c] = "refused")
      BY <1>1 DEF One
    <3> QED
      BY <1>0, <1>1, <1>2, <1>3, <2>2, <3>1, <3>2, <3>3, <3>4, <3>5, <3>6 DEF CountedOf
  <2> QED
    BY <2>1, <2>2
<1>6. Ending' /\ NoReportAfterClose'
  BY <1>1 DEF Ending, AllDone, NoReportAfterClose
<1>7. unreported' = unreported
  <2>1. \A d \in Clients : unreported'[d] = unreported[d]
    BY <1>1, <1>2, <1>3 DEF unreported, One
  <2> QED
    BY <2>1 DEF unreported
<1>8. Accounted'
  BY <1>1, <1>7, SameAccount
<1> QED
  BY <1>4, <1>5, <1>6, <1>8

(* Every step of the command, of a client and of a server keeps the        *)
(* invariant.                                                              *)
LEMMA StepIInv == IInv /\ [Next]_vars => IInv'
<1> SUFFICES ASSUME IInv, [Next]_vars PROVE IInv'
  OBVIOUS
<1> USE DEF IInv
<1> DEFINE owed == Cardinality(Units(unreported))
<1>0. /\ unreported \in [Clients -> Nat] /\ owed \in Nat
      /\ \A c \in Clients : Sending(c) \in Nat
  BY Numbers

<1>1. ASSUME StartReporter PROVE IInv'
  <2>1. TypeOK'
    BY <1>1 DEF StartReporter, clientVars, loopVars, sendVars, runVars, serverVars, TypeOK
  <2>2. Counted'
    BY <1>0, <1>1 DEF StartReporter, clientVars, loopVars, sendVars, runVars, serverVars,
       TypeOK, Counted, CountedOf, Sending
  <2>3. Ending' /\ NoReportAfterClose'
    BY <1>1 DEF StartReporter, clientVars, loopVars, sendVars, runVars, serverVars, TypeOK,
       Ending, AllDone, NoReportAfterClose
  <2>4. unreported' = unreported
    BY <1>1 DEF StartReporter, clientVars, loopVars, sendVars, runVars, serverVars, TypeOK,
       unreported, One
  <2>5. Units(unreported)' = Units(unreported)
    BY <2>4 DEF Units
  <2>6. Accounted'
    BY <1>1, <2>5 DEF StartReporter, clientVars, loopVars, Accounted, Ending
  <2> QED
    BY <2>1, <2>2, <2>3, <2>6
<1>2. ASSUME NEW c \in Clients, CreateClient(c) PROVE IInv'
  <2>1. TypeOK'
    BY <1>2 DEF CreateClient, repVars, clientVars, loopVars, sendVars, runVars, serverVars,
       TypeOK
  <2>2. Counted'
    BY <1>0, <1>2 DEF CreateClient, repVars, clientVars, loopVars, sendVars, runVars,
       serverVars, TypeOK, Counted, CountedOf, Sending
  <2>3. Ending' /\ NoReportAfterClose'
    BY <1>2 DEF CreateClient, repVars, clientVars, loopVars, sendVars, runVars, serverVars,
       TypeOK, Ending, AllDone, NoReportAfterClose
  <2>4. unreported' = unreported
    BY <1>2 DEF CreateClient, repVars, clientVars, loopVars, sendVars, runVars, serverVars,
       TypeOK, unreported, One
  <2>5. Units(unreported)' = Units(unreported)
    BY <2>4 DEF Units
  <2>6. Accounted'
    BY <1>0, <1>2, <2>5 DEF CreateClient, repVars, clientVars, loopVars, sendVars, runVars,
       serverVars, TypeOK, Accounted
  <2> QED
    BY <2>1, <2>2, <2>3, <2>6
<1>3. ASSUME StartClients PROVE IInv'
  <2>1. TypeOK'
    BY <1>3 DEF StartClients, repVars, clientVars, loopVars, sendVars, runVars, serverVars,
       TypeOK
  <2>2. Counted'
    BY <1>0, <1>3 DEF StartClients, repVars, clientVars, loopVars, sendVars, runVars,
       serverVars, TypeOK, Counted, CountedOf, Sending
  <2>3. Ending' /\ NoReportAfterClose'
    BY <1>3 DEF StartClients, repVars, clientVars, loopVars, sendVars, runVars, serverVars,
       TypeOK, Ending, AllDone, NoReportAfterClose
  <2>4. unreported' = unreported
    BY <1>3 DEF StartClients, repVars, clientVars, loopVars, sendVars, runVars, serverVars,
       TypeOK, unreported, One
  <2>5. Units(unreported)' = Units(unreported)
    BY <2>4 DEF Units
  <2>6. Accounted'
    BY <1>0, <1>3, <2>5 DEF StartClients, repVars, clientVars, loopVars, sendVars, runVars,
       serverVars, TypeOK, Accounted
  <2> QED
    BY <2>1, <2>2, <2>3, <2>6
<1>4. ASSUME StartFails PROVE IInv'
  <2>1. TypeOK'
    BY <1>4 DEF StartFails, repVars, clientVars, loopVars, sendVars, runVars, serverVars,
       TypeOK
  <2>2. Counted'
    BY <1>0, <1>4 DEF StartFails, repVars, clientVars, loopVars, sendVars, runVars, serverVars,
       TypeOK, Counted, CountedOf, Sending
  <2>3. Ending' /\ NoReportAfterClose'
    BY <1>4 DEF StartFails, repVars, clientVars, loopVars, sendVars, runVars, serverVars,
       TypeOK, Ending, AllDone, NoReportAfterClose
  <2>4. unreported' = unreported
    BY <1>4 DEF StartFails, repVars, clientVars, loopVars, sendVars, runVars, serverVars,
       TypeOK, unreported, One
  <2>5. Units(unreported)' = Units(unreported)
    BY <2>4 DEF Units
  <2>6. Accounted'
    BY <1>0, <1>4, <2>5 DEF StartFails, repVars, clientVars, loopVars, sendVars, runVars,
       serverVars, TypeOK, Accounted
  <2> QED
    BY <2>1, <2>2, <2>3, <2>6
<1>5. ASSUME LoadersDone PROVE IInv'
  <2>1. TypeOK'
    BY <1>5 DEF LoadersDone, loopVars, sendVars, runVars, serverVars, repVars, TypeOK
  <2>2. Counted'
    BY <1>0, <1>5 DEF LoadersDone, loopVars, sendVars, runVars, serverVars, repVars, TypeOK,
       Counted, CountedOf, Sending
  <2>3. Ending' /\ NoReportAfterClose'
    BY <1>5 DEF LoadersDone, loopVars, sendVars, runVars, serverVars, repVars, TypeOK, Ending,
       AllDone, NoReportAfterClose
  <2>4. unreported' = unreported
    BY <1>5 DEF LoadersDone, loopVars, sendVars, runVars, serverVars, repVars, TypeOK,
       unreported, One
  <2>5. Units(unreported)' = Units(unreported)
    BY <2>4 DEF Units
  <2>6. Accounted'
    BY <1>0, <1>5, <2>5 DEF LoadersDone, loopVars, sendVars, runVars, serverVars, repVars,
       TypeOK, Accounted
  <2> QED
    BY <2>1, <2>2, <2>3, <2>6
<1>6. ASSUME CommandReturns PROVE IInv'
  <2>1. TypeOK'
    BY <1>6 DEF CommandReturns, loopVars, sendVars, runVars, serverVars, repVars, TypeOK
  <2>2. Counted'
    BY <1>0, <1>6 DEF CommandReturns, loopVars, sendVars, runVars, serverVars, repVars, TypeOK,
       Counted, CountedOf, Sending
  <2>3. Ending' /\ NoReportAfterClose'
    BY <1>6 DEF CommandReturns, loopVars, sendVars, runVars, serverVars, repVars, TypeOK,
       Ending, AllDone, NoReportAfterClose
  <2>4. unreported' = unreported
    BY <1>6 DEF CommandReturns, loopVars, sendVars, runVars, serverVars, repVars, TypeOK,
       unreported, One
  <2>5. Units(unreported)' = Units(unreported)
    BY <2>4 DEF Units
  <2>6. Accounted'
    BY <1>0, <1>6, <2>5 DEF CommandReturns, loopVars, sendVars, runVars, serverVars, repVars,
       TypeOK, Accounted
  <2> QED
    BY <2>1, <2>2, <2>3, <2>6
<1>7. ASSUME WriteLine PROVE IInv'
  <2>1. TypeOK'
    <3>1. lines' \in 0..made' /\ repChan' \in 0..PhoutCap
      <4>1. /\ lines \in Nat /\ repChan \in Nat /\ made \in Nat /\ repChan <= PhoutCap
            /\ lines + repChan + owed <= made
        BY DEF TypeOK, Accounted
      <4>2. repChan > 0 /\ repChan' = repChan - 1 /\ lines' = lines + 1 /\ made' = made
        BY <1>7 DEF WriteLine, loopVars
      <4> QED
        BY <1>0, <4>1, <4>2
    <3> QED
      BY <1>7, <3>1 DEF WriteLine, cmdVars, loopVars, sendVars, runVars, serverVars, TypeOK
  <2>2. Counted'
    BY <1>0, <1>7 DEF WriteLine, cmdVars, loopVars, sendVars, runVars, serverVars, TypeOK,
       Counted, CountedOf, Sending
  <2>3. Ending' /\ NoReportAfterClose'
    BY <1>7 DEF WriteLine, cmdVars, loopVars, sendVars, runVars, serverVars, TypeOK, Ending,
       AllDone, NoReportAfterClose
  <2>4. unreported' = unreported
    BY <1>7 DEF WriteLine, cmdVars, loopVars, sendVars, runVars, serverVars, TypeOK,
       unreported, One
  <2>5. Units(unreported)' = Units(unreported)
    BY <2>4 DEF Units
  <2>6. Accounted'
    BY <1>0, <1>7, <2>5 DEF WriteLine, cmdVars, loopVars, sendVars, runVars, serverVars,
       TypeOK, Accounted
  <2> QED
    BY <2>1, <2>2, <2>3, <2>6
<1>8. ASSUME WriteLineFails PROVE IInv'
  <2>1. TypeOK'
    <3>1. /\ repChan' \in 0..PhoutCap
      BY <1>8 DEF WriteLineFails, TypeOK, Accounted
    <3> QED
      BY <1>8, <3>1 DEF WriteLineFails, cmdVars, loopVars, sendVars, runVars, serverVars,
         TypeOK
  <2>2. Counted'
    BY <1>0, <1>8 DEF WriteLineFails, cmdVars, loopVars, sendVars, runVars, serverVars, TypeOK,
       Counted, CountedOf, Sending
  <2>3. Ending' /\ NoReportAfterClose'
    BY <1>8 DEF WriteLineFails, cmdVars, loopVars, sendVars, runVars, serverVars, TypeOK,
       Ending, AllDone, NoReportAfterClose
  <2>4. unreported' = unreported
    BY <1>8 DEF WriteLineFails, cmdVars, loopVars, sendVars, runVars, serverVars, TypeOK,
       unreported, One
  <2>5. Units(unreported)' = Units(unreported)
    BY <2>4 DEF Units
  <2>6. Accounted'
    BY <1>0, <1>8, <2>5 DEF WriteLineFails, cmdVars, loopVars, sendVars, runVars, serverVars,
       TypeOK, Accounted
  <2> QED
    BY <2>1, <2>2, <2>3, <2>6
<1>9. ASSUME ReporterReturns PROVE IInv'
  <2>1. TypeOK'
    BY <1>9 DEF ReporterReturns, Fail, loopVars, sendVars, runVars, serverVars, TypeOK
  <2>2. Counted'
    BY <1>0, <1>9 DEF ReporterReturns, Fail, loopVars, sendVars, runVars, serverVars, TypeOK,
       Counted, CountedOf, Sending
  <2>3. Ending' /\ NoReportAfterClose'
    BY <1>9 DEF ReporterReturns, Fail, loopVars, sendVars, runVars, serverVars, TypeOK,
       Ending, AllDone, NoReportAfterClose
  <2>4. unreported' = unreported
    BY <1>9 DEF ReporterReturns, Fail, loopVars, sendVars, runVars, serverVars, TypeOK,
       unreported, One
  <2>5. Units(unreported)' = Units(unreported)
    BY <2>4 DEF Units
  <2>6. Accounted'
    BY <1>0, <1>9, <2>5 DEF ReporterReturns, Fail, loopVars, sendVars, runVars, serverVars,
       TypeOK, Accounted
  <2> QED
    BY <2>1, <2>2, <2>3, <2>6
<1>10. ASSUME NEW c \in Clients, FetchFails(c) PROVE IInv'
  <2>1. TypeOK'
    <3>1. /\ lg' \in [Clients -> {"fetch", "allow", "refused", "window", "send", "wait", "done"}]
          /\ lgDone' \in [Clients -> BOOLEAN]
      BY <1>10 DEF FetchFails, Fail, Goto, TypeOK
    <3> QED
      BY <1>10, <3>1 DEF FetchFails, Fail, Goto, sendVars, runVars, serverVars, repVars, TypeOK
  <2>2. Counted'
    <3> SUFFICES ASSUME NEW d \in Clients PROVE CountedOf(d)'
      BY DEF Counted
    <3>1. CASE d # c
      <4>1. d \in gaveUp' <=> d \in gaveUp
        BY <1>10, <3>1 DEF FetchFails
      <4>2. /\ UNCHANGED <<lg[d], frames[d], fp[d], sl[d], wire[d], inUse[d], recv[d]>>
            /\ made' = made /\ made \in Nat /\ inUse[d] \in Nat /\ CountedOf(d)
        BY <1>10, <3>1 DEF FetchFails, Goto, sendVars, serverVars, TypeOK, Counted
      <4> QED
        BY <1>0, <4>1, <4>2, OthersCounted
    <3>2. CASE d = c
      <4>1. inUse[c] > 0 => c \in gaveUp'
        BY <1>10 DEF FetchFails
      <4>2. /\ lg'[c] = "done" /\ lg[c] = "fetch" /\ inUse[c] \in Nat
            /\ UNCHANGED <<frames, fp, sl, wire, inUse, recv, made>>
        BY <1>10 DEF FetchFails, Goto, sendVars, serverVars, TypeOK
      <4>3. Sending(c)' = Sending(c)
        BY <4>2 DEF Sending, One
      <4> QED
        BY <3>2, <4>1, <4>2, <4>3 DEF Counted, CountedOf
    <3> QED
      BY <3>1, <3>2
  <2>3. Ending' /\ NoReportAfterClose'
    BY <1>10 DEF FetchFails, Fail, Goto, sendVars, runVars, serverVars, repVars, TypeOK, Ending, AllDone,
       NoReportAfterClose
  <2>4. unreported' = unreported
    BY <1>10 DEF FetchFails, Fail, Goto, sendVars, runVars, serverVars, repVars, TypeOK, unreported, One
  <2>5. Units(unreported)' = Units(unreported)
    BY <2>4 DEF Units
  <2>6. Accounted'
    BY <1>0, <1>10, <2>5 DEF FetchFails, Fail, Goto, sendVars, runVars, serverVars, repVars, TypeOK,
       Accounted
  <2> QED
    BY <2>1, <2>2, <2>3, <2>6
<1>11. ASSUME NEW c \in Clients, DoRequest(c) PROVE IInv'
  <2>1. TypeOK'
    <3>1. /\ n' \in Nat
          /\ lg' \in [Clients -> {"fetch", "allow", "refused", "window", "send", "wait", "done"}]
      BY <1>11 DEF DoRequest, Goto, TypeOK
    <3> QED
      BY <1>11, <3>1 DEF DoRequest, Goto, cmdVars, loopVars, sendVars, runVars, serverVars,
         repVars, TypeOK
  <2>2. Counted'
    <3> SUFFICES ASSUME NEW d \in Clients PROVE CountedOf(d)'
      BY DEF Counted
    <3>1. CASE d # c
      BY <1>0, <1>11, <2>1, <3>1, OthersCounted DEF DoRequest, Goto, cmdVars, loopVars,
         sendVars, runVars, serverVars, repVars, TypeOK, Counted
    <3>2. CASE d = c
      <4>1. /\ lg[c] = "fetch" /\ lg'[c] = "allow"
            /\ UNCHANGED <<frames, fp, sl, wire, inUse, recv, made, gaveUp>>
        BY <1>11 DEF DoRequest, Goto, loopVars, sendVars, serverVars, TypeOK
      <4>2. frames[c] \in Nat /\ wire[c] \in Nat /\ made \in Nat /\ inUse[c] \in Nat /\ CountedOf(c)
        BY DEF TypeOK, Counted
      <4>3. Sending(c)' = Sending(c) /\ Sending(c) \in Nat
        BY <4>1, <4>2 DEF Sending, One
      <4> QED
        BY <3>2, <4>1, <4>2, <4>3 DEF CountedOf, One
    <3> QED
      BY <3>1, <3>2
  <2>3. Ending' /\ NoReportAfterClose'
    BY <1>11 DEF DoRequest, Goto, cmdVars, loopVars, sendVars, runVars, serverVars, repVars,
       TypeOK, Ending, AllDone, NoReportAfterClose
  <2>4. unreported' = unreported
    BY <1>11 DEF DoRequest, Goto, cmdVars, loopVars, sendVars, runVars, serverVars, repVars,
       TypeOK, unreported, One
  <2>5. Units(unreported)' = Units(unreported)
    BY <2>4 DEF Units
  <2>6. Accounted'
    BY <1>0, <1>11, <2>5 DEF DoRequest, Goto, cmdVars, loopVars, sendVars, runVars, serverVars,
       repVars, TypeOK, Accounted
  <2> QED
    BY <2>1, <2>2, <2>3, <2>6
<1>12. ASSUME NEW c \in Clients, WaitAllow(c) PROVE IInv'
  <2>0. /\ made' = made + 1 /\ lg[c] = "allow" /\ quota[c] > 0
        /\ inUse' = [inUse EXCEPT ![c] = @ + 1] /\ quota' = [quota EXCEPT ![c] = @ - 1]
        /\ lg' = [lg EXCEPT ![c] = "window"] \/ lg' = [lg EXCEPT ![c] = "refused"]
        /\ UNCHANGED <<main, gDone, err, created, n, lgDone, gaveUp, credit, frames, fp, sl, prio, recv, run,
                       runDone, runErr, deadline, broken, wire, due, rep, repClosed,
                       repChan, lines, panicked>>
    BY <1>12 DEF WaitAllow, Goto, cmdVars, sendVars, runVars, serverVars, repVars
  <2>1. TypeOK'
    <3>1. /\ made' \in Nat /\ lines' \in 0..made'
          /\ made \in Nat /\ 0..made \subseteq 0..made'
      BY <2>0 DEF TypeOK
    <3>2. /\ inUse' \in [Clients -> 0..made'] /\ wire' \in [Clients -> 0..made']
          /\ quota' \in [Clients -> Nat]
          /\ lg' \in [Clients -> {"fetch", "allow", "refused", "window", "send", "wait", "done"}]
      BY <2>0, <3>1 DEF TypeOK
    <3> QED
      BY <2>0, <3>1, <3>2 DEF TypeOK
  <2>2. Counted'
    <3> SUFFICES ASSUME NEW d \in Clients PROVE CountedOf(d)'
      BY DEF Counted
    <3>1. CASE d # c
      BY <1>0, <2>0, <2>1, <3>1, OthersCounted DEF TypeOK, Counted
    <3>2. CASE d = c
      <4>1. /\ lg'[c] \in {"window", "refused"} /\ inUse'[c] = inUse[c] + 1 /\ inUse[c] \in Nat /\ made \in Nat
            /\ frames[c] \in Nat /\ wire[c] \in Nat
        BY <2>0 DEF TypeOK
      <4>2. Sending(c)' = Sending(c) + 1
        BY <2>0, <4>1 DEF Sending, One
      <4>3. CountedOf(c)
        BY DEF Counted
      <4> QED
        BY <1>0, <2>0, <3>2, <4>1, <4>2, <4>3 DEF CountedOf, One
    <3> QED
      BY <3>1, <3>2
  <2>3. Ending' /\ NoReportAfterClose'
    BY <2>0 DEF TypeOK, Ending, AllDone, NoReportAfterClose
  <2>4. unreported' = [unreported EXCEPT ![c] = @ + 1]
    <3>1. inUse'[c] = inUse[c] + 1 /\ inUse[c] \in Nat
      BY <2>0 DEF TypeOK
    <3>2. \A d \in Clients : d # c => inUse'[d] = inUse[d]
      BY <2>0 DEF TypeOK
    <3>3. unreported'[c] = unreported[c] + 1
      BY <2>0, <3>1 DEF unreported, One
    <3>4. \A d \in Clients : d # c => unreported'[d] = unreported[d]
      BY <2>0, <3>2 DEF unreported
    <3>5. unreported' = [d \in Clients |-> unreported'[d]]
      BY DEF unreported
    <3> QED
      BY <1>0, <3>3, <3>4, <3>5
  <2>5. IsFiniteSet(Units(unreported)') /\ owed' = owed + 1
    BY <1>0, <2>4, UnitsUp DEF Accounted, Units
  <2>6. Accounted'
    <3>1. lines \in Nat /\ repChan \in Nat /\ made \in Nat
      BY DEF TypeOK
    <3> QED
      BY <1>0, <2>0, <2>5, <3>1 DEF Accounted
  <2> QED
    BY <2>1, <2>2, <2>3, <2>6
<1>13. ASSUME NEW c \in Clients, RequestError(c) PROVE IInv'
  <2>0. /\ lg[c] = "refused" /\ ~ repClosed
        /\ UNCHANGED <<main, gDone, err, created, n, lgDone, made, gaveUp, quota, credit, frames, fp,
                       sl, prio, recv, run, runDone, runErr, deadline, broken, wire, due, rep,
                       repClosed, lines>>
    BY <1>13 DEF RequestError, cmdVars, sendVars, runVars, serverVars, Ending, AllDone
  <2>1. /\ repChan < PhoutCap /\ repChan' = repChan + 1 /\ panicked' = panicked
        /\ inUse' = [inUse EXCEPT ![c] = @ - 1] /\ lg' = [lg EXCEPT ![c] = "fetch"]
    BY <1>13, <2>0 DEF RequestError, Goto
  <2>2. /\ inUse[c] \in Nat /\ inUse[c] > One(recv[c] \in {"release", "eachRelease"})
        /\ inUse[c] <= made /\ made \in Nat
    <3>1. frames[c] \in Nat /\ wire[c] \in Nat /\ CountedOf(c) /\ made \in Nat /\ inUse[c] \in Nat
      BY DEF TypeOK, Counted
    <3>2. Sending(c) > 0 /\ Sending(c) \in Nat
      BY <2>0, <3>1 DEF Sending, One
    <3> QED
      BY <2>0, <3>1, <3>2 DEF CountedOf, One
  <2>3. TypeOK'
    <3>1. /\ inUse' \in [Clients -> 0..made] /\ repChan' \in 0..PhoutCap
          /\ lg' \in [Clients -> {"fetch", "allow", "refused", "window", "send", "wait", "done"}]
      BY <2>1, <2>2 DEF TypeOK, One
    <3> QED
      BY <2>0, <2>1, <3>1 DEF TypeOK
  <2>4. Counted'
    <3> SUFFICES ASSUME NEW d \in Clients PROVE CountedOf(d)'
      BY DEF Counted
    <3>1. CASE d # c
      BY <1>0, <2>0, <2>1, <3>1, OthersCounted DEF TypeOK, Counted
    <3>2. CASE d = c
      <4>1. lg'[c] = "fetch" /\ inUse'[c] = inUse[c] - 1 /\ CountedOf(c)
        BY <2>1 DEF TypeOK, Counted
      <4>2. frames[c] \in Nat /\ wire[c] \in Nat
        BY DEF TypeOK
      <4>3. Sending(c)' = Sending(c) - 1
        BY <2>0, <4>1, <4>2 DEF Sending, One
      <4> QED
        BY <1>0, <2>0, <2>2, <3>2, <4>1, <4>3 DEF CountedOf, One
    <3> QED
      BY <3>1, <3>2
  <2>5. Ending' /\ NoReportAfterClose'
    BY <2>0, <2>1 DEF Ending, AllDone, NoReportAfterClose
  <2>6. unreported' = [unreported EXCEPT ![c] = @ - 1] /\ unreported[c] > 0
    <3>1. inUse'[c] = inUse[c] - 1 /\ \A d \in Clients : d # c => inUse'[d] = inUse[d]
      BY <2>1 DEF TypeOK
    <3>2. One(recv[c] \in {"release", "eachRelease"}) \in Nat
      BY DEF One
    <3>3. unreported'[c] = unreported[c] - 1 /\ unreported[c] > 0
      BY <2>0, <2>2, <3>1, <3>2 DEF unreported
    <3>4. \A d \in Clients : d # c => unreported'[d] = unreported[d]
      BY <2>0, <3>1 DEF unreported
    <3>5. unreported' = [d \in Clients |-> unreported'[d]]
      BY DEF unreported
    <3> QED
      BY <1>0, <3>3, <3>4, <3>5
  <2>7. IsFiniteSet(Units(unreported)') /\ owed' = owed - 1
    BY <1>0, <2>6, UnitsDown DEF Accounted, Units
  <2>8. /\ lines \in Nat /\ repChan \in Nat /\ made \in Nat /\ lines + repChan + owed <= made
        /\ rep \in {"off", "run"} => lines + repChan + owed = made
    BY DEF TypeOK, Accounted
  <2>9. lines' + repChan' + owed' = lines + repChan + owed
    BY <1>0, <2>0, <2>1, <2>7, <2>8
  <2>10. Accounted'
    BY <2>0, <2>7, <2>8, <2>9 DEF Accounted, Ending
  <2> QED
    BY <2>3, <2>4, <2>5, <2>10
<1>14. ASSUME NEW c \in Clients, WaitWindow(c) PROVE IInv'
  <2>1. TypeOK'
    <3>1. /\ credit' \in [Clients -> Nat]
          /\ lg' \in [Clients -> {"fetch", "allow", "refused", "window", "send", "wait", "done"}]
      BY <1>14 DEF WaitWindow, Goto, TypeOK
    <3> QED
      BY <1>14, <3>1 DEF WaitWindow, Goto, cmdVars, loopVars, sendVars, runVars, serverVars,
         repVars, TypeOK
  <2>2. Counted'
    <3> SUFFICES ASSUME NEW d \in Clients PROVE CountedOf(d)'
      BY DEF Counted
    <3>1. CASE d # c
      BY <1>0, <1>14, <2>1, <3>1, OthersCounted DEF WaitWindow, Goto, cmdVars, loopVars,
         sendVars, runVars, serverVars, repVars, TypeOK, Counted
    <3>2. CASE d = c
      <4>1. /\ lg[c] = "window" /\ lg'[c] = "send"
            /\ UNCHANGED <<frames, fp, sl, wire, inUse, recv, made, gaveUp>>
        BY <1>14 DEF WaitWindow, Goto, loopVars, sendVars, serverVars, TypeOK
      <4>2. frames[c] \in Nat /\ wire[c] \in Nat /\ made \in Nat /\ inUse[c] \in Nat /\ CountedOf(c)
        BY DEF TypeOK, Counted
      <4>3. Sending(c)' = Sending(c) /\ Sending(c) \in Nat
        BY <4>1, <4>2 DEF Sending, One
      <4> QED
        BY <3>2, <4>1, <4>2, <4>3 DEF CountedOf, One
    <3> QED
      BY <3>1, <3>2
  <2>3. Ending' /\ NoReportAfterClose'
    BY <1>14 DEF WaitWindow, Goto, cmdVars, loopVars, sendVars, runVars, serverVars, repVars,
       TypeOK, Ending, AllDone, NoReportAfterClose
  <2>4. unreported' = unreported
    BY <1>14 DEF WaitWindow, Goto, cmdVars, loopVars, sendVars, runVars, serverVars, repVars,
       TypeOK, unreported, One
  <2>5. Units(unreported)' = Units(unreported)
    BY <2>4 DEF Units
  <2>6. Accounted'
    BY <1>0, <1>14, <2>5 DEF WaitWindow, Goto, cmdVars, loopVars, sendVars, runVars,
       serverVars, repVars, TypeOK, Accounted
  <2> QED
    BY <2>1, <2>2, <2>3, <2>6
<1>15. ASSUME NEW c \in Clients, SendFrame(c) PROVE IInv'
  <2>1. TypeOK'
    <3>1. /\ frames' \in [Clients -> 0..ChanCap]
          /\ lg' \in [Clients -> {"fetch", "allow", "refused", "window", "send", "wait", "done"}]
      BY <1>15 DEF SendFrame, Goto, TypeOK
    <3> QED
      BY <1>15, <3>1 DEF SendFrame, Goto, cmdVars, runVars, serverVars, repVars, TypeOK
  <2>2. Counted'
    <3> SUFFICES ASSUME NEW d \in Clients PROVE CountedOf(d)'
      BY DEF Counted
    <3>1. CASE d # c
      BY <1>0, <1>15, <2>1, <3>1, OthersCounted DEF SendFrame, Goto, cmdVars, runVars,
         serverVars, repVars, TypeOK, Counted
    <3>2. CASE d = c
      BY <1>0, <1>15, <3>2 DEF SendFrame, Goto, cmdVars, runVars, serverVars, repVars, TypeOK,
         Counted, CountedOf, Sending, One
    <3> QED
      BY <3>1, <3>2
  <2>3. Ending' /\ NoReportAfterClose'
    BY <1>15 DEF SendFrame, Goto, cmdVars, runVars, serverVars, repVars, TypeOK, Ending,
       AllDone, NoReportAfterClose
  <2>4. unreported' = unreported
    BY <1>15 DEF SendFrame, Goto, cmdVars, runVars, serverVars, repVars, TypeOK, unreported,
       One
  <2>5. Units(unreported)' = Units(unreported)
    BY <2>4 DEF Units
  <2>6. Accounted'
    BY <1>0, <1>15, <2>5 DEF SendFrame, Goto, cmdVars, runVars, serverVars, repVars, TypeOK,
       Accounted
  <2> QED
    BY <2>1, <2>2, <2>3, <2>6
<1>16. ASSUME NEW c \in Clients, Flush(c) PROVE IInv'
  <2>1. TypeOK'
    <3>1. /\ lg' \in [Clients -> {"fetch", "allow", "refused", "window", "send", "wait", "done"}]
          /\ n' \in Nat
      BY <1>16 DEF Flush, Goto, TypeOK
    <3> QED
      BY <1>16, <3>1 DEF Flush, Goto, cmdVars, sendVars, runVars, serverVars, repVars, TypeOK
  <2>2. Counted'
    <3> SUFFICES ASSUME NEW d \in Clients PROVE CountedOf(d)'
      BY DEF Counted
    <3>1. CASE d # c
      BY <1>0, <1>16, <2>1, <3>1, OthersCounted DEF Flush, Goto, cmdVars, sendVars, runVars, serverVars,
         repVars, TypeOK, Counted
    <3>2. CASE d = c
      BY <1>0, <1>16, <3>2 DEF Flush, Goto, cmdVars, sendVars, runVars, serverVars, repVars, TypeOK,
         Counted, CountedOf, Sending, One
    <3> QED
      BY <3>1, <3>2
  <2>3. Ending' /\ NoReportAfterClose'
    BY <1>16 DEF Flush, Goto, cmdVars, sendVars, runVars, serverVars, repVars, TypeOK, Ending, AllDone,
       NoReportAfterClose
  <2>4. unreported' = unreported
    BY <1>16 DEF Flush, Goto, cmdVars, sendVars, runVars, serverVars, repVars, TypeOK, unreported, One
  <2>5. Units(unreported)' = Units(unreported)
    BY <2>4 DEF Units
  <2>6. Accounted'
    BY <1>0, <1>16, <2>5 DEF Flush, Goto, cmdVars, sendVars, runVars, serverVars, repVars, TypeOK,
       Accounted
  <2> QED
    BY <2>1, <2>2, <2>3, <2>6
<1>17. ASSUME NEW c \in Clients, WaitResponses(c) PROVE IInv'
  <2>1. TypeOK'
    <3>1. /\ lg' \in [Clients -> {"fetch", "allow", "refused", "window", "send", "wait", "done"}]
          /\ lgDone' \in [Clients -> BOOLEAN]
      BY <1>17 DEF WaitResponses, Goto, TypeOK
    <3> QED
      BY <1>17, <3>1 DEF WaitResponses, Goto, cmdVars, sendVars, runVars, serverVars, repVars,
         TypeOK
  <2>2. Counted'
    <3> SUFFICES ASSUME NEW d \in Clients PROVE CountedOf(d)'
      BY DEF Counted
    <3>1. CASE d # c
      <4>1. d \in gaveUp' <=> d \in gaveUp
        BY <1>17, <3>1 DEF WaitResponses
      <4>2. /\ UNCHANGED <<lg[d], frames[d], fp[d], sl[d], wire[d], inUse[d], recv[d]>>
            /\ made' = made /\ made \in Nat /\ inUse[d] \in Nat /\ CountedOf(d)
        BY <1>17, <3>1 DEF WaitResponses, Goto, sendVars, serverVars, TypeOK, Counted
      <4> QED
        BY <1>0, <4>1, <4>2, OthersCounted
    <3>2. CASE d = c
      BY <1>0, <1>17, <3>2 DEF WaitResponses, Goto, cmdVars, sendVars, runVars, serverVars,
         repVars, TypeOK, Counted, CountedOf, Sending, One
    <3> QED
      BY <3>1, <3>2
  <2>3. Ending' /\ NoReportAfterClose'
    BY <1>17 DEF WaitResponses, Goto, cmdVars, sendVars, runVars, serverVars, repVars, TypeOK,
       Ending, AllDone, NoReportAfterClose
  <2>4. unreported' = unreported
    BY <1>17 DEF WaitResponses, Goto, cmdVars, sendVars, runVars, serverVars, repVars, TypeOK,
       unreported, One
  <2>5. Units(unreported)' = Units(unreported)
    BY <2>4 DEF Units
  <2>6. Accounted'
    BY <1>0, <1>17, <2>5 DEF WaitResponses, Goto, cmdVars, sendVars, runVars, serverVars,
       repVars, TypeOK, Accounted
  <2> QED
    BY <2>1, <2>2, <2>3, <2>6
<1>18. ASSUME NEW c \in Clients, TakeFrame(c) PROVE IInv'
  <2>1. TypeOK'
    <3>1. /\ fp' \in [Clients -> {"select", "frame", "priority", "exit"}]
          /\ frames' \in [Clients -> 0..ChanCap]
      BY <1>18 DEF TakeFrame, TypeOK
    <3> QED
      BY <1>18, <3>1 DEF TakeFrame, cmdVars, loopVars, runVars, serverVars, repVars, TypeOK
  <2>2. Counted'
    <3> SUFFICES ASSUME NEW d \in Clients PROVE CountedOf(d)'
      BY DEF Counted
    <3>1. CASE d # c
      BY <1>0, <1>18, <2>1, <3>1, OthersCounted DEF TakeFrame, cmdVars, loopVars, runVars,
         serverVars, repVars, TypeOK, Counted
    <3>2. CASE d = c
      <4>1. /\ frames'[c] = frames[c] - 1 /\ fp[c] = "select" /\ fp'[c] = "frame"
            /\ UNCHANGED <<lg, sl, wire>>
        BY <1>18 DEF TakeFrame, loopVars, serverVars, TypeOK
      <4>2. frames[c] \in Nat /\ wire[c] \in Nat /\ made \in Nat /\ inUse[c] \in Nat
        BY DEF TypeOK
      <4>3. Sending(c)' = Sending(c)
        BY <4>1, <4>2 DEF Sending, One
      <4>4. UNCHANGED <<inUse, recv, made, gaveUp, lg>>
        BY <1>18 DEF TakeFrame, serverVars, cmdVars, loopVars, serverVars
      <4> QED
        BY <1>0, <3>2, <4>2, <4>3, <4>4 DEF Counted, CountedOf
    <3> QED
      BY <3>1, <3>2
  <2>3. Ending' /\ NoReportAfterClose'
    BY <1>18 DEF TakeFrame, cmdVars, loopVars, runVars, serverVars, repVars, TypeOK, Ending,
       AllDone, NoReportAfterClose
  <2>4. unreported' = unreported
    BY <1>18 DEF TakeFrame, cmdVars, loopVars, runVars, serverVars, repVars, TypeOK,
       unreported, One
  <2>5. Units(unreported)' = Units(unreported)
    BY <2>4 DEF Units
  <2>6. Accounted'
    BY <1>0, <1>18, <2>5 DEF TakeFrame, cmdVars, loopVars, runVars, serverVars, repVars,
       TypeOK, Accounted
  <2> QED
    BY <2>1, <2>2, <2>3, <2>6
<1>19. ASSUME NEW c \in Clients, TakePriority(c) PROVE IInv'
  <2>1. TypeOK'
    <3>1. /\ fp' \in [Clients -> {"select", "frame", "priority", "exit"}]
          /\ prio' \in [Clients -> 0..1]
      BY <1>19, SMTT(30) DEF TakePriority, TypeOK
    <3> QED
      BY <1>19, <3>1 DEF TakePriority, cmdVars, loopVars, runVars, serverVars, repVars, TypeOK
  <2>2. Counted'
    BY <1>0, <1>19 DEF TakePriority, cmdVars, loopVars, runVars, serverVars, repVars, TypeOK,
       Counted, CountedOf, Sending
  <2>3. Ending' /\ NoReportAfterClose'
    BY <1>19 DEF TakePriority, cmdVars, loopVars, runVars, serverVars, repVars, TypeOK, Ending,
       AllDone, NoReportAfterClose
  <2>4. unreported' = unreported
    BY <1>19 DEF TakePriority, cmdVars, loopVars, runVars, serverVars, repVars, TypeOK,
       unreported, One
  <2>5. Units(unreported)' = Units(unreported)
    BY <2>4 DEF Units
  <2>6. Accounted'
    BY <1>0, <1>19, <2>5 DEF TakePriority, cmdVars, loopVars, runVars, serverVars, repVars,
       TypeOK, Accounted
  <2> QED
    BY <2>1, <2>2, <2>3, <2>6
<1>20. ASSUME NEW c \in Clients, FrameProcessorDone(c) PROVE IInv'
  <2>1. TypeOK'
    <3>1. /\ fp' \in [Clients -> {"select", "frame", "priority", "exit"}]
      BY <1>20 DEF FrameProcessorDone, TypeOK
    <3> QED
      BY <1>20, <3>1 DEF FrameProcessorDone, cmdVars, loopVars, runVars, serverVars, repVars,
         TypeOK
  <2>2. Counted'
    BY <1>0, <1>20 DEF FrameProcessorDone, cmdVars, loopVars, runVars, serverVars, repVars,
       TypeOK, Counted, CountedOf, Sending
  <2>3. Ending' /\ NoReportAfterClose'
    BY <1>20 DEF FrameProcessorDone, cmdVars, loopVars, runVars, serverVars, repVars, TypeOK,
       Ending, AllDone, NoReportAfterClose
  <2>4. unreported' = unreported
    BY <1>20 DEF FrameProcessorDone, cmdVars, loopVars, runVars, serverVars, repVars, TypeOK,
       unreported, One
  <2>5. Units(unreported)' = Units(unreported)
    BY <2>4 DEF Units
  <2>6. Accounted'
    BY <1>0, <1>20, <2>5 DEF FrameProcessorDone, cmdVars, loopVars, runVars, serverVars,
       repVars, TypeOK, Accounted
  <2> QED
    BY <2>1, <2>2, <2>3, <2>6
<1>21. ASSUME NEW c \in Clients, HandOver(c) PROVE IInv'
  <2>1. TypeOK'
    <3>1. /\ fp' \in [Clients -> {"select", "frame", "priority", "exit"}]
          /\ sl' \in [Clients -> {"select", "frame", "priority", "exit"}]
      BY <1>0, <1>21 DEF HandOver, TypeOK, Counted, CountedOf, Sending, One
    <3> QED
      BY <1>21, <3>1 DEF HandOver, cmdVars, loopVars, runVars, serverVars, repVars, TypeOK
  <2>2. Counted'
    <3> SUFFICES ASSUME NEW d \in Clients PROVE CountedOf(d)'
      BY DEF Counted
    <3>1. CASE d # c
      BY <1>0, <1>21, <2>1, <3>1, OthersCounted DEF HandOver, cmdVars, loopVars, runVars,
         serverVars, repVars, TypeOK, Counted
    <3>2. CASE d = c
      <4>1. /\ fp[c] \in {"frame", "priority"} /\ sl[c] = "select"
            /\ fp'[c] = "select" /\ sl'[c] = fp[c] /\ UNCHANGED <<lg, frames, wire>>
        BY <1>21 DEF HandOver, loopVars, serverVars, TypeOK
      <4>2. frames[c] \in Nat /\ wire[c] \in Nat /\ made \in Nat /\ inUse[c] \in Nat
        BY DEF TypeOK
      <4>3. Sending(c)' = Sending(c)
        BY <4>1, <4>2 DEF Sending, One
      <4>4. UNCHANGED <<inUse, recv, made, gaveUp, lg>>
        BY <1>21 DEF HandOver, cmdVars, loopVars, serverVars
      <4> QED
        BY <1>0, <3>2, <4>2, <4>3, <4>4 DEF Counted, CountedOf
    <3> QED
      BY <3>1, <3>2
  <2>3. Ending' /\ NoReportAfterClose'
    BY <1>21 DEF HandOver, cmdVars, loopVars, runVars, serverVars, repVars, TypeOK, Ending,
       AllDone, NoReportAfterClose
  <2>4. unreported' = unreported
    BY <1>21 DEF HandOver, cmdVars, loopVars, runVars, serverVars, repVars, TypeOK, unreported,
       One
  <2>5. Units(unreported)' = Units(unreported)
    BY <2>4 DEF Units
  <2>6. Accounted'
    BY <1>0, <1>21, <2>5 DEF HandOver, cmdVars, loopVars, runVars, serverVars, repVars, TypeOK,
       Accounted
  <2> QED
    BY <2>1, <2>2, <2>3, <2>6
<1>22. ASSUME NEW c \in Clients, Write(c) PROVE IInv'
  <2>1. TypeOK'
    <3>1. sl' \in [Clients -> {"select", "frame", "priority", "exit"}]
      BY <1>22 DEF Write, TypeOK
    <3>2. sl[c] = "frame" => wire[c] + 1 <= made /\ wire[c] + 1 \in Nat
      <4>1. frames[c] \in Nat /\ wire[c] \in Nat /\ made \in Nat /\ Sending(c) <= made
        BY DEF TypeOK, Counted, CountedOf
      <4> QED
        BY <4>1 DEF Sending, One
    <3>3. wire' \in [Clients -> 0..made']
      BY <1>22, <3>2 DEF Write, TypeOK, loopVars
    <3> QED
      BY <1>22, <3>1, <3>3 DEF Write, cmdVars, loopVars, runVars, repVars, TypeOK
  <2>2. Counted'
    <3> SUFFICES ASSUME NEW d \in Clients PROVE CountedOf(d)'
      BY DEF Counted
    <3>1. CASE d # c
      BY <1>0, <1>22, <2>1, <3>1, OthersCounted DEF Write, cmdVars, loopVars, runVars, repVars,
         TypeOK, Counted
    <3>2. CASE d = c
      <4>1. /\ sl'[c] = "select" /\ sl[c] \in {"frame", "priority"}
            /\ wire'[c] = wire[c] + One(sl[c] = "frame") /\ UNCHANGED <<lg, frames, fp>>
        BY <1>22 DEF Write, loopVars, One, TypeOK
      <4>2. frames[c] \in Nat /\ wire[c] \in Nat /\ made \in Nat /\ inUse[c] \in Nat
        BY DEF TypeOK
      <4>3. Sending(c)' = Sending(c)
        BY <4>1, <4>2 DEF Sending, One
      <4>4. UNCHANGED <<inUse, recv, made, gaveUp, lg>>
        BY <1>22 DEF Write, cmdVars, loopVars, serverVars
      <4> QED
        BY <1>0, <3>2, <4>2, <4>3, <4>4 DEF Counted, CountedOf
    <3> QED
      BY <3>1, <3>2
  <2>3. Ending' /\ NoReportAfterClose'
    BY <1>22 DEF Write, cmdVars, loopVars, runVars, repVars, TypeOK, Ending, AllDone,
       NoReportAfterClose
  <2>4. unreported' = unreported
    BY <1>22 DEF Write, cmdVars, loopVars, runVars, repVars, TypeOK, unreported, One
  <2>5. Units(unreported)' = Units(unreported)
    BY <2>4 DEF Units
  <2>6. Accounted'
    BY <1>0, <1>22, <2>5 DEF Write, cmdVars, loopVars, runVars, repVars, TypeOK, Accounted
  <2> QED
    BY <2>1, <2>2, <2>3, <2>6
<1>23. ASSUME NEW c \in Clients, SenderReturns(c) PROVE IInv'
  <2>1. TypeOK'
    <3>1. /\ runDone' \in [Clients -> BOOLEAN]
          /\ runErr' \in [Clients -> BOOLEAN]
          /\ sl' \in [Clients -> {"select", "frame", "priority", "exit"}]
      BY <1>0, <1>23 DEF SenderReturns, Leave, TypeOK, Counted, CountedOf, Sending, One
    <3> QED
      BY <1>23, <3>1 DEF SenderReturns, Leave, cmdVars, loopVars, serverVars, repVars, TypeOK
  <2>2. Counted'
    <3> SUFFICES ASSUME NEW d \in Clients PROVE CountedOf(d)'
      BY DEF Counted
    <3>1. CASE d # c
      BY <1>0, <1>23, <2>1, <3>1, OthersCounted DEF SenderReturns, Leave, cmdVars, loopVars,
         serverVars, repVars, TypeOK, Counted
    <3>2. CASE d = c
      <4>1. sl'[c] = "exit" /\ UNCHANGED <<lg, frames, fp, wire>>
        BY <1>23 DEF SenderReturns, loopVars, serverVars, TypeOK
      <4>2. frames[c] \in Nat /\ wire[c] \in Nat /\ made \in Nat /\ inUse[c] \in Nat
        BY DEF TypeOK
      <4>3. Sending(c)' <= Sending(c) /\ Sending(c)' \in Nat
        BY <4>1, <4>2 DEF Sending, One
      <4>4. UNCHANGED <<inUse, recv, made, gaveUp, lg>>
        BY <1>23 DEF SenderReturns, cmdVars, loopVars, serverVars
      <4> QED
        BY <1>0, <3>2, <4>2, <4>3, <4>4 DEF Counted, CountedOf
    <3> QED
      BY <3>1, <3>2
  <2>3. Ending' /\ NoReportAfterClose'
    BY <1>23 DEF SenderReturns, Leave, cmdVars, loopVars, serverVars, repVars, TypeOK, Ending,
       AllDone, NoReportAfterClose
  <2>4. unreported' = unreported
    BY <1>23 DEF SenderReturns, Leave, cmdVars, loopVars, serverVars, repVars, TypeOK,
       unreported, One
  <2>5. Units(unreported)' = Units(unreported)
    BY <2>4 DEF Units
  <2>6. Accounted'
    BY <1>0, <1>23, <2>5 DEF SenderReturns, Leave, cmdVars, loopVars, serverVars, repVars,
       TypeOK, Accounted
  <2> QED
    BY <2>1, <2>2, <2>3, <2>6
<1>24. ASSUME NEW c \in Clients, Report(c, "end", "release") PROVE IInv'
  <2>1. inUse[c] > One(lg[c] = "refused")
    <3>1. inUse[c] \in Nat /\ recv[c] = "end" /\ CountedOf(c)
      BY <1>24 DEF Report, TypeOK, Counted
    <3> QED
      BY <1>0, <3>1, RefusedSending DEF CountedOf
  <2> QED
    BY <1>24, <2>1, ReportKeeps
<1>25. ASSUME NEW c \in Clients, Report(c, "eachEnd", "eachRelease") PROVE IInv'
  <2>1. inUse[c] > One(lg[c] = "refused")
    <3>1. inUse[c] \in Nat /\ recv[c] = "eachEnd" /\ CountedOf(c)
      BY <1>25 DEF Report, TypeOK, Counted
    <3> QED
      BY <3>1 DEF CountedOf, One
  <2> QED
    BY <1>25, <2>1, ReportKeeps
<1>26. ASSUME NEW c \in Clients, Release(c, "release", "read") PROVE IInv'
  BY <1>26, ReleaseKeeps
<1>27. ASSUME NEW c \in Clients, Release(c, "eachRelease", "each") PROVE IInv'
  BY <1>27, ReleaseKeeps
<1>28. ASSUME NEW c \in Clients, SendPriority(c) PROVE IInv'
  <2>1. TypeOK'
    <3>1. /\ prio' \in [Clients -> 0..1]
          /\ recv' \in [Clients -> {"read", "end", "release", "ping", "goaway", "each", "eachEnd", "eachRelease", "exit"}]
      BY <1>28 DEF SendPriority, TypeOK
    <3> QED
      BY <1>28, <3>1 DEF SendPriority, cmdVars, loopVars, sendVars, runVars, serverVars,
         repVars, TypeOK
  <2>2. Counted'
    BY <1>0, <1>28 DEF SendPriority, cmdVars, loopVars, sendVars, runVars, serverVars, repVars,
       TypeOK, Counted, CountedOf, Sending
  <2>3. Ending' /\ NoReportAfterClose'
    BY <1>28 DEF SendPriority, cmdVars, loopVars, sendVars, runVars, serverVars, repVars,
       TypeOK, Ending, AllDone, NoReportAfterClose
  <2>4. unreported' = unreported
    BY <1>28 DEF SendPriority, cmdVars, loopVars, sendVars, runVars, serverVars, repVars,
       TypeOK, unreported, One
  <2>5. Units(unreported)' = Units(unreported)
    BY <2>4 DEF Units
  <2>6. Accounted'
    BY <1>0, <1>28, <2>5 DEF SendPriority, cmdVars, loopVars, sendVars, runVars, serverVars,
       repVars, TypeOK, Accounted
  <2> QED
    BY <2>1, <2>2, <2>3, <2>6
<1>29. ASSUME NEW c \in Clients, GoAwayRead(c) PROVE IInv'
  <2>1. TypeOK'
    <3>1. /\ recv' \in [Clients -> {"read", "end", "release", "ping", "goaway", "each",
                                  "eachEnd", "eachRelease", "exit"}]
          /\ runDone' \in [Clients -> BOOLEAN] /\ runErr' \in [Clients -> BOOLEAN]
      BY <1>29 DEF GoAwayRead, Returns, Leave, runVars, TypeOK
    <3> QED
      BY <1>29, <3>1 DEF GoAwayRead, Returns, Leave, cmdVars, loopVars, sendVars, runVars,
         serverVars, repVars, TypeOK
  <2>2. Counted'
    <3> SUFFICES ASSUME NEW d \in Clients PROVE CountedOf(d)'
      BY DEF Counted
    <3>1. CASE d # c
      BY <1>0, <1>29, <2>1, <3>1, OthersCounted DEF GoAwayRead, Returns, Leave, cmdVars,
         loopVars, sendVars, runVars, serverVars, repVars, TypeOK, Counted
    <3>2. CASE d = c
      <4>1. /\ recv[c] = "goaway" /\ recv'[c] \in {"exit", "each"}
            /\ UNCHANGED <<lg, frames, fp, sl, wire, inUse, made, gaveUp>>
        BY <1>29 DEF GoAwayRead, Returns, loopVars, sendVars, serverVars, TypeOK
      <4>2. frames[c] \in Nat /\ wire[c] \in Nat /\ made \in Nat /\ inUse[c] \in Nat /\ CountedOf(c)
        BY DEF TypeOK, Counted
      <4>3. Sending(c)' = Sending(c) /\ Sending(c) \in Nat
        BY <4>1, <4>2 DEF Sending, One
      <4> QED
        BY <3>2, <4>1, <4>2, <4>3 DEF CountedOf, One
    <3> QED
      BY <3>1, <3>2
  <2>3. Ending' /\ NoReportAfterClose'
    BY <1>29 DEF GoAwayRead, Returns, Leave, cmdVars, loopVars, sendVars, runVars, serverVars,
       repVars, TypeOK, Ending, AllDone, NoReportAfterClose
  <2>4. unreported' = unreported
    BY <1>29 DEF GoAwayRead, Returns, Leave, cmdVars, loopVars, sendVars, runVars, serverVars,
       repVars, TypeOK, unreported, One
  <2>5. Units(unreported)' = Units(unreported)
    BY <2>4 DEF Units
  <2>6. Accounted'
    BY <1>0, <1>29, <2>5 DEF GoAwayRead, Returns, Leave, cmdVars, loopVars, sendVars, runVars,
       serverVars, repVars, TypeOK, Accounted
  <2> QED
    BY <2>1, <2>2, <2>3, <2>6
<1>30. ASSUME NEW c \in Clients, ReceiverReturns(c) PROVE IInv'
  <2>1. TypeOK'
    <3>1. /\ recv' \in [Clients -> {"read", "end", "release", "ping", "goaway", "each",
                                  "eachEnd", "eachRelease", "exit"}]
          /\ runDone' \in [Clients -> BOOLEAN] /\ runErr' \in [Clients -> BOOLEAN]
      BY <1>30 DEF ReceiverReturns, Returns, Leave, TypeOK
    <3> QED
      BY <1>30, <3>1 DEF ReceiverReturns, Returns, Leave, cmdVars, loopVars, sendVars, runVars,
         serverVars, repVars, TypeOK
  <2>2. Counted'
    <3> SUFFICES ASSUME NEW d \in Clients PROVE CountedOf(d)'
      BY DEF Counted
    <3>1. CASE d # c
      BY <1>0, <1>30, <2>1, <3>1, OthersCounted DEF ReceiverReturns, Returns, Leave, cmdVars,
         loopVars, sendVars, runVars, serverVars, repVars, TypeOK, Counted
    <3>2. CASE d = c
      <4>1. /\ recv[c] \in {"read", "each"} /\ recv'[c] = "exit"
            /\ UNCHANGED <<lg, frames, fp, sl, wire, inUse, made, gaveUp>>
        BY <1>30 DEF ReceiverReturns, Returns, loopVars, sendVars, serverVars, TypeOK
      <4>2. frames[c] \in Nat /\ wire[c] \in Nat /\ made \in Nat /\ inUse[c] \in Nat /\ CountedOf(c)
        BY DEF TypeOK, Counted
      <4>3. Sending(c)' = Sending(c) /\ Sending(c) \in Nat
        BY <4>1, <4>2 DEF Sending, One
      <4> QED
        BY <3>2, <4>1, <4>2, <4>3 DEF CountedOf, One
    <3> QED
      BY <3>1, <3>2
  <2>3. Ending' /\ NoReportAfterClose'
    BY <1>30 DEF ReceiverReturns, Returns, Leave, cmdVars, loopVars, sendVars, runVars,
       serverVars, repVars, TypeOK, Ending, AllDone, NoReportAfterClose
  <2>4. unreported' = unreported
    BY <1>30 DEF ReceiverReturns, Returns, Leave, cmdVars, loopVars, sendVars, runVars,
       serverVars, repVars, TypeOK, unreported, One
  <2>5. Units(unreported)' = Units(unreported)
    BY <2>4 DEF Units
  <2>6. Accounted'
    BY <1>0, <1>30, <2>5 DEF ReceiverReturns, Returns, Leave, cmdVars, loopVars, sendVars,
       runVars, serverVars, repVars, TypeOK, Accounted
  <2> QED
    BY <2>1, <2>2, <2>3, <2>6
<1>31. ASSUME NEW c \in Clients, SetDeadline(c) PROVE IInv'
  <2>1. TypeOK'
    <3>1. /\ deadline' \in [Clients -> BOOLEAN]
      BY <1>31 DEF SetDeadline, TypeOK
    <3> QED
      BY <1>31, <3>1 DEF SetDeadline, cmdVars, loopVars, sendVars, serverVars, repVars, TypeOK
  <2>2. Counted'
    BY <1>0, <1>31 DEF SetDeadline, cmdVars, loopVars, sendVars, serverVars, repVars, TypeOK,
       Counted, CountedOf, Sending
  <2>3. Ending' /\ NoReportAfterClose'
    BY <1>31 DEF SetDeadline, cmdVars, loopVars, sendVars, serverVars, repVars, TypeOK, Ending,
       AllDone, NoReportAfterClose
  <2>4. unreported' = unreported
    BY <1>31 DEF SetDeadline, cmdVars, loopVars, sendVars, serverVars, repVars, TypeOK,
       unreported, One
  <2>5. Units(unreported)' = Units(unreported)
    BY <2>4 DEF Units
  <2>6. Accounted'
    BY <1>0, <1>31, <2>5 DEF SetDeadline, cmdVars, loopVars, sendVars, serverVars, repVars,
       TypeOK, Accounted
  <2> QED
    BY <2>1, <2>2, <2>3, <2>6
<1>32. ASSUME NEW c \in Clients, LoaderRunReturns(c) PROVE IInv'
  <2>1. TypeOK'
    <3>1. /\ run' \in [Clients -> {"on", "returned"}]
      BY <1>32 DEF LoaderRunReturns, Fail, TypeOK
    <3> QED
      BY <1>32, <3>1 DEF LoaderRunReturns, Fail, loopVars, sendVars, serverVars, repVars,
         TypeOK
  <2>2. Counted'
    BY <1>0, <1>32 DEF LoaderRunReturns, Fail, loopVars, sendVars, serverVars, repVars, TypeOK,
       Counted, CountedOf, Sending
  <2>3. Ending' /\ NoReportAfterClose'
    BY <1>32 DEF LoaderRunReturns, Fail, loopVars, sendVars, serverVars, repVars, TypeOK,
       Ending, AllDone, NoReportAfterClose
  <2>4. unreported' = unreported
    BY <1>32 DEF LoaderRunReturns, Fail, loopVars, sendVars, serverVars, repVars, TypeOK,
       unreported, One
  <2>5. Units(unreported)' = Units(unreported)
    BY <2>4 DEF Units
  <2>6. Accounted'
    BY <1>0, <1>32, <2>5 DEF LoaderRunReturns, Fail, loopVars, sendVars, serverVars, repVars,
       TypeOK, Accounted
  <2> QED
    BY <2>1, <2>2, <2>3, <2>6
<1>33. ASSUME NEW c \in Clients, Respond(c) PROVE IInv'
  <2>1. TypeOK'
    <3>1. /\ recv' \in [Clients -> {"read", "end", "release", "ping", "goaway", "each",
                                  "eachEnd", "eachRelease", "exit"}]
          /\ wire' \in [Clients -> 0..made']
      BY <1>33 DEF Respond, Receive, TypeOK
    <3> QED
      BY <1>33, <3>1 DEF Respond, Receive, cmdVars, loopVars, sendVars, runVars, serverVars,
         repVars, TypeOK
  <2>2. Counted'
    <3> SUFFICES ASSUME NEW d \in Clients PROVE CountedOf(d)'
      BY DEF Counted
    <3>1. CASE d # c
      BY <1>0, <1>33, <2>1, <3>1, OthersCounted DEF Respond, Receive, cmdVars, loopVars,
         sendVars, runVars, serverVars, repVars, TypeOK, Counted
    <3>2. CASE d = c
      <4>1. /\ recv[c] = "read" /\ recv'[c] = "end" /\ wire'[c] = wire[c] - 1 /\ wire[c] > 0
            /\ UNCHANGED <<lg, frames, fp, sl, inUse, made, gaveUp>>
        BY <1>33 DEF Respond, Receive, sendVars, TypeOK
      <4>2. frames[c] \in Nat /\ wire[c] \in Nat /\ made \in Nat /\ inUse[c] \in Nat /\ CountedOf(c)
        BY DEF TypeOK, Counted
      <4>3. Sending(c)' = Sending(c) - 1
        <5> DEFINE r == One(lg[c] \in {"refused", "window", "send"}) + frames[c] + One(fp[c] = "frame")
                          + One(sl[c] = "frame")
        <5>1. r \in Nat /\ Sending(c) = r + wire[c]
          BY <4>2 DEF Sending, One
        <5>2. Sending(c)' = r + wire'[c]
          BY <4>1 DEF Sending
        <5> QED
          BY <4>1, <4>2, <5>1, <5>2
      <4> QED
        BY <1>0, <3>2, <4>1, <4>2, <4>3 DEF CountedOf, One
    <3> QED
      BY <3>1, <3>2
  <2>3. Ending' /\ NoReportAfterClose'
    BY <1>33 DEF Respond, Receive, cmdVars, loopVars, sendVars, runVars, serverVars, repVars,
       TypeOK, Ending, AllDone, NoReportAfterClose
  <2>4. unreported' = unreported
    BY <1>33 DEF Respond, Receive, cmdVars, loopVars, sendVars, runVars, serverVars, repVars,
       TypeOK, unreported, One
  <2>5. Units(unreported)' = Units(unreported)
    BY <2>4 DEF Units
  <2>6. Accounted'
    BY <1>0, <1>33, <2>5 DEF Respond, Receive, cmdVars, loopVars, sendVars, runVars,
       serverVars, repVars, TypeOK, Accounted
  <2> QED
    BY <2>1, <2>2, <2>3, <2>6
<1>34. ASSUME NEW c \in Clients, Widen(c) PROVE IInv'
  <2>1. TypeOK'
    <3>1. /\ recv' \in [Clients -> {"read", "end", "release", "ping", "goaway", "each",
                                  "eachEnd", "eachRelease", "exit"}]
          /\ due' \in [Clients -> Nat] /\ credit' \in [Clients -> Nat]
      BY <1>34 DEF Widen, Receive, TypeOK
    <3> QED
      BY <1>34, <3>1 DEF Widen, Receive, cmdVars, loopVars, sendVars, runVars, serverVars,
         repVars, TypeOK
  <2>2. Counted'
    <3> SUFFICES ASSUME NEW d \in Clients PROVE CountedOf(d)'
      BY DEF Counted
    <3>1. CASE d # c
      BY <1>0, <1>34, <2>1, <3>1, OthersCounted DEF Widen, Receive, cmdVars, loopVars,
         sendVars, runVars, serverVars, repVars, TypeOK, Counted
    <3>2. CASE d = c
      <4>1. /\ recv[c] = "read" /\ recv'[c] = "read"
            /\ UNCHANGED <<lg, frames, fp, sl, wire, inUse, made, gaveUp>>
        BY <1>34 DEF Widen, Receive, loopVars, sendVars, serverVars, TypeOK
      <4>2. frames[c] \in Nat /\ wire[c] \in Nat /\ made \in Nat /\ inUse[c] \in Nat /\ CountedOf(c)
        BY DEF TypeOK, Counted
      <4>3. Sending(c)' = Sending(c) /\ Sending(c) \in Nat
        BY <4>1, <4>2 DEF Sending, One
      <4> QED
        BY <3>2, <4>1, <4>2, <4>3 DEF CountedOf, One
    <3> QED
      BY <3>1, <3>2
  <2>3. Ending' /\ NoReportAfterClose'
    BY <1>34 DEF Widen, Receive, cmdVars, loopVars, sendVars, runVars, serverVars, repVars,
       TypeOK, Ending, AllDone, NoReportAfterClose
  <2>4. unreported' = unreported
    BY <1>34 DEF Widen, Receive, cmdVars, loopVars, sendVars, runVars, serverVars, repVars,
       TypeOK, unreported, One
  <2>5. Units(unreported)' = Units(unreported)
    BY <2>4 DEF Units
  <2>6. Accounted'
    BY <1>0, <1>34, <2>5 DEF Widen, Receive, cmdVars, loopVars, sendVars, runVars, serverVars,
       repVars, TypeOK, Accounted
  <2> QED
    BY <2>1, <2>2, <2>3, <2>6
<1>35. ASSUME NEW c \in Clients, Ping(c) PROVE IInv'
  <2>1. TypeOK'
    <3>1. /\ recv' \in [Clients -> {"read", "end", "release", "ping", "goaway", "each",
                                  "eachEnd", "eachRelease", "exit"}]
      BY <1>35 DEF Ping, Receive, TypeOK
    <3> QED
      BY <1>35, <3>1 DEF Ping, Receive, cmdVars, loopVars, sendVars, runVars, serverVars,
         repVars, TypeOK
  <2>2. Counted'
    <3> SUFFICES ASSUME NEW d \in Clients PROVE CountedOf(d)'
      BY DEF Counted
    <3>1. CASE d # c
      BY <1>0, <1>35, <2>1, <3>1, OthersCounted DEF Ping, Receive, cmdVars, loopVars, sendVars,
         runVars, serverVars, repVars, TypeOK, Counted
    <3>2. CASE d = c
      <4>1. /\ recv[c] = "read" /\ recv'[c] = "ping"
            /\ UNCHANGED <<lg, frames, fp, sl, wire, inUse, made, gaveUp>>
        BY <1>35 DEF Ping, Receive, loopVars, sendVars, serverVars, TypeOK
      <4>2. frames[c] \in Nat /\ wire[c] \in Nat /\ made \in Nat /\ inUse[c] \in Nat /\ CountedOf(c)
        BY DEF TypeOK, Counted
      <4>3. Sending(c)' = Sending(c) /\ Sending(c) \in Nat
        BY <4>1, <4>2 DEF Sending, One
      <4> QED
        BY <3>2, <4>1, <4>2, <4>3 DEF CountedOf, One
    <3> QED
      BY <3>1, <3>2
  <2>3. Ending' /\ NoReportAfterClose'
    BY <1>35 DEF Ping, Receive, cmdVars, loopVars, sendVars, runVars, serverVars, repVars,
       TypeOK, Ending, AllDone, NoReportAfterClose
  <2>4. unreported' = unreported
    BY <1>35 DEF Ping, Receive, cmdVars, loopVars, sendVars, runVars, serverVars, repVars,
       TypeOK, unreported, One
  <2>5. Units(unreported)' = Units(unreported)
    BY <2>4 DEF Units
  <2>6. Accounted'
    BY <1>0, <1>35, <2>5 DEF Ping, Receive, cmdVars, loopVars, sendVars, runVars, serverVars,
       repVars, TypeOK, Accounted
  <2> QED
    BY <2>1, <2>2, <2>3, <2>6
<1>36. ASSUME NEW c \in Clients, GoAway(c) PROVE IInv'
  <2>1. TypeOK'
    <3>1. /\ recv' \in [Clients -> {"read", "end", "release", "ping", "goaway", "each",
                                  "eachEnd", "eachRelease", "exit"}]
      BY <1>36 DEF GoAway, Receive, TypeOK
    <3> QED
      BY <1>36, <3>1 DEF GoAway, Receive, cmdVars, loopVars, sendVars, runVars, serverVars,
         repVars, TypeOK
  <2>2. Counted'
    <3> SUFFICES ASSUME NEW d \in Clients PROVE CountedOf(d)'
      BY DEF Counted
    <3>1. CASE d # c
      BY <1>0, <1>36, <2>1, <3>1, OthersCounted DEF GoAway, Receive, cmdVars, loopVars,
         sendVars, runVars, serverVars, repVars, TypeOK, Counted
    <3>2. CASE d = c
      <4>1. /\ recv[c] = "read" /\ recv'[c] = "goaway"
            /\ UNCHANGED <<lg, frames, fp, sl, wire, inUse, made, gaveUp>>
        BY <1>36 DEF GoAway, Receive, loopVars, sendVars, serverVars, TypeOK
      <4>2. frames[c] \in Nat /\ wire[c] \in Nat /\ made \in Nat /\ inUse[c] \in Nat /\ CountedOf(c)
        BY DEF TypeOK, Counted
      <4>3. Sending(c)' = Sending(c) /\ Sending(c) \in Nat
        BY <4>1, <4>2 DEF Sending, One
      <4> QED
        BY <3>2, <4>1, <4>2, <4>3 DEF CountedOf, One
    <3> QED
      BY <3>1, <3>2
  <2>3. Ending' /\ NoReportAfterClose'
    BY <1>36 DEF GoAway, Receive, cmdVars, loopVars, sendVars, runVars, serverVars, repVars,
       TypeOK, Ending, AllDone, NoReportAfterClose
  <2>4. unreported' = unreported
    BY <1>36 DEF GoAway, Receive, cmdVars, loopVars, sendVars, runVars, serverVars, repVars,
       TypeOK, unreported, One
  <2>5. Units(unreported)' = Units(unreported)
    BY <2>4 DEF Units
  <2>6. Accounted'
    BY <1>0, <1>36, <2>5 DEF GoAway, Receive, cmdVars, loopVars, sendVars, runVars, serverVars,
       repVars, TypeOK, Accounted
  <2> QED
    BY <2>1, <2>2, <2>3, <2>6
<1>37. ASSUME NEW c \in Clients, ReadDone(c) PROVE IInv'
  <2>1. TypeOK'
    <3>1. /\ recv' \in [Clients -> {"read", "end", "release", "ping", "goaway", "each",
                                  "eachEnd", "eachRelease", "exit"}]
          /\ runDone' \in [Clients -> BOOLEAN] /\ runErr' \in [Clients -> BOOLEAN]
      BY <1>37 DEF ReadDone, Returns, Leave, TypeOK
    <3> QED
      BY <1>37, <3>1 DEF ReadDone, Returns, Leave, cmdVars, loopVars, sendVars, runVars,
         serverVars, repVars, TypeOK
  <2>2. Counted'
    <3> SUFFICES ASSUME NEW d \in Clients PROVE CountedOf(d)'
      BY DEF Counted
    <3>1. CASE d # c
      BY <1>0, <1>37, <2>1, <3>1, OthersCounted DEF ReadDone, Returns, Leave, cmdVars,
         loopVars, sendVars, runVars, serverVars, repVars, TypeOK, Counted
    <3>2. CASE d = c
      <4>1. /\ recv[c] = "read" /\ recv'[c] = "exit"
            /\ UNCHANGED <<lg, frames, fp, sl, wire, inUse, made, gaveUp>>
        BY <1>37 DEF ReadDone, Returns, loopVars, sendVars, serverVars, TypeOK
      <4>2. frames[c] \in Nat /\ wire[c] \in Nat /\ made \in Nat /\ inUse[c] \in Nat /\ CountedOf(c)
        BY DEF TypeOK, Counted
      <4>3. Sending(c)' = Sending(c) /\ Sending(c) \in Nat
        BY <4>1, <4>2 DEF Sending, One
      <4> QED
        BY <3>2, <4>1, <4>2, <4>3 DEF CountedOf, One
    <3> QED
      BY <3>1, <3>2
  <2>3. Ending' /\ NoReportAfterClose'
    BY <1>37 DEF ReadDone, Returns, Leave, cmdVars, loopVars, sendVars, runVars, serverVars,
       repVars, TypeOK, Ending, AllDone, NoReportAfterClose
  <2>4. unreported' = unreported
    BY <1>37 DEF ReadDone, Returns, Leave, cmdVars, loopVars, sendVars, runVars, serverVars,
       repVars, TypeOK, unreported, One
  <2>5. Units(unreported)' = Units(unreported)
    BY <2>4 DEF Units
  <2>6. Accounted'
    BY <1>0, <1>37, <2>5 DEF ReadDone, Returns, Leave, cmdVars, loopVars, sendVars, runVars,
       serverVars, repVars, TypeOK, Accounted
  <2> QED
    BY <2>1, <2>2, <2>3, <2>6
<1>38. ASSUME NEW c \in Clients, Break(c) PROVE IInv'
  <2>1. TypeOK'
    <3>1. /\ broken' \in [Clients -> BOOLEAN]
      BY <1>38 DEF Break, TypeOK
    <3> QED
      BY <1>38, <3>1 DEF Break, cmdVars, loopVars, sendVars, runVars, repVars, TypeOK
  <2>2. Counted'
    BY <1>0, <1>38 DEF Break, cmdVars, loopVars, sendVars, runVars, repVars, TypeOK, Counted,
       CountedOf, Sending
  <2>3. Ending' /\ NoReportAfterClose'
    BY <1>38 DEF Break, cmdVars, loopVars, sendVars, runVars, repVars, TypeOK, Ending, AllDone,
       NoReportAfterClose
  <2>4. unreported' = unreported
    BY <1>38 DEF Break, cmdVars, loopVars, sendVars, runVars, repVars, TypeOK, unreported, One
  <2>5. Units(unreported)' = Units(unreported)
    BY <2>4 DEF Units
  <2>6. Accounted'
    BY <1>0, <1>38, <2>5 DEF Break, cmdVars, loopVars, sendVars, runVars, repVars, TypeOK,
       Accounted
  <2> QED
    BY <2>1, <2>2, <2>3, <2>6
<1>39. ASSUME NEW c \in Clients, EachEnds(c) PROVE IInv'
  <2>1. TypeOK'
    <3>1. recv' \in [Clients -> {"read", "end", "release", "ping", "goaway", "each",
                                 "eachEnd", "eachRelease", "exit"}]
      BY <1>39 DEF EachEnds, TypeOK
    <3> QED
      BY <1>39, <3>1 DEF EachEnds, cmdVars, loopVars, sendVars, runVars, serverVars, repVars, TypeOK
  <2>2. Counted'
    <3> SUFFICES ASSUME NEW d \in Clients PROVE CountedOf(d)'
      BY DEF Counted
    <3>1. CASE d # c
      BY <1>0, <1>39, <2>1, <3>1, OthersCounted DEF EachEnds, cmdVars, loopVars, sendVars,
         runVars, serverVars, repVars, TypeOK, Counted
    <3>2. CASE d = c
      <4>1. /\ recv[c] = "each" /\ recv'[c] = "eachEnd"
            /\ inUse[c] > IF lg[c] = "refused" THEN 1 ELSE 0
            /\ UNCHANGED <<lg, frames, fp, sl, wire, inUse, made, gaveUp>>
        BY <1>39 DEF EachEnds, loopVars, sendVars, serverVars, TypeOK
      <4>2. frames[c] \in Nat /\ wire[c] \in Nat /\ made \in Nat /\ inUse[c] \in Nat /\ CountedOf(c)
        BY DEF TypeOK, Counted
      <4>3. Sending(c)' = Sending(c) /\ Sending(c) \in Nat
        BY <4>1, <4>2 DEF Sending, One
      <4> QED
        BY <3>2, <4>1, <4>2, <4>3 DEF CountedOf, One
    <3> QED
      BY <3>1, <3>2
  <2>3. Ending' /\ NoReportAfterClose'
    BY <1>39 DEF EachEnds, cmdVars, loopVars, sendVars, runVars, serverVars, repVars, TypeOK,
       Ending, AllDone, NoReportAfterClose
  <2>4. unreported' = unreported
    BY <1>39 DEF EachEnds, cmdVars, loopVars, sendVars, runVars, serverVars, repVars, TypeOK,
       unreported, One
  <2>5. Units(unreported)' = Units(unreported)
    BY <2>4 DEF Units
  <2>6. Accounted'
    BY <1>0, <1>39, <2>5 DEF EachEnds, cmdVars, loopVars, sendVars, runVars, serverVars, repVars,
       TypeOK, Accounted
  <2> QED
    BY <2>1, <2>2, <2>3, <2>6
<1>40. ASSUME UNCHANGED vars PROVE IInv'
  BY <1>40 DEF vars, cmdVars, loopVars, sendVars, runVars, serverVars, repVars, TypeOK, Counted,
     CountedOf, Sending, Ending, AllDone, Accounted, unreported, Units, NoReportAfterClose
<1> QED
  BY <1>1, <1>2, <1>3, <1>4, <1>5, <1>6, <1>7, <1>8, <1>9, <1>10, <1>11, <1>12, <1>13, <1>14,
     <1>15, <1>16, <1>17, <1>18, <1>19, <1>20, <1>21, <1>22, <1>23, <1>24, <1>25, <1>26, <1>27,
     <1>28, <1>29, <1>30, <1>31, <1>32, <1>33, <1>34, <1>35, <1>36, <1>37, <1>38, <1>39, <1>40
     DEF Next, Reporter, Command, LoadLoop, FrameProcessor, SendLoop, Receiver, Server

-----------------------------------------------------------------------------
(* The invariant holds in every state of every run.                        *)
LEMMA Invariance == Spec => []IInv
<1> QED
  BY InitIInv, StepIInv, PTL DEF Spec

(* For any number of clients and requests, any capacities and any faults:  *)
(* no counter leaves its range (a stream released twice would take inUse   *)
(* below zero), and a report is sent to a closed channel only if a load    *)
(* loop returned with streams in use.                                      *)
THEOREM CommandSafe == Spec => []Inv
<1>1. IInv => Inv
  BY DEF IInv, Inv
<1> QED
  BY Invariance, <1>1, PTL

(* When the command has returned without an error, nothing is left to      *)
(* report.                                                                 *)
LEMMA NothingLeft == IInv => EveryRequestReported
<1> SUFFICES ASSUME IInv, main = "returned", err = "none", gaveUp = {} PROVE lines = made
  BY DEF EveryRequestReported
<1> USE DEF IInv
<1>1. AllDone /\ rep = "exit" /\ repChan = 0
  BY DEF Ending
<1>2. \A c \in Clients : inUse[c] = 0
  BY <1>1 DEF AllDone, Counted, CountedOf
<1>3. unreported \in [Clients -> Nat]
  BY Numbers
<1>4. \A c \in Clients : unreported[c] = 0
  BY <1>2, <1>3 DEF unreported, One
<1>5. Units(unreported) = {}
  BY <1>4 DEF Units
<1>6. Cardinality(Units(unreported)) = 0
  BY <1>5, FS_EmptySet
<1> QED
  BY <1>1, <1>6 DEF Accounted, TypeOK

(* For any number of clients and requests and any capacities: a run that   *)
(* returns without an error, and in which no load loop left streams        *)
(* behind, has a line in the report for each request.                      *)
THEOREM ReportComplete == Spec => []EveryRequestReported
<1> QED
  BY Invariance, NothingLeft, PTL
=============================================================================
