------------------------------ MODULE Reporters ------------------------------
(***************************************************************************)
(* The reports of framer load: multi.Multi around the phout reporter, with *)
(* a line for each stream, and the supersimple reporter, with counters     *)
(* that are printed each second and at the end.  A stream has a state      *)
(* object of each, taken from a pool when the stream starts.  The phout    *)
(* object is read and put back by the goroutine that writes the file, long *)
(* after the stream has ended; the counters are read one by one while      *)
(* streams of several clients change them.                                 *)
(***************************************************************************)
EXTENDS Integers, Sequences, FiniteSets, SequencesExt

CONSTANTS
  MaxStreams,   \* bound on the streams, of all clients
  Outcomes,     \* what may happen to a stream: sets of Events
  PhoutCap,     \* capacity of the phout channel (256)
  MaxReports    \* bound on the reports that are printed while streams run

Events == {"status", "grpc_0", "grpc_err", "rst", "goaway", "client_error"}

(* Streams are numbered in the order in which they start.                  *)
Streams == 1..MaxStreams

ASSUME OutcomesAssumption ==
  \A told \in Outcomes : told \subseteq Events /\ ~ {"grpc_0", "grpc_err"} \subseteq told
ASSUME BoundsAssumption == PhoutCap \in Nat \ {0} /\ {MaxStreams, MaxReports} \subseteq Nat

VARIABLES
  pc,                     \* what each stream does
  phout, super,           \* state objects of each stream
  seen, tag,              \* phout objects: what they were told, their stream
  noOk,                   \* supersimple objects
  ppool, spool,           \* pools of objects, as stacks
  ch, writing,            \* phout: channel, object being written (0: none)
  closed, prun, srun,     \* the channels are closed; Run of both reporters
  ok, nook, req,          \* supersimple: counters
  lok, lnook,             \* supersimple: counters read for a report
  reports, final,         \*   reports started, the last one (total) started
  happened,               \* history: what happened to each stream
  lines,                  \* history: codes in the lines written for each stream
  printed                 \* history: total and req of the reports so far

phoutVars == <<seen, tag, ppool, ch, writing>>
superVars == <<noOk, spool, ok, nook, req>>
reportVars == <<lok, lnook, reports, final, printed>>
vars == <<pc, phout, super, phoutVars, superVars, closed, prun, srun, reportVars, happened, lines>>

PhoutObjects == DOMAIN seen
SuperObjects == DOMAIN noOk

Init ==
  /\ pc = [s \in Streams |-> "new"]
  /\ phout = [s \in Streams |-> 0] /\ super = [s \in Streams |-> 0]
  /\ seen = << >> /\ tag = << >> /\ noOk = << >>
  /\ ppool = << >> /\ spool = << >> /\ ch = << >> /\ writing = 0
  /\ closed = FALSE /\ prun = "run" /\ srun = "run"
  /\ ok = 0 /\ nook = 0 /\ req = 0
  /\ lok = 0 /\ lnook = 0 /\ reports = 0 /\ final = FALSE
  /\ happened = [s \in Streams |-> {}] /\ lines = [s \in Streams |-> << >>] /\ printed = <<0, 0>>

Goto(s, l) == pc' = [pc EXCEPT ![s] = l]

-----------------------------------------------------------------------------
(* The supersimple reporter counts the request and gives an object.        *)
AcquireSuper(s) ==
  /\ req' = req + 1
  /\ IF spool = << >>
     THEN /\ super' = [super EXCEPT ![s] = Len(noOk) + 1]
          /\ noOk' = Append(noOk, FALSE) /\ UNCHANGED spool
     ELSE LET o == Last(spool)
          IN /\ super' = [super EXCEPT ![s] = o] /\ spool' = Front(spool)
             /\ noOk' = [noOk EXCEPT ![o] = FALSE]

(* Mutant of Acquire: the object of the phout reporter is not reset.       *)
AcquireStale(s) ==
  /\ pc[s] = "new" /\ \A r \in 1..(s - 1) : pc[r] # "new"
  /\ IF ppool = << >>
     THEN /\ phout' = [phout EXCEPT ![s] = Len(seen) + 1]
          /\ seen' = Append(seen, {}) /\ tag' = Append(tag, s) /\ UNCHANGED ppool
     ELSE LET o == Last(ppool)
          IN /\ phout' = [phout EXCEPT ![s] = o] /\ ppool' = Front(ppool)
             /\ tag' = [tag EXCEPT ![o] = s] /\ UNCHANGED seen
  /\ AcquireSuper(s)
  /\ Goto(s, "open")
  /\ UNCHANGED <<ch, writing, ok, nook, closed, prun, srun, reportVars, happened, lines>>

(* Multi.Acquire: an object of each reporter.                              *)
Acquire(s) ==
  /\ pc[s] = "new" /\ \A r \in 1..(s - 1) : pc[r] # "new"
  /\ IF ppool = << >>
     THEN /\ phout' = [phout EXCEPT ![s] = Len(seen) + 1]
          /\ seen' = Append(seen, {}) /\ tag' = Append(tag, s) /\ UNCHANGED ppool
     ELSE LET o == Last(ppool)
          IN /\ phout' = [phout EXCEPT ![s] = o] /\ ppool' = Front(ppool)
             /\ tag' = [tag EXCEPT ![o] = s] /\ seen' = [seen EXCEPT ![o] = {}]
  /\ AcquireSuper(s)
  /\ Goto(s, "open")
  /\ UNCHANGED <<ch, writing, ok, nook, closed, prun, srun, reportVars, happened, lines>>

-----------------------------------------------------------------------------
(* The life of a stream.                                                   *)

Grpc == {"grpc_0", "grpc_err"}

(* OnHeader, RSTStream, GoAway and RequestError, as they come between the  *)
(* start of the stream and its end: both objects are told.                 *)
Tell(s, told) ==
  /\ pc[s] = "open"
  /\ seen' = [seen EXCEPT ![phout[s]] = @ \cup told]
  /\ noOk' = [noOk EXCEPT ![super[s]] = @ \/ told \ {"status", "grpc_0"} # {}]
  /\ happened' = [happened EXCEPT ![s] = told]
  /\ Goto(s, "end")
  /\ UNCHANGED <<phout, super, tag, ppool, ch, writing, spool, ok, nook, req, closed, prun,
                 srun, reportVars, lines>>

(* Multi.End.  The phout object goes to the channel, blocking.             *)
EndPhout(s) ==
  /\ pc[s] = "end" /\ Len(ch) < PhoutCap
  /\ ch' = Append(ch, phout[s])
  /\ Goto(s, "count")
  /\ UNCHANGED <<phout, super, seen, tag, ppool, writing, superVars, closed, prun, srun, reportVars,
                 happened, lines>>

(* accept of the supersimple reporter: count, and put the object back.     *)
Count(s) ==
  /\ pc[s] = "count"
  /\ IF noOk[super[s]] THEN nook' = nook + 1 /\ UNCHANGED ok ELSE ok' = ok + 1 /\ UNCHANGED nook
  /\ spool' = Append(spool, super[s])
  /\ Goto(s, "ended")
  /\ UNCHANGED <<phout, super, phoutVars, noOk, req, closed, prun, srun, reportVars, happened,
                 lines>>

-----------------------------------------------------------------------------
(* Run of the phout reporter.                                              *)

(* streamState.result: the protocol code of a line.                        *)
Code(told) ==
  CASE "client_error" \in told -> "client_error"
    [] "client_error" \notin told /\ "rst" \in told -> "rst"
    [] told \cap {"client_error", "rst"} = {} /\ "goaway" \in told -> "goaway"
    [] told \cap {"client_error", "rst", "goaway"} = {} ->
         IF "status" \in told /\ told \cap Grpc # {}
         THEN CHOOSE e \in Grpc : e \in told
         ELSE "http2_1"

(* Mutant of TakeState: lines are written when the run is over.            *)
TakeStateLate ==
  /\ prun = "run" /\ closed /\ writing = 0 /\ ch # << >>
  /\ writing' = Head(ch) /\ ch' = Tail(ch)
  /\ UNCHANGED <<pc, phout, super, seen, tag, ppool, superVars, closed, prun, srun, reportVars,
                 happened, lines>>

TakeState ==
  /\ prun = "run" /\ writing = 0 /\ ch # << >>
  /\ writing' = Head(ch) /\ ch' = Tail(ch)
  /\ UNCHANGED <<pc, phout, super, seen, tag, ppool, superVars, closed, prun, srun, reportVars,
                 happened, lines>>

(* Write its line and put it back.                                         *)
WriteLine ==
  /\ writing # 0
  /\ lines' = [lines EXCEPT ![tag[writing]] = Append(@, Code(seen[writing]))]
  /\ ppool' = Append(ppool, writing) /\ writing' = 0
  /\ UNCHANGED <<pc, phout, super, seen, tag, ch, superVars, closed, prun, srun, reportVars,
                 happened>>

(* An error of the write: Run returns.  The object is lost, and nobody     *)
(* takes what is in the channel.                                           *)
WriteFails ==
  /\ writing # 0
  /\ writing' = 0 /\ prun' = "failed"
  /\ UNCHANGED <<pc, phout, super, seen, tag, ppool, ch, superVars, closed, srun, reportVars,
                 happened, lines>>

(* The channel is closed and empty: Flush, which may fail.                 *)
PhoutReturns ==
  /\ prun = "run" /\ closed /\ writing = 0 /\ ch = << >>
  /\ prun' \in {"done", "failed"}
  /\ UNCHANGED <<pc, phout, super, phoutVars, superVars, closed, srun, reportVars, happened, lines>>

-----------------------------------------------------------------------------
(* Run of the supersimple reporter: report, and total on return, read ok,  *)
(* then nook, then req, and print.  A report prints the difference to the  *)
(* one before, total prints the counters: printed is what they add up to.  *)

StartReport ==
  \/ reports < MaxReports /\ reports' = reports + 1 /\ UNCHANGED final
  \/ closed /\ final' = TRUE /\ UNCHANGED reports

(* Mutant of LoadCounters: req is read first.                              *)
LoadCountersReqFirst ==
  \/ /\ srun = "run" /\ StartReport
     /\ lok' = req /\ srun' = "nook" /\ UNCHANGED <<lnook, printed>>
  \/ /\ srun = "nook"
     /\ lnook' = ok /\ srun' = "req" /\ UNCHANGED <<lok, printed, reports, final>>
  \/ /\ srun = "req"
     /\ printed' = <<lnook + nook, lok>>
     /\ srun' = (IF final THEN "done" ELSE "run") /\ UNCHANGED <<lok, lnook, reports, final>>

LoadCounters ==
  \/ /\ srun = "run" /\ StartReport
     /\ lok' = ok /\ srun' = "nook" /\ UNCHANGED <<lnook, printed>>
  \/ /\ srun = "nook"
     /\ lnook' = nook /\ srun' = "req" /\ UNCHANGED <<lok, printed, reports, final>>
  \/ /\ srun = "req"
     /\ printed' = <<lok + lnook, req>>
     /\ srun' = (IF final THEN "done" ELSE "run") /\ UNCHANGED <<lok, lnook, reports, final>>

SuperRun ==
  /\ LoadCounters
  /\ UNCHANGED <<pc, phout, super, phoutVars, superVars, closed, prun, happened, lines>>

(* Multi.Close, once the streams have ended (see LoadCommand).             *)
Close ==
  /\ ~ closed /\ \A s \in Streams : pc[s] = "ended"
  /\ closed' = TRUE
  /\ UNCHANGED <<pc, phout, super, phoutVars, superVars, prun, srun, reportVars, happened, lines>>

-----------------------------------------------------------------------------
Stream(s) == \/ Acquire(s) \/ \E told \in Outcomes : Tell(s, told)
             \/ EndPhout(s) \/ Count(s)

PhoutRun == TakeState \/ WriteLine \/ WriteFails \/ PhoutReturns

Next == PhoutRun \/ SuperRun \/ Close \/ \E s \in Streams : Stream(s)

Spec == Init /\ [][Next]_vars

(* Goroutines that can run do run, and each stream is ended by somebody.   *)
FairSpec ==
  Spec /\ WF_vars(PhoutRun) /\ WF_vars(SuperRun) /\ WF_vars(Close)
       /\ \A s \in Streams : WF_vars(Stream(s))

-----------------------------------------------------------------------------
TypeOK ==
  /\ pc \in [Streams -> {"new", "open", "end", "count", "ended"}]
  /\ phout \in [Streams -> {0} \cup PhoutObjects]
  /\ super \in [Streams -> {0} \cup SuperObjects]
  /\ seen \in Seq(SUBSET Events) /\ tag \in Seq(Streams) /\ Len(tag) = Len(seen)
  /\ noOk \in Seq(BOOLEAN) /\ spool \in Seq(SuperObjects)
  /\ ppool \in Seq(PhoutObjects) /\ ch \in Seq(PhoutObjects) /\ Len(ch) <= PhoutCap
  /\ writing \in {0} \cup PhoutObjects
  /\ {closed, final} \subseteq BOOLEAN
  /\ prun \in {"run", "done", "failed"} /\ srun \in {"run", "nook", "req", "done"}
  /\ {ok, nook, req, lok, lnook, reports} \subseteq Nat

(* A line of the phout file says what happened to its own stream, though   *)
(* objects are recycled while lines wait to be written; and no stream has  *)
(* two lines.                                                              *)
LinesTrue == \A s \in Streams : lines[s] \in {<< >>, <<Code(happened[s])>>}

Ended(S) == {s \in S : pc[s] = "ended"}
Good == {s \in Streams : Code(happened[s]) = "grpc_0"}
Failed == {s \in Streams : happened[s] \ {"status", "grpc_0"} # {}}

(* The two reports agree: a stream that has, or will have, grpc_0 in its   *)
(* line is counted as ok, and one that was refused, reset, cut off or      *)
(* answered with another status is not.  (A stream that ended without a    *)
(* grpc-status is http2_1 there and ok here.)                              *)
ReportsAgree ==
  /\ ok + nook = Cardinality(Ended(Streams))
  /\ Cardinality(Ended(Good)) <= ok /\ Cardinality(Ended(Failed)) = nook

(* The reports up to any moment never add up to more streams ended than    *)
(* started, though each reads the counters one after the other while they  *)
(* change.                                                                 *)
ReportConsistent == printed[1] <= printed[2]

(* Both reports are right at every moment.                                 *)
Inv == TypeOK /\ ReportsAgree /\ ReportConsistent

(* Both reporters have returned.  The last report counts all streams, and  *)
(* the phout file has a line for each unless its Run returned an error.    *)
Returned ==
  /\ srun = "done" /\ printed = <<Cardinality(Streams), Cardinality(Streams)>>
  /\ \/ prun = "done" /\ \A s \in Streams : lines[s] # << >>
     \/ prun = "failed"

(* A stream waits for room in a channel that nobody empties.  It waits for *)
(* ever, and Multi.Close is not called.                                    *)
NoRoom == prun = "failed" /\ Len(ch) = PhoutCap /\ \E s \in Streams : pc[s] = "end"

(* Streams that wait for room in the phout channel get it, and the         *)
(* reporters return with complete reports.  The one exception is a write   *)
(* error of phout.Run with more streams behind it than the channel takes:  *)
(* after an error with room for the rest, and after an error of Flush, the *)
(* streams end and the supersimple reporter has its total.                 *)
ReportersReturn == <>(Returned \/ NoRoom)
=============================================================================
