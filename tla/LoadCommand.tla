---------------------------- MODULE LoadCommand ----------------------------
(***************************************************************************)
(* framer load: how a run starts, fails and ends.  LoadCommand.Run starts  *)
(* the reporter, creates the clients one after the other, and starts, for  *)
(* each of them, the load loop and Loader.Run, all in one errgroup;        *)
(* Loader.Run starts the sender, the receiver and the watcher that turns   *)
(* the end of its context into a deadline of the connection.  How a        *)
(* connection is set up is in Setup, what the goroutines do to the streams *)
(* in Streams, to the frames in SendPipeline and Receiver; here it is      *)
(* where they block, and what ends them.  A request is one frame and a     *)
(* batch is one frame; the windows of the stream and of the connection,    *)
(* for which a request waits one after the other, are one window here; and *)
(* a frame that a server has sent and the receiver has not read is not     *)
(* told apart from one the server has yet to send.                         *)
(***************************************************************************)
EXTENDS Integers, FiniteSets

CONSTANTS
  Clients,
  Count,      \* limit of scheduler.CountLimiter
  ChanCap,    \* capacity of frameChan (16)
  PhoutCap,   \* capacity of the phout reporter's channel (256)
  Settings,   \* what a server may announce: its limit of concurrent streams (one
              \*   that no run reaches stands for none), its window in requests
  Faults      \* of "setup", "fetch", "refuse", "duration", "frame", "goaway", "break",
              \*   "phout"

ASSUME SizesAssumption ==
  Count \in Nat /\ {ChanCap, PhoutCap} \subseteq Nat \ {0}
ASSUME ClientsAssumption == IsFiniteSet(Clients)
ASSUME SettingsAssumption == Settings \subseteq [quota : Nat, window : Nat]

VARIABLES
  main, gDone, err,             \* LoadCommand.Run: program counter, errgroup
  created,                      \* the clients that have a loader
  n,                            \* requests scheduled, shared by the clients
  lg, lgDone,                   \* load loops; their contexts (lgCtx) cancelled
  quota, credit,                \* free slots of the limiter; what is left of the window
  inUse,                        \* StreamsPool.inUse
  frames,                       \* frames in frameChan
  fp, sl,                       \* frame processor, sendLoop: program counters
  prio,                         \* frames in priorityFramesChan, of capacity 1
  recv,                         \* receiver: program counter
  run, runDone, runErr,         \* Loader.Run: returned, its context, its error
  deadline, broken,             \* connection: deadline set, broken
  wire, due,                    \* requests sent: not answered; the window not widened for
  rep, repClosed, repChan,      \* phout reporter: program counter, channel
  panicked,                     \* a send on a closed channel
  made, lines, gaveUp           \* history: requests, lines of the report, clients whose
                                \*   load loop returned with streams in use

cmdVars == <<main, gDone, err, created>>
loopVars == <<n, lg, lgDone, made, gaveUp, quota, credit>>
sendVars == <<frames, fp, sl>>
runVars == <<run, runDone, runErr, deadline>>
serverVars == <<broken, wire, due>>
repVars == <<rep, repClosed, repChan, lines>>
vars == <<cmdVars, loopVars, inUse, sendVars, prio, recv, runVars, serverVars, repVars,
          panicked>>

Every(x) == [c \in Clients |-> x]

Init ==
  /\ main = "start" /\ gDone = FALSE /\ err = "none" /\ created = {}
  /\ n = 0 /\ lg = Every("fetch") /\ lgDone = Every(FALSE)
  /\ \E s \in [Clients -> Settings] : /\ quota = [c \in Clients |-> s[c].quota]
                                       /\ credit = [c \in Clients |-> s[c].window]
  /\ inUse = Every(0) /\ frames = Every(0)
  /\ fp = Every("select") /\ sl = Every("select") /\ prio = Every(0) /\ recv = Every("read")
  /\ run = Every("on") /\ runDone = Every(FALSE) /\ runErr = Every(FALSE)
  /\ deadline = Every(FALSE) /\ broken = Every(FALSE)
  /\ wire = Every(0) /\ due = Every(0)
  /\ rep = "off" /\ repClosed = FALSE /\ repChan = 0
  /\ panicked = FALSE /\ made = 0 /\ lines = 0 /\ gaveUp = {}

(* errgroup: keep the first error and cancel the context.                  *)
Fail(e) == err' = (IF err = "none" THEN e ELSE err) /\ gDone' = TRUE

CtxDone(c) == gDone \/ lgDone[c] \/ runDone[c]

-----------------------------------------------------------------------------
(* The start of LoadCommand.Run.                                           *)

clientVars == <<loopVars, inUse, sendVars, prio, recv, runVars, serverVars>>

(* The phout file and the reporter.                                        *)
StartReporter ==
  /\ main = "start"
  /\ main' = "create" /\ rep' = "run"
  /\ UNCHANGED <<gDone, err, created, clientVars, repClosed, repChan, lines, panicked>>

(* createConn and NewLoader.                                               *)
CreateClient(c) ==
  /\ main = "create" /\ c \notin created
  /\ created' = created \cup {c}
  /\ UNCHANGED <<main, gDone, err, clientVars, repVars, panicked>>

StartClients ==
  /\ main = "create" /\ created = Clients
  /\ main' = "wait"
  /\ UNCHANGED <<gDone, err, created, clientVars, repVars, panicked>>

(* The requests cannot be read into memory, the phout file cannot be       *)
(* created, a connection not be set up: Run returns at once, and its       *)
(* context ends.  The reporter is left behind.                             *)
StartFails ==
  /\ "setup" \in Faults
  /\ main = "start" \/ (main = "create" /\ created # Clients)
  /\ main' = "returned" /\ err' = "setup" /\ gDone' = TRUE
  /\ UNCHANGED <<created, clientVars, repVars, panicked>>

Started == main \notin {"start", "create"} /\ err # "setup"

-----------------------------------------------------------------------------
(* The load loop of a client.                                              *)

Goto(c, l) == lg' = [lg EXCEPT ![c] = l]

(* The load loop returns at once, and its context ends.                    *)
FetchFails(c) ==
  /\ "fetch" \in Faults /\ lg[c] = "fetch"
  /\ Goto(c, "done") /\ lgDone' = [lgDone EXCEPT ![c] = TRUE]
  /\ gaveUp' = IF inUse[c] > 0 THEN gaveUp \cup {c} ELSE gaveUp
  /\ Fail("fetch")
  /\ UNCHANGED <<main, created, n, made, quota, credit, inUse, sendVars, prio, recv, runVars,
                 serverVars, repVars, panicked>>

(* With a request fetched, the scheduler is asked for the next request of  *)
(* all clients.  Sender.send then waits four times: for a slot, for the    *)
(* windows and for room in frameChan, and, if the request is refused, for  *)
(* room in the reporter's channel.  It never looks at a context.           *)
DoRequest(c) ==
  /\ lg[c] = "fetch"
  /\ n' = n + 1 /\ n' < Count
  /\ Goto(c, "allow")
  /\ UNCHANGED <<cmdVars, lgDone, made, gaveUp, quota, credit, inUse, sendVars, prio, recv, runVars,
                 serverVars, repVars, panicked>>

(* Limiter.WaitAllow; the stream of the request; SetUp, which may refuse   *)
(* it; the store.                                                          *)
WaitAllow(c) ==
  /\ lg[c] = "allow" /\ quota[c] > 0
  /\ quota' = [quota EXCEPT ![c] = @ - 1]
  /\ inUse' = [inUse EXCEPT ![c] = @ + 1] /\ made' = made + 1
  /\ \/ Goto(c, "window")
     \/ "refuse" \in Faults /\ Goto(c, "refused")
  /\ UNCHANGED <<cmdVars, n, lgDone, gaveUp, credit, sendVars, prio, recv, runVars, serverVars,
                 repVars, panicked>>

(* SetUp returned an error: the load loop itself ends the stream, which is *)
(* reported and released.  The slot of the limiter is not given back.      *)
RequestError(c) ==
  /\ lg[c] = "refused"
  /\ IF repClosed THEN panicked' = TRUE /\ UNCHANGED <<lg, inUse, repChan>>
     ELSE /\ repChan < PhoutCap /\ repChan' = repChan + 1
          /\ inUse' = [inUse EXCEPT ![c] = @ - 1]
          /\ Goto(c, "fetch") /\ UNCHANGED panicked
  /\ UNCHANGED <<cmdVars, n, lgDone, made, gaveUp, quota, credit, sendVars, prio, recv, runVars,
                 serverVars, rep, repClosed, lines>>

(* stream.FC().Wait and fcConn.Wait.                                       *)
WaitWindow(c) ==
  /\ lg[c] = "window" /\ credit[c] > 0
  /\ credit' = [credit EXCEPT ![c] = @ - 1]
  /\ Goto(c, "send")
  /\ UNCHANGED <<cmdVars, n, lgDone, made, gaveUp, quota, inUse, sendVars, prio, recv, runVars,
                 serverVars, repVars, panicked>>

SendFrame(c) ==
  /\ lg[c] = "send" /\ frames[c] < ChanCap
  /\ frames' = [frames EXCEPT ![c] = @ + 1]
  /\ Goto(c, "fetch")
  /\ UNCHANGED <<cmdVars, n, lgDone, made, gaveUp, quota, credit, inUse, fp, sl, prio, recv, runVars,
                 serverVars, repVars, panicked>>

(* The count or the duration is reached.  Flush closes frameChan, after    *)
(* which the frame processor reads priority frames only (SendPipeline).    *)
Flush(c) ==
  /\ lg[c] = "fetch"
  /\ n' = n + 1 /\ (n' >= Count \/ "duration" \in Faults)
  /\ Goto(c, "wait")
  /\ UNCHANGED <<cmdVars, lgDone, made, gaveUp, quota, credit, inUse, sendVars, prio, recv, runVars,
                 serverVars, repVars, panicked>>

(* Mutant of WaitResponses: it does not wait.                              *)
WaitResponsesNot(c) ==
  /\ lg[c] = "wait"
  /\ Goto(c, "done") /\ lgDone' = [lgDone EXCEPT ![c] = TRUE]
  /\ UNCHANGED <<cmdVars, n, made, gaveUp, quota, credit, inUse, sendVars, prio, recv, runVars,
                 serverVars, repVars, panicked>>

(* WaitResponses, then lgCancel.  It gives up after five seconds, or when  *)
(* the context of the command is done.                                     *)
WaitResponses(c) ==
  /\ lg[c] = "wait"
  /\ \/ inUse[c] = 0 /\ UNCHANGED gaveUp
     \/ inUse[c] > 0 /\ gaveUp' = gaveUp \cup {c}
  /\ Goto(c, "done") /\ lgDone' = [lgDone EXCEPT ![c] = TRUE]
  /\ UNCHANGED <<cmdVars, n, made, quota, credit, inUse, sendVars, prio, recv, runVars, serverVars,
                 repVars, panicked>>

-----------------------------------------------------------------------------
(* The sender: the frame processor and sendLoop.                           *)

(* Take a frame, or a priority frame; hand it to sendLoop, blocking.       *)
TakeFrame(c) ==
  /\ fp[c] = "select" /\ frames[c] > 0
  /\ frames' = [frames EXCEPT ![c] = @ - 1]
  /\ fp' = [fp EXCEPT ![c] = "frame"]
  /\ UNCHANGED <<cmdVars, loopVars, inUse, sl, prio, recv, runVars, serverVars, repVars,
                 panicked>>

TakePriority(c) ==
  /\ fp[c] = "select" /\ prio[c] > 0
  /\ prio' = [prio EXCEPT ![c] = 0]
  /\ fp' = [fp EXCEPT ![c] = "priority"]
  /\ UNCHANGED <<cmdVars, loopVars, inUse, frames, sl, recv, runVars, serverVars, repVars,
                 panicked>>

FrameProcessorDone(c) ==
  /\ fp[c] = "select" /\ CtxDone(c)
  /\ fp' = [fp EXCEPT ![c] = "exit"]
  /\ UNCHANGED <<cmdVars, loopVars, inUse, frames, sl, prio, recv, runVars, serverVars,
                 repVars, panicked>>

HandOver(c) ==
  /\ fp[c] \in {"frame", "priority"} /\ sl[c] = "select"
  /\ sl' = [sl EXCEPT ![c] = fp[c]]
  /\ fp' = [fp EXCEPT ![c] = "select"]
  /\ UNCHANGED <<cmdVars, loopVars, inUse, frames, prio, recv, runVars, serverVars, repVars,
                 panicked>>

Write(c) ==
  /\ sl[c] \in {"frame", "priority"} /\ ~ broken[c] /\ ~ deadline[c]
  /\ wire' = [wire EXCEPT ![c] = IF sl[c] = "frame" THEN @ + 1 ELSE @]
  /\ due' = [due EXCEPT ![c] = IF sl[c] = "frame" THEN @ + 1 ELSE @]
  /\ sl' = [sl EXCEPT ![c] = "select"]
  /\ UNCHANGED <<cmdVars, loopVars, inUse, frames, fp, prio, recv, runVars, broken, repVars,
                 panicked>>

(* A goroutine of Loader.Run returns: its context is cancelled.  Errors of *)
(* a run that is already being cancelled do not count.                     *)
Leave(c, failed) ==
  /\ runDone' = [runDone EXCEPT ![c] = TRUE]
  /\ runErr' = [runErr EXCEPT ![c] = @ \/ (failed /\ ~ CtxDone(c))]
  /\ UNCHANGED <<run, deadline>>

SenderReturns(c) ==
  /\ \/ sl[c] = "select" /\ CtxDone(c) /\ Leave(c, FALSE)
     \/ sl[c] \in {"frame", "priority"} /\ (broken[c] \/ deadline[c]) /\ Leave(c, TRUE)
  /\ sl' = [sl EXCEPT ![c] = "exit"]
  /\ UNCHANGED <<cmdVars, loopVars, inUse, frames, fp, prio, recv, serverVars, repVars,
                 panicked>>

-----------------------------------------------------------------------------
(* The receiver.                                                           *)

(* End reports to the phout channel, then releases the stream.  A response *)
(* also gives its slot back; the streams a GOAWAY ends do not.             *)
Report(c, here, next) ==
  /\ recv[c] = here
  /\ IF repClosed THEN panicked' = TRUE /\ UNCHANGED <<recv, repChan>>
     ELSE /\ repChan < PhoutCap /\ repChan' = repChan + 1
          /\ recv' = [recv EXCEPT ![c] = next]
          /\ UNCHANGED panicked
  /\ UNCHANGED <<cmdVars, loopVars, inUse, sendVars, prio, runVars, serverVars, rep, repClosed,
                 lines>>

Release(c, here, next) ==
  /\ recv[c] = here
  /\ inUse' = [inUse EXCEPT ![c] = @ - 1]
  /\ quota' = [quota EXCEPT ![c] = IF here = "release" THEN @ + 1 ELSE @]
  /\ recv' = [recv EXCEPT ![c] = next]
  /\ UNCHANGED <<cmdVars, n, lg, lgDone, made, gaveUp, credit, sendVars, prio, runVars, serverVars,
                 repVars, panicked>>

(* The ack of a PING is sent to priorityFramesChan, blocking.              *)
SendPriority(c) ==
  /\ recv[c] = "ping" /\ prio[c] = 0
  /\ prio' = [prio EXCEPT ![c] = 1]
  /\ recv' = [recv EXCEPT ![c] = "read"]
  /\ UNCHANGED <<cmdVars, loopVars, inUse, sendVars, runVars, serverVars, repVars, panicked>>

Returns(c, failed) ==
  /\ Leave(c, failed)
  /\ recv' = [recv EXCEPT ![c] = "exit"]

(* After GOAWAY the reader is still in conn.Read.  When that returns, end  *)
(* the streams the server did not process, unless the context is done.     *)
GoAwayRead(c) ==
  /\ recv[c] = "goaway"
  /\ IF CtxDone(c) THEN Returns(c, FALSE)
     ELSE recv' = [recv EXCEPT ![c] = "each"] /\ UNCHANGED runVars
  /\ UNCHANGED <<cmdVars, loopVars, inUse, sendVars, prio, serverVars, repVars, panicked>>

(* Each ends the streams above the last id, of those in the store: a       *)
(* refused request is not there.                                           *)
EachEnds(c) ==
  /\ recv[c] = "each" /\ inUse[c] > IF lg[c] = "refused" THEN 1 ELSE 0
  /\ recv' = [recv EXCEPT ![c] = "eachEnd"]
  /\ UNCHANGED <<cmdVars, loopVars, inUse, sendVars, prio, runVars, serverVars, repVars, panicked>>

(* conn.Read fails, or Each is through.                                    *)
ReceiverReturns(c) ==
  /\ \/ recv[c] = "read" /\ (deadline[c] \/ broken[c]) /\ Returns(c, TRUE)
     \/ recv[c] = "each" /\ \E e \in BOOLEAN : Returns(c, e)
  /\ UNCHANGED <<cmdVars, loopVars, inUse, sendVars, prio, serverVars, repVars, panicked>>

-----------------------------------------------------------------------------
(* Loader.Run, the reporter and LoadCommand.Run.                           *)

(* Mutant of SetDeadline: only once the sender and the receiver are done.  *)
SetDeadlineLate(c) ==
  /\ ~ deadline[c] /\ sl[c] = "exit" /\ recv[c] = "exit"
  /\ deadline' = [deadline EXCEPT ![c] = TRUE]
  /\ UNCHANGED <<cmdVars, loopVars, inUse, sendVars, prio, recv, run, runDone, runErr, serverVars,
                 repVars, panicked>>

(* The watcher: reads and writes under way return.                         *)
SetDeadline(c) ==
  /\ ~ deadline[c] /\ CtxDone(c)
  /\ deadline' = [deadline EXCEPT ![c] = TRUE]
  /\ UNCHANGED <<cmdVars, loopVars, inUse, sendVars, prio, recv, run, runDone, runErr, serverVars,
                 repVars, panicked>>

(* Loader.Run waits for the watcher, the sender and the receiver, but not  *)
(* for the frame processor.                                                *)
LoaderRunReturns(c) ==
  /\ run[c] = "on" /\ deadline[c] /\ sl[c] = "exit" /\ recv[c] = "exit"
  /\ run' = [run EXCEPT ![c] = "returned"]
  /\ IF runErr[c] THEN Fail("run") ELSE UNCHANGED <<err, gDone>>
  /\ UNCHANGED <<main, created, loopVars, inUse, sendVars, prio, recv, runDone, runErr, deadline, serverVars,
                 repVars, panicked>>

WriteLine ==
  /\ rep = "run" /\ repChan > 0
  /\ repChan' = repChan - 1 /\ lines' = lines + 1
  /\ UNCHANGED <<cmdVars, loopVars, inUse, sendVars, prio, recv, runVars, serverVars, rep,
                 repClosed, panicked>>

WriteLineFails ==
  /\ "phout" \in Faults /\ rep = "run" /\ repChan > 0
  /\ repChan' = repChan - 1
  /\ rep' = "failed"
  /\ UNCHANGED <<cmdVars, loopVars, inUse, sendVars, prio, recv, runVars, serverVars, repClosed, lines,
                 panicked>>

(* Mutant of ReporterReturns: what is in the channel is not written.       *)
ReporterReturnsEarly ==
  /\ repClosed /\ rep # "exit" /\ rep' = "exit"
  /\ UNCHANGED <<cmdVars, loopVars, inUse, sendVars, prio, recv, runVars, serverVars, repClosed,
                 repChan, lines, panicked>>

(* multi.Run waits for both reporters: the other one returns on Close, so  *)
(* an error of the phout reporter is known only then.  Flush may fail too. *)
ReporterReturns ==
  /\ repClosed /\ rep' = "exit"
  /\ \/ rep = "run" /\ repChan = 0 /\ UNCHANGED <<err, gDone>>
     \/ rep = "run" /\ repChan = 0 /\ "phout" \in Faults /\ Fail("phout")
     \/ rep = "failed" /\ Fail("phout")
  /\ UNCHANGED <<main, created, loopVars, inUse, sendVars, prio, recv, runVars, serverVars, repClosed,
                 repChan, lines, panicked>>

(* lgWG.Wait, then cancel, then Close of the reporter: nothing happens in  *)
(* between that could not happen before.                                   *)
LoadersDone ==
  /\ main = "wait" /\ \A c \in Clients : lg[c] = "done"
  /\ main' = "gwait" /\ gDone' = TRUE /\ repClosed' = TRUE
  /\ UNCHANGED <<err, created, loopVars, inUse, sendVars, prio, recv, runVars, serverVars, rep, repChan,
                 lines, panicked>>

CommandReturns ==
  /\ main = "gwait" /\ rep = "exit" /\ \A c \in Clients : run[c] = "returned"
  /\ main' = "returned"
  /\ UNCHANGED <<gDone, err, created, loopVars, inUse, sendVars, prio, recv, runVars, serverVars, repVars,
                 panicked>>

-----------------------------------------------------------------------------
(* The servers.  The receiver reads a frame, and what the processor of the *)
(* frame does without waiting is in the same step.                         *)

Receive(c, f) ==
  /\ recv[c] = "read"
  /\ recv' = [recv EXCEPT ![c] = f]
  /\ UNCHANGED <<cmdVars, n, lg, lgDone, made, gaveUp, quota, inUse, sendVars, prio, runVars, broken,
                 repVars, panicked>>

Respond(c) ==
  /\ Receive(c, "end")
  /\ wire[c] > 0 /\ wire' = [wire EXCEPT ![c] = @ - 1]
  /\ UNCHANGED <<credit, due>>

(* WINDOW_UPDATE.                                                          *)
Widen(c) ==
  /\ Receive(c, "read")
  /\ due[c] > 0 /\ due' = [due EXCEPT ![c] = @ - 1]
  /\ credit' = [credit EXCEPT ![c] = @ + 1]
  /\ UNCHANGED wire

Ping(c) == Receive(c, "ping") /\ UNCHANGED <<credit, wire, due>>

GoAway(c) == "goaway" \in Faults /\ Receive(c, "goaway") /\ UNCHANGED <<credit, wire, due>>

(* A frame read when the context is done is not looked at; one that cannot *)
(* be processed is an error.                                               *)
ReadDone(c) ==
  /\ recv[c] = "read" /\ (CtxDone(c) \/ "frame" \in Faults) /\ Returns(c, TRUE)
  /\ UNCHANGED <<cmdVars, loopVars, inUse, sendVars, prio, serverVars, repVars, panicked>>

Break(c) ==
  /\ "break" \in Faults /\ ~ broken[c] /\ ~ deadline[c]
  /\ broken' = [broken EXCEPT ![c] = TRUE]
  /\ UNCHANGED <<cmdVars, loopVars, inUse, sendVars, prio, recv, runVars, wire, due, repVars,
                 panicked>>

-----------------------------------------------------------------------------
LoadLoop(c) == \/ FetchFails(c) \/ DoRequest(c) \/ WaitAllow(c) \/ RequestError(c) \/ WaitWindow(c)
               \/ SendFrame(c) \/ Flush(c) \/ WaitResponses(c)

FrameProcessor(c) == TakeFrame(c) \/ TakePriority(c) \/ FrameProcessorDone(c) \/ HandOver(c)

SendLoop(c) == Write(c) \/ SenderReturns(c)

Receiver(c) == \/ Report(c, "end", "release") \/ Release(c, "release", "read") \/ SendPriority(c)
               \/ ((broken[c] \/ deadline[c]) /\ GoAwayRead(c)) \/ EachEnds(c)
               \/ Report(c, "eachEnd", "eachRelease") \/ Release(c, "eachRelease", "each")
               \/ ReceiverReturns(c)

Reporter == WriteLine \/ WriteLineFails \/ ReporterReturns

Command == \/ StartReporter \/ (\E c \in Clients : CreateClient(c)) \/ StartClients \/ StartFails
           \/ LoadersDone \/ CommandReturns

(* Any frame makes the Read after a GOAWAY return.                         *)
Server(c) == \/ Respond(c) \/ Widen(c) \/ Ping(c) \/ GoAway(c) \/ ReadDone(c) \/ GoAwayRead(c)
             \/ Break(c)

Next ==
  /\ ~ panicked
  /\ \/ Reporter \/ Command
     \/ \E c \in Clients : /\ Started
                           /\ \/ LoadLoop(c) \/ FrameProcessor(c) \/ SendLoop(c) \/ Receiver(c)
                              \/ SetDeadline(c) \/ LoaderRunReturns(c) \/ Server(c)

Spec == Init /\ [][Next]_vars

Running == ~ panicked /\ Started

(* Goroutines that can run do run.  The servers need not answer, and send  *)
(* finitely many PINGs: priority frames go first, so that a server that    *)
(* never stops keeps the requests from being sent.                         *)
FairSpec ==
  /\ Spec /\ WF_vars(~ panicked /\ Reporter) /\ WF_vars(~ panicked /\ Command)
  /\ \A c \in Clients :
       /\ WF_vars(Running /\ LoadLoop(c)) /\ WF_vars(Running /\ FrameProcessor(c))
       /\ WF_vars(Running /\ SendLoop(c)) /\ WF_vars(Running /\ Receiver(c))
       /\ WF_vars(Running /\ (SetDeadline(c) \/ LoaderRunReturns(c)))
       /\ <>[][~ Ping(c)]_vars
-----------------------------------------------------------------------------
TypeOK ==
  /\ main \in {"start", "create", "wait", "gwait", "returned"} /\ gDone \in BOOLEAN
  /\ created \subseteq Clients /\ err \in {"none", "setup", "fetch", "run", "phout"}
  /\ n \in Nat /\ made \in Nat
  /\ lg \in [Clients -> {"fetch", "allow", "refused", "window", "send", "wait", "done"}]
  /\ quota \in [Clients -> Nat] /\ credit \in [Clients -> Nat] /\ due \in [Clients -> Nat]
  /\ lgDone \in [Clients -> BOOLEAN] /\ runDone \in [Clients -> BOOLEAN]
  /\ runErr \in [Clients -> BOOLEAN] /\ deadline \in [Clients -> BOOLEAN]
  /\ broken \in [Clients -> BOOLEAN]
  /\ inUse \in [Clients -> 0..made] /\ wire \in [Clients -> 0..made]
  /\ frames \in [Clients -> 0..ChanCap] /\ prio \in [Clients -> 0..1]
  /\ fp \in [Clients -> {"select", "frame", "priority", "exit"}]
  /\ sl \in [Clients -> {"select", "frame", "priority", "exit"}]
  /\ recv \in [Clients -> {"read", "end", "release", "ping", "goaway", "each", "eachEnd",
                           "eachRelease", "exit"}]
  /\ run \in [Clients -> {"on", "returned"}]
  /\ rep \in {"off", "run", "failed", "exit"} /\ repClosed \in BOOLEAN /\ repChan \in 0..PhoutCap
  /\ panicked \in BOOLEAN /\ lines \in 0..made /\ gaveUp \subseteq Clients

(* The command closes the reporter's channel while receivers still run.    *)
(* Nobody reports to a closed channel (and panics), as long as each load   *)
(* loop returned with all its streams released: its Fetch did not fail,    *)
(* and its WaitResponses did not give up.                                  *)
NoReportAfterClose == panicked => gaveUp # {}

(* The channels keep to their capacity, no stream is released twice, and   *)
(* nobody panics.                                                          *)
Inv == TypeOK /\ NoReportAfterClose

(* A run that returns without an error, and in which no client gave up its *)
(* streams, has a line in the report for each request it made: the streams *)
(* are released after they are reported, and the channel is drained before *)
(* the reporter returns.                                                   *)
EveryRequestReported ==
  main = "returned" /\ err = "none" /\ gaveUp = {} => lines = made

(* The frame processor is gone, or waits for a sendLoop that is gone.      *)
FramesStuck(c) == fp[c] = "exit" \/ (fp[c] # "select" /\ sl[c] = "exit")

(* Nobody sends what is in frameChan, or nobody reads the answers.         *)
Cut(c) == FramesStuck(c) \/ recv[c] = "exit"

(* Where a load loop or a receiver waits without looking at its context,   *)
(* and for what.  A load loop waits for room in frameChan; for a slot,     *)
(* when the connection is cut, the server does not answer, or the slots    *)
(* went with requests that were refused or ended by GOAWAY; for the        *)
(* window, when the connection is cut or the server does not widen it.  A  *)
(* receiver waits to send an ack; and both wait to report to a phout       *)
(* reporter that has failed.                                               *)
Stuck(c) ==
  \/ lg[c] = "send" /\ frames[c] = ChanCap /\ FramesStuck(c)
  \/ lg[c] = "allow" /\ quota[c] = 0 /\ (Cut(c) \/ wire[c] > 0 \/ inUse[c] = 0)
  \/ lg[c] = "window" /\ credit[c] = 0 /\ (Cut(c) \/ due[c] > 0)
  \/ recv[c] = "ping" /\ prio[c] = 1 /\ FramesStuck(c)
  \/ (recv[c] \in {"end", "eachEnd"} \/ lg[c] = "refused") /\ rep = "failed"

(* However the load loops, the connections and the reporter end or fail,   *)
(* the command returns, unless a load loop or a receiver waits for ever in *)
(* one of the ways of Stuck: neither the duration of the run nor the end   *)
(* of a connection gets it out of there.                                   *)
CommandEnds == <>(main = "returned" \/ panicked \/ \E c \in Clients : []Stuck(c))
=============================================================================
