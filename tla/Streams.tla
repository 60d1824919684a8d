------------------------------ MODULE Streams ------------------------------
(***************************************************************************)
(* The life of the streams of one connection, from the load loop that      *)
(* opens them to the receiver that ends them: loader/sender (send), the    *)
(* streams pool, store and limiter, loader/reciever (the processors that   *)
(* end streams or widen windows) and the goaway path of loader.Run.        *)
(*                                                                         *)
(* Three goroutines share the pool, the store, the limiter and the         *)
(* windows: the sender (the load loop, inside DoRequest), the writer (the  *)
(* frame processor and sendLoop, which also runs the callbacks of a batch) *)
(* and the receiver.  One step is one critical section, one channel        *)
(* operation or one call of a shared object.  The windows and the limiter  *)
(* appear as the credit counters that FlowControl and Limiter implement.   *)
(* The server is the environment: it is any HTTP/2 server that keeps to    *)
(* the protocol.                                                           *)
(***************************************************************************)
EXTENDS Integers, Sequences, FiniteSets

CONSTANTS
  MaxRequests,           \* bound on the requests of the load loop
  Requests,              \* what SetUp produces: the flow control price of each frame
  InitialWindow,         \* SETTINGS_INITIAL_WINDOW_SIZE
  ConnWindow,            \* the connection's initial window (65535)
  MaxConcurrentStreams,  \* the server's limit; 0 is no limit (noopLimiter)
  ChanCap,               \* capacity of frameChan (16)
  MaxBatch,              \* frames in one write (1 when batching is disabled)
  NumShards,             \* shards of the stream store (16)
  MaxInFlight,           \* bound on the frames on their way to the client
  Faults                 \* what may go wrong in this instance

AllFaults == {"setup_error",   \* SetUp refuses a request
              "early",         \* the server answers before the request is complete
              "trailing_rst",  \* and then resets the stream, as RFC 9113 8.1 allows
              "goaway",        \* the server sends GOAWAY
              "timeout",       \* WaitResponses gives up after five seconds
              "cancel"}        \* the context is cancelled (signal, another client's error)

ASSUME CountsAssumption ==
  {MaxRequests, InitialWindow, ConnWindow, MaxConcurrentStreams,
   ChanCap, MaxBatch, MaxInFlight} \subseteq Nat
ASSUME ShardsAssumption == NumShards \in Nat \ {0}
ASSUME RequestsAssumption ==
  \A r \in Requests : r \in Seq(Nat) /\ r # << >>
ASSUME FaultsAssumption == Faults \subseteq AllFaults

Nil == 0
Objs == 1 .. MaxRequests                     \* streamImpl objects
Ids == {2 * k + 1 : k \in 1 .. MaxRequests}  \* stream ids: 3, 5, 7, ...

VARIABLES
  spc, streamID, stream, req, i,   \* sender: program counter and locals of send
  quota,                           \* limiter
  pool, inUse, nObj, sid,          \* StreamsPool, objects allocated, streamImpl.streamID
  fc, fcConn,                      \* windows of the stream objects and of the connection
  store,                           \* id -> stream object, Nil when absent
  frameChan, batch, wpc,           \* writer: queue, frames written whose callbacks are due
  rpc, rid, robj,                  \* receiver: program counter, frame's stream id, stream
  last, shard, left,               \* goaway: LastStreamID, shard and entries to visit
  cancelled, outcome,              \* context; how WaitResponses returned
  toClient,                        \* frames on their way to the client
  seen, reqDone, answered, early,  \* server: streams opened, complete, answered, to reset
  win, connWin, goneAway,          \* server: what is left of each window, GOAWAY sent
  objOf, ended                     \* history: object of each stream, streams ended

senderVars == <<spc, streamID, stream, req, i>>
poolVars == <<pool, inUse, nObj, sid>>
windowVars == <<fc, fcConn>>
writerVars == <<frameChan, batch, wpc>>
recvVars == <<rpc, rid, robj, last, shard, left>>
peerVars == <<seen, reqDone, answered, early, win, connWin, goneAway>>
endVars == <<cancelled, outcome>>
history == <<objOf, ended>>
vars == <<senderVars, quota, poolVars, windowVars, store, writerVars, recvVars,
          endVars, toClient, peerVars, history>>

Init ==
  /\ spc = "idle" /\ streamID = 1 /\ stream = Nil /\ req = << >> /\ i = 1
  /\ quota = MaxConcurrentStreams
  /\ pool = << >> /\ inUse = 0 /\ nObj = 0 /\ sid = [o \in Objs |-> 0]
  /\ fc = [o \in Objs |-> 0] /\ fcConn = ConnWindow
  /\ store = [id \in Ids |-> Nil]
  /\ frameChan = << >> /\ batch = << >> /\ wpc = "write"
  /\ rpc = "recv" /\ rid = 0 /\ robj = Nil
  /\ last = 0 /\ shard = 0 /\ left = {}
  /\ cancelled = FALSE /\ outcome = "none"
  /\ toClient = << >>
  /\ seen = {} /\ reqDone = {} /\ answered = {} /\ early = {}
  /\ win = [id \in Ids |-> InitialWindow] /\ connWin = ConnWindow
  /\ goneAway = FALSE
  /\ objOf = [id \in Ids |-> Nil] /\ ended = {}

-----------------------------------------------------------------------------
(* The shared objects.                                                     *)

Limited == MaxConcurrentStreams # 0

(* Mutant of TakeSlot: it does not wait for a slot.                        *)
TakeSlotUnchecked == quota' = IF quota > 0 THEN quota - 1 ELSE quota

TakeSlot == (Limited => quota > 0) /\ quota' = IF Limited THEN quota - 1 ELSE quota

GiveSlot == quota' = IF Limited THEN quota + 1 ELSE quota

ShardOf(id) == id % NumShards

(* streamImpl.End: report the result, give the object back to the pool.    *)
EndStream(o) ==
  /\ pool' = Append(pool, o)
  /\ inUse' = inUse - 1
  /\ ended' = ended \cup {sid[o]}
  /\ UNCHANGED <<nObj, sid, objOf>>

-----------------------------------------------------------------------------
(* The sender: Loader.DoRequest, Sender.send, then Flush and WaitResponses.*)

Send ==
  /\ spc = "idle" /\ streamID < 2 * MaxRequests + 1
  /\ streamID' = streamID + 2
  /\ req' \in Requests
  /\ spc' = "allow"
  /\ UNCHANGED <<stream, i, quota, poolVars, windowVars, store, writerVars, recvVars,
                 endVars, toClient, peerVars, history>>

WaitAllow ==
  /\ spc = "allow"
  /\ TakeSlot
  /\ spc' = "acquire"
  /\ UNCHANGED <<streamID, stream, req, i, poolVars, windowVars, store, writerVars,
                 recvVars, endVars, toClient, peerVars, history>>

(* Mutant of Acquire: only new objects are counted.                        *)
AcquireUncounted ==
  /\ spc = "acquire"
  /\ IF pool # << >>
       THEN /\ stream' = pool[Len(pool)]
            /\ pool' = SubSeq(pool, 1, Len(pool) - 1)
            /\ UNCHANGED <<nObj, inUse>>
       ELSE /\ stream' = nObj + 1
            /\ nObj' = nObj + 1 /\ inUse' = inUse + 1
            /\ UNCHANGED pool
  /\ sid' = [sid EXCEPT ![stream'] = streamID]
  /\ fc' = [fc EXCEPT ![stream'] = InitialWindow]
  /\ objOf' = [objOf EXCEPT ![streamID] = stream']
  /\ spc' = "setup"
  /\ UNCHANGED <<streamID, req, i, quota, fcConn, store, writerVars, recvVars,
                 endVars, toClient, peerVars, ended>>

(* The object released last, or a new one; its window is reset.            *)
Acquire ==
  /\ spc = "acquire"
  /\ inUse' = inUse + 1
  /\ IF pool # << >>
       THEN /\ stream' = pool[Len(pool)]
            /\ pool' = SubSeq(pool, 1, Len(pool) - 1)
            /\ UNCHANGED nObj
       ELSE /\ stream' = nObj + 1
            /\ nObj' = nObj + 1
            /\ UNCHANGED pool
  /\ sid' = [sid EXCEPT ![stream'] = streamID]
  /\ fc' = [fc EXCEPT ![stream'] = InitialWindow]
  /\ objOf' = [objOf EXCEPT ![streamID] = stream']
  /\ spc' = "setup"
  /\ UNCHANGED <<streamID, req, i, quota, fcConn, store, writerVars, recvVars,
                 endVars, toClient, peerVars, ended>>

(* send returns, and its locals are gone.                                  *)
SendReturns == stream' = Nil /\ req' = << >> /\ i' = 1

(* SetUp fails: the error is reported and the stream ended; the slot stays *)
(* taken.                                                                  *)
SetUpError ==
  /\ "setup_error" \in Faults
  /\ spc = "setup"
  /\ EndStream(stream)
  /\ spc' = "idle"
  /\ SendReturns
  /\ UNCHANGED <<streamID, quota, windowVars, store, writerVars, recvVars, endVars,
                 toClient, peerVars>>

(* Mutant of StoreSet: the stream is not stored.                           *)
StoreSetNever ==
  /\ spc = "setup"
  /\ i' = 1
  /\ spc' = "stream"
  /\ UNCHANGED <<streamID, stream, req, quota, poolVars, windowVars, store, writerVars,
                 recvVars, endVars, toClient, peerVars, history>>

(* Each holds the lock of the shard it goes through.                       *)
StoreSet ==
  /\ spc = "setup"
  /\ ~ (rpc = "each" /\ left # {} /\ shard = ShardOf(streamID))
  /\ store' = [store EXCEPT ![streamID] = stream]
  /\ i' = 1
  /\ spc' = "stream"
  /\ UNCHANGED <<streamID, stream, req, quota, poolVars, windowVars, writerVars,
                 recvVars, endVars, toClient, peerVars, history>>

WaitStreamWindow ==
  /\ spc = "stream"
  /\ req[i] <= fc[stream]
  /\ fc' = [fc EXCEPT ![stream] = @ - req[i]]
  /\ spc' = "conn"
  /\ UNCHANGED <<streamID, stream, req, i, quota, poolVars, fcConn, store, writerVars,
                 recvVars, endVars, toClient, peerVars, history>>

(* Mutant of WaitConnWindow: the connection's window is not charged.       *)
WaitConnWindowFree ==
  /\ spc = "conn"
  /\ req[i] <= fcConn
  /\ spc' = "enqueue"
  /\ UNCHANGED <<streamID, stream, req, i, quota, poolVars, windowVars, store, writerVars,
                 recvVars, endVars, toClient, peerVars, history>>

WaitConnWindow ==
  /\ spc = "conn"
  /\ req[i] <= fcConn
  /\ fcConn' = fcConn - req[i]
  /\ spc' = "enqueue"
  /\ UNCHANGED <<streamID, stream, req, i, quota, poolVars, fc, store, writerVars,
                 recvVars, endVars, toClient, peerVars, history>>

Enqueue ==
  /\ spc = "enqueue" /\ Len(frameChan) < ChanCap
  /\ frameChan' = Append(frameChan, [id |-> streamID, obj |-> stream, price |-> req[i],
                                     last |-> i = Len(req)])
  /\ IF i = Len(req) THEN spc' = "idle" /\ SendReturns
                     ELSE spc' = "stream" /\ i' = i + 1 /\ UNCHANGED <<stream, req>>
  /\ UNCHANGED <<streamID, quota, poolVars, windowVars, store, batch, wpc, recvVars,
                 endVars, toClient, peerVars, history>>

(* The load loop ends, after any number of requests.                       *)
Flush ==
  /\ spc = "idle"
  /\ spc' = "wait"
  /\ UNCHANGED <<streamID, stream, req, i, quota, poolVars, windowVars, store, writerVars,
                 recvVars, endVars, toClient, peerVars, history>>

(* Mutant of WaitResponses: off by one.                                    *)
WaitResponsesEarly ==
  /\ spc = "wait"
  /\ inUse <= 1 /\ outcome' = "released"
  /\ spc' = "done"
  /\ cancelled' = TRUE
  /\ UNCHANGED <<streamID, stream, req, i, quota, poolVars, windowVars, store, writerVars,
                 recvVars, toClient, peerVars, history>>

(* The client then cancels the context and Loader.Run ends.                *)
WaitResponses ==
  /\ spc = "wait"
  /\ \/ inUse = 0 /\ outcome' = "released"
     \/ "timeout" \in Faults /\ outcome' = "timeout"
     \/ cancelled /\ outcome' = "cancelled"
  /\ spc' = "done"
  /\ cancelled' = TRUE
  /\ UNCHANGED <<streamID, stream, req, i, quota, poolVars, windowVars, store, writerVars,
                 recvVars, toClient, peerVars, history>>

Cancel ==
  /\ "cancel" \in Faults /\ ~ cancelled
  /\ cancelled' = TRUE
  /\ UNCHANGED <<senderVars, quota, poolVars, windowVars, store, writerVars, recvVars,
                 outcome, toClient, peerVars, history>>

-----------------------------------------------------------------------------
(* The writer.  A frame written is a frame the server gets.                *)

Write ==
  /\ wpc = "write" /\ frameChan # << >> /\ Len(batch) < MaxBatch
  /\ LET f == Head(frameChan) IN
       /\ batch' = Append(batch, f)
       /\ seen' = seen \cup {f.id}
       /\ reqDone' = IF f.last THEN reqDone \cup {f.id} ELSE reqDone
       /\ win' = [win EXCEPT ![f.id] = @ - f.price]
       /\ connWin' = connWin - f.price
  /\ frameChan' = Tail(frameChan)
  /\ UNCHANGED <<senderVars, quota, poolVars, windowVars, store, wpc, recvVars, endVars,
                 toClient, answered, early, goneAway, history>>

(* The callbacks of a batch run after it is written and before the next.   *)
Callback ==
  /\ batch # << >>
  /\ batch' = Tail(batch)
  /\ wpc' = IF Tail(batch) = << >> THEN "write" ELSE "call"
  /\ UNCHANGED <<senderVars, quota, poolVars, windowVars, store, frameChan, recvVars,
                 endVars, toClient, peerVars, history>>

-----------------------------------------------------------------------------
(* The receiver.                                                           *)

Receive(types) ==
  /\ rpc = "recv" /\ toClient # << >> /\ Head(toClient).type \in types
  /\ toClient' = Tail(toClient)

(* HEADERS with END_STREAM: look the stream up; end it, delete it, release *)
(* its slot, in this order.                                                *)
RecvHeaders ==
  /\ Receive({"HEADERS"})
  /\ IF store[Head(toClient).id] = Nil
       THEN UNCHANGED <<rpc, rid, robj>>
       ELSE /\ rpc' = "endHeaders"
            /\ rid' = Head(toClient).id
            /\ robj' = store[rid']
  /\ UNCHANGED <<senderVars, quota, poolVars, windowVars, store, writerVars, last, shard,
                 left, endVars, peerVars, history>>

EndHeaders ==
  /\ rpc = "endHeaders"
  /\ EndStream(robj)
  /\ rpc' = "delete"
  /\ UNCHANGED <<senderVars, quota, windowVars, store, writerVars, rid, robj, last, shard,
                 left, endVars, toClient, peerVars>>

Delete ==
  /\ rpc = "delete"
  /\ store' = [store EXCEPT ![rid] = Nil]
  /\ rpc' = "release"
  /\ UNCHANGED <<senderVars, quota, poolVars, windowVars, writerVars, rid, robj, last,
                 shard, left, endVars, toClient, peerVars, history>>

Release ==
  /\ rpc = "release"
  /\ GiveSlot
  /\ rpc' = "recv" /\ rid' = 0 /\ robj' = Nil
  /\ UNCHANGED <<senderVars, poolVars, windowVars, store, writerVars, last, shard, left,
                 endVars, toClient, peerVars, history>>

(* DATA with END_STREAM, or RST_STREAM: release a slot, whether or not the *)
(* stream is known, then take it out of the store and end it.              *)
RecvDataOrReset ==
  /\ Receive({"DATA", "RST"})
  /\ GiveSlot
  /\ rid' = Head(toClient).id
  /\ rpc' = "take"
  /\ UNCHANGED <<senderVars, poolVars, windowVars, store, writerVars, robj, last, shard,
                 left, endVars, peerVars, history>>

GetAndDelete ==
  /\ rpc = "take"
  /\ robj' = store[rid]
  /\ store' = [store EXCEPT ![rid] = Nil]
  /\ IF store[rid] = Nil THEN rpc' = "recv" /\ rid' = 0
                         ELSE rpc' = "endTaken" /\ UNCHANGED rid
  /\ UNCHANGED <<senderVars, quota, poolVars, windowVars, writerVars, last, shard, left,
                 endVars, toClient, peerVars, history>>

EndTaken ==
  /\ rpc = "endTaken"
  /\ EndStream(robj)
  /\ rpc' = "recv" /\ rid' = 0 /\ robj' = Nil
  /\ UNCHANGED <<senderVars, quota, windowVars, store, writerVars, last, shard, left,
                 endVars, toClient, peerVars>>

(* Mutant of RecvWindowUpdate: an increment for a stream is lost.          *)
RecvWindowUpdateLost ==
  /\ Receive({"WINDOW_UPDATE"})
  /\ fcConn' = IF Head(toClient).id = 0 THEN fcConn + Head(toClient).n ELSE fcConn
  /\ UNCHANGED <<senderVars, quota, poolVars, fc, store, writerVars, recvVars, endVars,
                 peerVars, history>>

RecvWindowUpdate ==
  /\ Receive({"WINDOW_UPDATE"})
  /\ LET f == Head(toClient) IN
       \/ f.id = 0 /\ fcConn' = fcConn + f.n /\ UNCHANGED fc
       \/ f.id # 0 /\ store[f.id] = Nil /\ UNCHANGED windowVars
       \/ /\ f.id # 0 /\ store[f.id] # Nil
          /\ fc' = [fc EXCEPT ![store[f.id]] = @ + f.n]
          /\ UNCHANGED fcConn
  /\ UNCHANGED <<senderVars, quota, poolVars, store, writerVars, recvVars, endVars,
                 peerVars, history>>

(* GOAWAY ends Reciever.Run; runReciever goes through the store.           *)
RecvGoAway ==
  /\ Receive({"GOAWAY"})
  /\ last' = Head(toClient).n
  /\ rpc' = "each" /\ shard' = -1 /\ left' = {}
  /\ UNCHANGED <<senderVars, quota, poolVars, windowVars, store, writerVars, rid, robj,
                 endVars, peerVars, history>>

(* Not if the context is done by then.  Only odd shards exist.             *)
MoreShards == shard + 2 < NumShards /\ (shard = -1 => ~ cancelled)

(* Mutant of EachShard: it visits the shard again as long as it has        *)
(* entries.                                                                *)
EachShardResumes ==
  /\ rpc = "each" /\ left = {}
  /\ IF MoreShards
       THEN /\ shard' = IF shard > 0 /\ \E id \in Ids : store[id] # Nil /\ ShardOf(id) = shard
                          THEN shard ELSE shard + 2
            /\ left' = {id \in Ids : store[id] # Nil /\ ShardOf(id) = shard'}
            /\ UNCHANGED <<rpc, cancelled>>
       ELSE /\ rpc' = "stopped"
            /\ cancelled' = TRUE
            /\ UNCHANGED <<shard, left>>
  /\ UNCHANGED <<senderVars, quota, poolVars, windowVars, store, writerVars, rid, robj, last,
                 outcome, toClient, peerVars, history>>

(* The entries of the next shard, under its lock; behind the last one the  *)
(* receiver returns, and Loader.Run cancels the context.                   *)
EachShard ==
  /\ rpc = "each" /\ left = {}
  /\ IF MoreShards
       THEN /\ shard' = shard + 2
            /\ left' = {id \in Ids : store[id] # Nil /\ ShardOf(id) = shard + 2}
            /\ UNCHANGED <<rpc, cancelled>>
       ELSE /\ rpc' = "stopped"
            /\ cancelled' = TRUE
            /\ UNCHANGED <<shard, left>>
  /\ UNCHANGED <<senderVars, quota, poolVars, windowVars, store, writerVars, rid, robj, last,
                 outcome, toClient, peerVars, history>>

(* The server will not process a stream above LastStreamID: it is ended.   *)
(* Its entry and its slot stay.                                            *)
EachVisit(id) ==
  /\ rpc = "each" /\ id \in left
  /\ left' = left \ {id}
  /\ IF sid[store[id]] > last THEN EndStream(store[id]) ELSE UNCHANGED <<poolVars, history>>
  /\ UNCHANGED <<senderVars, quota, windowVars, store, writerVars, rpc, rid, robj, last,
                 shard, endVars, toClient, peerVars>>

-----------------------------------------------------------------------------
(* The server.                                                             *)

Transmit(f) ==
  /\ Len(toClient) < MaxInFlight
  /\ toClient' = Append(toClient, f)
  /\ UNCHANGED <<senderVars, quota, poolVars, windowVars, store, writerVars, recvVars,
                 endVars, seen, reqDone, history>>

(* The server ends a stream with HEADERS, DATA or RST_STREAM.              *)
Respond(id, type) ==
  /\ id \in seen \ answered
  /\ id \in reqDone \/ "early" \in Faults
  /\ Transmit([type |-> type, id |-> id, n |-> 0])
  /\ answered' = answered \cup {id}
  /\ early' = IF id \notin reqDone /\ type # "RST" THEN early \cup {id} ELSE early
  /\ UNCHANGED <<win, connWin, goneAway>>

(* It has no use for the rest of a request it has answered.                *)
TrailingReset(id) ==
  /\ "trailing_rst" \in Faults
  /\ id \in early
  /\ Transmit([type |-> "RST", id |-> id, n |-> 0])
  /\ early' = early \ {id}
  /\ UNCHANGED <<answered, win, connWin, goneAway>>

GrantStream(id) ==
  /\ id \in seen /\ win[id] < InitialWindow
  /\ Transmit([type |-> "WINDOW_UPDATE", id |-> id, n |-> InitialWindow - win[id]])
  /\ win' = [win EXCEPT ![id] = InitialWindow]
  /\ UNCHANGED <<answered, early, connWin, goneAway>>

GrantConn ==
  /\ connWin < ConnWindow
  /\ Transmit([type |-> "WINDOW_UPDATE", id |-> 0, n |-> ConnWindow - connWin])
  /\ connWin' = ConnWindow
  /\ UNCHANGED <<answered, early, win, goneAway>>

(* id is the last stream the server has looked at.                         *)
GoAway(id) ==
  /\ "goaway" \in Faults /\ ~ goneAway
  /\ \A x \in answered : x <= id
  /\ Transmit([type |-> "GOAWAY", id |-> 0, n |-> id])
  /\ goneAway' = TRUE
  /\ UNCHANGED <<answered, early, win, connWin>>

-----------------------------------------------------------------------------
Sender == \/ Send \/ WaitAllow \/ Acquire \/ SetUpError \/ StoreSet \/ WaitStreamWindow
          \/ WaitConnWindow \/ Enqueue \/ Flush \/ WaitResponses

Receiver == \/ RecvHeaders \/ EndHeaders \/ Delete \/ Release
            \/ RecvDataOrReset \/ GetAndDelete \/ EndTaken
            \/ RecvWindowUpdate \/ RecvGoAway \/ EachShard
            \/ \E id \in Ids : EachVisit(id)

Answer(id) == \E type \in {"HEADERS", "DATA", "RST"} : Respond(id, type)

Server == \/ \E id \in Ids : Answer(id) \/ TrailingReset(id) \/ GrantStream(id)
          \/ GrantConn
          \/ \E id \in seen \cup {0} : GoAway(id)

Next == Sender \/ Write \/ Callback \/ Receiver \/ Server \/ Cancel

Spec == Init /\ [][Next]_vars

(* Goroutines that can run do run.  The server answers the requests it has *)
(* got in full and widens the windows it waits for data on; a stream it    *)
(* has answered it need not widen, and it need not answer early.           *)
FairSpec ==
  /\ Spec
  /\ WF_vars(Sender) /\ WF_vars(Write) /\ WF_vars(Callback) /\ WF_vars(Receiver)
  /\ WF_vars(GrantConn)
  /\ \A id \in Ids : /\ WF_vars(id \in reqDone /\ Answer(id))
                     /\ WF_vars(id \notin answered /\ GrantStream(id))

-----------------------------------------------------------------------------
Frames == [id : Ids, obj : Objs, price : Nat, last : BOOLEAN]

Messages == [type : {"HEADERS", "DATA", "RST", "WINDOW_UPDATE", "GOAWAY"},
             id : Ids \cup {0}, n : Nat]

SenderType ==
  /\ spc \in {"idle", "allow", "acquire", "setup", "stream", "conn", "enqueue", "wait", "done"}
  /\ streamID \in Ids \cup {1} /\ stream \in Objs \cup {Nil}
  /\ req \in Requests \cup {<< >>} /\ i \in Nat \ {0}

PoolType ==
  /\ pool \in Seq(Objs) /\ inUse \in Nat /\ nObj \in 0 .. MaxRequests
  /\ sid \in [Objs -> Ids \cup {0}]
  /\ objOf \in [Ids -> Objs \cup {Nil}] /\ ended \subseteq Ids

SharedType ==
  /\ quota \in Nat /\ fc \in [Objs -> Nat] /\ fcConn \in Nat
  /\ store \in [Ids -> Objs \cup {Nil}]

WriterType ==
  /\ frameChan \in Seq(Frames) /\ batch \in Seq(Frames) /\ wpc \in {"write", "call"}

ReceiverType ==
  /\ rpc \in {"recv", "endHeaders", "delete", "release", "take", "endTaken", "each", "stopped"}
  /\ rid \in Ids \cup {0} /\ robj \in Objs \cup {Nil}
  /\ last \in Nat /\ shard \in Int /\ left \subseteq Ids
  /\ cancelled \in BOOLEAN /\ outcome \in {"none", "released", "timeout", "cancelled"}

ServerType ==
  /\ toClient \in Seq(Messages)
  /\ seen \subseteq Ids /\ reqDone \subseteq Ids /\ answered \subseteq Ids /\ early \subseteq Ids
  /\ win \in [Ids -> Int] /\ connWin \in Int /\ goneAway \in BOOLEAN

TypeOK == SenderType /\ PoolType /\ SharedType /\ WriterType /\ ReceiverType /\ ServerType

Live == {id \in Ids : objOf[id] # Nil /\ id \notin ended}

(* Stream objects are recycled safely, whoever ends a stream and whenever: *)
(* none is in the pool twice, none of the pool belongs to a live stream,   *)
(* and a live stream's object is its own (so two never share one).         *)
PoolSound ==
  /\ inUse + Len(pool) = nObj
  /\ \A a, b \in DOMAIN pool : pool[a] = pool[b] => a = b
  /\ \A id \in Live : sid[objOf[id]] = id /\ \A a \in DOMAIN pool : pool[a] # objOf[id]

(* inUse, which WaitAllReleased waits for, counts the live streams.        *)
InUseExact == inUse = Cardinality(Live)

(* When WaitResponses returns because all streams are released, every      *)
(* request the load loop made has been ended and reported.                 *)
AllReported == outcome = "released" => \A id \in Ids : id <= streamID => id \in ended

(* Every stream the server has heard of is in the store (or has been       *)
(* ended), so no answer and no WINDOW_UPDATE comes too early to be found.  *)
AnswerFindsStream ==
  \A id \in seen : store[id] # Nil \/ id \in ended \/ (rpc = "endTaken" /\ rid = id)

One(cond) == IF cond THEN 1 ELSE 0

(* Until a GOAWAY ends the run, every stream holds exactly one slot of the *)
(* limiter from WaitAllow to Release: no slot is lost or given twice.      *)
SlotsExact ==
  Limited /\ rpc \notin {"each", "stopped"} =>
    quota + Cardinality(Live) + One(spc = "acquire") + One(rpc \in {"delete", "release"})
      = MaxConcurrentStreams + One(rpc \in {"take", "endTaken"})

(* The server never sees more streams at once than it allows.  A stream is *)
(* active until it is answered and, unless it was reset, complete.         *)
ConcurrencyLimit ==
  Limited => Cardinality({id \in seen : id \in answered => id \in early \ reqDone})
               <= MaxConcurrentStreams

(* SETTINGS_MAX_CONCURRENT_STREAMS is kept on both sides: the limiter's    *)
(* count of free slots is exact and the server sees no stream too many.    *)
SlotsSound == SlotsExact /\ ConcurrencyLimit

(* The server never gets more than it granted, on a stream or altogether.  *)
WindowsRespected == connWin >= 0 /\ \A id \in Ids : win[id] >= 0

(* types.FlowControl: Wait returns (false) on a stream that cannot send    *)
(* any more.  A stream that has ended cannot.  It does not hold with the   *)
(* fault "early", since nothing calls Disable; no run checks it, and       *)
(* RunCompletes says what remains.                                         *)
WaitReturnsOnEndedStream ==
  \A id \in Ids :
    (spc = "stream" /\ streamID = id /\ id \in ended) ~> (spc # "stream" \/ streamID # id)

(* The load loop comes to an end with every response in, unless the server *)
(* answered a request early and does not widen its window any more.        *)
RunCompletes == <>(outcome = "released" \/ [](spc = "stream" /\ streamID \in ended))
=============================================================================
