---------------------------- MODULE SendPipeline ----------------------------
(***************************************************************************)
(* The write side of a connection, loader/sender: frames from send and     *)
(* priority frames (PING acks, WINDOW_UPDATEs) from the receiver meet in   *)
(* the frame processor, which collects them into one of two arrays and     *)
(* hands that array to sendLoop over an unbuffered channel; sendLoop       *)
(* writes it and runs its callbacks while the processor fills the other.   *)
(*                                                                         *)
(* Arrays and priority buffers are memory: what sendLoop writes is what is *)
(* in them when it gets there.  A frame is its number, one entry of an     *)
(* array; the first place of an array is the priority slot.  The instant   *)
(* processor has no such slot but writes after every frame, so it never    *)
(* has a priority frame and another in one array.                          *)
(***************************************************************************)
EXTENDS Integers, Sequences, FiniteSets

CONSTANTS
  Modes,        \* values of disableSendBatching to check
  MaxBatch,     \* frames an array takes (about 2048 / 3)
  ChanCap,      \* capacity of frameChan (16)
  Kinds,        \* priority frames: each kind has two buffers of its own
  MaxFrames,    \* bound on the frames of the load loop
  MaxPriority,  \* bound on the priority frames
  Breaks        \* whether writes may fail and the context be cancelled

ASSUME BoundsAssumption ==
  /\ {MaxFrames, MaxPriority} \subseteq Nat /\ {MaxBatch, ChanCap} \subseteq Nat \ {0}
  /\ Modes \subseteq BOOLEAN /\ Breaks \in BOOLEAN
ASSUME KindsAssumption == Kinds \cap {"frame", "nil"} = {}

VARIABLES
  queued, frameChan, closed,         \* frames sent so far, the channel, Flush called
  disableSendBatching,
  produced, current, content, rpc,   \* receiver: priority frames so far, buffer in turn,
                                     \*   memory of the buffers, the frame it is sending
  prioChan,                          \* priorityFramesChan, of capacity 1
  ppc, after, withFirst,             \* processor: program counter, where doWrite returns
                                     \*   to, its argument
  held, overflowed,                  \* the frame that did not fit; one did not
  bufs, cbs, cur,                    \* the two arrays, their callbacks, the one being filled
  timerOn,                           \* timerChan = realTimer.C
  wpc, arr, pos, end,                \* sendLoop: program counter, array, next entry, last
  cancelled, failed,                 \* context; a write has failed
  wire, called                       \* history: what was written, whose callbacks ran

queueVars == <<queued, frameChan, closed, disableSendBatching>>
prioVars == <<produced, current, content, rpc>>
heldVars == <<held, overflowed>>
procVars == <<ppc, after, withFirst, heldVars>>
arrayVars == <<bufs, cbs, cur>>
loopVars == <<wpc, arr, pos, end>>
vars == <<queueVars, prioVars, prioChan, procVars, arrayVars, timerOn, loopVars,
          cancelled, failed, wire, called>>

Nothing == [kind |-> "nil", n |-> 0, buf |-> 0]
Frame(n) == [kind |-> "frame", n |-> n, buf |-> 0]
Other(a) == 3 - a

Batching == ~ disableSendBatching

Init ==
  /\ queued = 0 /\ frameChan = << >> /\ closed = FALSE
  /\ produced = 0 /\ current = [k \in Kinds |-> 1] /\ rpc = Nothing
  /\ content = [k \in Kinds |-> [b \in 1 .. 2 |-> 0]]
  /\ prioChan = << >>
  /\ ppc = "check" /\ after = "check" /\ withFirst = FALSE /\ held = 0
  /\ bufs = [a \in 1 .. 2 |-> <<Nothing>>] /\ cbs = [a \in 1 .. 2 |-> << >>]
  /\ cur = 1 /\ timerOn = FALSE
  /\ wpc = "select" /\ arr = 2 /\ pos = 1 /\ end = 0
  /\ cancelled = FALSE /\ failed = FALSE
  /\ wire = << >> /\ called = << >> /\ overflowed = FALSE
  /\ disableSendBatching \in Modes

-----------------------------------------------------------------------------
(* The producers.                                                          *)

(* Sender.send queues a frame with its callbacks.                          *)
QueueFrame ==
  /\ queued < MaxFrames /\ ~ closed /\ Len(frameChan) < ChanCap
  /\ queued' = queued + 1
  /\ frameChan' = Append(frameChan, queued + 1)
  /\ UNCHANGED <<closed, disableSendBatching, prioVars, prioChan, procVars, arrayVars,
                 timerOn, loopVars, cancelled, failed, wire, called>>

Flush ==
  /\ ~ closed /\ closed' = TRUE
  /\ UNCHANGED <<queued, frameChan, disableSendBatching, prioVars, prioChan, procVars,
                 arrayVars, timerOn, loopVars, cancelled, failed, wire, called>>

(* The PING or the DATA processor fills its current buffer ...             *)
FillPriority(k) ==
  /\ rpc = Nothing /\ produced < MaxPriority
  /\ produced' = produced + 1
  /\ content' = [content EXCEPT ![k][current[k]] = produced + 1]
  /\ rpc' = [kind |-> k, n |-> produced + 1, buf |-> current[k]]
  /\ UNCHANGED <<queueVars, current, prioChan, procVars, arrayVars, timerOn, loopVars,
                 cancelled, failed, wire, called>>

(* ... sends it, blocking while the channel is full, and turns to the      *)
(* other one.                                                              *)
SendPriority ==
  /\ rpc # Nothing /\ prioChan = << >>
  /\ prioChan' = <<rpc>>
  /\ current' = [current EXCEPT ![rpc.kind] = Other(@)]
  /\ rpc' = Nothing
  /\ UNCHANGED <<queueVars, produced, content, procVars, arrayVars, timerOn, loopVars,
                 cancelled, failed, wire, called>>

-----------------------------------------------------------------------------
(* The frame processor, batched or instant.                                *)

(* doWrite: nothing to write is no write.  The array has been filled by    *)
(* then; control goes to next once sendLoop has taken it.                  *)
DoWrite(first, next) ==
  IF first \/ Len(bufs'[cur]) > 1
    THEN ppc' = "write" /\ withFirst' = first /\ after' = next
    ELSE ppc' = next /\ UNCHANGED <<withFirst, after>>

(* A priority frame goes out at once, in front of what was collected: the  *)
(* loop looks for one before anything else, waits for one with everything  *)
(* else, and goes on serving them after Flush.                             *)
ReceivePriority ==
  /\ ppc \in {"check", "select", "drain"} /\ prioChan # << >>
  /\ prioChan' = Tail(prioChan)
  /\ bufs' = [bufs EXCEPT ![cur][1] = Head(prioChan)]
  /\ DoWrite(TRUE, IF ppc = "drain" THEN "drain" ELSE "check")
  /\ UNCHANGED <<queueVars, prioVars, heldVars, cbs, cur, timerOn, loopVars, cancelled,
                 failed, wire, called>>

NoPriority ==
  /\ ppc = "check" /\ prioChan = << >>
  /\ ppc' = "select"
  /\ UNCHANGED <<queueVars, prioVars, prioChan, after, withFirst, heldVars, arrayVars,
                 timerOn, loopVars, cancelled, failed, wire, called>>

(* Append a frame and its callbacks.  The instant processor writes it.     *)
AppendFrame(n) ==
  /\ bufs' = [bufs EXCEPT ![cur] = Append(@, Frame(n))]
  /\ cbs' = [cbs EXCEPT ![cur] = Append(@, n)]
  /\ IF Batching THEN ppc' = "check" /\ UNCHANGED <<withFirst, after>>
                 ELSE DoWrite(FALSE, "check")

Full == Batching /\ Len(bufs[cur]) > MaxBatch

(* The timer is armed; when the array is full it is written first, which   *)
(* disarms the timer.                                                      *)
ReceiveFrame ==
  /\ ppc = "select" /\ frameChan # << >>
  /\ frameChan' = Tail(frameChan)
  /\ timerOn' = Batching
  /\ IF Full
       THEN /\ held' = Head(frameChan) /\ overflowed' = TRUE
            /\ UNCHANGED <<bufs, cbs>>
            /\ DoWrite(FALSE, "append")
       ELSE AppendFrame(Head(frameChan)) /\ UNCHANGED heldVars
  /\ UNCHANGED <<queued, closed, disableSendBatching, prioVars, prioChan, cur,
                 loopVars, cancelled, failed, wire, called>>

(* ... and then the frame goes into the other array.                       *)
AppendHeld ==
  /\ ppc = "append"
  /\ AppendFrame(held)
  /\ held' = 0
  /\ UNCHANGED <<queueVars, prioVars, prioChan, overflowed, cur, timerOn, loopVars,
                 cancelled, failed, wire, called>>

(* Mutant of FrameChanClosed: the processor returns and serves no more     *)
(* priority frames.                                                        *)
FrameChanClosedExit ==
  /\ ppc = "select" /\ frameChan = << >> /\ closed
  /\ timerOn' = Batching
  /\ UNCHANGED arrayVars
  /\ DoWrite(FALSE, "exit")
  /\ UNCHANGED <<queueVars, prioVars, prioChan, heldVars, loopVars, cancelled, failed,
                 wire, called>>

FrameChanClosed ==
  /\ ppc = "select" /\ frameChan = << >> /\ closed
  /\ timerOn' = Batching
  /\ UNCHANGED arrayVars
  /\ DoWrite(FALSE, "drain")
  /\ UNCHANGED <<queueVars, prioVars, prioChan, heldVars, loopVars, cancelled, failed,
                 wire, called>>

TimerFires ==
  /\ ppc = "select" /\ timerOn
  /\ UNCHANGED arrayVars
  /\ DoWrite(FALSE, "check")
  /\ UNCHANGED <<queueVars, prioVars, prioChan, heldVars, timerOn, loopVars, cancelled, failed,
                 wire, called>>

ProcessorDone ==
  /\ ppc \in {"select", "drain"} /\ cancelled
  /\ UNCHANGED arrayVars
  /\ IF ppc = "select" THEN DoWrite(FALSE, "exit")
                       ELSE ppc' = "exit" /\ UNCHANGED <<withFirst, after>>
  /\ UNCHANGED <<queueVars, prioVars, prioChan, heldVars, timerOn, loopVars, cancelled, failed,
                 wire, called>>

(* Mutants of HandOver: the next array keeps its frames, or its callbacks. *)
HandOverOldFrames ==
  /\ ppc = "write" /\ wpc = "select"
  /\ wpc' = "write" /\ arr' = cur /\ end' = Len(bufs[cur])
  /\ pos' = IF withFirst THEN 1 ELSE 2
  /\ cur' = Other(cur)
  /\ cbs' = [cbs EXCEPT ![Other(cur)] = << >>]
  /\ timerOn' = FALSE
  /\ ppc' = after
  /\ UNCHANGED <<queueVars, prioVars, prioChan, after, withFirst, heldVars, bufs, cancelled, failed,
                 wire, called>>

HandOverOldCallbacks ==
  /\ ppc = "write" /\ wpc = "select"
  /\ wpc' = "write" /\ arr' = cur /\ end' = Len(bufs[cur])
  /\ pos' = IF withFirst THEN 1 ELSE 2
  /\ cur' = Other(cur)
  /\ bufs' = [bufs EXCEPT ![Other(cur)] = SubSeq(@, 1, 1)]
  /\ timerOn' = FALSE
  /\ ppc' = after
  /\ UNCHANGED <<queueVars, prioVars, prioChan, after, withFirst, heldVars, cbs, cancelled, failed,
                 wire, called>>

(* sendLoop takes the command; the processor turns to the other array,     *)
(* whose first slot is reserved, and disarms the timer.                    *)
HandOver ==
  /\ ppc = "write" /\ wpc = "select"
  /\ wpc' = "write" /\ arr' = cur /\ end' = Len(bufs[cur])
  /\ pos' = IF withFirst THEN 1 ELSE 2
  /\ cur' = Other(cur)
  /\ bufs' = [bufs EXCEPT ![Other(cur)] = SubSeq(@, 1, 1)]
  /\ cbs' = [cbs EXCEPT ![Other(cur)] = << >>]
  /\ timerOn' = FALSE
  /\ ppc' = after
  /\ UNCHANGED <<queueVars, prioVars, prioChan, after, withFirst, heldVars, cancelled, failed,
                 wire, called>>

-----------------------------------------------------------------------------
(* sendLoop.                                                               *)

(* net.Buffers.WriteTo writes one chunk and clears its place in the array. *)
WriteChunk ==
  /\ wpc = "write" /\ pos <= end
  /\ LET c == bufs[arr][pos]
         v == IF c.kind \in Kinds THEN content[c.kind][c.buf] ELSE c.n
     IN  wire' = Append(wire, [kind |-> c.kind, n |-> c.n, value |-> v])
  /\ bufs' = [bufs EXCEPT ![arr][pos] = Nothing]
  /\ pos' = pos + 1
  /\ UNCHANGED <<queueVars, prioVars, prioChan, procVars, cbs, cur, timerOn, wpc, arr, end,
                 cancelled, failed, called>>

WriteFails ==
  /\ Breaks /\ wpc = "write" /\ pos <= end
  /\ failed' = TRUE
  /\ pos' = end + 1
  /\ UNCHANGED <<queueVars, prioVars, prioChan, procVars, arrayVars, timerOn, wpc, arr, end,
                 cancelled, wire, called>>

(* Mutant of OnRelease: the callbacks do not wait for the write.           *)
OnReleaseEarly ==
  /\ wpc = "write" /\ pos = 2
  /\ called' = called \o cbs[arr]
  /\ wpc' = IF failed THEN "exit" ELSE "select"
  /\ cancelled' = (cancelled \/ failed)
  /\ UNCHANGED <<queueVars, prioVars, prioChan, procVars, arrayVars, timerOn, arr, pos, end,
                 failed, wire>>

(* onRelease runs the callbacks of the array, whether or not the write     *)
(* failed; if it did, sendLoop returns, and Run cancels the context.       *)
OnRelease ==
  /\ wpc = "write" /\ pos > end
  /\ called' = called \o cbs[arr]
  /\ wpc' = IF failed THEN "exit" ELSE "select"
  /\ cancelled' = (cancelled \/ failed)
  /\ UNCHANGED <<queueVars, prioVars, prioChan, procVars, arrayVars, timerOn, arr, pos, end,
                 failed, wire>>

SendLoopDone ==
  /\ wpc = "select" /\ cancelled
  /\ wpc' = "exit"
  /\ UNCHANGED <<queueVars, prioVars, prioChan, procVars, arrayVars, timerOn, arr, pos, end,
                 cancelled, failed, wire, called>>

(* The load loop is over, or the receiver has failed.                      *)
Cancel ==
  /\ Breaks /\ ~ cancelled
  /\ cancelled' = TRUE
  /\ UNCHANGED <<queueVars, prioVars, prioChan, procVars, arrayVars, timerOn, loopVars,
                 failed, wire, called>>

-----------------------------------------------------------------------------
FrameProcessor == \/ ReceivePriority \/ NoPriority \/ ReceiveFrame \/ AppendHeld
                  \/ FrameChanClosed \/ TimerFires \/ ProcessorDone

SendLoop == WriteChunk \/ WriteFails \/ OnRelease \/ SendLoopDone

Next == \/ QueueFrame \/ Flush
        \/ SendPriority \/ \E k \in Kinds : FillPriority(k)
        \/ FrameProcessor \/ HandOver \/ SendLoop \/ Cancel

Spec == Init /\ [][Next]_vars

(* Goroutines that can run do run and an armed timer fires (every turn of  *)
(* the processor's loop resets it).  The load loop need not call Flush.    *)
FairSpec == /\ Spec
            /\ WF_vars(FrameProcessor) /\ WF_vars(HandOver) /\ WF_vars(SendLoop)
            /\ WF_vars(SendPriority)

-----------------------------------------------------------------------------
Entries == [kind : Kinds \cup {"frame", "nil"}, n : Nat, buf : 0 .. 2]
Chunks == [kind : Kinds \cup {"frame", "nil"}, n : Nat, value : Nat]

TypeOK ==
  /\ queued \in Nat /\ frameChan \in Seq(Nat) /\ closed \in BOOLEAN
  /\ produced \in Nat /\ current \in [Kinds -> 1 .. 2]
  /\ content \in [Kinds -> [1 .. 2 -> Nat]] /\ rpc \in Entries
  /\ prioChan \in Seq(Entries)
  /\ ppc \in {"check", "select", "write", "append", "drain", "exit"}
  /\ after \in {"check", "append", "drain", "exit"}
  /\ withFirst \in BOOLEAN /\ held \in Nat /\ timerOn \in BOOLEAN
  /\ bufs \in [1 .. 2 -> Seq(Entries)] /\ cbs \in [1 .. 2 -> Seq(Nat)] /\ cur \in 1 .. 2
  /\ wpc \in {"select", "write", "exit"} /\ arr \in 1 .. 2 /\ pos \in Nat /\ end \in Nat
  /\ cancelled \in BOOLEAN /\ failed \in BOOLEAN
  /\ wire \in Seq(Chunks) /\ called \in Seq(Nat)
  /\ disableSendBatching \in BOOLEAN /\ overflowed \in BOOLEAN

(* How many of these kinds there are among the first k of a sequence.      *)
Count(s, kinds, k) == Cardinality({a \in 1 .. k : s[a].kind \in kinds})

Numbered(s, kinds) ==
  \A a \in 1 .. Len(s) : s[a].kind \in kinds => s[a].n = Count(s, kinds, a)

(* What has reached the wire are the frames 1, 2, 3, ... and, among them,  *)
(* the priority frames 1, 2, 3, ..., in the order they were produced and   *)
(* nothing else: no array is refilled while it is written, no stale        *)
(* priority slot is written again, and a frame held back by a full array   *)
(* is not overtaken.                                                       *)
WireInOrder ==
  /\ \A a \in 1 .. Len(wire) : wire[a].kind # "nil"
  /\ Numbered(wire, {"frame"}) /\ Numbered(wire, Kinds)

(* Frames are called back in order, each once.                             *)
CalledInOrder == called = [a \in DOMAIN called |-> a]

(* An armed timer has something to write (else it would fire, find nothing,*)
(* stay armed, and the processor would spin).                              *)
TimerHasWork == timerOn /\ ppc \in {"check", "select"} => Len(bufs[cur]) > 1

(* The arrays, their callbacks and the timer agree.                        *)
Inv == TypeOK /\ CalledInOrder /\ TimerHasWork

FIFO == INSTANCE FrameFIFO WITH
  handed <- queued, written <- Count(wire, {"frame"}, Len(wire)),
  released <- Len(called), broken <- failed

(* The pipeline is a FIFO of frames: none is called back before it is      *)
(* written (its request's memory may be reused) unless the connection broke.*)
ImplementsFIFO == FIFO!Spec

(* processor_test.go: the ack of a PING carries that PING's payload, and a *)
(* WINDOW_UPDATE the increment that was put into it.  It does not hold once *)
(* three of a kind are under way (MaxPriority = 3): the buffer of the first *)
(* is filled again.  No run checks it.                                     *)
PriorityIntact ==
  \A a \in DOMAIN wire : wire[a].kind \in Kinds => wire[a].value = wire[a].n

Written(kinds, n) == \E a \in DOMAIN wire : wire[a].kind \in kinds /\ wire[a].n = n

(* e2e_test.go: each request that is sent reaches the server, without any  *)
(* Flush, as long as the connection is up.  It does not hold when a frame  *)
(* finds its array full and no priority frame follows; no run checks it,   *)
(* and TimelyWritten says what remains.                                    *)
EveryFrameWritten ==
  \A n \in 1 .. MaxFrames : queued = n ~> Written({"frame"}, n) \/ cancelled

(* The timer sees to that, unless a frame finds its array full; then Flush *)
(* does.  Priority frames are written before and after Flush.              *)
TimelyWritten ==
  /\ \A n \in 1 .. MaxFrames :
       queued = n ~> Written({"frame"}, n) \/ cancelled \/ (overflowed /\ ~ closed)
  /\ \A n \in 1 .. MaxPriority : produced = n ~> Written(Kinds, n) \/ cancelled
=============================================================================
