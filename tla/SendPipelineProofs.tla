------------------------- MODULE SendPipelineProofs -------------------------
(***************************************************************************)
(* The write side of a connection, for any number of frames, any size of   *)
(* an array, any capacity of the channel and any kinds of priority frames: *)
(* the wire carries the frames and the priority frames in order and        *)
(* nothing else, and the pipeline is a FIFO of frames.                     *)
(*                                                                         *)
(* The frames handed in lie, newest first, in frameChan, in held, in the   *)
(* array being filled, in the array sendLoop has taken, and on the wire.   *)
(* The inductive invariant says where in that line each of them is.        *)
(***************************************************************************)
EXTENDS SendPipeline, FiniteSetTheorems, SequenceTheorems, TLAPS

(* The bounds one by one.                                                  *)
LEMMA Bounds ==
  /\ MaxFrames \in Nat /\ MaxPriority \in Nat /\ MaxBatch \in Nat \ {0} /\ ChanCap \in Nat \ {0}
  /\ \A m \in Modes : m \in BOOLEAN
  /\ "frame" \notin Kinds /\ "nil" \notin Kinds
  BY BoundsAssumption, KindsAssumption

-----------------------------------------------------------------------------
(* Counting.                                                               *)

One(b) == IF b THEN 1 ELSE 0

(* A count is a number.                                                    *)
LEMMA CountNat ==
  ASSUME NEW s, NEW kinds, NEW k \in Nat
  PROVE  /\ IsFiniteSet({a \in 1 .. k : s[a].kind \in kinds})
         /\ Count(s, kinds, k) \in Nat
<1>1. IsFiniteSet(1 .. k)
  BY FS_Interval
<1>2. {a \in 1 .. k : s[a].kind \in kinds} \in SUBSET (1 .. k)
  OBVIOUS
<1> QED
  BY <1>1, <1>2, FS_Subset, FS_CardinalityType DEF Count

(* A chunk more leaves the counts of the chunks before it and adds to the  *)
(* count of its own kinds.                                                 *)
LEMMA CountAppend ==
  ASSUME NEW s \in Seq(Chunks), NEW e \in Chunks, NEW kinds
  PROVE  /\ \A k \in 1 .. Len(s) : Count(Append(s, e), kinds, k) = Count(s, kinds, k)
         /\ Count(Append(s, e), kinds, Len(s) + 1)
              = Count(s, kinds, Len(s)) + One(e.kind \in kinds)
<1> DEFINE A == Append(s, e)
           E(t, k) == {a \in 1 .. k : t[a].kind \in kinds}
<1>1. /\ Len(s) \in Nat /\ \A i \in 1 .. Len(s) : A[i] = s[i]
      /\ A[Len(s) + 1] = e
  BY AppendProperties, LenProperties
<1> HIDE DEF A
<1>2. \A k \in 1 .. Len(s) : E(A, k) = E(s, k)
  BY <1>1
<1>3. /\ e.kind \in kinds => E(A, Len(s) + 1) = E(s, Len(s)) \cup {Len(s) + 1}
                             /\ Len(s) + 1 \notin E(s, Len(s))
      /\ e.kind \notin kinds => E(A, Len(s) + 1) = E(s, Len(s))
  BY <1>1
<1>4. IsFiniteSet(E(s, Len(s))) /\ Cardinality(E(s, Len(s))) \in Nat
  BY <1>1, CountNat, FS_CardinalityType
<1>5. \A k : Count(A, kinds, k) = Cardinality(E(A, k)) /\ Count(s, kinds, k) = Cardinality(E(s, k))
  BY DEF Count
<1> HIDE DEF E
<1>6. e.kind \in kinds => Cardinality(E(A, Len(s) + 1)) = Cardinality(E(s, Len(s))) + 1
  BY <1>3, <1>4, FS_AddElement
<1>7. e.kind \notin kinds => Cardinality(E(A, Len(s) + 1)) = Cardinality(E(s, Len(s))) + 0
  BY <1>3, <1>4
<1>8. Count(A, kinds, Len(s) + 1) = Count(s, kinds, Len(s)) + One(e.kind \in kinds)
  BY <1>5, <1>6, <1>7 DEF One
<1> QED
  BY <1>2, <1>5, <1>8 DEF A

(* The next number keeps a sequence numbered.                              *)
LEMMA NumberedAppend ==
  ASSUME NEW s \in Seq(Chunks), NEW e \in Chunks, NEW kinds, Numbered(s, kinds),
         e.kind \in kinds => e.n = Count(s, kinds, Len(s)) + 1
  PROVE  Numbered(Append(s, e), kinds)
<1> DEFINE A == Append(s, e)
<1>1. /\ Len(s) \in Nat /\ Len(A) = Len(s) + 1 /\ \A i \in 1 .. Len(s) : A[i] = s[i]
      /\ A[Len(s) + 1] = e
  BY AppendProperties, LenProperties
<1>2. /\ \A k \in 1 .. Len(s) : Count(A, kinds, k) = Count(s, kinds, k)
      /\ Count(A, kinds, Len(s) + 1) = Count(s, kinds, Len(s)) + One(e.kind \in kinds)
  BY CountAppend
<1> HIDE DEF A
<1>3. ASSUME NEW a \in 1 .. Len(A), A[a].kind \in kinds PROVE A[a].n = Count(A, kinds, a)
  <2>1. CASE a \in 1 .. Len(s)
    BY <1>1, <1>2, <1>3, <2>1 DEF Numbered
  <2>2. CASE a = Len(s) + 1
    BY <1>1, <1>2, <1>3, <2>2 DEF One
  <2> QED
    BY <1>1, <2>1, <2>2
<1>4. Numbered(A, kinds)
  BY <1>3 DEF Numbered
<1> QED
  BY <1>4 DEF A

-----------------------------------------------------------------------------
(* The inductive invariant.                                                *)

(* The last frame that is in an array or beyond, and the last one that     *)
(* sendLoop has taken.                                                     *)
lastCollected == queued - Len(frameChan) - One(held # 0)
lastTaken == lastCollected - (Len(bufs[cur]) - 1)

(* frameChan holds the last frames handed in; a frame that did not fit is  *)
(* the one before them.                                                    *)
Queue ==
  /\ Len(frameChan) <= queued
  /\ \A k \in 1 .. Len(frameChan) : frameChan[k] = queued - Len(frameChan) + k
  /\ held # 0 => held = queued - Len(frameChan)
  /\ held # 0 <=> ppc = "append" \/ (ppc = "write" /\ after = "append")

(* The array being filled has the frames after those taken, and their      *)
(* callbacks.                                                              *)
Collected ==
  /\ \A a \in 1 .. 2 : Len(bufs[a]) >= 1
  /\ Len(cbs[cur]) = Len(bufs[cur]) - 1
  /\ \A k \in 2 .. Len(bufs[cur]) : bufs[cur][k] = Frame(lastTaken + k - 1)
  /\ \A k \in 1 .. Len(cbs[cur]) : cbs[cur][k] = lastTaken + k

(* sendLoop works on the other array, which has the frames before those.   *)
Taken ==
  wpc = "write" =>
    /\ arr = Other(cur) /\ Len(bufs[arr]) = end /\ Len(cbs[arr]) = end - 1
    /\ pos \in 1 .. end + 1
    /\ \A k \in 2 .. end : k >= pos => bufs[arr][k] = Frame(lastTaken - end + k)
    /\ \A k \in 1 .. end - 1 : cbs[arr][k] = lastTaken - (end - 1) + k

framesOut == Count(wire, {"frame"}, Len(wire))
priorityOut == Count(wire, Kinds, Len(wire))

unreleased == IF wpc = "write" THEN end - 1 ELSE 0
unwritten == IF wpc = "write" THEN IF pos = 1 THEN end - 1 ELSE end - pos + 1 ELSE 0

(* What was taken is written and called back, but for what is left of the  *)
(* array sendLoop works on; after a failure nothing more is written.       *)
Counted ==
  /\ Len(called) = lastTaken - unreleased
  /\ ~ failed => framesOut = lastTaken - unwritten
  /\ failed => wpc = "exit" \/ (wpc = "write" /\ pos = end + 1)

(* The last priority frame the processor has received, and the last one    *)
(* sendLoop has taken.                                                     *)
lastReceived == produced - One(rpc # Nothing) - Len(prioChan)
lastSent == lastReceived - One(ppc = "write" /\ withFirst)

PriorityFrame(e, n) == e.kind \in Kinds /\ e.n = n /\ e.buf \in 1 .. 2

(* There is at most one priority frame in each place on its way.           *)
Priority ==
  /\ rpc # Nothing => PriorityFrame(rpc, produced)
  /\ Len(prioChan) <= 1
  /\ prioChan # << >> => PriorityFrame(prioChan[1], lastReceived + 1)
  /\ ppc = "write" /\ withFirst => PriorityFrame(bufs[cur][1], lastReceived)
  /\ wpc = "write" /\ pos = 1 => PriorityFrame(bufs[arr][1], lastSent)
  /\ ~ failed => priorityOut = lastSent - One(wpc = "write" /\ pos = 1)

IInv == /\ TypeOK /\ Queue /\ Collected /\ Taken /\ Counted /\ Priority
        /\ WireInOrder /\ CalledInOrder /\ TimerHasWork

-----------------------------------------------------------------------------
(* The invariant holds at first.                                           *)
LEMMA InitIInv == Init => IInv
<1> SUFFICES ASSUME Init PROVE IInv
  OBVIOUS
<1>0. /\ Len(bufs[1]) = 1 /\ Len(bufs[2]) = 1 /\ Len(cbs[1]) = 0 /\ cur = 1
      /\ Len(frameChan) = 0 /\ Len(prioChan) = 0 /\ Len(wire) = 0 /\ Len(called) = 0
  BY DEF Init
<1>1. TypeOK
  <2>1. Nothing \in Entries
    BY DEF Nothing, Entries
  <2>2. bufs \in [1 .. 2 -> Seq(Entries)] /\ cbs \in [1 .. 2 -> Seq(Nat)]
    BY <2>1 DEF Init
  <2>3. /\ frameChan \in Seq(Nat) /\ prioChan \in Seq(Entries) /\ wire \in Seq(Chunks)
        /\ called \in Seq(Nat)
    BY DEF Init
  <2>4. /\ current \in [Kinds -> 1 .. 2] /\ content \in [Kinds -> [1 .. 2 -> Nat]]
        /\ rpc \in Entries
    BY <2>1 DEF Init
  <2>5. disableSendBatching \in BOOLEAN
    BY Bounds DEF Init
  <2>6. /\ queued = 0 /\ closed = FALSE /\ produced = 0 /\ ppc = "check" /\ after = "check"
        /\ withFirst = FALSE /\ held = 0 /\ timerOn = FALSE /\ cur = 1 /\ wpc = "select"
        /\ arr = 2 /\ pos = 1 /\ end = 0 /\ cancelled = FALSE /\ failed = FALSE
        /\ overflowed = FALSE
    BY DEF Init
  <2>7. /\ queued \in Nat /\ produced \in Nat /\ held \in Nat /\ pos \in Nat /\ end \in Nat
        /\ cur \in 1 .. 2 /\ arr \in 1 .. 2
    BY <2>6
  <2>8. /\ ppc \in {"check", "select", "write", "append", "drain", "exit"}
        /\ after \in {"check", "append", "drain", "exit"}
        /\ wpc \in {"select", "write", "exit"}
    BY <2>6
  <2>9. /\ closed \in BOOLEAN /\ withFirst \in BOOLEAN /\ timerOn \in BOOLEAN
        /\ cancelled \in BOOLEAN /\ failed \in BOOLEAN /\ overflowed \in BOOLEAN
    BY <2>6
  <2> QED
    BY <2>2, <2>3, <2>4, <2>5, <2>7, <2>8, <2>9, Zenon DEF TypeOK
<1>2. framesOut = 0 /\ priorityOut = 0
  <2>1. \A kinds : {a \in 1 .. 0 : wire[a].kind \in kinds} = {}
    OBVIOUS
  <2> QED
    BY <2>1, FS_EmptySet DEF Init, framesOut, priorityOut, Count
<1>3. lastCollected = 0 /\ lastTaken = 0 /\ lastReceived = 0 /\ lastSent = 0
  <2>1. queued = 0 /\ produced = 0 /\ held = 0 /\ rpc = Nothing /\ ppc = "check"
    BY DEF Init
  <2>2. Len(bufs[cur]) = 1
    BY <1>0
  <2>3. lastCollected = 0 /\ lastReceived = 0
    BY <1>0, <2>1 DEF lastCollected, lastReceived, One
  <2> QED
    BY <2>1, <2>2, <2>3 DEF lastTaken, lastSent, One
<1>4. Queue /\ Collected /\ Taken
  BY <1>0, <1>3 DEF Init, Queue, Collected, Taken
<1>5. Counted /\ Priority
  BY <1>0, <1>2, <1>3 DEF Init, Counted, Priority, unreleased, unwritten, One
<1>6. WireInOrder /\ CalledInOrder /\ TimerHasWork
  BY DEF Init, WireInOrder, Numbered, CalledInOrder, TimerHasWork
<1> QED
  BY <1>1, <1>4, <1>5, <1>6 DEF IInv

-----------------------------------------------------------------------------
(* Facts every step uses.                                                  *)

(* Lengths and positions are numbers.                                      *)
LEMMA Numbers ==
  ASSUME IInv
  PROVE  /\ queued \in Nat /\ Len(frameChan) \in Nat /\ held \in Nat
         /\ produced \in Nat /\ Len(prioChan) \in Nat
         /\ Len(wire) \in Nat /\ Len(called) \in Nat /\ pos \in Nat /\ end \in Nat
         /\ \A a \in 1 .. 2 : Len(bufs[a]) \in Nat /\ Len(bufs[a]) >= 1 /\ Len(cbs[a]) \in Nat
         /\ cur \in 1 .. 2 /\ Other(cur) \in 1 .. 2 /\ Other(cur) # cur /\ arr \in 1 .. 2
         /\ lastCollected \in Int /\ lastTaken \in Int
         /\ lastReceived \in Int /\ lastSent \in Int
         /\ framesOut \in Nat /\ priorityOut \in Nat
<1>1. /\ queued \in Nat /\ Len(frameChan) \in Nat /\ held \in Nat
      /\ produced \in Nat /\ Len(prioChan) \in Nat
      /\ Len(wire) \in Nat /\ Len(called) \in Nat /\ pos \in Nat /\ end \in Nat
  BY LenProperties DEF IInv, TypeOK
<1>2. /\ \A a \in 1 .. 2 : Len(bufs[a]) \in Nat /\ Len(bufs[a]) >= 1 /\ Len(cbs[a]) \in Nat
      /\ cur \in 1 .. 2 /\ Other(cur) \in 1 .. 2 /\ Other(cur) # cur /\ arr \in 1 .. 2
  BY LenProperties DEF IInv, TypeOK, Collected, Other
<1>3. /\ lastCollected \in Int /\ lastTaken \in Int
      /\ lastReceived \in Int /\ lastSent \in Int
  BY <1>1, <1>2 DEF lastCollected, lastTaken, lastReceived, lastSent, One
<1>4. framesOut \in Nat /\ priorityOut \in Nat
  BY <1>1, CountNat DEF framesOut, priorityOut
<1> QED
  BY <1>1, <1>2, <1>3, <1>4

(* A step that moves no frame: the processor or sendLoop turns to          *)
(* something else.                                                         *)
LEMMA QuietKeeps ==
  ASSUME IInv,
         UNCHANGED <<queued, frameChan, disableSendBatching, prioVars, prioChan, heldVars,
                     arrayVars, arr, pos, end, failed, wire, called>>,
         closed' \in BOOLEAN, timerOn' \in BOOLEAN, cancelled' \in BOOLEAN,
         wpc' = wpc \/ (wpc = "select" /\ wpc' = "exit"),
         \/ UNCHANGED <<ppc, after, withFirst>>
         \/ /\ ppc \in {"check", "select", "drain"} /\ ppc' \in {"select", "drain", "exit"}
            /\ UNCHANGED <<after, withFirst>>
         \/ /\ ppc = "select" /\ ppc' = "write"
            /\ after' \in {"check", "drain", "exit"} /\ withFirst' = FALSE,
         TimerHasWork'
  PROVE  IInv'
<1>0. UNCHANGED <<queued, frameChan, disableSendBatching, produced, current, content, rpc,
                  prioChan, held, overflowed, bufs, cbs, cur, arr, pos, end, failed, wire,
                  called>>
  BY DEF prioVars, heldVars, arrayVars
<1>1. TypeOK'
  <2>1. /\ ppc' \in {"check", "select", "write", "append", "drain", "exit"}
        /\ after' \in {"check", "append", "drain", "exit"}
        /\ withFirst' \in BOOLEAN /\ wpc' \in {"select", "write", "exit"}
    BY DEF IInv, TypeOK
  <2> QED
    BY <1>0, <2>1 DEF IInv, TypeOK
<1>2. /\ lastTaken' = lastTaken /\ lastReceived' = lastReceived
      /\ framesOut' = framesOut /\ priorityOut' = priorityOut
  BY <1>0 DEF lastTaken, lastCollected, lastReceived, framesOut, priorityOut, Count
<1>3. lastSent' = lastSent
  BY <1>0, <1>2 DEF lastSent
<1>4. Queue'
  BY <1>0 DEF IInv, Queue
<1>5. Collected' /\ Taken'
  BY <1>0, <1>2 DEF IInv, Collected, Taken
<1>6. Counted'
  BY <1>0, <1>2 DEF IInv, Counted, unreleased, unwritten
<1>7. Priority'
  BY <1>0, <1>2, <1>3 DEF IInv, Priority
<1>8. WireInOrder' /\ CalledInOrder'
  BY <1>0 DEF IInv, WireInOrder, Numbered, Count, CalledInOrder
<1> QED
  BY <1>1, <1>4, <1>5, <1>6, <1>7, <1>8 DEF IInv

(* A step of the processor that takes frame n, the first that is in no     *)
(* array, out of frameChan or out of held.                                 *)
Takes(n) ==
  /\ ppc \in {"select", "append"}
  /\ n \in Nat /\ n = lastCollected + 1 /\ lastCollected' = lastCollected + 1
  /\ frameChan' \in Seq(Nat) /\ Len(frameChan') <= queued
  /\ \A k \in 1 .. Len(frameChan') : frameChan'[k] = queued - Len(frameChan') + k
  /\ held' = 0 /\ overflowed' \in BOOLEAN /\ timerOn' \in BOOLEAN
  /\ UNCHANGED <<queued, closed, disableSendBatching, prioVars, prioChan, cur, loopVars,
                 cancelled, failed, wire, called>>

(* The frame goes into the array being filled.                             *)
LEMMA AppendKeeps ==
  ASSUME IInv, NEW n, Takes(n), AppendFrame(n)
  PROVE  IInv'
<1>0. /\ UNCHANGED <<queued, closed, disableSendBatching, produced, current, content, rpc,
                     prioChan, cur, wpc, arr, pos, end, cancelled, failed, wire, called>>
      /\ n \in Nat /\ n = lastCollected + 1 /\ lastCollected' = lastCollected + 1
      /\ held' = 0 /\ overflowed' \in BOOLEAN /\ timerOn' \in BOOLEAN
      /\ frameChan' \in Seq(Nat) /\ ppc \in {"select", "append"}
  BY DEF Takes, prioVars, loopVars
<1>n. /\ Len(bufs[cur]) \in Nat /\ Len(bufs[cur]) >= 1 /\ Len(cbs[cur]) \in Nat
      /\ Len(bufs[Other(cur)]) >= 1
      /\ cur \in 1 .. 2 /\ Other(cur) \in 1 .. 2 /\ Other(cur) # cur
      /\ lastCollected \in Int /\ lastTaken \in Int
      /\ lastTaken = lastCollected - (Len(bufs[cur]) - 1)
      /\ Len(cbs[cur]) = Len(bufs[cur]) - 1
  BY Numbers DEF lastTaken, IInv, Collected
<1>1. /\ bufs' = [bufs EXCEPT ![cur] = Append(@, Frame(n))]
      /\ cbs' = [cbs EXCEPT ![cur] = Append(@, n)]
  BY DEF AppendFrame
<1>2. /\ bufs[cur] \in Seq(Entries) /\ cbs[cur] \in Seq(Nat) /\ Frame(n) \in Entries
      /\ bufs \in [1 .. 2 -> Seq(Entries)] /\ cbs \in [1 .. 2 -> Seq(Nat)]
  <2>1. bufs \in [1 .. 2 -> Seq(Entries)] /\ cbs \in [1 .. 2 -> Seq(Nat)]
    BY Zenon DEF IInv, TypeOK
  <2>2. bufs[cur] \in Seq(Entries) /\ cbs[cur] \in Seq(Nat)
    BY <1>n, <2>1
  <2>3. Frame(n) \in Entries
    BY <1>0 DEF Frame, Entries
  <2> QED
    BY <2>1, <2>2, <2>3, Zenon
<1>3. /\ bufs'[cur] = Append(bufs[cur], Frame(n)) /\ cbs'[cur] = Append(cbs[cur], n)
      /\ bufs'[Other(cur)] = bufs[Other(cur)] /\ cbs'[Other(cur)] = cbs[Other(cur)]
  BY <1>1, <1>2, <1>n
<1>4. /\ Len(bufs'[cur]) = Len(bufs[cur]) + 1 /\ Len(cbs'[cur]) = Len(cbs[cur]) + 1
      /\ \A k \in 1 .. Len(bufs[cur]) : bufs'[cur][k] = bufs[cur][k]
      /\ \A k \in 1 .. Len(cbs[cur]) : cbs'[cur][k] = cbs[cur][k]
      /\ bufs'[cur][Len(bufs[cur]) + 1] = Frame(n) /\ cbs'[cur][Len(cbs[cur]) + 1] = n
  BY <1>2, <1>3, AppendProperties
<1>5. /\ ppc' \in {"check", "write"} /\ after' \in {"check", "append", "drain", "exit"}
      /\ withFirst' \in BOOLEAN
      /\ ppc' = "write" => after' = "check" /\ withFirst' = FALSE
  <2>1. CASE Batching
    BY <2>1 DEF AppendFrame, IInv, TypeOK
  <2>2. CASE ~ Batching
    BY <2>2, <1>0, <1>4, <1>n DEF AppendFrame, DoWrite, IInv, TypeOK
  <2> QED
    BY <2>1, <2>2
<1>6. TypeOK'
  <2>0. Append(bufs[cur], Frame(n)) \in Seq(Entries) /\ Append(cbs[cur], n) \in Seq(Nat)
    BY <1>0, <1>2, AppendProperties
  <2>1. bufs' \in [1 .. 2 -> Seq(Entries)] /\ cbs' \in [1 .. 2 -> Seq(Nat)]
    BY <1>1, <1>2, <2>0
  <2> QED
    BY <1>0, <1>5, <2>1 DEF IInv, TypeOK
<1>7. /\ lastTaken' = lastTaken /\ lastReceived' = lastReceived /\ lastSent' = lastSent
      /\ framesOut' = framesOut /\ priorityOut' = priorityOut
  <2>1. lastTaken' = lastTaken
    BY <1>0, <1>4, <1>n DEF lastTaken
  <2>2. lastReceived' = lastReceived
    BY <1>0 DEF lastReceived
  <2>3. lastSent' = lastSent
    BY <1>0, <1>5, <2>2 DEF lastSent, One
  <2>4. framesOut' = framesOut /\ priorityOut' = priorityOut
    BY <1>0 DEF framesOut, priorityOut, Count
  <2> QED
    BY <2>1, <2>2, <2>3, <2>4
<1>8. Queue'
  BY <1>0, <1>5 DEF Queue, Takes
<1>9. Collected'
  <2>1. /\ \A a \in 1 .. 2 : Len(bufs'[a]) >= 1
        /\ Len(cbs'[cur]) = Len(bufs'[cur]) - 1
    <3>1. \A a \in 1 .. 2 : a = cur \/ a = Other(cur)
      BY <1>n DEF Other
    <3> QED
      BY <1>3, <1>4, <1>n, <3>1
  <2>2. ASSUME NEW k \in 2 .. Len(bufs'[cur]) PROVE bufs'[cur][k] = Frame(lastTaken + k - 1)
    <3>1. CASE k \in 2 .. Len(bufs[cur])
      <4>1. bufs'[cur][k] = bufs[cur][k]
        BY <1>4, <1>n, <3>1
      <4> QED
        BY <3>1, <4>1 DEF IInv, Collected
    <3>2. CASE k = Len(bufs[cur]) + 1
      <4>1. n = lastTaken + k - 1
        BY <1>0, <1>n, <3>2
      <4> QED
        BY <1>4, <3>2, <4>1
    <3>3. Len(bufs'[cur]) = Len(bufs[cur]) + 1
      BY <1>4
    <3>4. k \in 2 .. Len(bufs[cur]) \/ k = Len(bufs[cur]) + 1
      BY <1>n, <3>3
    <3> QED
      BY <3>1, <3>2, <3>4
  <2>3. ASSUME NEW k \in 1 .. Len(cbs'[cur]) PROVE cbs'[cur][k] = lastTaken + k
    <3>1. CASE k \in 1 .. Len(cbs[cur])
      BY <1>4, <1>n, <3>1 DEF IInv, Collected
    <3>2. CASE k = Len(cbs[cur]) + 1
      <4>1. n = lastTaken + k
        BY <1>0, <1>n, <3>2
      <4> QED
        BY <1>4, <3>2, <4>1
    <3>3. Len(cbs'[cur]) = Len(cbs[cur]) + 1
      BY <1>4
    <3>4. k \in 1 .. Len(cbs[cur]) \/ k = Len(cbs[cur]) + 1
      BY <1>n, <3>3
    <3> QED
      BY <3>1, <3>2, <3>4
  <2> QED
    BY <1>0, <1>7, <2>1, <2>2, <2>3 DEF Collected
<1>10. Taken'
  BY <1>0, <1>3, <1>7 DEF IInv, Taken
<1>11. Counted'
  BY <1>0, <1>7 DEF IInv, Counted, unreleased, unwritten
<1>12. Priority'
  <2>1. wpc = "write" => bufs'[arr] = bufs[arr]
    BY <1>3 DEF IInv, Taken
  <2> QED
    BY <1>0, <1>5, <1>7, <2>1 DEF IInv, Priority
<1>13. WireInOrder' /\ CalledInOrder' /\ TimerHasWork'
  <2>1. Len(bufs'[cur']) > 1
    BY <1>0, <1>4, <1>n
  <2> QED
    BY <1>0, <2>1 DEF IInv, WireInOrder, Numbered, Count, CalledInOrder, TimerHasWork
<1> QED
  BY <1>6, <1>8, <1>9, <1>10, <1>11, <1>12, <1>13 DEF IInv

-----------------------------------------------------------------------------
(* The producers.                                                          *)

(* A frame is queued behind the others.                                    *)
LEMMA QueueFrameKeeps == ASSUME IInv, QueueFrame PROVE IInv'
<1>0. /\ queued' = queued + 1 /\ frameChan' = Append(frameChan, queued + 1)
      /\ UNCHANGED <<closed, disableSendBatching, produced, current, content, rpc, prioChan,
                     ppc, after, withFirst, held, overflowed, bufs, cbs, cur, timerOn, wpc,
                     arr, pos, end, cancelled, failed, wire, called>>
  BY DEF QueueFrame, prioVars, procVars, heldVars, arrayVars, loopVars
<1>n. queued \in Nat /\ Len(frameChan) \in Nat /\ frameChan \in Seq(Nat) /\ Len(bufs[cur]) \in Nat
  BY Numbers DEF IInv, TypeOK
<1>1. /\ frameChan' \in Seq(Nat) /\ Len(frameChan') = Len(frameChan) + 1
      /\ \A k \in 1 .. Len(frameChan) : frameChan'[k] = frameChan[k]
      /\ frameChan'[Len(frameChan) + 1] = queued + 1
  BY <1>0, <1>n, AppendProperties
<1>2. TypeOK'
  BY <1>0, <1>1, <1>n DEF IInv, TypeOK
<1>3. lastTaken' = lastTaken /\ lastReceived' = lastReceived /\ lastSent' = lastSent
  <2>1. lastCollected' = lastCollected
    BY <1>0, <1>1, <1>n DEF lastCollected, One
  <2>2. lastReceived' = lastReceived
    BY <1>0 DEF lastReceived
  <2> QED
    BY <1>0, <2>1, <2>2 DEF lastTaken, lastSent
<1>4. framesOut' = framesOut /\ priorityOut' = priorityOut
  BY <1>0 DEF framesOut, priorityOut, Count
<1>5. Queue'
  <2>1. ASSUME NEW k \in 1 .. Len(frameChan') PROVE frameChan'[k] = queued' - Len(frameChan') + k
    <3>1. CASE k \in 1 .. Len(frameChan)
      BY <1>0, <1>1, <1>n, <3>1 DEF IInv, Queue
    <3>2. CASE k = Len(frameChan) + 1
      BY <1>0, <1>1, <1>n, <3>2
    <3> QED
      BY <1>1, <1>n, <3>1, <3>2
  <2>2. Len(frameChan') <= queued' /\ (held # 0 => held = queued' - Len(frameChan'))
    BY <1>0, <1>1, <1>n DEF IInv, Queue
  <2> QED
    BY <1>0, <2>1, <2>2 DEF IInv, Queue
<1>6. Collected' /\ Taken'
  BY <1>0, <1>3 DEF IInv, Collected, Taken
<1>7. Counted'
  BY <1>0, <1>3, <1>4 DEF IInv, Counted, unreleased, unwritten
<1>8. Priority'
  BY <1>0, <1>3, <1>4 DEF IInv, Priority
<1>9. WireInOrder' /\ CalledInOrder' /\ TimerHasWork'
  BY <1>0 DEF IInv, WireInOrder, Numbered, Count, CalledInOrder, TimerHasWork
<1> QED
  BY <1>2, <1>5, <1>6, <1>7, <1>8, <1>9 DEF IInv

(* The receiver fills a buffer, and holds the frame.                       *)
LEMMA FillPriorityKeeps == ASSUME IInv, NEW k \in Kinds, FillPriority(k) PROVE IInv'
<1>0. /\ rpc = Nothing /\ produced' = produced + 1
      /\ content' = [content EXCEPT ![k][current[k]] = produced + 1]
      /\ rpc' = [kind |-> k, n |-> produced + 1, buf |-> current[k]]
      /\ UNCHANGED <<queued, frameChan, closed, disableSendBatching, current, prioChan,
                     ppc, after, withFirst, held, overflowed, bufs, cbs, cur, timerOn, wpc,
                     arr, pos, end, cancelled, failed, wire, called>>
  BY DEF FillPriority, queueVars, procVars, heldVars, arrayVars, loopVars
<1>n. produced \in Nat /\ current[k] \in 1 .. 2 /\ Len(prioChan) \in Nat
  BY Numbers DEF IInv, TypeOK
<1>1. rpc' # Nothing /\ PriorityFrame(rpc', produced') /\ rpc' \in Entries
  BY <1>0, <1>n, Bounds DEF Nothing, PriorityFrame, Entries
<1>2. TypeOK'
  <2>1. content' \in [Kinds -> [1 .. 2 -> Nat]]
    BY <1>0, <1>n DEF IInv, TypeOK
  <2> QED
    BY <1>0, <1>1, <1>n, <2>1 DEF IInv, TypeOK
<1>3. lastTaken' = lastTaken /\ lastReceived' = lastReceived /\ lastSent' = lastSent
  <2>1. lastTaken' = lastTaken
    BY <1>0 DEF lastTaken, lastCollected
  <2>2. lastReceived' = lastReceived
    BY <1>0, <1>1, <1>n DEF lastReceived, One
  <2> QED
    BY <1>0, <2>1, <2>2 DEF lastSent
<1>4. framesOut' = framesOut /\ priorityOut' = priorityOut
  BY <1>0 DEF framesOut, priorityOut, Count
<1>5. Queue' /\ Collected' /\ Taken'
  BY <1>0, <1>3 DEF IInv, Queue, Collected, Taken
<1>6. Counted'
  BY <1>0, <1>3, <1>4 DEF IInv, Counted, unreleased, unwritten
<1>7. Priority'
  BY <1>0, <1>1, <1>3, <1>4 DEF IInv, Priority
<1>8. WireInOrder' /\ CalledInOrder' /\ TimerHasWork'
  BY <1>0 DEF IInv, WireInOrder, Numbered, Count, CalledInOrder, TimerHasWork
<1> QED
  BY <1>2, <1>5, <1>6, <1>7, <1>8 DEF IInv

(* The frame goes into the channel.                                        *)
LEMMA SendPriorityKeeps == ASSUME IInv, SendPriority PROVE IInv'
<1>0. /\ rpc # Nothing /\ prioChan = << >> /\ prioChan' = <<rpc>> /\ rpc' = Nothing
      /\ current' = [current EXCEPT ![rpc.kind] = Other(@)]
      /\ UNCHANGED <<queued, frameChan, closed, disableSendBatching, produced, content,
                     ppc, after, withFirst, held, overflowed, bufs, cbs, cur, timerOn, wpc,
                     arr, pos, end, cancelled, failed, wire, called>>
  BY DEF SendPriority, queueVars, procVars, heldVars, arrayVars, loopVars
<1>n. produced \in Nat /\ rpc \in Entries /\ PriorityFrame(rpc, produced)
  BY <1>0 DEF IInv, TypeOK, Priority
<1>1. Len(prioChan) = 0 /\ Len(prioChan') = 1 /\ prioChan' \in Seq(Entries) /\ prioChan'[1] = rpc
  BY <1>0, <1>n
<1>2. TypeOK'
  <2>1. rpc' \in Entries
    BY <1>0 DEF Nothing, Entries
  <2>2. current' \in [Kinds -> 1 .. 2]
    <3>1. \A a \in 1 .. 2 : Other(a) \in 1 .. 2
      BY DEF Other
    <3>2. current \in [Kinds -> 1 .. 2] /\ rpc.kind \in Kinds
      BY <1>n DEF IInv, TypeOK, PriorityFrame
    <3> QED
      BY <1>0, <3>1, <3>2
  <2> QED
    BY <1>0, <1>1, <2>1, <2>2 DEF IInv, TypeOK
<1>3. lastTaken' = lastTaken /\ lastReceived' = lastReceived /\ lastSent' = lastSent
  <2>1. lastTaken' = lastTaken
    BY <1>0 DEF lastTaken, lastCollected
  <2>2. lastReceived' = lastReceived /\ produced = lastReceived' + 1
    BY <1>0, <1>1, <1>n DEF lastReceived, One
  <2> QED
    BY <1>0, <2>1, <2>2 DEF lastSent
<1>4. framesOut' = framesOut /\ priorityOut' = priorityOut
  BY <1>0 DEF framesOut, priorityOut, Count
<1>5. Queue' /\ Collected' /\ Taken'
  BY <1>0, <1>3 DEF IInv, Queue, Collected, Taken
<1>6. Counted'
  BY <1>0, <1>3, <1>4 DEF IInv, Counted, unreleased, unwritten
<1>7. Priority'
  <2>1. PriorityFrame(prioChan'[1], lastReceived' + 1)
    BY <1>0, <1>1, <1>n DEF lastReceived, One
  <2> QED
    BY <1>0, <1>1, <1>3, <1>4, <2>1 DEF IInv, Priority
<1>8. WireInOrder' /\ CalledInOrder' /\ TimerHasWork'
  BY <1>0 DEF IInv, WireInOrder, Numbered, Count, CalledInOrder, TimerHasWork
<1> QED
  BY <1>2, <1>5, <1>6, <1>7, <1>8 DEF IInv

-----------------------------------------------------------------------------
(* The frame processor.                                                    *)

(* A priority frame takes the first place of the array being filled.       *)
LEMMA ReceivePriorityKeeps == ASSUME IInv, ReceivePriority PROVE IInv'
<1>0. /\ ppc \in {"check", "select", "drain"} /\ prioChan # << >> /\ prioChan' = Tail(prioChan)
      /\ bufs' = [bufs EXCEPT ![cur][1] = Head(prioChan)]
      /\ ppc' = "write" /\ withFirst' = TRUE /\ after' \in {"check", "drain"}
      /\ UNCHANGED <<queued, frameChan, closed, disableSendBatching, produced, current,
                     content, rpc, held, overflowed, cbs, cur, timerOn, wpc, arr, pos, end,
                     cancelled, failed, wire, called>>
  BY DEF ReceivePriority, DoWrite, queueVars, prioVars, heldVars, loopVars
<1>n. /\ produced \in Nat /\ prioChan \in Seq(Entries) /\ Len(prioChan) = 1
      /\ bufs \in [1 .. 2 -> Seq(Entries)] /\ bufs[cur] \in Seq(Entries) /\ cur \in 1 .. 2
      /\ 1 \in 1 .. Len(bufs[cur]) /\ Other(cur) \in 1 .. 2 /\ Other(cur) # cur
      /\ lastReceived \in Int
  <2>1. Len(prioChan) \in Nat /\ Len(prioChan) <= 1 /\ Len(prioChan) # 0
    BY <1>0, Numbers, EmptySeq DEF IInv, TypeOK, Priority
  <2>2. /\ produced \in Nat /\ cur \in 1 .. 2 /\ 1 \in 1 .. Len(bufs[cur])
        /\ Other(cur) \in 1 .. 2 /\ Other(cur) # cur /\ lastReceived \in Int
    BY Numbers
  <2>3. prioChan \in Seq(Entries) /\ bufs \in [1 .. 2 -> Seq(Entries)]
    BY DEF IInv, TypeOK
  <2>4. bufs[cur] \in Seq(Entries)
    BY <2>2, <2>3
  <2>5. Len(prioChan) = 1
    <3>1. \A x \in Nat : x <= 1 /\ x # 0 => x = 1
      OBVIOUS
    <3> QED
      BY <2>1, <3>1, Zenon
  <2> QED
    BY <2>2, <2>3, <2>4, <2>5
<1>1. /\ prioChan' \in Seq(Entries) /\ Len(prioChan') = 0 /\ prioChan' = << >>
      /\ Head(prioChan) \in Entries /\ Head(prioChan) = prioChan[1]
  <2>1. prioChan' \in Seq(Entries) /\ Len(prioChan') = 0 /\ Head(prioChan) \in Entries
    BY <1>0, <1>n, HeadTailProperties
  <2> QED
    BY <1>0, <2>1, EmptySeq
<1>2. /\ bufs'[cur] = [bufs[cur] EXCEPT ![1] = Head(prioChan)]
      /\ bufs'[Other(cur)] = bufs[Other(cur)]
  BY <1>0, <1>n
<1>3. /\ bufs'[cur] \in Seq(Entries) /\ Len(bufs'[cur]) = Len(bufs[cur])
      /\ bufs'[cur][1] = prioChan[1]
      /\ \A k \in 2 .. Len(bufs[cur]) : bufs'[cur][k] = bufs[cur][k]
  <2>1. /\ bufs'[cur] \in Seq(Entries) /\ Len(bufs'[cur]) = Len(bufs[cur])
        /\ \A j \in 1 .. Len(bufs[cur]) :
             bufs'[cur][j] = IF j = 1 THEN Head(prioChan) ELSE bufs[cur][j]
    BY <1>1, <1>2, <1>n, ExceptSeq
  <2>2. bufs'[cur][1] = Head(prioChan)
    BY <1>n, <2>1, Zenon
  <2>3. bufs'[cur][1] = prioChan[1]
    BY <1>1, <2>2, Zenon
  <2>4. \A k \in 2 .. Len(bufs[cur]) : bufs'[cur][k] = bufs[cur][k]
    <3>1. Len(bufs[cur]) \in Nat
      BY <1>n, LenProperties
    <3>2. \A k \in 2 .. Len(bufs[cur]) : k \in 1 .. Len(bufs[cur]) /\ k # 1
      BY <3>1
    <3> QED
      BY <2>1, <3>2, Zenon
  <2> QED
    BY <2>1, <2>3, <2>4, Zenon
<1>4. TypeOK'
  <2>1. bufs' \in [1 .. 2 -> Seq(Entries)]
    BY <1>0, <1>n, <1>2, <1>3
  <2> QED
    BY <1>0, <1>1, <2>1 DEF IInv, TypeOK
<1>5. lastTaken' = lastTaken /\ lastReceived' = lastReceived + 1 /\ lastSent' = lastSent
  <2>1. lastTaken' = lastTaken
    BY <1>0, <1>3 DEF lastTaken, lastCollected
  <2>2. lastReceived' = lastReceived + 1
    <3>1. /\ produced' = produced /\ rpc' = rpc /\ produced \in Nat
          /\ Len(prioChan) = 1 /\ Len(prioChan') = 0
      BY <1>0, <1>1, <1>n
    <3> QED
      BY <3>1 DEF lastReceived, One
  <2> QED
    BY <1>0, <1>n, <2>1, <2>2 DEF lastSent, One
<1>6. framesOut' = framesOut /\ priorityOut' = priorityOut
  BY <1>0 DEF framesOut, priorityOut, Count
<1>7. Queue'
  BY <1>0 DEF IInv, Queue
<1>8. Collected'
  <2>1. \A a \in 1 .. 2 : a = cur \/ a = Other(cur)
    BY <1>n DEF Other
  <2>2. \A a \in 1 .. 2 : Len(bufs'[a]) >= 1
    BY <1>2, <1>3, <2>1 DEF IInv, Collected
  <2> QED
    BY <1>0, <1>3, <1>5, <2>2 DEF IInv, Collected
<1>9. Taken'
  BY <1>0, <1>2, <1>5 DEF IInv, Taken
<1>10. Counted'
  BY <1>0, <1>5, <1>6 DEF IInv, Counted, unreleased, unwritten
<1>11. Priority'
  <2>1. PriorityFrame(bufs'[cur][1], lastReceived')
    BY <1>0, <1>3, <1>5 DEF IInv, Priority
  <2>2. wpc = "write" => bufs'[arr] = bufs[arr]
    BY <1>2 DEF IInv, Taken
  <2>3. rpc # Nothing => PriorityFrame(rpc, produced)
    BY DEF IInv, Priority
  <2>4. wpc = "write" /\ pos = 1 => PriorityFrame(bufs'[arr][1], lastSent')
    BY <1>5, <2>2 DEF IInv, Priority
  <2>5. ~ failed => priorityOut' = lastSent' - One(wpc = "write" /\ pos = 1)
    BY <1>5, <1>6 DEF IInv, Priority
  <2>6. Len(prioChan') <= 1 /\ prioChan' = << >>
    BY <1>1
  <2>7. UNCHANGED <<rpc, produced, cur, wpc, pos, arr, failed>>
    BY <1>0
  <2> QED
    BY <2>1, <2>3, <2>4, <2>5, <2>6, <2>7 DEF Priority, One
<1>12. WireInOrder' /\ CalledInOrder' /\ TimerHasWork'
  BY <1>0 DEF IInv, WireInOrder, Numbered, Count, CalledInOrder, TimerHasWork
<1> QED
  BY <1>4, <1>7, <1>8, <1>9, <1>10, <1>11, <1>12 DEF IInv

(* A frame is received: it goes into the array, or is held until sendLoop  *)
(* has taken the full one.                                                 *)
LEMMA ReceiveFrameKeeps == ASSUME IInv, ReceiveFrame PROVE IInv'
<1>0. /\ ppc = "select" /\ frameChan # << >> /\ frameChan' = Tail(frameChan)
      /\ timerOn' \in BOOLEAN
      /\ UNCHANGED <<queued, closed, disableSendBatching, prioVars, prioChan, cur, loopVars,
                     cancelled, failed, wire, called>>
  BY DEF ReceiveFrame, Batching
<1>n. /\ queued \in Nat /\ Len(frameChan) \in Nat /\ frameChan \in Seq(Nat) /\ held = 0
      /\ Len(frameChan) <= queued /\ Len(frameChan) >= 1 /\ lastCollected = queued - Len(frameChan)
      /\ Len(bufs[cur]) \in Nat
  <2>1. queued \in Nat /\ Len(frameChan) \in Nat /\ frameChan \in Seq(Nat) /\ Len(bufs[cur]) \in Nat
    BY Numbers DEF IInv, TypeOK
  <2>2. held = 0 /\ Len(frameChan) <= queued
    BY <1>0 DEF IInv, Queue
  <2>3. Len(frameChan) # 0
    BY <1>0, <2>1, EmptySeq
  <2> QED
    BY <2>1, <2>2, <2>3 DEF lastCollected, One
<1>1. /\ frameChan' \in Seq(Nat) /\ Len(frameChan') = Len(frameChan) - 1
      /\ \A k \in 1 .. Len(frameChan') : frameChan'[k] = queued - Len(frameChan') + k
      /\ Head(frameChan) \in Nat /\ Head(frameChan) = queued - Len(frameChan) + 1
  <2>1. /\ frameChan' \in Seq(Nat) /\ Len(frameChan') = Len(frameChan) - 1
        /\ \A k \in 1 .. Len(frameChan') : frameChan'[k] = frameChan[k + 1]
        /\ Head(frameChan) \in Nat
    BY <1>0, <1>n, HeadTailProperties
  <2>2. \A k \in 1 .. Len(frameChan) : frameChan[k] = queued - Len(frameChan) + k
    BY DEF IInv, Queue
  <2>3. Head(frameChan) = frameChan[1]
    BY <1>n
  <2>4. \A k \in 1 .. Len(frameChan') : frameChan'[k] = queued - Len(frameChan') + k
    <3> SUFFICES ASSUME NEW k \in 1 .. Len(frameChan')
                 PROVE  frameChan'[k] = queued - Len(frameChan') + k
      OBVIOUS
    <3>1. k + 1 \in 1 .. Len(frameChan)
      BY <1>n, <2>1
    <3> QED
      BY <1>n, <2>1, <2>2, <3>1
  <2> QED
    BY <1>n, <2>1, <2>2, <2>3, <2>4
<1>2. CASE ~ Full
  <2>1. AppendFrame(Head(frameChan)) /\ held' = held /\ overflowed' = overflowed
    BY <1>2 DEF ReceiveFrame, heldVars
  <2>2. lastCollected' = lastCollected + 1
    BY <1>0, <1>1, <1>n, <2>1 DEF lastCollected, One
  <2>3. overflowed \in BOOLEAN
    BY DEF IInv, TypeOK
  <2>4. Takes(Head(frameChan))
    BY <1>0, <1>1, <1>n, <2>1, <2>2, <2>3 DEF Takes
  <2> QED
    BY <2>1, <2>4, AppendKeeps
<1>3. CASE Full
  <2>0. /\ held' = Head(frameChan) /\ overflowed' = TRUE
        /\ ppc' = "write" /\ withFirst' = FALSE /\ after' = "append"
        /\ UNCHANGED <<queued, closed, disableSendBatching, produced, current, content, rpc,
                       prioChan, bufs, cbs, cur, wpc, arr, pos, end, cancelled, failed, wire,
                       called>>
    <3>1. /\ held' = Head(frameChan) /\ overflowed' = TRUE /\ bufs' = bufs /\ cbs' = cbs
          /\ DoWrite(FALSE, "append") /\ Len(bufs[cur]) > MaxBatch
      BY <1>3 DEF ReceiveFrame, Full
    <3>2. Len(bufs'[cur]) > 1
      BY <1>n, <3>1, Bounds
    <3> QED
      BY <1>0, <3>1, <3>2 DEF DoWrite, prioVars, loopVars
  <2>1. TypeOK'
    BY <1>0, <1>1, <2>0 DEF IInv, TypeOK
  <2>2. lastTaken' = lastTaken /\ lastReceived' = lastReceived /\ lastSent' = lastSent
    <3>1. lastCollected' = lastCollected
      BY <1>1, <1>n, <2>0 DEF lastCollected, One
    <3>2. lastReceived' = lastReceived
      BY <2>0 DEF lastReceived
    <3> QED
      BY <1>0, <2>0, <3>1, <3>2 DEF lastTaken, lastSent, One
  <2>3. framesOut' = framesOut /\ priorityOut' = priorityOut
    BY <2>0 DEF framesOut, priorityOut, Count
  <2>4. Queue'
    BY <1>1, <1>n, <2>0 DEF Queue
  <2>5. Collected' /\ Taken'
    BY <2>0, <2>2 DEF IInv, Collected, Taken
  <2>6. Counted'
    BY <2>0, <2>2, <2>3 DEF IInv, Counted, unreleased, unwritten
  <2>7. Priority'
    BY <2>0, <2>2, <2>3 DEF IInv, Priority
  <2>8. WireInOrder' /\ CalledInOrder' /\ TimerHasWork'
    BY <2>0 DEF IInv, WireInOrder, Numbered, Count, CalledInOrder, TimerHasWork
  <2> QED
    BY <2>1, <2>4, <2>5, <2>6, <2>7, <2>8 DEF IInv
<1> QED
  BY <1>2, <1>3

(* The frame that was held goes into the other array.                      *)
LEMMA AppendHeldKeeps == ASSUME IInv, AppendHeld PROVE IInv'
<1>0. /\ ppc = "append" /\ AppendFrame(held) /\ held' = 0
      /\ UNCHANGED <<queued, frameChan, closed, disableSendBatching, prioVars, prioChan,
                     overflowed, cur, timerOn, loopVars, cancelled, failed, wire, called>>
  BY DEF AppendHeld, queueVars
<1>1. /\ held # 0 /\ held = queued - Len(frameChan) /\ held \in Nat
      /\ queued \in Nat /\ Len(frameChan) \in Nat /\ Len(frameChan) <= queued
      /\ \A k \in 1 .. Len(frameChan) : frameChan[k] = queued - Len(frameChan) + k
  BY <1>0, Numbers DEF IInv, Queue
<1>2. held = lastCollected + 1 /\ lastCollected' = lastCollected + 1
  BY <1>0, <1>1 DEF lastCollected, One
<1>3. overflowed \in BOOLEAN /\ timerOn \in BOOLEAN /\ frameChan \in Seq(Nat)
  BY DEF IInv, TypeOK
<1>4. Takes(held)
  BY <1>0, <1>1, <1>2, <1>3 DEF Takes
<1> QED
  BY <1>0, <1>4, AppendKeeps

(* sendLoop takes the array; the other one is emptied but for its first    *)
(* place.                                                                  *)
LEMMA HandOverKeeps == ASSUME IInv, HandOver PROVE IInv'
<1> DEFINE o == Other(cur)
<1>0. /\ ppc = "write" /\ wpc = "select" /\ wpc' = "write" /\ arr' = cur
      /\ end' = Len(bufs[cur]) /\ pos' = (IF withFirst THEN 1 ELSE 2) /\ cur' = o
      /\ bufs' = [bufs EXCEPT ![o] = SubSeq(@, 1, 1)] /\ cbs' = [cbs EXCEPT ![o] = << >>]
      /\ timerOn' = FALSE /\ ppc' = after
      /\ UNCHANGED <<queued, frameChan, closed, disableSendBatching, produced, current,
                     content, rpc, prioChan, after, withFirst, held, overflowed, cancelled,
                     failed, wire, called>>
  BY DEF HandOver, queueVars, prioVars, heldVars
<1>n. /\ \A a \in 1 .. 2 : Len(bufs[a]) \in Nat /\ Len(bufs[a]) >= 1
      /\ cur \in 1 .. 2 /\ o \in 1 .. 2 /\ o # cur /\ lastTaken \in Int /\ lastCollected \in Int
      /\ withFirst \in BOOLEAN /\ Len(cbs[cur]) = Len(bufs[cur]) - 1
      /\ lastReceived \in Int
  BY Numbers DEF IInv, TypeOK, Collected
<1>t. bufs \in [1 .. 2 -> Seq(Entries)] /\ cbs \in [1 .. 2 -> Seq(Nat)]
  BY DEF IInv, TypeOK
<1> HIDE DEF o
<1>1. /\ bufs'[cur] = bufs[cur] /\ cbs'[cur] = cbs[cur]
      /\ bufs'[o] = SubSeq(bufs[o], 1, 1) /\ cbs'[o] = << >>
  BY <1>0, <1>n, <1>t
<1>2. bufs'[o] \in Seq(Entries) /\ Len(bufs'[o]) = 1
  <2>1. \A i \in 1 .. 1 : bufs[o][i] \in Entries
    BY <1>n, <1>t
  <2> QED
    BY <1>1, <2>1, SubSeqProperties
<1>3. Len(cbs'[o]) = 0 /\ cbs'[o] \in Seq(Nat)
  BY <1>1
<1>4. TypeOK'
  <2>1. bufs' \in [1 .. 2 -> Seq(Entries)] /\ cbs' \in [1 .. 2 -> Seq(Nat)]
    BY <1>0, <1>1, <1>2, <1>3, <1>n, <1>t
  <2>2. /\ wpc' \in {"select", "write", "exit"} /\ arr' \in 1 .. 2 /\ end' \in Nat
        /\ pos' \in Nat /\ cur' \in 1 .. 2 /\ timerOn' \in BOOLEAN
    BY <1>0, <1>n
  <2>3. ppc' \in {"check", "select", "write", "append", "drain", "exit"}
    BY <1>0 DEF IInv, TypeOK
  <2> QED
    BY <1>0, <2>1, <2>2, <2>3 DEF IInv, TypeOK
<1>5. /\ lastTaken' = lastCollected /\ lastTaken = lastCollected - (end' - 1)
      /\ end' \in Nat /\ end' >= 1
  <2>1. lastCollected' = lastCollected
    BY <1>0 DEF lastCollected
  <2>2. Len(bufs'[cur']) = 1 /\ end' = Len(bufs[cur]) /\ end' \in Nat /\ end' >= 1
    BY <1>0, <1>2, <1>n
  <2>3. lastTaken' = lastCollected
    BY <1>n, <2>1, <2>2 DEF lastTaken
  <2>4. lastTaken = lastCollected - (end' - 1)
    BY <2>2 DEF lastTaken
  <2> QED
    BY <2>2, <2>3, <2>4
<1>6. lastReceived' = lastReceived
  BY <1>0 DEF lastReceived
<1>7. framesOut' = framesOut /\ priorityOut' = priorityOut
  BY <1>0 DEF framesOut, priorityOut, Count
<1>8. Queue'
  BY <1>0 DEF IInv, TypeOK, Queue
<1>9. Collected'
  <2>1. \A a \in 1 .. 2 : Len(bufs'[a]) >= 1
    <3>1. \A a \in 1 .. 2 : a = cur \/ a = o
      BY <1>n DEF o, Other
    <3> QED
      BY <1>1, <1>2, <1>n, <3>1
  <2>2. Len(bufs'[cur']) = 1 /\ Len(cbs'[cur']) = 0
    BY <1>0, <1>2, <1>3
  <2> QED
    BY <2>1, <2>2 DEF Collected
<1>10. Taken'
  <2>1. arr' = Other(cur')
    BY <1>0, <1>n DEF o, Other
  <2>2. Len(bufs'[arr']) = end' /\ Len(cbs'[arr']) = end' - 1 /\ pos' \in 1 .. end' + 1
    BY <1>0, <1>1, <1>5, <1>n
  <2>3. ASSUME NEW k \in 2 .. end' PROVE bufs'[arr'][k] = Frame(lastTaken' - end' + k)
    <3>1. bufs[cur][k] = Frame(lastTaken + k - 1)
      BY <1>0, <1>5 DEF IInv, Collected
    <3>2. lastTaken + k - 1 = lastTaken' - end' + k
      BY <1>5, <1>n
    <3> QED
      BY <1>0, <1>1, <3>1, <3>2
  <2>4. ASSUME NEW k \in 1 .. end' - 1 PROVE cbs'[arr'][k] = lastTaken' - (end' - 1) + k
    <3>1. cbs[cur][k] = lastTaken + k
      BY <1>0, <1>5, <1>n DEF IInv, Collected
    <3> QED
      BY <1>0, <1>1, <1>5, <1>n, <3>1
  <2> QED
    BY <2>1, <2>2, <2>3, <2>4 DEF Taken
<1>11. Counted'
  <2>1. ~ failed /\ Len(called) = lastTaken - 0 /\ framesOut = lastTaken - 0
    BY <1>0 DEF IInv, Counted, unreleased, unwritten
  <2>2. unreleased' = end' - 1 /\ unwritten' = end' - 1
    <3>1. wpc' = "write" /\ (pos' = 1 \/ pos' = 2)
      BY <1>0
    <3> QED
      BY <1>5, <3>1 DEF unreleased, unwritten
  <2> QED
    BY <1>0, <1>5, <1>7, <1>n, <2>1, <2>2 DEF Counted
<1>12. Priority'
  <2>1. lastSent' = lastReceived
    BY <1>0, <1>6, <1>n DEF lastSent, One, IInv, TypeOK
  <2>2. priorityOut = lastReceived - (IF withFirst THEN 1 ELSE 0)
    <3>1. ~ failed
      BY <1>0 DEF IInv, Counted
    <3> QED
      BY <1>0, <1>n, <3>1 DEF IInv, Priority, lastSent, One
  <2>3. wpc' = "write" /\ pos' = 1 => PriorityFrame(bufs'[arr'][1], lastSent')
    BY <1>0, <1>1, <1>n, <2>1 DEF IInv, Priority
  <2>4. priorityOut' = lastSent' - One(wpc' = "write" /\ pos' = 1)
    BY <1>0, <1>7, <1>n, <2>1, <2>2 DEF One
  <2>5. ~ (ppc' = "write")
    BY <1>0 DEF IInv, TypeOK
  <2>6. /\ rpc' # Nothing => PriorityFrame(rpc', produced')
        /\ Len(prioChan') <= 1
        /\ prioChan' # << >> => PriorityFrame(prioChan'[1], lastReceived' + 1)
    BY <1>0, <1>6 DEF IInv, Priority
  <2> QED
    BY <2>3, <2>4, <2>5, <2>6 DEF Priority, One
<1>13. WireInOrder' /\ CalledInOrder' /\ TimerHasWork'
  BY <1>0 DEF IInv, WireInOrder, Numbered, Count, CalledInOrder, TimerHasWork
<1> QED
  BY <1>4, <1>8, <1>9, <1>10, <1>11, <1>12, <1>13 DEF IInv

-----------------------------------------------------------------------------
(* sendLoop.                                                               *)

(* What sendLoop finds in the array: the next priority frame in the first  *)
(* place, the next frame in any other.                                     *)
LEMMA NextChunk ==
  ASSUME IInv, wpc = "write", pos <= end
  PROVE  /\ ~ failed
         /\ pos = 1 => PriorityFrame(bufs[arr][pos], priorityOut + 1)
         /\ pos # 1 => pos >= 2 /\ bufs[arr][pos] = Frame(framesOut + 1)
                       /\ framesOut + 1 <= lastTaken
<1>n. pos \in Nat /\ end \in Nat /\ lastTaken \in Int /\ lastSent \in Int
  BY Numbers
<1>1. ~ failed
  BY <1>n DEF IInv, Counted
<1>2. pos = 1 => PriorityFrame(bufs[arr][pos], priorityOut + 1)
  <2> SUFFICES ASSUME pos = 1 PROVE PriorityFrame(bufs[arr][pos], priorityOut + 1)
    OBVIOUS
  <2>1. priorityOut = lastSent - 1
    BY <1>1 DEF IInv, Priority, One
  <2>2. PriorityFrame(bufs[arr][pos], lastSent)
    BY DEF IInv, Priority
  <2>3. lastSent = priorityOut + 1
    BY <1>n, <2>1
  <2> QED
    BY <2>2, <2>3
<1>3. pos # 1 => pos >= 2 /\ bufs[arr][pos] = Frame(framesOut + 1) /\ framesOut + 1 <= lastTaken
  <2> SUFFICES ASSUME pos # 1
               PROVE  /\ pos >= 2 /\ bufs[arr][pos] = Frame(framesOut + 1)
                      /\ framesOut + 1 <= lastTaken
    OBVIOUS
  <2>1. pos >= 2 /\ pos \in 2 .. end
    BY <1>n DEF IInv, Taken
  <2>2. framesOut = lastTaken - (end - pos + 1)
    BY <1>1 DEF IInv, Counted, unwritten
  <2>3. bufs[arr][pos] = Frame(lastTaken - end + pos)
    BY <1>n, <2>1 DEF IInv, Taken
  <2>4. lastTaken - end + pos = framesOut + 1 /\ framesOut + 1 <= lastTaken
    BY <1>n, <2>2
  <2> QED
    BY <2>1, <2>3, <2>4
<1> QED
  BY <1>1, <1>2, <1>3

(* A chunk is written, and its place in the array cleared.                 *)
LEMMA WriteChunkKeeps ==
  ASSUME IInv, WriteChunk
  PROVE  /\ IInv'
         /\ pos = 1 => framesOut' = framesOut
         /\ pos # 1 => framesOut' = framesOut + 1
<1> DEFINE c == bufs[arr][pos]
           e == [kind |-> c.kind, n |-> c.n,
                 value |-> IF c.kind \in Kinds THEN content[c.kind][c.buf] ELSE c.n]
<1>0. /\ wpc = "write" /\ pos <= end /\ wire' = Append(wire, e)
      /\ bufs' = [bufs EXCEPT ![arr][pos] = Nothing] /\ pos' = pos + 1
      /\ UNCHANGED <<queued, frameChan, closed, disableSendBatching, produced, current,
                     content, rpc, prioChan, ppc, after, withFirst, held, overflowed, cbs, cur,
                     timerOn, wpc, arr, end, cancelled, failed, called>>
  BY DEF WriteChunk, queueVars, prioVars, procVars, heldVars
<1>n. /\ pos \in Nat /\ end \in Nat /\ pos >= 1 /\ framesOut \in Nat /\ priorityOut \in Nat
      /\ arr \in 1 .. 2 /\ cur \in 1 .. 2 /\ arr # cur /\ Len(bufs[arr]) = end /\ Len(wire) \in Nat
      /\ lastTaken \in Int /\ lastSent \in Int
  BY <1>0, Numbers DEF IInv, Taken
<1>t. /\ bufs \in [1 .. 2 -> Seq(Entries)] /\ bufs[arr] \in Seq(Entries)
      /\ pos \in 1 .. Len(bufs[arr]) /\ wire \in Seq(Chunks)
      /\ content \in [Kinds -> [1 .. 2 -> Nat]]
  BY <1>0, <1>n DEF IInv, TypeOK
<1>c. /\ ~ failed
      /\ pos = 1 => PriorityFrame(c, priorityOut + 1)
      /\ pos # 1 => pos >= 2 /\ c = Frame(framesOut + 1) /\ framesOut + 1 <= lastTaken
  BY <1>0, NextChunk
<1>1. /\ e \in Chunks
      /\ pos = 1 => e.kind \in Kinds /\ e.kind # "frame" /\ e.kind # "nil" /\ e.n = priorityOut + 1
      /\ pos # 1 => e.kind = "frame" /\ e.kind \notin Kinds /\ e.n = framesOut + 1
  <2>1. CASE pos = 1
    <3>1. c.kind \in Kinds /\ c.n = priorityOut + 1 /\ c.buf \in 1 .. 2
      BY <1>c, <2>1 DEF PriorityFrame
    <3>2. content[c.kind][c.buf] \in Nat
      BY <1>t, <3>1
    <3> HIDE DEF c
    <3> QED
      BY <1>n, <2>1, <3>1, <3>2, Bounds DEF Chunks
  <2>2. CASE pos # 1
    <3>1. c.kind = "frame" /\ c.n = framesOut + 1
      BY <1>c, <2>2 DEF Frame
    <3> HIDE DEF c
    <3> QED
      BY <1>n, <2>2, <3>1, Bounds DEF Chunks
  <2> QED
    BY <2>1, <2>2
<1> HIDE DEF e, c
<1>2. /\ wire' \in Seq(Chunks) /\ Len(wire') = Len(wire) + 1
      /\ \A k \in 1 .. Len(wire) : wire'[k] = wire[k]
      /\ wire'[Len(wire) + 1] = e
  BY <1>0, <1>1, <1>t, AppendProperties
<1>3. /\ bufs'[arr] = [bufs[arr] EXCEPT ![pos] = Nothing]
      /\ bufs'[cur] = bufs[cur]
  BY <1>0, <1>n, <1>t
<1>4. /\ bufs'[arr] \in Seq(Entries) /\ Len(bufs'[arr]) = Len(bufs[arr])
      /\ \A k \in 1 .. Len(bufs[arr]) : k # pos => bufs'[arr][k] = bufs[arr][k]
  <2>1. Nothing \in Entries
    BY DEF Nothing, Entries
  <2> QED
    BY <1>3, <1>t, <2>1, ExceptSeq
<1>5. TypeOK'
  <2>1. bufs' \in [1 .. 2 -> Seq(Entries)]
    BY <1>0, <1>3, <1>4, <1>t
  <2>2. pos' \in Nat
    BY <1>0, <1>n
  <2> QED
    BY <1>0, <1>2, <2>1, <2>2 DEF IInv, TypeOK
<1>6. lastTaken' = lastTaken /\ lastReceived' = lastReceived /\ lastSent' = lastSent
  <2>1. lastTaken' = lastTaken
    BY <1>0, <1>3 DEF lastTaken, lastCollected
  <2>2. lastReceived' = lastReceived
    BY <1>0 DEF lastReceived
  <2> QED
    BY <1>0, <2>1, <2>2 DEF lastSent
<1>7. /\ pos = 1 => framesOut' = framesOut /\ priorityOut' = priorityOut + 1
      /\ pos # 1 => framesOut' = framesOut + 1 /\ priorityOut' = priorityOut
  <2>1. /\ framesOut' = framesOut + One(e.kind \in {"frame"})
        /\ priorityOut' = priorityOut + One(e.kind \in Kinds)
    BY <1>0, <1>1, <1>2, <1>t, CountAppend DEF framesOut, priorityOut
  <2> QED
    BY <1>1, <1>n, <2>1 DEF One
<1>8. Queue'
  BY <1>0 DEF IInv, Queue
<1>9. Collected'
  <2>1. \A a \in 1 .. 2 : a = cur \/ a = arr
    BY <1>n
  <2>2. \A a \in 1 .. 2 : Len(bufs'[a]) >= 1
    BY <1>3, <1>4, <2>1 DEF IInv, Collected
  <2> QED
    BY <1>0, <1>3, <1>6, <2>2 DEF IInv, Collected
<1>10. Taken'
  <2>1. arr' = Other(cur') /\ Len(bufs'[arr']) = end' /\ Len(cbs'[arr']) = end' - 1
    BY <1>0, <1>4, <1>n DEF IInv, Taken
  <2>2. pos' \in 1 .. end' + 1
    BY <1>0, <1>n
  <2>3. ASSUME NEW k \in 2 .. end', k >= pos' PROVE bufs'[arr'][k] = Frame(lastTaken' - end' + k)
    <3>1. bufs'[arr][k] = bufs[arr][k]
      BY <1>0, <1>4, <1>n, <2>3
    <3>2. k \in 2 .. end /\ k >= pos
      BY <1>0, <1>n, <2>3
    <3>3. bufs[arr][k] = Frame(lastTaken - end + k)
      BY <1>0, <3>2 DEF IInv, Taken
    <3> QED
      BY <1>0, <1>6, <3>1, <3>3
  <2>4. \A k \in 1 .. end' - 1 : cbs'[arr'][k] = lastTaken' - (end' - 1) + k
    BY <1>0, <1>6 DEF IInv, Taken
  <2> QED
    BY <2>1, <2>2, <2>3, <2>4 DEF Taken
<1>11. Counted'
  <2>1. framesOut' = lastTaken - (end - pos' + 1)
    <3>1. framesOut = lastTaken - (IF pos = 1 THEN end - 1 ELSE end - pos + 1)
      BY <1>0, <1>c DEF IInv, Counted, unwritten
    <3> QED
      BY <1>0, <1>7, <1>n, <3>1
  <2>2. unwritten' = end - pos' + 1 /\ unreleased' = unreleased
    BY <1>0, <1>n DEF unwritten, unreleased
  <2> QED
    BY <1>0, <1>6, <1>c, <2>1, <2>2 DEF IInv, Counted
<1>12. Priority'
  <2>1. priorityOut' = lastSent - One(wpc' = "write" /\ pos' = 1)
    <3>1. priorityOut = lastSent - (IF pos = 1 THEN 1 ELSE 0)
      BY <1>0, <1>c DEF IInv, Priority, One
    <3> QED
      BY <1>0, <1>7, <1>n, <3>1 DEF One
  <2>2. pos' # 1
    BY <1>0, <1>n
  <2>3. /\ rpc' # Nothing => PriorityFrame(rpc', produced')
        /\ Len(prioChan') <= 1
        /\ prioChan' # << >> => PriorityFrame(prioChan'[1], lastReceived' + 1)
        /\ ppc' = "write" /\ withFirst' => PriorityFrame(bufs'[cur'][1], lastReceived')
    BY <1>0, <1>3, <1>6 DEF IInv, Priority
  <2> QED
    BY <1>6, <2>1, <2>2, <2>3 DEF Priority, One
<1>13. WireInOrder'
  <2>1. ASSUME NEW a \in 1 .. Len(wire') PROVE wire'[a].kind # "nil"
    <3>1. a \in 1 .. Len(wire) \/ a = Len(wire) + 1
      BY <1>2, <1>n
    <3>2. e.kind # "nil"
      BY <1>1
    <3> QED
      BY <1>2, <3>1, <3>2 DEF IInv, WireInOrder
  <2>2. Numbered(wire', {"frame"})
    <3>1. e.kind \in {"frame"} => e.n = Count(wire, {"frame"}, Len(wire)) + 1
      BY <1>1 DEF framesOut
    <3>2. Numbered(wire, {"frame"})
      BY DEF IInv, WireInOrder
    <3> QED
      BY <1>0, <1>1, <1>t, <3>1, <3>2, NumberedAppend
  <2>3. Numbered(wire', Kinds)
    <3>1. e.kind \in Kinds => e.n = Count(wire, Kinds, Len(wire)) + 1
      BY <1>1 DEF priorityOut
    <3>2. Numbered(wire, Kinds)
      BY DEF IInv, WireInOrder
    <3> QED
      BY <1>0, <1>1, <1>t, <3>1, <3>2, NumberedAppend
  <2> QED
    BY <2>1, <2>2, <2>3 DEF WireInOrder
<1>14. CalledInOrder' /\ TimerHasWork'
  BY <1>0, <1>3 DEF IInv, CalledInOrder, TimerHasWork
<1> QED
  BY <1>5, <1>7, <1>8, <1>9, <1>10, <1>11, <1>12, <1>13, <1>14 DEF IInv

(* A write fails: what is left of the array is not written.                *)
LEMMA WriteFailsKeeps == ASSUME IInv, WriteFails PROVE IInv'
<1>0. /\ wpc = "write" /\ pos <= end /\ failed' = TRUE /\ pos' = end + 1
      /\ UNCHANGED <<queued, frameChan, closed, disableSendBatching, produced, current,
                     content, rpc, prioChan, ppc, after, withFirst, held, overflowed, bufs,
                     cbs, cur, timerOn, wpc, arr, end, cancelled, wire, called>>
  BY DEF WriteFails, queueVars, prioVars, procVars, heldVars, arrayVars
<1>n. pos \in Nat /\ end \in Nat /\ pos >= 1
  BY <1>0, Numbers DEF IInv, Taken
<1>1. TypeOK'
  BY <1>0, <1>n DEF IInv, TypeOK
<1>2. /\ lastTaken' = lastTaken /\ lastReceived' = lastReceived /\ lastSent' = lastSent
      /\ unreleased' = unreleased
  <2>1. lastTaken' = lastTaken
    BY <1>0 DEF lastTaken, lastCollected
  <2>2. lastReceived' = lastReceived
    BY <1>0 DEF lastReceived
  <2> QED
    BY <1>0, <2>1, <2>2 DEF lastSent, unreleased
<1>3. Queue' /\ Collected'
  BY <1>0, <1>2 DEF IInv, Queue, Collected
<1>4. Taken'
  <2>1. pos' \in 1 .. end' + 1 /\ \A k \in 2 .. end' : ~ (k >= pos')
    BY <1>0, <1>n
  <2>2. /\ arr' = Other(cur') /\ Len(bufs'[arr']) = end' /\ Len(cbs'[arr']) = end' - 1
        /\ \A k \in 1 .. end' - 1 : cbs'[arr'][k] = lastTaken' - (end' - 1) + k
    BY <1>0, <1>2 DEF IInv, Taken
  <2> QED
    BY <2>1, <2>2 DEF Taken
<1>5. Counted'
  BY <1>0, <1>2 DEF IInv, Counted
<1>6. Priority'
  <2>1. pos' # 1 /\ failed' = TRUE
    BY <1>0, <1>n
  <2>2. /\ rpc' # Nothing => PriorityFrame(rpc', produced')
        /\ Len(prioChan') <= 1
        /\ prioChan' # << >> => PriorityFrame(prioChan'[1], lastReceived' + 1)
        /\ ppc' = "write" /\ withFirst' => PriorityFrame(bufs'[cur'][1], lastReceived')
    BY <1>0, <1>2 DEF IInv, Priority
  <2> QED
    BY <2>1, <2>2 DEF Priority
<1>7. WireInOrder' /\ CalledInOrder' /\ TimerHasWork'
  BY <1>0 DEF IInv, WireInOrder, Numbered, Count, CalledInOrder, TimerHasWork
<1> QED
  BY <1>1, <1>3, <1>4, <1>5, <1>6, <1>7 DEF IInv

(* The array is done, and its callbacks run.                               *)
LEMMA OnReleaseKeeps ==
  ASSUME IInv, OnRelease
  PROVE  /\ IInv'
         /\ Len(called') = lastTaken /\ Len(called') = Len(called) + end - 1 /\ end >= 1
         /\ ~ failed => framesOut = lastTaken
<1>0. /\ wpc = "write" /\ pos > end /\ called' = called \o cbs[arr]
      /\ wpc' = (IF failed THEN "exit" ELSE "select")
      /\ cancelled' = (cancelled \/ failed)
      /\ UNCHANGED <<queued, frameChan, closed, disableSendBatching, produced, current,
                     content, rpc, prioChan, ppc, after, withFirst, held, overflowed, bufs,
                     cbs, cur, timerOn, arr, pos, end, failed, wire>>
  BY DEF OnRelease, queueVars, prioVars, procVars, heldVars, arrayVars
<1>n. /\ end \in Nat /\ pos = end + 1 /\ end >= 1 /\ Len(cbs[arr]) = end - 1 /\ Len(called) \in Nat
      /\ lastTaken \in Int /\ Len(called) = lastTaken - (end - 1)
  <2>1. /\ end \in Nat /\ pos \in Nat /\ arr \in 1 .. 2 /\ Len(bufs[arr]) >= 1
        /\ Len(called) \in Nat /\ lastTaken \in Int
    BY Numbers
  <2>2. pos \in 1 .. end + 1 /\ Len(bufs[arr]) = end /\ Len(cbs[arr]) = end - 1
    BY <1>0 DEF IInv, Taken
  <2>3. Len(called) = lastTaken - (end - 1)
    BY <1>0 DEF IInv, Counted, unreleased
  <2> QED
    BY <1>0, <2>1, <2>2, <2>3
<1>t. called \in Seq(Nat) /\ cbs[arr] \in Seq(Nat) /\ failed \in BOOLEAN /\ cancelled \in BOOLEAN
  BY Numbers DEF IInv, TypeOK
<1>1. /\ called' \in Seq(Nat) /\ Len(called') = lastTaken
      /\ \A a \in 1 .. Len(called') : called'[a] = a
  <2>1. /\ called' \in Seq(Nat) /\ Len(called') = Len(called) + (end - 1)
        /\ \A i \in 1 .. Len(called) + (end - 1) :
             called'[i] = IF i <= Len(called) THEN called[i] ELSE cbs[arr][i - Len(called)]
    BY <1>0, <1>n, <1>t, ConcatProperties
  <2>2. \A a \in 1 .. Len(called) : called[a] = a
    <3>1. DOMAIN called = 1 .. Len(called) /\ called = [a \in DOMAIN called |-> a]
      BY <1>t, LenProperties DEF IInv, CalledInOrder
    <3> QED
      BY <3>1
  <2>3. \A k \in 1 .. end - 1 : cbs[arr][k] = lastTaken - (end - 1) + k
    BY <1>0 DEF IInv, Taken
  <2>4. ASSUME NEW a \in 1 .. Len(called') PROVE called'[a] = a
    <3>1. CASE a <= Len(called)
      BY <1>n, <2>1, <2>2, <3>1
    <3>2. CASE ~ (a <= Len(called))
      <4>1. a - Len(called) \in 1 .. end - 1
        BY <1>n, <2>1, <3>2
      <4>2. called'[a] = cbs[arr][a - Len(called)]
        BY <1>n, <2>1, <3>2
      <4>3. cbs[arr][a - Len(called)] = lastTaken - (end - 1) + (a - Len(called))
        BY <2>3, <4>1
      <4>4. lastTaken - (end - 1) + (a - Len(called)) = a
        BY <1>n, <4>1
      <4> QED
        BY <4>2, <4>3, <4>4
    <3> QED
      BY <3>1, <3>2
  <2>5. Len(called') = lastTaken
    BY <1>n, <2>1
  <2> QED
    BY <2>1, <2>4, <2>5
<1>2. TypeOK'
  <2>1. wpc' \in {"select", "write", "exit"} /\ cancelled' \in BOOLEAN
    BY <1>0, <1>t
  <2> QED
    BY <1>0, <1>1, <2>1 DEF IInv, TypeOK
<1>3. lastTaken' = lastTaken /\ lastReceived' = lastReceived /\ lastSent' = lastSent
  <2>1. lastTaken' = lastTaken
    BY <1>0 DEF lastTaken, lastCollected
  <2>2. lastReceived' = lastReceived
    BY <1>0 DEF lastReceived
  <2> QED
    BY <1>0, <2>1, <2>2 DEF lastSent
<1>4. framesOut' = framesOut /\ priorityOut' = priorityOut
  BY <1>0 DEF framesOut, priorityOut, Count
<1>w. ~ failed => framesOut = lastTaken
  <2>1. unwritten = 0
    BY <1>0, <1>n DEF unwritten
  <2> QED
    BY <1>n, <2>1 DEF IInv, Counted
<1>5. Queue' /\ Collected'
  BY <1>0, <1>3 DEF IInv, Queue, Collected
<1>6. Taken'
  BY <1>0 DEF Taken
<1>7. Counted'
  <2>1. unreleased' = 0 /\ unwritten' = 0
    BY <1>0 DEF unreleased, unwritten
  <2> QED
    BY <1>0, <1>1, <1>3, <1>4, <1>n, <1>w, <2>1 DEF Counted
<1>8. Priority'
  <2>1. ~ failed => priorityOut' = lastSent' - One(wpc' = "write" /\ pos' = 1)
    <3>1. pos # 1 /\ wpc' # "write"
      BY <1>0, <1>n
    <3> QED
      BY <1>3, <1>4, <3>1 DEF IInv, Priority, One
  <2>2. /\ rpc' # Nothing => PriorityFrame(rpc', produced')
        /\ Len(prioChan') <= 1
        /\ prioChan' # << >> => PriorityFrame(prioChan'[1], lastReceived' + 1)
        /\ ppc' = "write" /\ withFirst' => PriorityFrame(bufs'[cur'][1], lastReceived')
    BY <1>0, <1>3 DEF IInv, Priority
  <2>3. wpc' # "write"
    BY <1>0
  <2> QED
    BY <1>0, <2>1, <2>2, <2>3 DEF Priority, One
<1>9. WireInOrder' /\ TimerHasWork'
  BY <1>0 DEF IInv, WireInOrder, Numbered, Count, TimerHasWork
<1>10. CalledInOrder'
  <2>1. DOMAIN called' = 1 .. Len(called') /\ called' = [a \in DOMAIN called' |-> called'[a]]
    BY <1>1, LenProperties
  <2> QED
    BY <1>1, <2>1 DEF CalledInOrder
<1>11. Len(called') = Len(called) + end - 1
  BY <1>1, <1>n
<1> QED
  BY <1>1, <1>2, <1>5, <1>6, <1>7, <1>8, <1>9, <1>10, <1>11, <1>n, <1>w DEF IInv

-----------------------------------------------------------------------------
(* Every step keeps the invariant.                                         *)
LEMMA StepIInv == IInv /\ [Next]_vars => IInv'
<1> SUFFICES ASSUME IInv, [Next]_vars PROVE IInv'
  OBVIOUS
<1>t. /\ closed \in BOOLEAN /\ timerOn \in BOOLEAN /\ cancelled \in BOOLEAN
      /\ TimerHasWork
  BY DEF IInv, TypeOK
<1>1. ASSUME QueueFrame PROVE IInv'
  BY <1>1, QueueFrameKeeps
<1>2. ASSUME Flush PROVE IInv'
  <2>1. TimerHasWork' /\ closed' = TRUE
    BY <1>2, <1>t DEF Flush, arrayVars, procVars, TimerHasWork
  <2> QED
    BY <1>2, <1>t, <2>1, QuietKeeps DEF Flush, procVars, loopVars
<1>3. ASSUME SendPriority PROVE IInv'
  BY <1>3, SendPriorityKeeps
<1>4. ASSUME NEW k \in Kinds, FillPriority(k) PROVE IInv'
  BY <1>4, FillPriorityKeeps
<1>5. ASSUME ReceivePriority PROVE IInv'
  BY <1>5, ReceivePriorityKeeps
<1>6. ASSUME NoPriority PROVE IInv'
  <2>1. TimerHasWork'
    BY <1>6, <1>t DEF NoPriority, arrayVars, TimerHasWork
  <2> QED
    BY <1>6, <1>t, <2>1, QuietKeeps DEF NoPriority, queueVars, loopVars
<1>7. ASSUME ReceiveFrame PROVE IInv'
  BY <1>7, ReceiveFrameKeeps
<1>8. ASSUME AppendHeld PROVE IInv'
  BY <1>8, AppendHeldKeeps
<1>9. ASSUME FrameChanClosed PROVE IInv'
  <2>1. /\ \/ ppc' = "drain" /\ UNCHANGED <<withFirst, after>>
           \/ ppc' = "write" /\ withFirst' = FALSE /\ after' = "drain"
        /\ ppc = "select" /\ timerOn' \in BOOLEAN
    BY <1>9 DEF FrameChanClosed, DoWrite, Batching
  <2>2. TimerHasWork'
    BY <2>1 DEF TimerHasWork
  <2> QED
    BY <1>9, <1>t, <2>1, <2>2, QuietKeeps DEF FrameChanClosed, queueVars, loopVars
<1>10. ASSUME TimerFires PROVE IInv'
  <2>1. ppc' = "write" /\ withFirst' = FALSE /\ after' = "check" /\ ppc = "select"
    BY <1>10, <1>t DEF TimerFires, DoWrite, TimerHasWork, arrayVars
  <2>2. TimerHasWork'
    BY <2>1 DEF TimerHasWork
  <2> QED
    BY <1>10, <1>t, <2>1, <2>2, QuietKeeps DEF TimerFires, queueVars, loopVars
<1>11. ASSUME ProcessorDone PROVE IInv'
  <2>1. /\ ppc \in {"select", "drain"}
        /\ \/ ppc' = "exit" /\ UNCHANGED <<withFirst, after>>
           \/ ppc = "select" /\ ppc' = "write" /\ withFirst' = FALSE /\ after' = "exit"
    BY <1>11 DEF ProcessorDone, DoWrite
  <2>2. TimerHasWork'
    BY <2>1 DEF TimerHasWork
  <2> QED
    BY <1>11, <1>t, <2>1, <2>2, QuietKeeps DEF ProcessorDone, queueVars, loopVars
<1>12. ASSUME HandOver PROVE IInv'
  BY <1>12, HandOverKeeps
<1>13. ASSUME WriteChunk PROVE IInv'
  BY <1>13, WriteChunkKeeps
<1>14. ASSUME WriteFails PROVE IInv'
  BY <1>14, WriteFailsKeeps
<1>15. ASSUME OnRelease PROVE IInv'
  BY <1>15, OnReleaseKeeps
<1>16. ASSUME SendLoopDone PROVE IInv'
  <2>1. TimerHasWork'
    BY <1>16, <1>t DEF SendLoopDone, procVars, arrayVars, TimerHasWork
  <2> QED
    BY <1>16, <1>t, <2>1, QuietKeeps DEF SendLoopDone, queueVars, procVars
<1>17. ASSUME Cancel PROVE IInv'
  <2>1. TimerHasWork' /\ cancelled' = TRUE
    BY <1>17, <1>t DEF Cancel, procVars, arrayVars, TimerHasWork
  <2> QED
    BY <1>17, <1>t, <2>1, QuietKeeps DEF Cancel, queueVars, procVars, loopVars
<1>18. ASSUME UNCHANGED vars PROVE IInv'
  <2>1. TimerHasWork'
    BY <1>18, <1>t DEF vars, procVars, arrayVars, TimerHasWork
  <2> QED
    BY <1>18, <1>t, <2>1, QuietKeeps DEF vars, queueVars, procVars, loopVars
<1> QED
  BY <1>1, <1>2, <1>3, <1>4, <1>5, <1>6, <1>7, <1>8, <1>9, <1>10, <1>11, <1>12, <1>13, <1>14,
     <1>15, <1>16, <1>17, <1>18 DEF Next, FrameProcessor, SendLoop

(* The invariant holds throughout.                                         *)
LEMMA IInvHolds == Spec => []IInv
  BY InitIInv, StepIInv, PTL DEF Spec

(* The arrays, their callbacks and the timer agree: every frame is called  *)
(* back once and in order, and an armed timer has something to write.      *)
THEOREM PipelineSafe == Spec => []Inv
<1>1. IInv => Inv
  BY DEF IInv, Inv
<1> QED
  BY <1>1, IInvHolds, PTL

(* The wire carries the frames, and the priority frames, in the order they *)
(* were produced, each once, and nothing else.                             *)
THEOREM WireSafe == Spec => []WireInOrder
<1>1. IInv => WireInOrder
  BY DEF IInv
<1> QED
  BY <1>1, IInvHolds, PTL

-----------------------------------------------------------------------------
(* The FIFO.                                                               *)

fifoVars == <<queued, framesOut, Len(called), failed>>

(* A step that leaves the history, the frames handed in and the failure    *)
(* alone is a stutter.                                                     *)
LEMMA Stutters ==
  ASSUME UNCHANGED <<queued, failed, wire, called>>
  PROVE  fifoVars' = fifoVars
<1>1. framesOut' = framesOut
  BY DEF framesOut, Count
<1> QED
  BY <1>1 DEF fifoVars

(* Every step of the pipeline hands in, delivers or releases frames, breaks *)
(* the connection, or does nothing a user of the FIFO sees.                *)
LEMMA StepFIFO == IInv /\ [Next]_vars => [FIFO!Next]_fifoVars
<1> SUFFICES ASSUME IInv, [Next]_vars PROVE FIFO!Next \/ fifoVars' = fifoVars
  OBVIOUS
<1>n. /\ queued \in Nat /\ framesOut \in Nat /\ Len(called) \in Nat /\ lastTaken \in Int
      /\ lastTaken <= queued
  <2>1. /\ queued \in Nat /\ framesOut \in Nat /\ Len(called) \in Nat /\ lastTaken \in Int
        /\ Len(frameChan) \in Nat /\ Len(bufs[cur]) \in Nat /\ Len(bufs[cur]) >= 1
    BY Numbers
  <2>2. lastTaken <= queued
    <3>1. lastCollected \in Int /\ lastCollected <= queued
      BY <2>1 DEF lastCollected, One
    <3>2. lastTaken = lastCollected - (Len(bufs[cur]) - 1)
      BY DEF lastTaken
    <3> QED
      BY <2>1, <3>1, <3>2
  <2> QED
    BY <2>1, <2>2
<1>1. ASSUME QueueFrame PROVE FIFO!HandIn
  <2>1. queued' = queued + 1 /\ UNCHANGED <<failed, wire, called>>
    BY <1>1 DEF QueueFrame
  <2>2. framesOut' = framesOut
    BY <2>1 DEF framesOut, Count
  <2> QED
    BY <2>1, <2>2 DEF FIFO!HandIn, framesOut
<1>2. ASSUME WriteChunk PROVE FIFO!Deliver \/ fifoVars' = fifoVars
  <2>1. /\ wpc = "write" /\ pos <= end /\ UNCHANGED <<queued, called, failed>>
    BY <1>2 DEF WriteChunk, queueVars
  <2>2. CASE pos = 1
    <3>1. framesOut' = framesOut
      BY <1>2, <2>2, WriteChunkKeeps
    <3> QED
      BY <2>1, <3>1 DEF fifoVars
  <2>3. CASE pos # 1
    <3>1. framesOut' = framesOut + 1
      BY <1>2, <2>3, WriteChunkKeeps
    <3>2. ~ failed /\ framesOut + 1 <= lastTaken
      BY <2>1, <2>3, NextChunk
    <3>3. framesOut < queued
      BY <1>n, <3>2
    <3> QED
      BY <2>1, <3>1, <3>2, <3>3 DEF FIFO!Deliver, framesOut
  <2> QED
    BY <2>2, <2>3
<1>3. ASSUME WriteFails PROVE FIFO!Break
  <2>1. failed' = TRUE /\ UNCHANGED <<queued, wire, called>>
    BY <1>3 DEF WriteFails, queueVars
  <2>2. framesOut' = framesOut
    BY <2>1 DEF framesOut, Count
  <2> QED
    BY <2>1, <2>2 DEF FIFO!Break, framesOut
<1>4. ASSUME OnRelease PROVE FIFO!Release \/ fifoVars' = fifoVars
  <2>1. UNCHANGED <<queued, wire, failed>>
    BY <1>4 DEF OnRelease, queueVars
  <2>2. framesOut' = framesOut
    BY <2>1 DEF framesOut, Count
  <2>3. /\ Len(called') = lastTaken /\ Len(called') = Len(called) + end - 1 /\ end >= 1
        /\ ~ failed => framesOut = lastTaken
    BY <1>4, OnReleaseKeeps
  <2>4. end \in Nat
    BY Numbers
  <2>5. CASE end = 1
    BY <1>n, <2>1, <2>2, <2>3, <2>5 DEF fifoVars
  <2>6. CASE end # 1
    <3>1. Len(called') \in Len(called) + 1 .. (IF failed THEN queued ELSE framesOut)
      BY <1>n, <2>3, <2>4, <2>6
    <3> QED
      BY <2>1, <2>2, <3>1 DEF FIFO!Release, framesOut
  <2> QED
    BY <2>5, <2>6
<1>5. ASSUME UNCHANGED <<queued, failed, wire, called>> PROVE fifoVars' = fifoVars
  BY <1>5, Stutters
<1>6. \/ QueueFrame \/ WriteChunk \/ WriteFails \/ OnRelease
      \/ UNCHANGED <<queued, failed, wire, called>>
  BY DEF Next, FrameProcessor, SendLoop, Flush, SendPriority, FillPriority, ReceivePriority,
     NoPriority, ReceiveFrame, AppendHeld, FrameChanClosed, TimerFires, ProcessorDone, HandOver,
     SendLoopDone, Cancel, vars, queueVars
<1> QED
  BY <1>1, <1>2, <1>3, <1>4, <1>5, <1>6 DEF FIFO!Next

(* The pipeline implements the FIFO: frames reach the wire in the order    *)
(* they were handed in, each once, and no frame is called back before it   *)
(* is written unless the connection broke.                                 *)
THEOREM PipelineRefinement == Spec => ImplementsFIFO
<1>1. Init => FIFO!Init
  <2> SUFFICES ASSUME Init PROVE FIFO!Init
    OBVIOUS
  <2>1. queued = 0 /\ wire = << >> /\ called = << >> /\ failed = FALSE
    BY DEF Init
  <2>2. {a \in 1 .. Len(wire) : wire[a].kind \in {"frame"}} = {} /\ Len(called) = 0
    BY <2>1
  <2>3. Count(wire, {"frame"}, Len(wire)) = 0
    BY <2>2, FS_EmptySet DEF Count
  <2> QED
    BY <2>1, <2>2, <2>3 DEF FIFO!Init
<1>2. IInv /\ [Next]_vars =>
        [FIFO!Next]_<<queued, Count(wire, {"frame"}, Len(wire)), Len(called), failed>>
  BY StepFIFO DEF fifoVars, framesOut
<1> QED
  BY <1>1, <1>2, IInvHolds, PTL DEF Spec, ImplementsFIFO, FIFO!Spec
=============================================================================
