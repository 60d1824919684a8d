--------------------------- MODULE StreamsProofs ---------------------------
(***************************************************************************)
(* For any number of requests, any frames, windows, limit, shards and any  *)
(* combination of faults: stream objects are recycled safely, inUse counts *)
(* the live streams, a run that ends with all streams released has         *)
(* reported every request, and no answer finds its stream missing.  The    *)
(* second half is about the limits the server sets.                        *)
(***************************************************************************)
EXTENDS Streams, SequenceTheorems, FiniteSetTheorems, TLAPS

Opening == {"allow", "acquire"}                        \* before Pool.Acquire
Sending == {"setup", "stream", "conn", "enqueue"}      \* after it
Queueing == {"stream", "conn", "enqueue"}              \* after Store.Set

(* An answer on its way to the client is for some stream.                  *)
AnswersHaveIds ==
  \A a \in DOMAIN toClient :
    toClient[a].type \in {"HEADERS", "DATA", "RST"} => toClient[a].id \in Ids

(* The locals of send and of the frame processors, and the frames under    *)
(* way, are what the code that reads them expects.                         *)
Locals ==
  /\ spc \in Opening \cup Sending => streamID \in Ids /\ req \in Requests
  /\ spc \in Sending => stream \in Objs
  /\ spc \in Queueing => i \in DOMAIN req
  /\ rpc \in {"endHeaders", "delete", "release", "take", "endTaken"} => rid \in Ids
  /\ rpc \in {"endHeaders", "endTaken"} => robj \in Objs
  /\ AnswersHaveIds

(* Ids are used in order, each once: those up to streamID have an object   *)
(* (streamID itself from Acquire on), those above have none.               *)
Fresh ==
  /\ \A id \in Ids : objOf[id] # Nil <=> IF spc \in Opening THEN id < streamID ELSE id <= streamID
  /\ \A id \in ended : objOf[id] # Nil
  /\ 2 * nObj + 1 <= IF spc \in Opening THEN streamID - 2 ELSE streamID

(* Objects are numbered in the order they are allocated.                   *)
Allocated ==
  /\ \A id \in Ids : objOf[id] <= nObj
  /\ \A a \in DOMAIN pool : pool[a] <= nObj

PoolInv == PoolSound /\ Allocated /\ IsFiniteSet(Live) /\ InUseExact

(* The goaway visit is past this entry.                                    *)
Passed(id) == rpc = "stopped" \/ (rpc = "each" /\ ShardOf(id) <= shard /\ id \notin left)

(* Who may end a stream: the sender before it stores it, the receiver with *)
(* the frame in its hands, the goaway visit.  At most one of them at once. *)
Ownership ==
  /\ spc = "setup" => /\ streamID \in Live /\ objOf[streamID] = stream
                      /\ store[streamID] = Nil
                      /\ ~ (rpc = "endTaken" /\ rid = streamID)
  /\ rpc \in {"endHeaders", "endTaken"} => rid \in Live /\ objOf[rid] = robj
  /\ rpc = "endHeaders" => store[rid] # Nil
  /\ rpc = "endTaken" => store[rid] = Nil
  /\ rpc = "delete" => rid \in ended
  /\ rpc = "each" => \A id \in left : store[id] # Nil /\ ShardOf(id) = shard
  /\ \A id \in Ids : store[id] # Nil => store[id] = objOf[id]
  /\ \A id \in Ids : store[id] # Nil /\ ~ (rpc = "delete" /\ rid = id) /\ ~ Passed(id)
                       => id \in Live

(* A stream that is stored, ended, or being ended.                         *)
Known(id) == store[id] # Nil \/ id \in ended \/ (rpc = "endTaken" /\ rid = id)

(* Streams are known before their frames travel.                           *)
Traced ==
  /\ spc \in Queueing => Known(streamID)
  /\ \A a \in DOMAIN frameChan : Known(frameChan[a].id)
  /\ \A id \in seen : Known(id)

Outcome == outcome # "none" => spc = "done"

IInv == /\ TypeOK /\ Locals /\ Fresh /\ PoolInv /\ Ownership /\ Traced
        /\ Outcome /\ AllReported

USE DEF Nil

(* The bounds are numbers.                                                 *)
LEMMA Numbers ==
  /\ MaxRequests \in Nat /\ InitialWindow \in Nat /\ ConnWindow \in Nat
  /\ MaxConcurrentStreams \in Nat /\ NumShards \in Nat \ {0}
  BY CountsAssumption, ShardsAssumption

(* All the actions, and all the tuples they leave unchanged.               *)
LEMMA PoolFrame ==
  [Next]_vars =>
    \/ Acquire \/ SetUpError \/ EndHeaders \/ EndTaken \/ (\E id \in Ids : EachVisit(id))
    \/ UNCHANGED <<poolVars, history>>
  BY DEF Next, Sender, Receiver, Server, Answer, Transmit, vars, poolVars, history,
     Send, WaitAllow, StoreSet, WaitStreamWindow, WaitConnWindow, Enqueue, Flush,
     WaitResponses, Cancel, Write, Callback, RecvHeaders, Delete, Release, RecvDataOrReset,
     GetAndDelete, RecvWindowUpdate, RecvGoAway, EachShard, Respond, TrailingReset,
     GrantStream, GrantConn, GoAway

(* Stream ids are odd, start at 3 and go up by 2.                          *)
LEMMA IdFacts ==
  /\ \A id \in Ids : id \in Nat /\ id >= 3 /\ id <= 2 * MaxRequests + 1
  /\ \A s \in Ids \cup {1} : s < 2 * MaxRequests + 1 => s + 2 \in Ids
  /\ \A s \in Ids \cup {1} : s \in Nat /\ \A id \in Ids : id < s + 2 <=> id <= s
<1>1. MaxRequests \in Nat
  BY Numbers
<1>2. ASSUME NEW id \in Ids PROVE \E k \in 1 .. MaxRequests : id = 2 * k + 1
  BY DEF Ids
<1>3. \A k \in 1 .. MaxRequests : 2 * k + 1 \in Ids
  BY DEF Ids
<1>4. ASSUME NEW s \in Ids \cup {1} PROVE \E k \in 0 .. MaxRequests : s = 2 * k + 1
  BY <1>1, <1>2
<1>5. \A id \in Ids : id \in Nat /\ id >= 3 /\ id <= 2 * MaxRequests + 1
  BY <1>1, <1>2
<1>6. ASSUME NEW s \in Ids \cup {1}, s < 2 * MaxRequests + 1 PROVE s + 2 \in Ids
  <2>1. PICK k \in 0 .. MaxRequests : s = 2 * k + 1
    BY <1>4
  <2>2. k + 1 \in 1 .. MaxRequests /\ s + 2 = 2 * (k + 1) + 1
    BY <1>1, <1>6, <2>1
  <2> QED
    BY <1>3, <2>2
<1>7. ASSUME NEW s \in Ids \cup {1}, NEW id \in Ids
      PROVE  s \in Nat /\ (id < s + 2 <=> id <= s)
  BY <1>1, <1>2, <1>4
<1> QED
  BY <1>1, <1>4, <1>5, <1>6, <1>7

(* Ending a live stream keeps the pool sound: its object joins the free    *)
(* list, where no other live stream's object is.                           *)
LEMMA EndKeepsPool ==
  ASSUME PoolType, PoolInv, NEW id \in Live, EndStream(objOf[id])
  PROVE  /\ PoolType' /\ PoolInv'
         /\ ended' = ended \cup {id} /\ objOf' = objOf /\ Live' = Live \ {id}
<1> DEFINE o == objOf[id]
<1>0. /\ inUse \in Nat /\ nObj \in Nat /\ inUse + Len(pool) = nObj
      /\ \A a, b \in DOMAIN pool : pool[a] = pool[b] => a = b
      /\ \A x \in Live : sid[objOf[x]] = x /\ \A a \in DOMAIN pool : pool[a] # objOf[x]
  BY Numbers DEF PoolInv, PoolSound, PoolType
<1>1. id \in Ids /\ o \in Objs /\ sid[o] = id /\ \A a \in DOMAIN pool : pool[a] # o
  BY DEF Live, PoolInv, PoolSound, PoolType
<1>2. /\ pool' = Append(pool, o) /\ inUse' = inUse - 1 /\ ended' = ended \cup {id}
      /\ nObj' = nObj /\ sid' = sid /\ objOf' = objOf
  BY <1>1 DEF EndStream
<1> HIDE DEF o
<1>3. Live' = Live \ {id}
  BY <1>2 DEF Live
<1>4. /\ pool' \in Seq(Objs) /\ Len(pool') = Len(pool) + 1
      /\ \A a \in 1 .. Len(pool) : pool'[a] = pool[a]
      /\ pool'[Len(pool) + 1] = o
      /\ DOMAIN pool = 1 .. Len(pool) /\ DOMAIN pool' = 1 .. Len(pool) + 1
      /\ Len(pool) \in Nat
  BY <1>1, <1>2, AppendProperties DEF PoolType
<1>5. IsFiniteSet(Live') /\ Cardinality(Live') = Cardinality(Live) - 1
  BY <1>3, FS_RemoveElement DEF PoolInv
<1>6. Cardinality(Live) \in Nat /\ Cardinality(Live') \in Nat
  BY <1>5, FS_CardinalityType DEF PoolInv
<1>7. InUseExact' /\ inUse' \in Nat
  BY <1>2, <1>5, <1>6 DEF InUseExact, PoolInv
<1>8. PoolType'
  BY <1>1, <1>2, <1>4, <1>7 DEF PoolType
<1>9. PoolSound'
  <2>1. ASSUME NEW a \in DOMAIN pool', NEW b \in DOMAIN pool', pool'[a] = pool'[b]
        PROVE  a = b
    BY <1>0, <1>1, <1>4, <2>1
  <2>2. ASSUME NEW x \in Live' PROVE sid'[objOf'[x]] = x
    BY <1>0, <1>2, <1>3
  <2>3. ASSUME NEW x \in Live', NEW a \in DOMAIN pool' PROVE pool'[a] # objOf'[x]
    <3>1. x \in Live /\ x # id
      BY <1>3
    <3>2. objOf[x] # o
      BY <1>0, <1>1, <3>1
    <3> QED
      BY <1>0, <1>2, <1>4, <3>1, <3>2
  <2>4. inUse' + Len(pool') = nObj'
    BY <1>0, <1>2, <1>4
  <2> QED
    BY <2>1, <2>2, <2>3, <2>4 DEF PoolSound
<1>10. Allocated'
  BY <1>1, <1>2, <1>4 DEF Allocated, PoolInv, o
<1> QED
  BY <1>2, <1>3, <1>5, <1>7, <1>8, <1>9, <1>10 DEF PoolInv

(* Acquire gives a fresh id an object that no live stream has.             *)
LEMMA AcquireKeepsPool ==
  ASSUME SenderType, PoolType, Locals, Fresh, PoolInv, Acquire
  PROVE  /\ PoolType' /\ PoolInv'
         /\ stream' \in Objs /\ objOf' = [objOf EXCEPT ![streamID] = stream']
         /\ streamID \in Ids /\ objOf[streamID] = Nil
         /\ ended' = ended /\ Live' = Live \cup {streamID} /\ streamID \notin Live
         /\ 2 * nObj' + 1 <= streamID
<1>0. /\ inUse \in Nat /\ nObj \in Nat /\ inUse + Len(pool) = nObj
      /\ \A a, b \in DOMAIN pool : pool[a] = pool[b] => a = b
      /\ \A x \in Live : sid[objOf[x]] = x /\ \A a \in DOMAIN pool : pool[a] # objOf[x]
      /\ \A x \in Ids : objOf[x] \in Nat /\ objOf[x] <= nObj
      /\ \A a \in DOMAIN pool : pool[a] <= nObj
  BY Numbers DEF PoolInv, PoolSound, PoolType, Allocated, Objs
<1>1. /\ streamID \in Ids /\ streamID \in Nat /\ streamID <= 2 * MaxRequests + 1
      /\ objOf[streamID] = Nil /\ streamID \notin ended
      /\ 2 * nObj + 1 <= streamID - 2
  BY IdFacts DEF Acquire, Locals, Fresh, Opening, PoolType
<1>2. pool \in Seq(Objs) /\ DOMAIN pool = 1 .. Len(pool) /\ Len(pool) \in Nat /\ nObj \in Nat
  BY DEF PoolType
<1>3. /\ inUse' = inUse + 1 /\ sid' = [sid EXCEPT ![stream'] = streamID]
      /\ objOf' = [objOf EXCEPT ![streamID] = stream'] /\ ended' = ended
  BY DEF Acquire
<1>4. /\ stream' \in Objs /\ stream' <= nObj' /\ nObj' >= nObj /\ nObj' \in 0 .. MaxRequests
      /\ 2 * nObj' + 1 <= streamID
      /\ \A id \in Live : objOf[id] # stream'
      /\ pool' \in Seq(Objs) /\ Len(pool') + 1 + nObj = Len(pool) + nObj'
      /\ Len(pool') <= Len(pool) /\ Len(pool') \in Nat
      /\ \A a \in 1 .. Len(pool') : pool'[a] = pool[a] /\ pool'[a] # stream'
  <2>1. CASE pool # << >>
    <3>1. /\ Len(pool) >= 1 /\ stream' = pool[Len(pool)] /\ nObj' = nObj
          /\ pool' = SubSeq(pool, 1, Len(pool) - 1)
      BY <1>2, <2>1 DEF Acquire
    <3>2. /\ pool' \in Seq(Objs) /\ Len(pool') = Len(pool) - 1
          /\ \A a \in 1 .. Len(pool) - 1 : pool'[a] = pool[a]
      <4>1. \A a \in 1 .. Len(pool) - 1 : pool[a] \in Objs
        BY <1>2
      <4>2. Len(pool) - 1 \in Int /\ 1 \in Int
        BY <1>2
      <4>3. /\ SubSeq(pool, 1, Len(pool) - 1) \in Seq(Objs)
            /\ Len(SubSeq(pool, 1, Len(pool) - 1))
                 = IF 1 <= Len(pool) - 1 THEN Len(pool) - 1 - 1 + 1 ELSE 0
            /\ \A a \in 1 .. Len(pool) - 1 - 1 + 1 :
                 SubSeq(pool, 1, Len(pool) - 1)[a] = pool[1 + a - 1]
        BY <4>1, <4>2, SubSeqProperties
      <4> QED
        BY <1>2, <3>1, <4>3
    <3>3. stream' \in Objs /\ stream' <= nObj
      BY <1>0, <1>2, <3>1
    <3>4. \A id \in Live : objOf[id] # stream'
      BY <1>0, <1>2, <3>1
    <3>5. \A a \in 1 .. Len(pool') : pool'[a] # stream'
      BY <1>0, <1>2, <3>1, <3>2
    <3> QED
      BY <1>0, <1>1, <1>2, <3>1, <3>2, <3>3, <3>4, <3>5 DEF PoolType
  <2>2. CASE pool = << >>
    <3>1. stream' = nObj + 1 /\ nObj' = nObj + 1 /\ pool' = pool /\ Len(pool) = 0
      BY <2>2 DEF Acquire
    <3>2. nObj + 1 \in Objs
      BY Numbers, <1>1, <1>2 DEF Objs
    <3>3. \A id \in Live : objOf[id] # stream'
      BY <1>0, <1>2, <3>1 DEF Live
    <3> QED
      BY Numbers, <1>1, <1>2, <3>1, <3>2, <3>3 DEF Objs
  <2> QED
    BY <2>1, <2>2
<1>5. Live' = Live \cup {streamID} /\ streamID \notin Live
  BY <1>1, <1>3, <1>4 DEF Live, PoolType, Objs
<1>6. IsFiniteSet(Live') /\ Cardinality(Live') = Cardinality(Live) + 1
  BY <1>5, FS_AddElement DEF PoolInv
<1>7. InUseExact'
  BY <1>0, <1>3, <1>6 DEF InUseExact, PoolInv
<1>8. PoolType'
  BY <1>0, <1>1, <1>3, <1>4 DEF PoolType
<1>9. PoolSound'
  <2>0. DOMAIN pool' = 1 .. Len(pool')
    BY <1>4
  <2>1. ASSUME NEW a \in DOMAIN pool', NEW b \in DOMAIN pool', pool'[a] = pool'[b]
        PROVE  a = b
    BY <1>0, <1>2, <1>4, <2>0, <2>1
  <2>2. ASSUME NEW x \in Live' PROVE sid'[objOf'[x]] = x
    <3>1. CASE x = streamID
      BY <1>1, <1>3, <1>4, <3>1 DEF PoolType
    <3>2. CASE x # streamID
      <4>1. x \in Live /\ x \in Ids /\ objOf[x] \in Objs
        BY <1>5, <3>2 DEF Live, PoolType
      <4> QED
        BY <1>0, <1>1, <1>3, <1>4, <3>2, <4>1 DEF PoolType
    <3> QED
      BY <3>1, <3>2
  <2>3. ASSUME NEW x \in Live', NEW a \in DOMAIN pool' PROVE pool'[a] # objOf'[x]
    <3>1. CASE x = streamID
      BY <1>1, <1>3, <1>4, <2>0, <3>1 DEF PoolType
    <3>2. CASE x # streamID
      <4>1. x \in Live /\ x \in Ids /\ objOf'[x] = objOf[x]
        BY <1>3, <1>5, <3>2 DEF Live, PoolType
      <4> QED
        BY <1>0, <1>2, <1>4, <2>0, <4>1
    <3> QED
      BY <3>1, <3>2
  <2>4. inUse' + Len(pool') = nObj'
    <3>1. nObj' \in Nat /\ Len(pool') \in Nat /\ Len(pool') + 1 + nObj = Len(pool) + nObj'
      BY Numbers, <1>4
    <3> QED
      BY <1>0, <1>2, <1>3, <3>1
  <2> QED
    BY <2>1, <2>2, <2>3, <2>4 DEF PoolSound
<1>10. Allocated'
  <2>1. \A id \in Ids : objOf'[id] <= nObj'
    <3> SUFFICES ASSUME NEW id \in Ids PROVE objOf'[id] <= nObj'
      OBVIOUS
    <3>1. objOf[id] <= nObj /\ objOf[id] \in Nat
      BY <1>0
    <3>2. objOf'[id] = IF id = streamID THEN stream' ELSE objOf[id]
      BY <1>1, <1>3 DEF PoolType
    <3> QED
      BY <1>0, <1>2, <1>4, <3>1, <3>2
  <2>2. \A a \in DOMAIN pool' : pool'[a] <= nObj'
    <3> SUFFICES ASSUME NEW a \in DOMAIN pool' PROVE pool'[a] <= nObj'
      OBVIOUS
    <3>0. DOMAIN pool' = 1 .. Len(pool')
      BY <1>4
    <3>1. a \in 1 .. Len(pool') /\ a \in DOMAIN pool /\ pool'[a] = pool[a] /\ pool[a] \in Nat
      <4>1. a \in 1 .. Len(pool') /\ a \in 1 .. Len(pool)
        BY <1>2, <1>4, <3>0
      <4>2. pool[a] \in Objs
        BY <1>2, <4>1
      <4>3. pool[a] \in Nat
        BY Numbers, <4>2 DEF Objs
      <4> QED
        BY <1>2, <1>4, <4>1, <4>3
    <3>2. pool[a] <= nObj
      BY <1>0, <3>1
    <3> QED
      BY <1>0, <1>2, <1>4, <3>1, <3>2
  <2> QED
    BY <2>1, <2>2 DEF Allocated
<1> QED
  BY <1>1, <1>3, <1>4, <1>5, <1>6, <1>7, <1>8, <1>9, <1>10 DEF PoolInv

(* Each End in the code is the End of a live stream, by its one owner.     *)
LEMMA WhoEnds ==
  ASSUME IInv
  PROVE  /\ SetUpError => streamID \in Live /\ EndStream(objOf[streamID])
         /\ EndHeaders \/ EndTaken => rid \in Live /\ EndStream(objOf[rid])
         /\ \A id \in Ids : EachVisit(id) =>
              /\ id \in Live /\ store[id] = objOf[id]
              /\ EndStream(objOf[id]) \/ UNCHANGED <<poolVars, history>>
<1>1. SetUpError => streamID \in Live /\ EndStream(objOf[streamID])
  BY DEF SetUpError, IInv, Ownership
<1>2. EndHeaders \/ EndTaken => rid \in Live /\ EndStream(objOf[rid])
  BY DEF EndHeaders, EndTaken, IInv, Ownership
<1>3. ASSUME NEW id \in Ids, EachVisit(id)
      PROVE  /\ id \in Live /\ store[id] = objOf[id]
             /\ EndStream(objOf[id]) \/ UNCHANGED <<poolVars, history>>
  <2>1. rpc = "each" /\ id \in left /\ store[id] # Nil
    BY <1>3 DEF EachVisit, IInv, Ownership
  <2>2. store[id] = objOf[id] /\ id \in Live
    BY <2>1 DEF IInv, Ownership, Passed
  <2> QED
    BY <1>3, <2>2 DEF EachVisit
<1> QED
  BY <1>1, <1>2, <1>3

(* The pool is kept by every step.                                         *)
LEMMA PoolStays ==
  ASSUME PoolType, PoolInv, UNCHANGED <<poolVars, history>>
  PROVE  PoolType' /\ PoolInv' /\ Live' = Live
<1>1. Live' = Live
  BY DEF Live, history
<1>2. PoolType'
  BY DEF PoolType, poolVars, history
<1>3. PoolSound'
  BY <1>1 DEF PoolSound, PoolInv, poolVars, history
<1>4. Allocated'
  BY DEF Allocated, PoolInv, poolVars, history
<1>5. IsFiniteSet(Live') /\ InUseExact'
  BY <1>1 DEF InUseExact, PoolInv, poolVars
<1> QED
  BY <1>1, <1>2, <1>3, <1>4, <1>5 DEF PoolInv

(* Every step keeps the pool: Acquire and the four Ends touch it.          *)
LEMMA PoolStep == IInv /\ [Next]_vars => PoolType' /\ PoolInv'
<1> SUFFICES ASSUME IInv, [Next]_vars PROVE PoolType' /\ PoolInv'
  OBVIOUS
<1>0. SenderType /\ PoolType /\ Locals /\ Fresh /\ PoolInv
  BY DEF IInv, TypeOK
<1>1. CASE Acquire
  BY <1>0, <1>1, AcquireKeepsPool
<1>2. CASE SetUpError
  BY <1>0, <1>2, WhoEnds, EndKeepsPool
<1>3. CASE EndHeaders \/ EndTaken
  BY <1>0, <1>3, WhoEnds, EndKeepsPool
<1>4. CASE \E id \in Ids : EachVisit(id)
  BY <1>0, <1>4, WhoEnds, EndKeepsPool, PoolStays
<1>5. CASE UNCHANGED <<poolVars, history>>
  BY <1>0, <1>5, PoolStays
<1> QED
  BY <1>1, <1>2, <1>3, <1>4, <1>5, PoolFrame

(* Which steps matter to the order of ids.                                 *)
LEMMA FreshFrame ==
  ASSUME SenderType, [Next]_vars
  PROVE  \/ Send \/ Acquire
         \/ SetUpError \/ EndHeaders \/ EndTaken \/ (\E id \in Ids : EachVisit(id))
         \/ /\ UNCHANGED <<streamID, nObj, objOf, ended>>
            /\ spc' \in Opening <=> spc \in Opening
  BY DEF Next, Sender, Receiver, Server, Answer, Transmit, vars, senderVars, poolVars,
     history, Opening, SenderType, SendReturns,
     WaitAllow, StoreSet, WaitStreamWindow, WaitConnWindow, Enqueue, Flush,
     WaitResponses, Cancel, Write, Callback, RecvHeaders, Delete, Release, RecvDataOrReset,
     GetAndDelete, RecvWindowUpdate, RecvGoAway, EachShard, Respond, TrailingReset,
     GrantStream, GrantConn, GoAway

(* Every step keeps ids in order, each used once.                          *)
LEMMA FreshStep == IInv /\ [Next]_vars => Fresh'
<1> SUFFICES ASSUME IInv, [Next]_vars PROVE Fresh'
  OBVIOUS
<1>0. SenderType /\ PoolType /\ Locals /\ Fresh /\ PoolInv
  BY DEF IInv, TypeOK
<1>1. CASE Send
  <2>1. /\ spc \notin Opening /\ spc' \in Opening /\ streamID' = streamID + 2
        /\ UNCHANGED <<nObj, objOf, ended>>
    BY <1>1 DEF Send, Opening, poolVars, history
  <2>2. streamID \in Ids \cup {1} /\ nObj \in Nat
    BY <1>0, Numbers DEF SenderType, PoolType
  <2>3. \A id \in Ids : id < streamID + 2 <=> id <= streamID
    BY <2>2, IdFacts
  <2>4. streamID \in Nat
    BY <2>2, IdFacts
  <2> QED
    BY <1>0, <2>1, <2>2, <2>3, <2>4 DEF Fresh
<1>2. CASE Acquire
  <2>1. /\ stream' \in Objs /\ objOf' = [objOf EXCEPT ![streamID] = stream']
        /\ streamID \in Ids /\ ended' = ended /\ 2 * nObj' + 1 <= streamID
    BY <1>0, <1>2, AcquireKeepsPool
  <2>2. spc \in Opening /\ spc' \notin Opening /\ streamID' = streamID
    BY <1>2 DEF Acquire, Opening
  <2>3. stream' # Nil /\ streamID \in Nat /\ \A id \in Ids : id \in Nat
    BY <2>1, IdFacts DEF Objs
  <2>4. ASSUME NEW id \in Ids PROVE objOf'[id] # Nil <=> id <= streamID
    BY <1>0, <2>1, <2>2, <2>3 DEF Fresh, PoolType
  <2>5. ASSUME NEW id \in ended PROVE objOf'[id] # Nil
    BY <1>0, <2>1, <2>3 DEF Fresh, PoolType
  <2> QED
    BY <2>1, <2>2, <2>4, <2>5 DEF Fresh
<1>3. ASSUME NEW id \in Live, EndStream(objOf[id]), UNCHANGED streamID,
             spc \notin Opening => spc' \notin Opening, spc \in Opening => spc' = spc
      PROVE  Fresh'
  <2>1. ended' = ended \cup {id} /\ objOf' = objOf /\ nObj' = nObj /\ objOf[id] # Nil
    BY <1>0, <1>3, EndKeepsPool DEF EndStream, Live
  <2> QED
    BY <1>0, <1>3, <2>1 DEF Fresh
<1>4. CASE SetUpError
  BY <1>3, <1>4, WhoEnds DEF SetUpError, Opening
<1>5. CASE EndHeaders \/ EndTaken
  BY <1>3, <1>5, WhoEnds DEF EndHeaders, EndTaken, senderVars
<1>6. ASSUME NEW id \in Ids, EachVisit(id) PROVE Fresh'
  <2>1. UNCHANGED <<spc, streamID>>
    BY <1>6 DEF EachVisit, senderVars
  <2>2. CASE EndStream(objOf[id])
    BY <1>3, <1>6, <2>1, <2>2, WhoEnds
  <2>3. CASE UNCHANGED <<poolVars, history>>
    BY <1>0, <2>1, <2>3 DEF Fresh, poolVars, history
  <2> QED
    BY <1>6, <2>2, <2>3, WhoEnds
<1>7. CASE UNCHANGED <<streamID, nObj, objOf, ended>> /\ (spc' \in Opening <=> spc \in Opening)
  BY <1>0, <1>7 DEF Fresh
<1> QED
  BY <1>0, <1>1, <1>2, <1>4, <1>5, <1>6, <1>7, FreshFrame

(* Every step keeps the sender's locals well typed.                        *)
LEMMA SenderTypeStep == IInv /\ [Next]_vars => SenderType'
<1> SUFFICES ASSUME IInv, [Next]_vars PROVE SenderType'
  OBVIOUS
<1>0. SenderType /\ PoolType /\ Locals /\ Fresh /\ PoolInv
  BY DEF IInv, TypeOK
<1>1. CASE Send
  <2>1. streamID + 2 \in Ids
    BY <1>0, <1>1, IdFacts DEF Send, SenderType
  <2> QED
    BY <1>0, <1>1, <2>1 DEF Send, SenderType
<1>2. CASE Acquire
  <2>1. stream' \in Objs
    BY <1>0, <1>2, AcquireKeepsPool
  <2> QED
    BY <1>0, <1>2, <2>1 DEF Acquire, SenderType
<1>3. CASE SetUpError
  BY <1>0, <1>3 DEF SetUpError, SendReturns, SenderType
<1>4. CASE Enqueue
  <2>1. i \in Nat \ {0} /\ i + 1 \in Nat \ {0} /\ 1 \in Nat \ {0}
    BY <1>0 DEF SenderType
  <2> QED
    BY <1>0, <1>4, <2>1 DEF Enqueue, SendReturns, SenderType
<1>5. CASE WaitAllow \/ StoreSet \/ WaitStreamWindow \/ WaitConnWindow \/ Flush \/ WaitResponses
  BY <1>0, <1>5 DEF WaitAllow, StoreSet, WaitStreamWindow, WaitConnWindow, Flush,
     WaitResponses, SenderType
<1>6. CASE UNCHANGED senderVars
  BY <1>0, <1>6 DEF SenderType, senderVars
<1>7. Sender \/ UNCHANGED senderVars
  BY DEF Next, Receiver, Server, Answer, Transmit, vars, senderVars, Cancel, Write,
     Callback, RecvHeaders, EndHeaders, Delete, Release, RecvDataOrReset, GetAndDelete,
     EndTaken, RecvWindowUpdate, RecvGoAway, EachShard, EachVisit, Respond, TrailingReset,
     GrantStream, GrantConn, GoAway
<1> QED
  BY <1>1, <1>2, <1>3, <1>4, <1>5, <1>6, <1>7 DEF Sender

(* The price of a frame that is being sent is a number.                    *)
LEMMA PriceType ==
  ASSUME Locals, spc \in Queueing
  PROVE  req \in Seq(Nat) /\ i \in DOMAIN req /\ req[i] \in Nat
<1>1. req \in Requests /\ i \in DOMAIN req
  BY DEF Locals, Queueing, Sending
<1>2. req \in Seq(Nat)
  BY <1>1, RequestsAssumption
<1> QED
  BY <1>1, <1>2

(* The first frame of the channel to the client is a message.              *)
LEMMA HeadMessage ==
  ASSUME ServerType, toClient # << >>
  PROVE  /\ Head(toClient) \in Messages /\ Tail(toClient) \in Seq(Messages)
         /\ Head(toClient) = toClient[1] /\ 1 \in DOMAIN toClient
         /\ Head(toClient).id \in Ids \cup {0} /\ Head(toClient).n \in Nat
<1>1. toClient \in Seq(Messages)
  BY DEF ServerType
<1>2. Head(toClient) \in Messages /\ Tail(toClient) \in Seq(Messages)
  BY <1>1, HeadTailProperties
<1>3. Head(toClient) = toClient[1] /\ 1 \in DOMAIN toClient
  BY <1>1
<1> QED
  BY <1>2, <1>3 DEF Messages

(* Every step keeps the limiter, the windows and the store well typed.     *)
LEMMA SharedTypeStep == IInv /\ [Next]_vars => SharedType'
<1> SUFFICES ASSUME IInv, [Next]_vars PROVE SharedType'
  OBVIOUS
<1>0. SenderType /\ PoolType /\ SharedType /\ ReceiverType /\ ServerType /\ Locals /\ Fresh /\ PoolInv
  BY DEF IInv, TypeOK
<1>1. CASE WaitAllow
  BY <1>0, <1>1 DEF WaitAllow, TakeSlot, SharedType, windowVars
<1>2. CASE Acquire
  <2>1. stream' \in Objs
    BY <1>0, <1>2, AcquireKeepsPool
  <2> QED
    BY <1>0, <1>2, <2>1, Numbers DEF Acquire, SharedType
<1>3. CASE StoreSet
  BY <1>0, <1>3 DEF StoreSet, SharedType, Locals, Sending, Opening, windowVars
<1>4. CASE WaitStreamWindow
  <2>1. stream \in Objs /\ req[i] \in Nat
    BY <1>0, <1>4, PriceType DEF WaitStreamWindow, Locals, Sending, Queueing
  <2>2. fc[stream] \in Nat /\ fc[stream] - req[i] \in Nat
    BY <1>0, <1>4, <2>1 DEF WaitStreamWindow, SharedType
  <2> QED
    BY <1>0, <1>4, <2>1, <2>2 DEF WaitStreamWindow, SharedType
<1>5. CASE WaitConnWindow
  <2>1. req[i] \in Nat
    BY <1>0, <1>5, PriceType DEF WaitConnWindow, Queueing
  <2> QED
    BY <1>0, <1>5, <2>1 DEF WaitConnWindow, SharedType
<1>6. CASE Delete \/ GetAndDelete
  BY <1>0, <1>6 DEF Delete, GetAndDelete, SharedType, Locals, windowVars
<1>7. CASE Release \/ RecvDataOrReset
  BY <1>0, <1>7 DEF Release, RecvDataOrReset, GiveSlot, SharedType, windowVars
<1>8. CASE RecvWindowUpdate
  <2>1. Head(toClient).id \in Ids \cup {0} /\ Head(toClient).n \in Nat
    BY <1>0, <1>8, HeadMessage DEF RecvWindowUpdate, Receive
  <2>2. CASE Head(toClient).id = 0
    BY <1>0, <1>8, <2>1, <2>2 DEF RecvWindowUpdate, SharedType
  <2>3. CASE Head(toClient).id # 0 /\ store[Head(toClient).id] = Nil
    BY <1>0, <1>8, <2>3 DEF RecvWindowUpdate, SharedType, windowVars
  <2>4. CASE Head(toClient).id # 0 /\ store[Head(toClient).id] # Nil
    <3>1. store[Head(toClient).id] \in Objs
      BY <1>0, <2>1, <2>4 DEF SharedType
    <3>2. fc[store[Head(toClient).id]] + Head(toClient).n \in Nat
      BY <1>0, <2>1, <3>1 DEF SharedType
    <3> QED
      BY <1>0, <1>8, <2>4, <3>1, <3>2 DEF RecvWindowUpdate, SharedType
  <2> QED
    BY <2>2, <2>3, <2>4
<1>9. CASE UNCHANGED <<quota, windowVars, store>>
  BY <1>0, <1>9 DEF SharedType, windowVars
<1>10. \/ WaitAllow \/ Acquire \/ StoreSet \/ WaitStreamWindow \/ WaitConnWindow
       \/ Delete \/ GetAndDelete \/ Release \/ RecvDataOrReset \/ RecvWindowUpdate
       \/ UNCHANGED <<quota, windowVars, store>>
  BY DEF Next, Sender, Receiver, Server, Answer, Transmit, vars, windowVars, Cancel, Send,
     SetUpError, Enqueue, Flush, WaitResponses, Write, Callback, RecvHeaders, EndHeaders,
     EndTaken, RecvGoAway, EachShard, EachVisit, Respond, TrailingReset, GrantStream,
     GrantConn, GoAway
<1> QED
  BY <1>1, <1>2, <1>3, <1>4, <1>5, <1>6, <1>7, <1>8, <1>9, <1>10

(* Every step keeps the writer's queues well typed.                        *)
LEMMA WriterTypeStep == IInv /\ [Next]_vars => WriterType'
<1> SUFFICES ASSUME IInv, [Next]_vars PROVE WriterType'
  OBVIOUS
<1>0. SenderType /\ WriterType /\ Locals
  BY DEF IInv, TypeOK
<1>1. CASE Enqueue
  <2> DEFINE f == [id |-> streamID, obj |-> stream, price |-> req[i], last |-> i = Len(req)]
  <2>1. f \in Frames
    BY <1>0, <1>1, PriceType DEF Enqueue, Locals, Queueing, Sending, Frames
  <2>2. frameChan' = Append(frameChan, f) /\ UNCHANGED <<batch, wpc>>
    BY <1>1 DEF Enqueue
  <2> HIDE DEF f
  <2>3. frameChan' \in Seq(Frames)
    BY <1>0, <2>1, <2>2, AppendProperties DEF WriterType
  <2> QED
    BY <1>0, <2>2, <2>3 DEF WriterType
<1>2. CASE Write
  <2>1. frameChan # << >> /\ frameChan \in Seq(Frames) /\ batch \in Seq(Frames)
    BY <1>0, <1>2 DEF Write, WriterType
  <2>2. Head(frameChan) \in Frames /\ Tail(frameChan) \in Seq(Frames)
    BY <2>1, HeadTailProperties
  <2>3. Append(batch, Head(frameChan)) \in Seq(Frames)
    BY <2>1, <2>2, AppendProperties
  <2> QED
    BY <1>0, <1>2, <2>2, <2>3 DEF Write, WriterType
<1>3. CASE Callback
  <2>1. Tail(batch) \in Seq(Frames)
    BY <1>0, <1>3, HeadTailProperties DEF Callback, WriterType
  <2> QED
    BY <1>0, <1>3, <2>1 DEF Callback, WriterType
<1>4. CASE UNCHANGED writerVars
  BY <1>0, <1>4 DEF WriterType, writerVars
<1>5. Enqueue \/ Write \/ Callback \/ UNCHANGED writerVars
  BY DEF Next, Sender, Receiver, Server, Answer, Transmit, vars, writerVars, Cancel, Send,
     WaitAllow, Acquire, StoreSet, WaitStreamWindow, WaitConnWindow,
     SetUpError, Flush, WaitResponses, RecvHeaders, EndHeaders, Delete, Release,
     RecvDataOrReset, GetAndDelete, RecvWindowUpdate,
     EndTaken, RecvGoAway, EachShard, EachVisit, Respond, TrailingReset, GrantStream,
     GrantConn, GoAway
<1> QED
  BY <1>1, <1>2, <1>3, <1>4, <1>5

(* Every step keeps the receiver's locals well typed.                      *)
LEMMA ReceiverTypeStep == IInv /\ [Next]_vars => ReceiverType'
<1> SUFFICES ASSUME IInv, [Next]_vars PROVE ReceiverType'
  OBVIOUS
<1>0. SharedType /\ ReceiverType /\ ServerType /\ Locals
  BY DEF IInv, TypeOK
<1> USE DEF ReceiverType
<1>1. CASE RecvHeaders
  <2>1. Head(toClient).id \in Ids
    BY <1>0, <1>1, HeadMessage DEF RecvHeaders, Receive, Locals, AnswersHaveIds
  <2>2. store[Head(toClient).id] \in Objs \cup {Nil}
    BY <1>0, <2>1 DEF SharedType
  <2> QED
    BY <1>0, <1>1, <2>1, <2>2 DEF RecvHeaders, endVars
<1>2. CASE RecvDataOrReset
  <2>1. Head(toClient).id \in Ids
    BY <1>0, <1>2, HeadMessage DEF RecvDataOrReset, Receive, Locals, AnswersHaveIds
  <2> QED
    BY <1>0, <1>2, <2>1 DEF RecvDataOrReset, endVars
<1>3. CASE GetAndDelete
  <2>1. store[rid] \in Objs \cup {Nil}
    BY <1>0, <1>3 DEF GetAndDelete, Locals, SharedType
  <2> QED
    BY <1>0, <1>3, <2>1 DEF GetAndDelete, endVars
<1>4. CASE RecvGoAway
  <2>1. Head(toClient).n \in Nat
    BY <1>0, <1>4, HeadMessage DEF RecvGoAway, Receive
  <2> QED
    BY <1>0, <1>4, <2>1 DEF RecvGoAway, endVars
<1>5. CASE EndHeaders \/ Delete \/ Release \/ EndTaken
  BY <1>0, <1>5 DEF EndHeaders, Delete, Release, EndTaken, endVars
<1>6. CASE EachShard
  <2>1. UNCHANGED <<rid, robj, last, outcome>>
    BY <1>6 DEF EachShard
  <2>2. CASE MoreShards
    <3>1. shard' = shard + 2 /\ left' \subseteq Ids /\ UNCHANGED <<rpc, cancelled>>
      BY <1>6, <2>2 DEF EachShard
    <3> QED
      BY <1>0, <2>1, <3>1
  <2>3. CASE ~ MoreShards
    <3>1. rpc' = "stopped" /\ cancelled' = TRUE /\ UNCHANGED <<shard, left>>
      BY <1>6, <2>3 DEF EachShard
    <3> QED
      BY <1>0, <2>1, <3>1
  <2> QED
    BY <2>2, <2>3
<1>7. ASSUME NEW id \in Ids, EachVisit(id) PROVE ReceiverType'
  <2>1. left' \subseteq Ids /\ UNCHANGED <<rpc, rid, robj, last, shard, endVars>>
    BY <1>0, <1>7 DEF EachVisit
  <2> QED
    BY <1>0, <2>1 DEF endVars
<1>8. CASE WaitResponses \/ Cancel
  BY <1>0, <1>8 DEF WaitResponses, Cancel, recvVars
<1>9. CASE UNCHANGED <<recvVars, endVars>>
  BY <1>0, <1>9 DEF recvVars, endVars
<1>10. \/ RecvHeaders \/ RecvDataOrReset \/ GetAndDelete \/ RecvGoAway
       \/ EndHeaders \/ Delete \/ Release \/ EndTaken \/ EachShard
       \/ (\E id \in Ids : EachVisit(id)) \/ WaitResponses \/ Cancel
       \/ UNCHANGED <<recvVars, endVars>>
  BY DEF Next, Sender, Receiver, Server, Answer, Transmit, vars, recvVars, endVars, Send,
     WaitAllow, Acquire, StoreSet, WaitStreamWindow, WaitConnWindow, Enqueue, SetUpError,
     Flush, Write, Callback, RecvWindowUpdate, Respond, TrailingReset, GrantStream,
     GrantConn, GoAway
<1> QED
  BY <1>1, <1>2, <1>3, <1>4, <1>5, <1>6, <1>7, <1>8, <1>9, <1>10

(* What the server transmits is a message; answers carry a stream's id.    *)
LEMMA TransmitType ==
  ASSUME ServerType, Locals, NEW f \in Messages, Transmit(f),
         f.type \in {"HEADERS", "DATA", "RST"} => f.id \in Ids
  PROVE  /\ toClient' \in Seq(Messages) /\ UNCHANGED <<seen, reqDone>> /\ AnswersHaveIds'
<1>1. toClient \in Seq(Messages) /\ toClient' = Append(toClient, f) /\ UNCHANGED <<seen, reqDone>>
  BY DEF ServerType, Transmit
<1>2. /\ toClient' \in Seq(Messages) /\ Len(toClient') = Len(toClient) + 1
      /\ \A a \in 1 .. Len(toClient) : toClient'[a] = toClient[a]
      /\ toClient'[Len(toClient) + 1] = f
  BY <1>1, AppendProperties
<1>3. DOMAIN toClient = 1 .. Len(toClient) /\ DOMAIN toClient' = 1 .. Len(toClient) + 1
  BY <1>1, <1>2
<1>4. ASSUME NEW a \in DOMAIN toClient', toClient'[a].type \in {"HEADERS", "DATA", "RST"}
      PROVE  toClient'[a].id \in Ids
  <2>1. CASE a \in 1 .. Len(toClient)
    BY <1>2, <1>3, <1>4, <2>1 DEF Locals, AnswersHaveIds
  <2>2. CASE a = Len(toClient) + 1
    BY <1>2, <1>4, <2>2
  <2> QED
    BY <1>1, <1>3, <2>1, <2>2
<1> QED
  BY <1>1, <1>2, <1>4 DEF AnswersHaveIds

(* Every message the server sends is well formed.                          *)
LEMMA ServerSends ==
  ASSUME IInv, Server
  PROVE  ServerType' /\ AnswersHaveIds'
<1>0. ServerType /\ Locals
  BY DEF IInv, TypeOK
<1>1. ASSUME NEW id \in Ids, NEW type \in {"HEADERS", "DATA", "RST"}, Respond(id, type)
      PROVE  ServerType' /\ AnswersHaveIds'
  <2> DEFINE f == [type |-> type, id |-> id, n |-> 0]
  <2>1. f \in Messages /\ f.id \in Ids
    BY DEF Messages
  <2>2. Transmit(f)
    BY <1>1 DEF Respond
  <2> HIDE DEF f
  <2>3. /\ toClient' \in Seq(Messages) /\ UNCHANGED <<seen, reqDone>> /\ AnswersHaveIds'
    BY <1>0, <2>1, <2>2, TransmitType
  <2> QED
    BY <1>0, <1>1, <2>3 DEF Respond, ServerType
<1>2. ASSUME NEW id \in Ids, TrailingReset(id)
      PROVE  ServerType' /\ AnswersHaveIds'
  <2> DEFINE f == [type |-> "RST", id |-> id, n |-> 0]
  <2>1. f \in Messages /\ f.id \in Ids
    BY DEF Messages
  <2>2. Transmit(f)
    BY <1>2 DEF TrailingReset
  <2> HIDE DEF f
  <2>3. /\ toClient' \in Seq(Messages) /\ UNCHANGED <<seen, reqDone>> /\ AnswersHaveIds'
    BY <1>0, <2>1, <2>2, TransmitType
  <2> QED
    BY <1>0, <1>2, <2>3 DEF TrailingReset, ServerType
<1>3. ASSUME NEW id \in Ids, GrantStream(id)
      PROVE  ServerType' /\ AnswersHaveIds'
  <2> DEFINE f == [type |-> "WINDOW_UPDATE", id |-> id, n |-> InitialWindow - win[id]]
  <2>1. win[id] \in Int /\ InitialWindow - win[id] \in Nat
    BY <1>0, <1>3, Numbers DEF GrantStream, ServerType
  <2>2. f \in Messages /\ f.type = "WINDOW_UPDATE"
    BY <2>1 DEF Messages
  <2>3. Transmit(f)
    BY <1>3 DEF GrantStream
  <2> HIDE DEF f
  <2>4. /\ toClient' \in Seq(Messages) /\ UNCHANGED <<seen, reqDone>> /\ AnswersHaveIds'
    BY <1>0, <2>2, <2>3, TransmitType
  <2> QED
    BY <1>0, <1>3, <2>4, Numbers DEF GrantStream, ServerType
<1>4. ASSUME GrantConn
      PROVE  ServerType' /\ AnswersHaveIds'
  <2> DEFINE f == [type |-> "WINDOW_UPDATE", id |-> 0, n |-> ConnWindow - connWin]
  <2>1. ConnWindow - connWin \in Nat
    BY <1>0, <1>4, Numbers DEF GrantConn, ServerType
  <2>2. f \in Messages /\ f.type = "WINDOW_UPDATE"
    BY <2>1 DEF Messages
  <2>3. Transmit(f)
    BY <1>4 DEF GrantConn
  <2> HIDE DEF f
  <2>4. /\ toClient' \in Seq(Messages) /\ UNCHANGED <<seen, reqDone>> /\ AnswersHaveIds'
    BY <1>0, <2>2, <2>3, TransmitType
  <2> QED
    BY <1>0, <1>4, <2>4, Numbers DEF GrantConn, ServerType
<1>5. ASSUME NEW id \in seen \cup {0}, GoAway(id)
      PROVE  ServerType' /\ AnswersHaveIds'
  <2> DEFINE f == [type |-> "GOAWAY", id |-> 0, n |-> id]
  <2>1. id \in Nat
    BY <1>0, IdFacts DEF ServerType
  <2>2. f \in Messages /\ f.type = "GOAWAY"
    BY <2>1 DEF Messages
  <2>3. Transmit(f)
    BY <1>5 DEF GoAway
  <2> HIDE DEF f
  <2>4. /\ toClient' \in Seq(Messages) /\ UNCHANGED <<seen, reqDone>> /\ AnswersHaveIds'
    BY <1>0, <2>2, <2>3, TransmitType
  <2> QED
    BY <1>0, <1>5, <2>4 DEF GoAway, ServerType
<1> QED
  BY <1>1, <1>2, <1>3, <1>4, <1>5 DEF Server, Answer

(* Receiving takes the first message and leaves the others.                *)
LEMMA ReceiveKeeps ==
  ASSUME ServerType, Locals, toClient # << >>, toClient' = Tail(toClient)
  PROVE  toClient' \in Seq(Messages) /\ AnswersHaveIds'
<1>1. toClient \in Seq(Messages)
  BY DEF ServerType
<1>2. /\ Tail(toClient) \in Seq(Messages) /\ Len(Tail(toClient)) = Len(toClient) - 1
      /\ \A a \in 1 .. Len(Tail(toClient)) : Tail(toClient)[a] = toClient[a + 1]
  BY <1>1, HeadTailProperties
<1>3. ASSUME NEW a \in DOMAIN toClient', toClient'[a].type \in {"HEADERS", "DATA", "RST"}
      PROVE  toClient'[a].id \in Ids
  <2>1. a \in 1 .. Len(Tail(toClient)) /\ a + 1 \in 1 .. Len(toClient)
    BY <1>1, <1>2
  <2>2. toClient'[a] = toClient[a + 1] /\ a + 1 \in DOMAIN toClient
    BY <1>1, <1>2, <2>1
  <2> QED
    BY <1>3, <2>2 DEF Locals, AnswersHaveIds
<1> QED
  BY <1>2, <1>3 DEF AnswersHaveIds

(* Every step keeps the server's account well typed and its messages well  *)
(* formed.                                                                 *)
LEMMA ServerTypeStep == IInv /\ [Next]_vars => ServerType' /\ AnswersHaveIds'
<1> SUFFICES ASSUME IInv, [Next]_vars PROVE ServerType' /\ AnswersHaveIds'
  OBVIOUS
<1>0. ServerType /\ WriterType /\ Locals
  BY DEF IInv, TypeOK
<1>1. CASE Server
  BY <1>1, ServerSends
<1>2. CASE Write
  <2> DEFINE f == Head(frameChan)
  <2>1. f \in Frames
    BY <1>0, <1>2, HeadTailProperties DEF Write, WriterType
  <2>2. f.id \in Ids /\ f.price \in Nat
    BY <2>1 DEF Frames
  <2>3. /\ seen' = seen \cup {f.id} /\ reqDone' = IF f.last THEN reqDone \cup {f.id} ELSE reqDone
        /\ win' = [win EXCEPT ![f.id] = @ - f.price] /\ connWin' = connWin - f.price
        /\ UNCHANGED <<toClient, answered, early, goneAway>>
    BY <1>2 DEF Write
  <2> HIDE DEF f
  <2>4. ServerType'
    BY <1>0, <2>2, <2>3 DEF ServerType
  <2> QED
    BY <1>0, <2>3, <2>4 DEF Locals, AnswersHaveIds
<1>3. CASE RecvHeaders \/ RecvDataOrReset \/ RecvWindowUpdate \/ RecvGoAway
  <2>1. toClient # << >> /\ toClient' = Tail(toClient) /\ UNCHANGED peerVars
    BY <1>3 DEF RecvHeaders, RecvDataOrReset, RecvWindowUpdate, RecvGoAway, Receive
  <2>2. toClient' \in Seq(Messages) /\ AnswersHaveIds'
    BY <1>0, <2>1, ReceiveKeeps
  <2> QED
    BY <1>0, <2>1, <2>2 DEF ServerType, peerVars
<1>4. CASE UNCHANGED <<toClient, peerVars>>
  BY <1>0, <1>4 DEF ServerType, peerVars, Locals, AnswersHaveIds
<1>5. \/ Server \/ Write \/ RecvHeaders \/ RecvDataOrReset \/ RecvWindowUpdate \/ RecvGoAway
      \/ UNCHANGED <<toClient, peerVars>>
  BY DEF Next, Sender, Receiver, vars, peerVars, Cancel, Send, WaitAllow, Acquire,
     SetUpError, StoreSet, WaitStreamWindow, WaitConnWindow, Enqueue, Flush, WaitResponses,
     Callback, EndHeaders, Delete, Release, GetAndDelete, EndTaken, EachShard, EachVisit
<1> QED
  BY <1>1, <1>2, <1>3, <1>4, <1>5

(* Every step leaves the locals that later steps read well defined.        *)
LEMMA LocalsStep == IInv /\ [Next]_vars => Locals'
<1> SUFFICES ASSUME IInv, [Next]_vars PROVE Locals'
  OBVIOUS
<1>0. SenderType /\ PoolType /\ SharedType /\ ServerType /\ Locals /\ Fresh /\ PoolInv
  BY DEF IInv, TypeOK
<1>1. /\ spc' \in Opening \cup Sending => streamID' \in Ids /\ req' \in Requests
      /\ spc' \in Sending => stream' \in Objs
      /\ spc' \in Queueing => i' \in DOMAIN req'
  <2> USE DEF Opening, Sending, Queueing
  <2>1. CASE Send
    BY <1>0, <2>1, IdFacts DEF Send, SenderType
  <2>2. CASE Acquire
    <3>1. stream' \in Objs
      BY <1>0, <2>2, AcquireKeepsPool
    <3> QED
      BY <1>0, <2>2, <3>1 DEF Acquire, Locals
  <2>3. CASE StoreSet
    <3>1. req \in Seq(Nat) /\ req # << >>
      BY <1>0, <2>3, RequestsAssumption DEF StoreSet, Locals
    <3>2. 1 \in DOMAIN req
      BY <3>1
    <3> QED
      BY <1>0, <2>3, <3>2 DEF StoreSet, Locals
  <2>4. CASE Enqueue
    <3>1. req \in Seq(Nat) /\ i \in DOMAIN req
      BY <1>0, <2>4, PriceType DEF Enqueue
    <3>2. i # Len(req) => i + 1 \in DOMAIN req
      BY <3>1
    <3> QED
      BY <1>0, <2>4, <3>2 DEF Enqueue, Locals
  <2>5. CASE WaitAllow \/ SetUpError \/ WaitStreamWindow \/ WaitConnWindow \/ Flush \/ WaitResponses
    BY <1>0, <2>5 DEF WaitAllow, SetUpError, WaitStreamWindow, WaitConnWindow, Flush,
       WaitResponses, Locals
  <2>6. CASE UNCHANGED senderVars
    BY <1>0, <2>6 DEF senderVars, Locals
  <2>7. Sender \/ UNCHANGED senderVars
    BY DEF Next, Receiver, Server, Answer, Transmit, vars, senderVars, Cancel, Write,
       Callback, RecvHeaders, EndHeaders, Delete, Release, RecvDataOrReset, GetAndDelete,
       EndTaken, RecvWindowUpdate, RecvGoAway, EachShard, EachVisit, Respond, TrailingReset,
       GrantStream, GrantConn, GoAway
  <2> QED
    BY <2>1, <2>2, <2>3, <2>4, <2>5, <2>6, <2>7 DEF Sender
<1>2. /\ rpc' \in {"endHeaders", "delete", "release", "take", "endTaken"} => rid' \in Ids
      /\ rpc' \in {"endHeaders", "endTaken"} => robj' \in Objs
  <2>1. CASE RecvHeaders
    <3>1. Head(toClient).id \in Ids
      BY <1>0, <2>1, HeadMessage DEF RecvHeaders, Receive, Locals, AnswersHaveIds
    <3>2. store[Head(toClient).id] \in Objs \cup {Nil}
      BY <1>0, <3>1 DEF SharedType
    <3> QED
      BY <1>0, <2>1, <3>1, <3>2 DEF RecvHeaders, Receive
  <2>2. CASE RecvDataOrReset
    BY <1>0, <2>2, HeadMessage DEF RecvDataOrReset, Receive, Locals, AnswersHaveIds
  <2>3. CASE GetAndDelete
    <3>1. rid \in Ids /\ store[rid] \in Objs \cup {Nil}
      BY <1>0, <2>3 DEF GetAndDelete, Locals, SharedType
    <3> QED
      BY <1>0, <2>3, <3>1 DEF GetAndDelete
  <2>4. CASE EndHeaders \/ Delete \/ Release \/ EndTaken \/ RecvGoAway
    BY <1>0, <2>4 DEF EndHeaders, Delete, Release, EndTaken, RecvGoAway, Locals
  <2>5. CASE EachShard \/ \E id \in Ids : EachVisit(id)
    BY <1>0, <2>5 DEF EachShard, EachVisit, Locals
  <2>6. CASE UNCHANGED recvVars
    BY <1>0, <2>6 DEF recvVars, Locals
  <2>7. \/ RecvHeaders \/ RecvDataOrReset \/ GetAndDelete \/ RecvGoAway
        \/ EndHeaders \/ Delete \/ Release \/ EndTaken
        \/ (EachShard \/ \E id \in Ids : EachVisit(id))
        \/ UNCHANGED recvVars
    BY DEF Next, Sender, Receiver, Server, Answer, Transmit, vars, recvVars, Send,
       WaitAllow, Acquire, StoreSet, WaitStreamWindow, WaitConnWindow, Enqueue, SetUpError,
       Flush, WaitResponses, Cancel, Write, Callback, RecvWindowUpdate, Respond,
       TrailingReset, GrantStream, GrantConn, GoAway
  <2> QED
    BY <2>1, <2>2, <2>3, <2>4, <2>5, <2>6, <2>7
<1> QED
  BY <1>1, <1>2, ServerTypeStep DEF Locals

(* Which steps matter to the question of who may end a stream.             *)
LEMMA OwnershipFrame ==
  ASSUME [Next]_vars
  PROVE  \/ Acquire \/ SetUpError \/ StoreSet
         \/ RecvHeaders \/ EndHeaders \/ Delete \/ Release \/ RecvDataOrReset
         \/ GetAndDelete \/ EndTaken \/ RecvGoAway \/ EachShard
         \/ (\E id \in Ids : EachVisit(id))
         \/ /\ UNCHANGED <<store, rpc, rid, robj, shard, left, objOf, ended>>
            /\ spc' = "setup" => spc = "setup" /\ UNCHANGED <<streamID, stream>>
  BY DEF Next, Sender, Receiver, Server, Answer, Transmit, vars, senderVars, recvVars,
     history, Send, WaitAllow, WaitStreamWindow, WaitConnWindow, Enqueue, Flush,
     WaitResponses, Cancel, Write, Callback, RecvWindowUpdate, Respond, TrailingReset,
     GrantStream, GrantConn, GoAway

(* Every step keeps the owners apart.                                      *)
LEMMA OwnershipStep == IInv /\ [Next]_vars => Ownership'
<1> SUFFICES ASSUME IInv, [Next]_vars PROVE Ownership'
  OBVIOUS
<1>0. /\ SenderType /\ PoolType /\ SharedType /\ ReceiverType /\ ServerType
      /\ Locals /\ Fresh /\ PoolInv /\ Ownership
  BY DEF IInv, TypeOK
<1>1. CASE Acquire
  <2>1. /\ stream' \in Objs /\ objOf' = [objOf EXCEPT ![streamID] = stream']
        /\ streamID \in Ids /\ objOf[streamID] = Nil
        /\ ended' = ended /\ Live' = Live \cup {streamID} /\ streamID \notin Live
    BY <1>0, <1>1, AcquireKeepsPool
  <2>2. /\ UNCHANGED <<streamID, store, rpc, rid, robj, shard, left>> /\ spc' = "setup"
    BY <1>1 DEF Acquire, recvVars
  <2>3. store[streamID] = Nil
    BY <1>0, <2>1 DEF Ownership
  <2>4. objOf'[streamID] = stream' /\ \A id \in Ids : id # streamID => objOf'[id] = objOf[id]
    BY <1>0, <2>1 DEF PoolType
  <2>5. rpc \in {"endHeaders", "endTaken"} => rid \in Ids /\ rid # streamID
    BY <1>0, <2>1 DEF Ownership, Locals
  <2>6. \A id \in Ids : Passed(id)' <=> Passed(id)
    BY <2>2 DEF Passed
  <2> QED
    BY <1>0, <2>1, <2>2, <2>3, <2>4, <2>5, <2>6 DEF Ownership
<1>2. CASE SetUpError
  <2>1. /\ streamID \in Live /\ streamID \in Ids /\ store[streamID] = Nil
        /\ ~ (rpc = "endTaken" /\ rid = streamID)
    BY <1>0, <1>2 DEF SetUpError, Ownership, Live
  <2>2. ended' = ended \cup {streamID} /\ objOf' = objOf /\ Live' = Live \ {streamID}
    BY <1>0, <1>2, WhoEnds, EndKeepsPool
  <2>3. UNCHANGED <<store, rpc, rid, robj, shard, left>> /\ spc' = "idle"
    BY <1>2 DEF SetUpError, recvVars
  <2>4. rpc \in {"endHeaders", "endTaken"} => rid # streamID
    BY <1>0, <2>1 DEF Ownership
  <2>5. \A id \in Ids : Passed(id)' <=> Passed(id)
    BY <2>3 DEF Passed
  <2> QED
    BY <1>0, <2>1, <2>2, <2>3, <2>4, <2>5 DEF Ownership
<1>3. CASE StoreSet
  <2>1. /\ streamID \in Live /\ streamID \in Ids /\ objOf[streamID] = stream
        /\ ~ (rpc = "endTaken" /\ rid = streamID) /\ stream # Nil
    BY <1>0, <1>3 DEF StoreSet, Ownership, Live
  <2>2. /\ UNCHANGED <<rpc, rid, robj, shard, left, objOf, ended>> /\ spc' = "stream"
        /\ store' = [store EXCEPT ![streamID] = stream]
    BY <1>3 DEF StoreSet, recvVars, history
  <2>3. store'[streamID] = stream /\ \A id \in Ids : id # streamID => store'[id] = store[id]
    BY <1>0, <2>1, <2>2 DEF SharedType
  <2>4. Live' = Live
    BY <2>2 DEF Live
  <2>5. \A id \in Ids : Passed(id)' <=> Passed(id)
    BY <2>2 DEF Passed
  <2>6. rpc \in {"endHeaders", "endTaken"} => rid \in Ids
    BY <1>0 DEF Locals
  <2>7. left \subseteq Ids
    BY <1>0 DEF ReceiverType
  <2> QED
    BY <1>0, <2>1, <2>2, <2>3, <2>4, <2>5, <2>6, <2>7 DEF Ownership
<1>4. CASE RecvHeaders
  <2>1. /\ rpc = "recv" /\ UNCHANGED <<spc, streamID, stream, store, shard, left, objOf, ended>>
    BY <1>4 DEF RecvHeaders, Receive, senderVars, history
  <2>2. Live' = Live
    BY <2>1 DEF Live
  <2>3. Head(toClient).id \in Ids
    BY <1>0, <1>4, HeadMessage DEF RecvHeaders, Receive, Locals, AnswersHaveIds
  <2>4. \A id \in Ids : store[id] # Nil => id \in Live /\ store[id] = objOf[id]
    BY <1>0, <2>1 DEF Ownership, Passed
  <2>5. CASE store[Head(toClient).id] = Nil
    <3>1. UNCHANGED <<rpc, rid, robj>>
      BY <1>4, <2>5 DEF RecvHeaders
    <3> QED
      BY <1>0, <2>1, <2>2, <2>4, <3>1 DEF Ownership
  <2>6. CASE store[Head(toClient).id] # Nil
    <3>1. rpc' = "endHeaders" /\ rid' = Head(toClient).id /\ robj' = store[rid']
      BY <1>4, <2>6 DEF RecvHeaders
    <3> QED
      BY <1>0, <2>1, <2>2, <2>3, <2>4, <2>6, <3>1 DEF Ownership
  <2> QED
    BY <2>5, <2>6
<1>5. CASE EndHeaders
  <2>1. rid \in Live /\ rpc = "endHeaders" /\ rpc' = "delete" /\ store[rid] # Nil
    BY <1>0, <1>5, WhoEnds DEF EndHeaders, Ownership
  <2>2. ended' = ended \cup {rid} /\ objOf' = objOf /\ Live' = Live \ {rid}
    BY <1>0, <1>5, WhoEnds, EndKeepsPool
  <2>3. UNCHANGED <<spc, streamID, stream, store, rid, robj, shard, left>>
    BY <1>5 DEF EndHeaders, senderVars
  <2>4. \A id \in Ids : ~ Passed(id) /\ ~ Passed(id)'
    BY <2>1 DEF Passed
  <2>5. spc = "setup" => streamID # rid
    BY <1>0, <2>1 DEF Ownership
  <2> QED
    BY <1>0, <2>1, <2>2, <2>3, <2>4, <2>5 DEF Ownership
<1>6. CASE Delete
  <2>1. rpc = "delete" /\ rpc' = "release" /\ rid \in Ids /\ rid \in ended
    BY <1>0, <1>6 DEF Delete, Ownership, Locals
  <2>2. /\ UNCHANGED <<spc, streamID, stream, objOf, ended>>
        /\ store' = [store EXCEPT ![rid] = Nil]
    BY <1>6 DEF Delete, senderVars, history
  <2>3. store'[rid] = Nil /\ \A id \in Ids : id # rid => store'[id] = store[id]
    BY <1>0, <2>1, <2>2 DEF SharedType
  <2>4. Live' = Live
    BY <2>2 DEF Live
  <2>5. \A id \in Ids : ~ Passed(id)
    BY <2>1 DEF Passed
  <2>6. spc = "setup" => streamID \in Ids
    BY <1>0 DEF Locals, Sending
  <2> QED
    BY <1>0, <2>1, <2>2, <2>3, <2>4, <2>5, <2>6 DEF Ownership
<1>7. CASE Release
  <2>1. /\ rpc = "release" /\ rpc' = "recv"
        /\ UNCHANGED <<spc, streamID, stream, store, objOf, ended>>
    BY <1>7 DEF Release, senderVars, history
  <2>2. Live' = Live
    BY <2>1 DEF Live
  <2>3. \A id \in Ids : ~ Passed(id)
    BY <2>1 DEF Passed
  <2> QED
    BY <1>0, <2>1, <2>2, <2>3 DEF Ownership
<1>8. CASE RecvDataOrReset
  <2>1. /\ rpc = "recv" /\ rpc' = "take"
        /\ UNCHANGED <<spc, streamID, stream, store, objOf, ended>>
    BY <1>8 DEF RecvDataOrReset, Receive, senderVars, history
  <2>2. Live' = Live
    BY <2>1 DEF Live
  <2>3. \A id \in Ids : ~ Passed(id)
    BY <2>1 DEF Passed
  <2> QED
    BY <1>0, <2>1, <2>2, <2>3 DEF Ownership
<1>9. CASE GetAndDelete
  <2>1. rpc = "take" /\ rid \in Ids
    BY <1>0, <1>9 DEF GetAndDelete, Locals
  <2>2. /\ UNCHANGED <<spc, streamID, stream, objOf, ended>> /\ robj' = store[rid]
        /\ store' = [store EXCEPT ![rid] = Nil]
    BY <1>9 DEF GetAndDelete, senderVars, history
  <2>3. store'[rid] = Nil /\ \A id \in Ids : id # rid => store'[id] = store[id]
    BY <1>0, <2>1, <2>2 DEF SharedType
  <2>4. Live' = Live
    BY <2>2 DEF Live
  <2>5. \A id \in Ids : ~ Passed(id)
    BY <2>1 DEF Passed
  <2>6. \A id \in Ids : store[id] # Nil => id \in Live /\ store[id] = objOf[id]
    BY <1>0, <2>1, <2>5 DEF Ownership
  <2>7. spc = "setup" => streamID \in Ids
    BY <1>0 DEF Locals, Sending
  <2>8. CASE store[rid] = Nil
    <3>1. rpc' = "recv"
      BY <1>9, <2>8 DEF GetAndDelete
    <3> QED
      BY <1>0, <2>1, <2>2, <2>3, <2>4, <2>6, <2>7, <3>1 DEF Ownership
  <2>9. CASE store[rid] # Nil
    <3>1. rpc' = "endTaken" /\ rid' = rid
      BY <1>9, <2>9 DEF GetAndDelete
    <3>2. spc = "setup" => rid # streamID
      BY <1>0, <2>9 DEF Ownership
    <3> QED
      BY <1>0, <2>1, <2>2, <2>3, <2>4, <2>6, <2>7, <2>9, <3>1, <3>2 DEF Ownership
  <2> QED
    BY <2>8, <2>9
<1>10. CASE EndTaken
  <2>1. rid \in Live /\ rpc = "endTaken" /\ rpc' = "recv" /\ store[rid] = Nil
    BY <1>0, <1>10, WhoEnds DEF EndTaken, Ownership
  <2>2. ended' = ended \cup {rid} /\ objOf' = objOf /\ Live' = Live \ {rid}
    BY <1>0, <1>10, WhoEnds, EndKeepsPool
  <2>3. UNCHANGED <<spc, streamID, stream, store>>
    BY <1>10 DEF EndTaken, senderVars
  <2>4. \A id \in Ids : ~ Passed(id)
    BY <2>1 DEF Passed
  <2>5. spc = "setup" => streamID # rid
    BY <1>0, <2>1 DEF Ownership
  <2> QED
    BY <1>0, <2>1, <2>2, <2>3, <2>4, <2>5 DEF Ownership
<1>11. CASE RecvGoAway
  <2>1. /\ rpc = "recv" /\ rpc' = "each" /\ left' = {}
        /\ UNCHANGED <<spc, streamID, stream, store, objOf, ended>>
    BY <1>11 DEF RecvGoAway, Receive, senderVars, history
  <2>2. Live' = Live
    BY <2>1 DEF Live
  <2>3. \A id \in Ids : ~ Passed(id)
    BY <2>1 DEF Passed
  <2> QED
    BY <1>0, <2>1, <2>2, <2>3 DEF Ownership
<1>12. CASE EachShard
  <2>1. rpc = "each" /\ left = {} /\ UNCHANGED <<spc, streamID, stream, store, objOf, ended>>
    BY <1>12 DEF EachShard, senderVars, history
  <2>2. Live' = Live
    BY <2>1 DEF Live
  <2>3. shard \in Int /\ \A id \in Ids : ShardOf(id) \in Int
    <3>1. \A id \in Ids : id \in Nat
      BY IdFacts
    <3>2. \A id \in Ids : id % NumShards \in Int
      BY <3>1, Numbers
    <3> QED
      BY <1>0, <3>2 DEF ReceiverType, ShardOf
  <2>4. CASE MoreShards
    <3>1. /\ rpc' = "each" /\ shard' = shard + 2
          /\ left' = {id \in Ids : store[id] # Nil /\ ShardOf(id) = shard + 2}
      BY <1>12, <2>1, <2>4 DEF EachShard
    <3>2. ASSUME NEW id \in Ids, store[id] # Nil, ~ Passed(id)' PROVE ~ Passed(id)
      <4>1. ~ (ShardOf(id) <= shard + 2 /\ id \notin left')
        BY <3>1, <3>2 DEF Passed, ShardOf
      <4>2. ~ (ShardOf(id) <= shard)
        BY <2>3, <3>1, <3>2, <4>1
      <4> QED
        BY <2>1, <4>2 DEF Passed
    <3> QED
      BY <1>0, <2>1, <2>2, <3>1, <3>2 DEF Ownership
  <2>5. CASE ~ MoreShards
    <3>1. rpc' = "stopped"
      BY <1>12, <2>5 DEF EachShard
    <3>2. \A id \in Ids : Passed(id)'
      BY <3>1 DEF Passed
    <3> QED
      BY <1>0, <2>1, <2>2, <3>1, <3>2 DEF Ownership
  <2> QED
    BY <2>4, <2>5
<1>13. ASSUME NEW id \in Ids, EachVisit(id) PROVE Ownership'
  <2>1. /\ rpc = "each" /\ rpc' = "each" /\ left' = left \ {id} /\ id \in left
        /\ UNCHANGED <<spc, streamID, stream, store, shard>>
    BY <1>13 DEF EachVisit, senderVars
  <2>2. id \in Live /\ store[id] # Nil
    BY <1>0, <1>13, <2>1, WhoEnds DEF Ownership
  <2>3. spc = "setup" => streamID # id
    BY <1>0, <2>2 DEF Ownership
  <2>4. objOf' = objOf /\ (Live' = Live \ {id} \/ Live' = Live)
    <3>1. CASE EndStream(objOf[id])
      BY <1>0, <2>2, <3>1, EndKeepsPool
    <3>2. CASE UNCHANGED <<poolVars, history>>
      BY <1>0, <3>2, PoolStays DEF history
    <3> QED
      BY <1>13, <3>1, <3>2, WhoEnds
  <2>5. ShardOf(id) <= shard => Passed(id)'
    BY <2>1 DEF Passed, ShardOf
  <2>6. ASSUME NEW x \in Ids, store[x] # Nil, ~ Passed(x)' PROVE x \in Live'
    <3>1. ~ Passed(x)
      BY <2>1, <2>6 DEF Passed, ShardOf
    <3>2. x \in Live
      BY <1>0, <2>1, <2>6, <3>1 DEF Ownership
    <3>3. ShardOf(id) <= shard
      BY <1>0, <1>13 DEF EachVisit, Ownership, ReceiverType
    <3> QED
      BY <2>1, <2>4, <2>5, <2>6, <3>2, <3>3
  <2> QED
    BY <1>0, <2>1, <2>2, <2>3, <2>4, <2>6 DEF Ownership
<1>14. CASE /\ UNCHANGED <<store, rpc, rid, robj, shard, left, objOf, ended>>
            /\ spc' = "setup" => spc = "setup" /\ UNCHANGED <<streamID, stream>>
  <2>1. Live' = Live
    BY <1>14 DEF Live
  <2>2. \A id \in Ids : Passed(id)' <=> Passed(id)
    BY <1>14 DEF Passed
  <2> QED
    BY <1>0, <1>14, <2>1, <2>2 DEF Ownership
<1> QED
  BY <1>1, <1>2, <1>3, <1>4, <1>5, <1>6, <1>7, <1>8, <1>9, <1>10, <1>11, <1>12, <1>13,
     <1>14, OwnershipFrame

(* A known stream stays known: it leaves the store only to be ended.       *)
LEMMA KnownStays ==
  ASSUME IInv, [Next]_vars, NEW id \in Ids, Known(id)
  PROVE  Known(id)'
<1>0. /\ SenderType /\ PoolType /\ SharedType /\ ReceiverType /\ ServerType
      /\ Locals /\ Fresh /\ PoolInv /\ Ownership
  BY DEF IInv, TypeOK
<1> USE DEF Known
<1>1. CASE StoreSet
  <2>1. /\ stream # Nil /\ streamID \in Ids /\ store' = [store EXCEPT ![streamID] = stream]
        /\ UNCHANGED <<ended, rpc, rid>>
    BY <1>0, <1>1 DEF StoreSet, Ownership, Live, history, recvVars
  <2>2. store'[id] = store[id] \/ store'[id] # Nil
    BY <1>0, <2>1 DEF SharedType
  <2> QED
    BY <2>1, <2>2
<1>2. CASE Delete
  <2>1. /\ rid \in Ids /\ rid \in ended /\ store' = [store EXCEPT ![rid] = Nil]
        /\ UNCHANGED ended /\ rpc = "delete"
    BY <1>0, <1>2 DEF Delete, Ownership, Locals, history
  <2>2. id # rid => store'[id] = store[id]
    BY <1>0, <2>1 DEF SharedType
  <2> QED
    BY <2>1, <2>2
<1>3. CASE GetAndDelete
  <2>1. /\ rid \in Ids /\ store' = [store EXCEPT ![rid] = Nil] /\ UNCHANGED ended
        /\ rpc = "take" /\ (store[rid] # Nil => rpc' = "endTaken" /\ rid' = rid)
    BY <1>0, <1>3 DEF GetAndDelete, Locals, history
  <2>2. id # rid => store'[id] = store[id]
    BY <1>0, <2>1 DEF SharedType
  <2> QED
    BY <2>1, <2>2
<1>4. CASE EndTaken
  <2>1. ended' = ended \cup {rid} /\ UNCHANGED store
    BY <1>0, <1>4, WhoEnds, EndKeepsPool DEF EndTaken
  <2> QED
    BY <2>1
<1>5. CASE RecvHeaders \/ RecvDataOrReset \/ Release \/ RecvGoAway \/ EachShard
  BY <1>5 DEF RecvHeaders, RecvDataOrReset, Release, RecvGoAway, EachShard, Receive, history
<1>6. CASE SetUpError \/ EndHeaders
  BY <1>6 DEF SetUpError, EndHeaders, EndStream, recvVars
<1>7. CASE \E x \in Ids : EachVisit(x)
  BY <1>7 DEF EachVisit, EndStream, history
<1>8. CASE UNCHANGED <<store, ended, rpc, rid>>
  BY <1>8
<1>9. \/ StoreSet \/ Delete \/ GetAndDelete \/ EndTaken
      \/ RecvHeaders \/ RecvDataOrReset \/ Release \/ RecvGoAway \/ EachShard
      \/ SetUpError \/ EndHeaders \/ (\E x \in Ids : EachVisit(x))
      \/ UNCHANGED <<store, ended, rpc, rid>>
  BY DEF Next, Sender, Receiver, Server, Answer, Transmit, vars, recvVars, history, Send,
     WaitAllow, Acquire, WaitStreamWindow, WaitConnWindow, Enqueue, Flush, WaitResponses,
     Cancel, Write, Callback, RecvWindowUpdate, Respond, TrailingReset, GrantStream,
     GrantConn, GoAway
<1> QED
  BY <1>1, <1>2, <1>3, <1>4, <1>5, <1>6, <1>7, <1>8, <1>9

(* Every step keeps the streams of travelling frames known.                *)
LEMMA TracedStep == IInv /\ [Next]_vars => Traced'
<1> SUFFICES ASSUME IInv, [Next]_vars PROVE Traced'
  OBVIOUS
<1>0. /\ SenderType /\ SharedType /\ WriterType /\ ServerType
      /\ Locals /\ Traced /\ Ownership
  BY DEF IInv, TypeOK
<1> DEFINE After(id) == store'[id] # Nil \/ id \in ended' \/ (rpc' = "endTaken" /\ rid' = id)
<1>1. \A id \in Ids : Known(id) => After(id)
  BY KnownStays DEF Known
<1> HIDE DEF After
<1>2. spc' \in Queueing => Known(streamID)'
  <2>1. CASE StoreSet
    <3>1. stream # Nil /\ streamID \in Ids /\ store' = [store EXCEPT ![streamID] = stream]
      BY <1>0, <2>1 DEF StoreSet, Ownership, Live
    <3>2. store'[streamID] # Nil /\ streamID' = streamID
      BY <1>0, <2>1, <3>1 DEF SharedType, StoreSet
    <3> QED
      BY <3>2 DEF Known
  <2>2. CASE spc \in Queueing /\ UNCHANGED streamID
    <3>1. streamID \in Ids /\ Known(streamID)
      BY <1>0, <2>2 DEF Locals, Traced, Queueing, Sending
    <3> QED
      BY <1>1, <2>2, <3>1 DEF Known, After
  <2>3. CASE spc' \notin Queueing
    BY <2>3
  <2>4. StoreSet \/ (spc \in Queueing /\ UNCHANGED streamID) \/ spc' \notin Queueing
    BY DEF Next, Sender, Receiver, Server, Answer, Transmit, vars, senderVars, Queueing, Send,
       WaitAllow, Acquire, SetUpError, WaitStreamWindow, WaitConnWindow, Enqueue, Flush,
       WaitResponses, Cancel, Write, Callback, RecvHeaders, EndHeaders, Delete, Release,
       RecvDataOrReset, GetAndDelete, EndTaken, RecvWindowUpdate, RecvGoAway, EachShard,
       EachVisit, Respond, TrailingReset, GrantStream, GrantConn, GoAway
  <2> QED
    BY <2>1, <2>2, <2>3, <2>4
<1>3. \A f \in Frames : f.id \in Ids
  BY DEF Frames
<1>4. /\ frameChan \in Seq(Frames) /\ DOMAIN frameChan = 1 .. Len(frameChan)
      /\ Len(frameChan) \in Nat
      /\ \A a \in DOMAIN frameChan : frameChan[a].id \in Ids /\ Known(frameChan[a].id)
  BY <1>0, <1>3 DEF WriterType, Traced
<1>5. seen \subseteq Ids /\ \A id \in seen : Known(id)
  BY <1>0 DEF ServerType, Traced
<1>6. ASSUME NEW a \in DOMAIN frameChan' PROVE After(frameChan'[a].id)
  <2>1. CASE Enqueue
    <3> DEFINE f == [id |-> streamID, obj |-> stream, price |-> req[i], last |-> i = Len(req)]
    <3>1. streamID \in Ids /\ Known(streamID)
      BY <1>0, <2>1 DEF Enqueue, Locals, Traced, Queueing, Sending
    <3>2. f \in Frames /\ f.id = streamID
      BY <1>0, <2>1, PriceType DEF Enqueue, Locals, Queueing, Sending, Frames
    <3>3. frameChan' = Append(frameChan, f)
      BY <2>1 DEF Enqueue
    <3> HIDE DEF f
    <3>4. /\ Len(frameChan') = Len(frameChan) + 1 /\ frameChan' \in Seq(Frames)
          /\ \A b \in 1 .. Len(frameChan) : frameChan'[b] = frameChan[b]
          /\ frameChan'[Len(frameChan) + 1] = f
      BY <1>4, <3>2, <3>3, AppendProperties
    <3>5. frameChan'[a].id \in Ids /\ Known(frameChan'[a].id)
      <4>1. a \in 1 .. Len(frameChan) \/ a = Len(frameChan) + 1
        BY <1>4, <3>4
      <4> QED
        BY <1>4, <3>1, <3>2, <3>4, <4>1
    <3> QED
      BY <1>1, <3>5
  <2>2. CASE Write
    <3>1. frameChan # << >> /\ frameChan' = Tail(frameChan)
      BY <2>2 DEF Write
    <3>2. /\ Len(Tail(frameChan)) = Len(frameChan) - 1 /\ Tail(frameChan) \in Seq(Frames)
          /\ \A b \in 1 .. Len(Tail(frameChan)) : Tail(frameChan)[b] = frameChan[b + 1]
      BY <1>4, <3>1, HeadTailProperties
    <3>3. a \in 1 .. Len(Tail(frameChan)) /\ a + 1 \in DOMAIN frameChan
      BY <1>4, <3>1, <3>2
    <3>4. frameChan'[a].id \in Ids /\ Known(frameChan'[a].id)
      BY <1>4, <3>1, <3>2, <3>3
    <3> QED
      BY <1>1, <3>4
  <2>3. CASE UNCHANGED frameChan
    BY <1>1, <1>4, <2>3
  <2>4. Enqueue \/ Write \/ UNCHANGED frameChan
    BY DEF Next, Sender, Receiver, Server, Answer, Transmit, vars, writerVars, Cancel, Send,
       WaitAllow, Acquire, StoreSet, WaitStreamWindow, WaitConnWindow, Callback,
       SetUpError, Flush, WaitResponses, RecvHeaders, EndHeaders, Delete, Release,
       RecvDataOrReset, GetAndDelete, RecvWindowUpdate,
       EndTaken, RecvGoAway, EachShard, EachVisit, Respond, TrailingReset, GrantStream,
       GrantConn, GoAway
  <2> QED
    BY <2>1, <2>2, <2>3, <2>4
<1>7. ASSUME NEW id \in seen' PROVE After(id)
  <2>1. CASE Write
    <3>1. frameChan # << >> /\ seen' = seen \cup {Head(frameChan).id}
      BY <2>1 DEF Write
    <3>2. Head(frameChan) = frameChan[1] /\ 1 \in DOMAIN frameChan
      BY <1>4, <3>1
    <3>3. id \in Ids /\ Known(id)
      BY <1>4, <1>5, <1>7, <3>1, <3>2
    <3> QED
      BY <1>1, <3>3
  <2>2. CASE UNCHANGED seen
    BY <1>1, <1>5, <1>7, <2>2
  <2>3. Write \/ UNCHANGED seen
    BY DEF Next, Sender, Receiver, Server, Answer, Transmit, vars, peerVars, Cancel, Send,
       WaitAllow, Acquire, StoreSet, WaitStreamWindow, WaitConnWindow, Callback, Enqueue,
       SetUpError, Flush, WaitResponses, RecvHeaders, EndHeaders, Delete, Release,
       RecvDataOrReset, GetAndDelete, RecvWindowUpdate,
       EndTaken, RecvGoAway, EachShard, EachVisit, Respond, TrailingReset, GrantStream,
       GrantConn, GoAway
  <2> QED
    BY <2>1, <2>2, <2>3
<1> QED
  BY <1>2, <1>6, <1>7 DEF Traced, Known, After

(* A released wait finds no live stream; nothing is sent after it.         *)
LEMMA OutcomeStep == IInv /\ [Next]_vars => Outcome' /\ AllReported'
<1> SUFFICES ASSUME IInv, [Next]_vars PROVE Outcome' /\ AllReported'
  OBVIOUS
<1>0. SenderType /\ PoolType /\ Fresh /\ PoolInv /\ Outcome /\ AllReported
  BY DEF IInv, TypeOK
<1>1. CASE WaitResponses
  <2>1. /\ spc = "wait" /\ spc' = "done" /\ UNCHANGED <<streamID, ended, inUse>>
        /\ outcome' = "released" => inUse = 0 \/ outcome' # "released"
    BY <1>1 DEF WaitResponses, poolVars, history
  <2>2. inUse = 0 => Live = {}
    BY <1>0, FS_EmptySet DEF PoolInv, InUseExact
  <2>3. ASSUME inUse = 0, NEW id \in Ids, id <= streamID PROVE id \in ended
    <3>1. objOf[id] # Nil
      BY <1>0, <2>1, <2>3 DEF Fresh, Opening
    <3> QED
      BY <2>2, <2>3, <3>1 DEF Live
  <2> QED
    BY <2>1, <2>3 DEF Outcome, AllReported
<1>2. CASE UNCHANGED outcome
  <2>1. ended \subseteq ended'
    BY DEF EndStream, Next, Sender, Receiver, Server, Answer, Transmit, vars, history, Cancel,
       Send, WaitAllow, Acquire, StoreSet, WaitStreamWindow, WaitConnWindow, Callback, Enqueue,
       SetUpError, Flush, WaitResponses, RecvHeaders, EndHeaders, Delete, Release, Write,
       RecvDataOrReset, GetAndDelete, RecvWindowUpdate,
       EndTaken, RecvGoAway, EachShard, EachVisit, Respond, TrailingReset, GrantStream,
       GrantConn, GoAway
  <2>2. spc = "done" => UNCHANGED <<spc, streamID>>
    BY DEF Next, Sender, Receiver, Server, Answer, Transmit, vars, senderVars, Cancel,
       Send, WaitAllow, Acquire, StoreSet, WaitStreamWindow, WaitConnWindow, Callback, Enqueue,
       SetUpError, Flush, WaitResponses, RecvHeaders, EndHeaders, Delete, Release, Write,
       RecvDataOrReset, GetAndDelete, RecvWindowUpdate,
       EndTaken, RecvGoAway, EachShard, EachVisit, Respond, TrailingReset, GrantStream,
       GrantConn, GoAway
  <2> QED
    BY <1>0, <1>2, <2>1, <2>2 DEF Outcome, AllReported
<1>3. WaitResponses \/ UNCHANGED outcome
  BY DEF Next, Sender, Receiver, Server, Answer, Transmit, vars, endVars, Cancel, Send,
     WaitAllow, Acquire, StoreSet, WaitStreamWindow, WaitConnWindow, Callback, Enqueue,
     SetUpError, Flush, RecvHeaders, EndHeaders, Delete, Release, Write,
     RecvDataOrReset, GetAndDelete, RecvWindowUpdate,
     EndTaken, RecvGoAway, EachShard, EachVisit, Respond, TrailingReset, GrantStream,
     GrantConn, GoAway
<1> QED
  BY <1>1, <1>2, <1>3

LEMMA InitIInv == Init => IInv
<1> SUFFICES ASSUME Init PROVE IInv
  OBVIOUS
<1>1. \A S : << >> \in Seq(S)
  OBVIOUS
<1>2. TypeOK
  <2>1. SenderType
    BY DEF Init, SenderType
  <2>2. PoolType
    BY <1>1, Numbers DEF Init, PoolType
  <2>3. SharedType
    BY Numbers DEF Init, SharedType
  <2>4. WriterType
    BY <1>1 DEF Init, WriterType
  <2>5. cancelled \in BOOLEAN /\ goneAway \in BOOLEAN
    BY Zenon DEF Init
  <2>6. ReceiverType
    BY <2>5 DEF Init, ReceiverType
  <2>7. ServerType
    BY <1>1, <2>5, Numbers DEF Init, ServerType
  <2> QED
    BY <2>1, <2>2, <2>3, <2>4, <2>6, <2>7 DEF TypeOK
<1>3. DOMAIN << >> = {} /\ Len(<< >>) = 0
  OBVIOUS
<1>4. Locals
  BY <1>3 DEF Init, Locals, AnswersHaveIds, Opening, Sending, Queueing
<1>5. Fresh
  BY IdFacts DEF Init, Fresh, Opening
<1>6. Live = {}
  BY DEF Init, Live
<1>7. PoolInv
  <2>1. IsFiniteSet(Live) /\ Cardinality(Live) = 0
    BY <1>6, FS_EmptySet
  <2>2. PoolSound
    BY <1>3, <1>6 DEF Init, PoolSound
  <2>3. Allocated
    BY <1>3 DEF Init, Allocated
  <2> QED
    BY <2>1, <2>2, <2>3 DEF Init, PoolInv, InUseExact
<1>8. Ownership
  BY DEF Init, Ownership
<1>9. Traced
  BY <1>3 DEF Init, Traced, Queueing
<1>10. Outcome /\ AllReported
  BY DEF Init, Outcome, AllReported
<1> QED
  BY <1>2, <1>4, <1>5, <1>7, <1>8, <1>9, <1>10 DEF IInv

LEMMA StepIInv == IInv /\ [Next]_vars => IInv'
  BY PoolStep, FreshStep, SenderTypeStep, SharedTypeStep, WriterTypeStep, ReceiverTypeStep,
     ServerTypeStep, LocalsStep, OwnershipStep, TracedStep, OutcomeStep DEF IInv, TypeOK

LEMMA Invariance == Spec => []IInv
  BY InitIInv, StepIInv, PTL DEF Spec

(* No operation leaves the pool, the store, the windows, the queues or the *)
(* locals of a goroutine outside their types; in particular inUse, the     *)
(* quota and the windows never go below zero.                              *)
THEOREM TypeSafe == Spec => []TypeOK
<1>1. IInv => TypeOK
  BY DEF IInv
<1> QED
  BY <1>1, Invariance, PTL

(* Acquire, End by sender or receiver, and the goaway visit recycle stream *)
(* objects safely: no object is free twice, free and live, or shared by    *)
(* two live streams.                                                       *)
THEOREM PoolSafe == Spec => []PoolSound
<1>1. IInv => PoolSound
  BY DEF IInv, PoolInv
<1> QED
  BY <1>1, Invariance, PTL

(* StreamsPool.inUse is exact, so WaitAllReleased returns when the last    *)
(* live stream has ended, neither before nor never.                        *)
THEOREM CountSafe == Spec => []InUseExact
<1>1. IInv => InUseExact
  BY DEF IInv, PoolInv
<1> QED
  BY <1>1, Invariance, PTL

(* WaitResponses returning without an error means that every request of    *)
(* the load loop has been reported.                                        *)
THEOREM ReportedSafe == Spec => []AllReported
<1>1. IInv => AllReported
  BY DEF IInv
<1> QED
  BY <1>1, Invariance, PTL

(* The receiver finds the stream of every frame the server sends, unless   *)
(* it has ended the stream itself.                                         *)
THEOREM AnswerSafe == Spec => []AnswerFindsStream
<1>1. IInv => AnswerFindsStream
  BY DEF IInv, Traced, Known, AnswerFindsStream
<1> QED
  BY <1>1, Invariance, PTL

-----------------------------------------------------------------------------
(***************************************************************************)
(* The limits the server sets.  Windows: what the client may still send is *)
(* spread over the windows of the sender, the frames in frameChan and the  *)
(* WINDOW_UPDATEs under way, and the proof keeps a ledger of it for the    *)
(* connection and one for each stream.  Concurrent streams: every stream   *)
(* is answered once, a slot is given back only for an answered stream, and *)
(* requests are complete in the order they were opened.                    *)
(***************************************************************************)

(* t is f[1] + ... + f[n]: r[k] is the sum of the first k.                 *)
SumIs(f, n, t) ==
  \E r \in [0 .. n -> Nat] :
    /\ r[0] = 0 /\ r[n] = t
    /\ \A k \in 1 .. n : r[k] = r[k - 1] + f[k]
    /\ \A j, k \in 0 .. n : j <= k => r[j] <= r[k]

(* What a frame costs, and what a message grants, the window of a stream;  *)
(* id 0 is the connection's, which every frame is charged to.              *)
PriceFor(f, id) == IF id = 0 \/ f.id = id THEN f.price ELSE 0
GrantFor(m, id) == IF m.type = "WINDOW_UPDATE" /\ m.id = id THEN m.n ELSE 0

Charged(q, id, t) == SumIs([k \in 1 .. Len(q) |-> PriceFor(q[k], id)], Len(q), t)
Granted(q, id, t) == SumIs([k \in 1 .. Len(q) |-> GrantFor(q[k], id)], Len(q), t)

(* What the sender has taken from the connection's window and not yet      *)
(* queued; what it has of its stream's window, queued or not.              *)
TakenConn == IF spc = "enqueue" THEN req[i] ELSE 0
Mine(id) ==
  IF id = streamID /\ spc \in Sending
    THEN fc[stream] + (IF spc \in {"conn", "enqueue"} THEN req[i] ELSE 0)
    ELSE 0

(* Nothing of the connection's window is lost or made up.                  *)
ConnLedger ==
  \E a, b \in Nat : /\ Charged(frameChan, 0, a) /\ Granted(toClient, 0, b)
                    /\ connWin = fcConn + TakenConn + a + b

(* Of a stream's window some may be lost: what is granted after its end.   *)
StreamLedger(id) ==
  \E a, b \in Nat : /\ Charged(frameChan, id, a) /\ Granted(toClient, id, b)
                    /\ win[id] >= a + b + Mine(id)

(* The server widens only streams it has seen; the others have their       *)
(* initial window.                                                         *)
GrantsKnown ==
  \A k \in DOMAIN toClient :
    toClient[k].type = "WINDOW_UPDATE" => toClient[k].id \in seen \cup {0}
Unopened == \A id \in Ids \ seen : win[id] = InitialWindow

(* The object the sender waits on is its stream's, ended or not.           *)
OwnObject == spc \in Sending => sid[stream] = streamID

WInv == /\ IInv /\ GrantsKnown /\ Unopened /\ OwnObject
        /\ ConnLedger /\ \A id \in Ids : StreamLedger(id)

-----------------------------------------------------------------------------
(* Nothing sums up to zero.                                                *)
LEMMA SumZero ==
  ASSUME NEW f, NEW n \in Nat, \A k \in 1 .. n : f[k] = 0
  PROVE  SumIs(f, n, 0)
<1> DEFINE r == [k \in 0 .. n |-> 0]
<1>1. r \in [0 .. n -> Nat]
  OBVIOUS
<1>2. \A k \in 1 .. n : r[k] = r[k - 1] + f[k]
  OBVIOUS
<1>3. r[0] = 0 /\ r[n] = 0 /\ \A j, k \in 0 .. n : j <= k => r[j] <= r[k]
  OBVIOUS
<1> QED
  BY <1>1, <1>2, <1>3 DEF SumIs

(* One more number adds itself.                                            *)
LEMMA SumAppend ==
  ASSUME NEW f, NEW g, NEW n \in Nat, NEW t \in Nat, NEW x \in Nat,
         SumIs(f, n, t), \A k \in 1 .. n : g[k] = f[k], g[n + 1] = x
  PROVE  SumIs(g, n + 1, t + x)
<1>1. PICK r \in [0 .. n -> Nat] :
        /\ r[0] = 0 /\ r[n] = t
        /\ \A k \in 1 .. n : r[k] = r[k - 1] + f[k]
        /\ \A j, k \in 0 .. n : j <= k => r[j] <= r[k]
  BY DEF SumIs
<1> DEFINE p == [k \in 0 .. n + 1 |-> IF k <= n THEN r[k] ELSE t + x]
<1>2. p \in [0 .. n + 1 -> Nat]
  OBVIOUS
<1>3. p[0] = 0 /\ p[n + 1] = t + x
  BY <1>1
<1>4. ASSUME NEW k \in 1 .. n + 1 PROVE p[k] = p[k - 1] + g[k]
  <2>1. CASE k \in 1 .. n
    BY <1>1, <2>1
  <2>2. CASE k = n + 1
    BY <1>1, <2>2
  <2> QED
    BY <2>1, <2>2
<1>5. ASSUME NEW j \in 0 .. n + 1, NEW k \in 0 .. n + 1, j <= k PROVE p[j] <= p[k]
  <2>1. CASE k \in 0 .. n
    BY <1>1, <1>5, <2>1
  <2>2. CASE k = n + 1 /\ j = n + 1
    BY <2>2
  <2>3. CASE k = n + 1 /\ j \in 0 .. n
    <3>1. r[j] <= r[n] /\ r[j] \in Nat
      BY <1>1, <2>3
    <3> QED
      BY <1>1, <2>3, <3>1
  <2> QED
    BY <2>1, <2>2, <2>3
<1> HIDE DEF p
<1> QED
  BY <1>2, <1>3, <1>4, <1>5 DEF SumIs

(* Without its first number a sum is smaller by it.                        *)
LEMMA SumTail ==
  ASSUME NEW f, NEW g, NEW n \in Nat, NEW t \in Nat, \A k \in 1 .. n + 1 : f[k] \in Nat,
         SumIs(f, n + 1, t), \A k \in 1 .. n : g[k] = f[k + 1]
  PROVE  f[1] <= t /\ SumIs(g, n, t - f[1])
<1>0. f[1] \in Nat
  OBVIOUS
<1>1. PICK r \in [0 .. n + 1 -> Nat] :
        /\ r[0] = 0 /\ r[n + 1] = t
        /\ \A k \in 1 .. n + 1 : r[k] = r[k - 1] + f[k]
        /\ \A j, k \in 0 .. n + 1 : j <= k => r[j] <= r[k]
  BY DEF SumIs
<1>2. r[1] = f[1] /\ \A k \in 0 .. n + 1 : 1 <= k => f[1] <= r[k] /\ r[k] \in Nat
  <2>1. 1 \in 0 .. n + 1 /\ 1 \in 1 .. n + 1
    OBVIOUS
  <2>2. r[1] = f[1]
    BY <1>1, <2>1
  <2> QED
    BY <1>1, <2>1, <2>2
<1> DEFINE p == [k \in 0 .. n |-> r[k + 1] - f[1]]
<1>3. p \in [0 .. n -> Nat] /\ \A k \in 0 .. n : p[k] = r[k + 1] - f[1]
  <2>1. ASSUME NEW k \in 0 .. n PROVE r[k + 1] - f[1] \in Nat
    BY <1>0, <1>2
  <2> QED
    BY <2>1
<1> HIDE DEF p
<1>4. p[0] = 0 /\ p[n] = t - f[1] /\ f[1] <= t
  <2>1. 0 \in 0 .. n /\ n \in 0 .. n /\ n + 1 \in 0 .. n + 1 /\ 0 + 1 = 1
    OBVIOUS
  <2>2. p[0] = r[1] - f[1] /\ p[n] = r[n + 1] - f[1]
    BY <1>3, <2>1
  <2> QED
    BY <1>0, <1>1, <1>2, <2>1, <2>2
<1>5. ASSUME NEW k \in 1 .. n PROVE p[k] = p[k - 1] + g[k]
  <2>1. /\ k + 1 \in 1 .. n + 1 /\ k \in 0 .. n /\ k - 1 \in 0 .. n
        /\ k + 1 \in 0 .. n + 1 /\ (k - 1) + 1 = k /\ (k + 1) - 1 = k
    OBVIOUS
  <2>2. r[k + 1] = r[k] + f[k + 1] /\ g[k] = f[k + 1] /\ f[k + 1] \in Nat
    BY <1>1, <2>1
  <2>3. p[k] = r[k + 1] - f[1] /\ p[k - 1] = r[k] - f[1] /\ r[k] \in Nat
    BY <1>3, <2>1
  <2> QED
    BY <1>0, <2>2, <2>3
<1>6. ASSUME NEW j \in 0 .. n, NEW k \in 0 .. n, j <= k PROVE p[j] <= p[k]
  <2>1. r[j + 1] <= r[k + 1] /\ r[j + 1] \in Nat /\ r[k + 1] \in Nat
    BY <1>1, <1>6
  <2>2. p[j] = r[j + 1] - f[1] /\ p[k] = r[k + 1] - f[1]
    BY <1>3
  <2> QED
    BY <1>0, <2>1, <2>2
<1> QED
  BY <1>3, <1>4, <1>5, <1>6 DEF SumIs

(* What a frame costs and a message grants is a number.                    *)
LEMMA Amounts ==
  /\ \A f \in Frames, id \in Ids \cup {0} : PriceFor(f, id) \in Nat
  /\ \A m \in Messages, id \in Ids \cup {0} : GrantFor(m, id) \in Nat
  BY DEF PriceFor, GrantFor, Frames, Messages

(* The charges of an empty queue, of a longer one, of a shorter one, and   *)
(* of one with no frame of the stream.                                     *)
LEMMA ChargedLaws ==
  ASSUME NEW id \in Ids \cup {0}, NEW q \in Seq(Frames)
  PROVE  /\ (\A k \in 1 .. Len(q) : PriceFor(q[k], id) = 0) => Charged(q, id, 0)
         /\ \A t \in Nat, f \in Frames :
              Charged(q, id, t) => Charged(Append(q, f), id, t + PriceFor(f, id))
         /\ \A t \in Nat : Charged(q, id, t) /\ q # << >> =>
              /\ PriceFor(Head(q), id) <= t
              /\ Charged(Tail(q), id, t - PriceFor(Head(q), id))
<1> DEFINE V(s) == [k \in 1 .. Len(s) |-> PriceFor(s[k], id)]
<1>1. Len(q) \in Nat /\ \A k \in 1 .. Len(q) : q[k] \in Frames
  OBVIOUS
<1>2. ASSUME \A k \in 1 .. Len(q) : PriceFor(q[k], id) = 0 PROVE Charged(q, id, 0)
  <2>1. \A k \in 1 .. Len(q) : V(q)[k] = 0
    BY <1>2
  <2> QED
    BY <1>1, <2>1, SumZero DEF Charged
<1>3. ASSUME NEW t \in Nat, NEW f \in Frames, Charged(q, id, t)
      PROVE  Charged(Append(q, f), id, t + PriceFor(f, id))
  <2> DEFINE p == Append(q, f)
  <2>1. /\ Len(p) = Len(q) + 1 /\ p[Len(q) + 1] = f
        /\ \A k \in 1 .. Len(q) : p[k] = q[k]
    BY AppendProperties
  <2> HIDE DEF p
  <2>2. /\ \A k \in 1 .. Len(q) : V(p)[k] = V(q)[k]
        /\ V(p)[Len(q) + 1] = PriceFor(f, id)
    BY <1>1, <2>1
  <2>3. SumIs(V(q), Len(q), t) /\ PriceFor(f, id) \in Nat
    BY <1>3, Amounts DEF Charged
  <2> HIDE DEF V
  <2>4. SumIs(V(p), Len(q) + 1, t + PriceFor(f, id))
    BY <1>1, <2>2, <2>3, SumAppend
  <2> QED
    BY <2>1, <2>4 DEF Charged, V, p
<1>4. ASSUME NEW t \in Nat, Charged(q, id, t), q # << >>
      PROVE  /\ PriceFor(Head(q), id) <= t
             /\ Charged(Tail(q), id, t - PriceFor(Head(q), id))
  <2> DEFINE p == Tail(q)
  <2>1. /\ Len(p) = Len(q) - 1 /\ p \in Seq(Frames)
        /\ \A k \in 1 .. Len(p) : p[k] = q[k + 1]
    BY <1>4, HeadTailProperties
  <2>2. Head(q) = q[1] /\ Len(q) >= 1
    BY <1>1, <1>4
  <2> HIDE DEF p
  <2>3. Len(p) \in Nat /\ Len(q) = Len(p) + 1
    BY <1>1, <2>1
  <2>4. \A k \in 1 .. Len(p) : V(p)[k] = V(q)[k + 1]
    BY <1>1, <2>1, <2>3
  <2>5. SumIs(V(q), Len(p) + 1, t)
    BY <1>4, <2>3 DEF Charged
  <2>6. V(q)[1] = PriceFor(Head(q), id) /\ \A k \in 1 .. Len(p) + 1 : V(q)[k] \in Nat
    <3>1. \A k \in 1 .. Len(p) + 1 : V(q)[k] = PriceFor(q[k], id) /\ q[k] \in Frames
      BY <1>1, <2>3
    <3>2. 1 \in 1 .. Len(p) + 1
      BY <2>3
    <3> HIDE DEF V
    <3> QED
      BY <2>2, <3>1, <3>2, Amounts
  <2> HIDE DEF V
  <2>7. V(q)[1] <= t /\ SumIs(V(p), Len(p), t - V(q)[1])
    BY <2>3, <2>4, <2>5, <2>6, SumTail
  <2> QED
    BY <2>6, <2>7 DEF Charged, V, p
<1> QED
  BY <1>2, <1>3, <1>4

(* The same of the grants.                                                 *)
LEMMA GrantedLaws ==
  ASSUME NEW id \in Ids \cup {0}, NEW q \in Seq(Messages)
  PROVE  /\ (\A k \in 1 .. Len(q) : GrantFor(q[k], id) = 0) => Granted(q, id, 0)
         /\ \A t \in Nat, m \in Messages :
              Granted(q, id, t) => Granted(Append(q, m), id, t + GrantFor(m, id))
         /\ \A t \in Nat : Granted(q, id, t) /\ q # << >> =>
              /\ GrantFor(Head(q), id) <= t
              /\ Granted(Tail(q), id, t - GrantFor(Head(q), id))
<1> DEFINE V(s) == [k \in 1 .. Len(s) |-> GrantFor(s[k], id)]
<1>1. Len(q) \in Nat /\ \A k \in 1 .. Len(q) : q[k] \in Messages
  OBVIOUS
<1>2. ASSUME \A k \in 1 .. Len(q) : GrantFor(q[k], id) = 0 PROVE Granted(q, id, 0)
  <2>1. \A k \in 1 .. Len(q) : V(q)[k] = 0
    BY <1>2
  <2> QED
    BY <1>1, <2>1, SumZero DEF Granted
<1>3. ASSUME NEW t \in Nat, NEW m \in Messages, Granted(q, id, t)
      PROVE  Granted(Append(q, m), id, t + GrantFor(m, id))
  <2> DEFINE p == Append(q, m)
  <2>1. /\ Len(p) = Len(q) + 1 /\ p[Len(q) + 1] = m
        /\ \A k \in 1 .. Len(q) : p[k] = q[k]
    BY AppendProperties
  <2> HIDE DEF p
  <2>2. /\ \A k \in 1 .. Len(q) : V(p)[k] = V(q)[k]
        /\ V(p)[Len(q) + 1] = GrantFor(m, id)
    BY <1>1, <2>1
  <2>3. SumIs(V(q), Len(q), t) /\ GrantFor(m, id) \in Nat
    BY <1>3, Amounts DEF Granted
  <2> HIDE DEF V
  <2>4. SumIs(V(p), Len(q) + 1, t + GrantFor(m, id))
    BY <1>1, <2>2, <2>3, SumAppend
  <2> QED
    BY <2>1, <2>4 DEF Granted, V, p
<1>4. ASSUME NEW t \in Nat, Granted(q, id, t), q # << >>
      PROVE  /\ GrantFor(Head(q), id) <= t
             /\ Granted(Tail(q), id, t - GrantFor(Head(q), id))
  <2> DEFINE p == Tail(q)
  <2>1. /\ Len(p) = Len(q) - 1 /\ p \in Seq(Messages)
        /\ \A k \in 1 .. Len(p) : p[k] = q[k + 1]
    BY <1>4, HeadTailProperties
  <2>2. Head(q) = q[1] /\ Len(q) >= 1
    BY <1>1, <1>4
  <2> HIDE DEF p
  <2>3. Len(p) \in Nat /\ Len(q) = Len(p) + 1
    BY <1>1, <2>1
  <2>4. \A k \in 1 .. Len(p) : V(p)[k] = V(q)[k + 1]
    BY <1>1, <2>1, <2>3
  <2>5. SumIs(V(q), Len(p) + 1, t)
    BY <1>4, <2>3 DEF Granted
  <2>6. V(q)[1] = GrantFor(Head(q), id) /\ \A k \in 1 .. Len(p) + 1 : V(q)[k] \in Nat
    <3>1. \A k \in 1 .. Len(p) + 1 : V(q)[k] = GrantFor(q[k], id) /\ q[k] \in Messages
      BY <1>1, <2>3
    <3>2. 1 \in 1 .. Len(p) + 1
      BY <2>3
    <3> HIDE DEF V
    <3> QED
      BY <2>2, <3>1, <3>2, Amounts
  <2> HIDE DEF V
  <2>7. V(q)[1] <= t /\ SumIs(V(p), Len(p), t - V(q)[1])
    BY <2>3, <2>4, <2>5, <2>6, SumTail
  <2> QED
    BY <2>6, <2>7 DEF Granted, V, p
<1> QED
  BY <1>2, <1>3, <1>4

-----------------------------------------------------------------------------
(* Steps that touch no window and no queue.                                *)
Quiet ==
  /\ UNCHANGED <<frameChan, toClient, win, connWin, fc, fcConn, seen, sid>>
  /\ spc' \in Sending => spc \in Sending /\ UNCHANGED <<streamID, stream>>
  /\ spc' \in {"conn", "enqueue"} => UNCHANGED <<spc, req, i>>
  /\ spc = "enqueue" => spc' = "enqueue"

(* Steps of the receiver and the server: the sender and frameChan stay.    *)
SenderStays == UNCHANGED <<spc, streamID, stream, req, i, sid, frameChan, seen>>

(* A message that grants nothing is received, or sent.                     *)
Dropped ==
  /\ SenderStays /\ UNCHANGED <<win, connWin, fc, fcConn>>
  /\ toClient # << >> /\ toClient' = Tail(toClient) /\ Head(toClient).type # "WINDOW_UPDATE"
Replied ==
  /\ SenderStays /\ UNCHANGED <<win, connWin, fc, fcConn>>
  /\ \E m \in Messages : m.type # "WINDOW_UPDATE" /\ toClient' = Append(toClient, m)

(* Every step is one of these.                                             *)
LEMMA StepKinds ==
  ASSUME IInv, [Next]_vars
  PROVE  \/ Quiet \/ Acquire \/ WaitStreamWindow \/ WaitConnWindow \/ Enqueue \/ Write
         \/ Dropped \/ RecvWindowUpdate \/ Replied
         \/ (\E id \in Ids : GrantStream(id)) \/ GrantConn
<1>0. SenderType /\ ServerType
  BY DEF IInv, TypeOK
<1>1. CASE Send \/ WaitAllow \/ SetUpError \/ StoreSet \/ Flush \/ WaitResponses \/ Cancel
  BY <1>1 DEF Send, WaitAllow, SetUpError, StoreSet, Flush, WaitResponses, Cancel, Quiet,
     Sending, EndStream, senderVars, poolVars, windowVars, writerVars, peerVars
<1>2. CASE \/ Callback \/ EndHeaders \/ Delete \/ Release \/ GetAndDelete \/ EndTaken
           \/ EachShard \/ (\E id \in Ids : EachVisit(id)) \/ UNCHANGED vars
  BY <1>2 DEF Callback, EndHeaders, Delete, Release, GetAndDelete, EndTaken, EachShard,
     EachVisit, vars, Quiet, EndStream, senderVars, poolVars, windowVars, writerVars, peerVars
<1>3. CASE RecvHeaders \/ RecvDataOrReset \/ RecvGoAway
  BY <1>3 DEF RecvHeaders, RecvDataOrReset, RecvGoAway, Receive, Dropped, SenderStays,
     senderVars, poolVars, windowVars, writerVars, peerVars
<1>4. ASSUME NEW m \in Messages, m.type # "WINDOW_UPDATE", Transmit(m), UNCHANGED <<win, connWin>>
      PROVE  Replied
  BY <1>4 DEF Transmit, Replied, SenderStays, senderVars, poolVars, windowVars, writerVars
<1>5. ASSUME NEW id \in Ids, Answer(id) \/ TrailingReset(id) PROVE Replied
  <2>1. PICK type \in {"HEADERS", "DATA", "RST"} :
          Transmit([type |-> type, id |-> id, n |-> 0]) /\ UNCHANGED <<win, connWin>>
    BY <1>5 DEF Answer, Respond, TrailingReset
  <2>2. [type |-> type, id |-> id, n |-> 0] \in Messages
    BY DEF Messages
  <2> QED
    BY <1>4, <2>1, <2>2
<1>6. ASSUME NEW id \in seen \cup {0}, GoAway(id) PROVE Replied
  <2>1. id \in Nat
    BY <1>0, IdFacts DEF ServerType
  <2>2. [type |-> "GOAWAY", id |-> 0, n |-> id] \in Messages
    BY <2>1 DEF Messages
  <2>3. Transmit([type |-> "GOAWAY", id |-> 0, n |-> id]) /\ UNCHANGED <<win, connWin>>
    BY <1>6 DEF GoAway
  <2> QED
    BY <1>4, <2>2, <2>3
<1> QED
  BY <1>1, <1>2, <1>3, <1>5, <1>6 DEF Next, Sender, Receiver, Server

(* What the ledgers need to know of the state.                             *)
LEMMA LedgerTypes ==
  ASSUME IInv
  PROVE  /\ frameChan \in Seq(Frames) /\ toClient \in Seq(Messages)
         /\ fcConn \in Nat /\ connWin \in Int /\ fc \in [Objs -> Nat] /\ win \in [Ids -> Int]
         /\ InitialWindow \in Nat /\ ConnWindow \in Nat
         /\ TakenConn \in Nat /\ \A id \in Ids : Mine(id) \in Nat
         /\ spc \in Sending => stream \in Objs /\ streamID \in Ids
         /\ \A id \in Ids : id # 0 /\ id \in Ids \cup {0}
<1>0. SharedType /\ WriterType /\ ServerType /\ Locals
  BY DEF IInv, TypeOK
<1>1. spc \in Queueing => req[i] \in Nat
  BY <1>0, PriceType
<1>2. spc \in Sending => stream \in Objs /\ streamID \in Ids
  BY <1>0 DEF Locals
<1>3. TakenConn \in Nat
  BY <1>1 DEF TakenConn, Queueing
<1>4. \A id \in Ids : Mine(id) \in Nat
  BY <1>0, <1>1, <1>2 DEF Mine, Queueing, Sending, SharedType
<1>5. \A id \in Ids : id # 0
  BY IdFacts
<1> QED
  BY <1>0, <1>2, <1>3, <1>4, <1>5, Numbers DEF SharedType, WriterType, ServerType

(* The connection's window is handed around whole: from the server to the  *)
(* client's window, to a frame, and back to the server.                    *)
LEMMA ConnStep ==
  ASSUME WInv, [Next]_vars
  PROVE  ConnLedger'
<1>0. IInv /\ ConnLedger /\ 0 \in Ids \cup {0}
  BY DEF WInv
<1>1. PICK a \in Nat, b \in Nat : /\ Charged(frameChan, 0, a) /\ Granted(toClient, 0, b)
                                  /\ connWin = fcConn + TakenConn + a + b
  BY <1>0 DEF ConnLedger
<1>t. /\ frameChan \in Seq(Frames) /\ toClient \in Seq(Messages)
      /\ fcConn \in Nat /\ connWin \in Int /\ TakenConn \in Nat /\ ConnWindow \in Nat
  BY <1>0, LedgerTypes
<1>2. CASE Quiet \/ Acquire \/ WaitStreamWindow
  <2>1. UNCHANGED <<frameChan, toClient, connWin, fcConn>>
    BY <1>2 DEF Quiet, Acquire, WaitStreamWindow, writerVars, peerVars
  <2>2. TakenConn' = TakenConn
    BY <1>2 DEF Quiet, Acquire, WaitStreamWindow, TakenConn
  <2> QED
    BY <1>1, <2>1, <2>2 DEF ConnLedger
<1>3. CASE WaitConnWindow
  <2>1. /\ UNCHANGED <<frameChan, toClient, connWin>> /\ fcConn' = fcConn - req[i]
        /\ TakenConn = 0 /\ TakenConn' = req[i]
    BY <1>3 DEF WaitConnWindow, writerVars, peerVars, TakenConn
  <2>2. req[i] \in Nat
    BY <1>0, <1>3, PriceType DEF WaitConnWindow, IInv, Queueing
  <2>3. connWin' = fcConn' + TakenConn' + a + b
    BY <1>1, <1>t, <2>1, <2>2
  <2> QED
    BY <1>1, <2>1, <2>3 DEF ConnLedger
<1>4. CASE Enqueue
  <2> DEFINE f == [id |-> streamID, obj |-> stream, price |-> req[i], last |-> i = Len(req)]
  <2>1. Locals /\ SenderType /\ spc = "enqueue"
    BY <1>0, <1>4 DEF IInv, TypeOK, Enqueue
  <2>2. f \in Frames /\ PriceFor(f, 0) = req[i] /\ req[i] \in Nat
    BY <2>1, PriceType DEF Locals, Queueing, Sending, Frames, PriceFor
  <2>3. /\ UNCHANGED <<toClient, connWin, fcConn>> /\ frameChan' = Append(frameChan, f)
        /\ TakenConn = req[i] /\ TakenConn' = 0
    BY <1>4 DEF Enqueue, windowVars, peerVars, TakenConn
  <2> HIDE DEF f
  <2>4. Charged(frameChan', 0, a + req[i])
    BY <1>0, <1>1, <1>t, <2>2, <2>3, ChargedLaws
  <2>5. connWin' = fcConn' + TakenConn' + (a + req[i]) + b /\ a + req[i] \in Nat
    <3>1. connWin = fcConn + req[i] + a + b
      BY <1>1, <2>3, Zenon
    <3>2. \A c, p \in Nat : /\ c + p + a + b = c + 0 + (a + p) + b
                            /\ a + p \in Nat
      OBVIOUS
    <3>3. connWin = fcConn + 0 + (a + req[i]) + b /\ a + req[i] \in Nat
      BY <1>t, <2>2, <3>1, <3>2, Zenon
    <3>4. connWin' = connWin /\ fcConn' = fcConn /\ TakenConn' = 0
      BY <2>3, Zenon
    <3> QED
      BY <3>3, <3>4, Zenon
  <2> QED
    BY <1>1, <2>3, <2>4, <2>5 DEF ConnLedger
<1>5. CASE Write
  <2>1. /\ UNCHANGED <<toClient, fcConn>> /\ frameChan # << >> /\ frameChan' = Tail(frameChan)
        /\ connWin' = connWin - Head(frameChan).price /\ TakenConn' = TakenConn
    BY <1>5 DEF Write, windowVars, senderVars, TakenConn
  <2>2. Head(frameChan) \in Frames /\ PriceFor(Head(frameChan), 0) = Head(frameChan).price
    BY <1>t, <2>1, HeadTailProperties DEF PriceFor
  <2>3. Head(frameChan).price \in Nat
    BY <2>2 DEF Frames
  <2>4. /\ Head(frameChan).price <= a
        /\ Charged(frameChan', 0, a - Head(frameChan).price)
    BY <1>0, <1>1, <1>t, <2>1, <2>2, ChargedLaws
  <2>5. /\ a - Head(frameChan).price \in Nat
        /\ connWin' = fcConn' + TakenConn' + (a - Head(frameChan).price) + b
    BY <1>1, <1>t, <2>1, <2>3, <2>4
  <2> QED
    BY <1>1, <2>1, <2>4, <2>5 DEF ConnLedger
<1>6. CASE Dropped \/ RecvWindowUpdate
  <2>1. /\ UNCHANGED <<frameChan, connWin>> /\ TakenConn' = TakenConn
        /\ toClient # << >> /\ toClient' = Tail(toClient)
    BY <1>6 DEF Dropped, SenderStays, RecvWindowUpdate, Receive, writerVars, peerVars,
       senderVars, TakenConn
  <2>2. Head(toClient) \in Messages
    BY <1>t, <2>1, HeadTailProperties
  <2> DEFINE n == GrantFor(Head(toClient), 0)
  <2>3. n \in Nat
    BY <1>0, <2>2, Amounts
  <2>4. fcConn' = fcConn + n
    BY <1>6, <1>t DEF Dropped, RecvWindowUpdate, Receive, windowVars, GrantFor
  <2> HIDE DEF n
  <2>5. n <= b /\ Granted(toClient', 0, b - n)
    BY <1>0, <1>1, <1>t, <2>1, GrantedLaws DEF n
  <2>6. b - n \in Nat /\ connWin' = fcConn' + TakenConn' + a + (b - n)
    BY <1>1, <1>t, <2>1, <2>3, <2>4, <2>5
  <2> QED
    BY <1>1, <2>1, <2>5, <2>6 DEF ConnLedger
<1>7. ASSUME NEW m \in Messages, toClient' = Append(toClient, m),
             UNCHANGED <<frameChan, fcConn, TakenConn>>, connWin' = connWin + GrantFor(m, 0)
      PROVE  ConnLedger'
  <2>1. GrantFor(m, 0) \in Nat
    BY <1>0, Amounts
  <2>2. Granted(toClient', 0, b + GrantFor(m, 0))
    BY <1>0, <1>1, <1>t, <1>7, GrantedLaws
  <2>3. /\ b + GrantFor(m, 0) \in Nat
        /\ connWin' = fcConn' + TakenConn' + a + (b + GrantFor(m, 0))
    BY <1>1, <1>t, <1>7, <2>1
  <2> QED
    BY <1>1, <1>7, <2>2, <2>3 DEF ConnLedger
<1>8. CASE Replied
  <2>1. PICK m \in Messages : m.type # "WINDOW_UPDATE" /\ toClient' = Append(toClient, m)
    BY <1>8 DEF Replied
  <2>2. GrantFor(m, 0) = 0 /\ UNCHANGED <<frameChan, fcConn, TakenConn, connWin>>
    BY <1>8, <2>1 DEF Replied, SenderStays, GrantFor, TakenConn
  <2>3. connWin' = connWin + GrantFor(m, 0)
    BY <1>t, <2>2
  <2> QED
    BY <1>7, <2>1, <2>2, <2>3
<1>9. ASSUME NEW id \in Ids, GrantStream(id) PROVE ConnLedger'
  <2> DEFINE m == [type |-> "WINDOW_UPDATE", id |-> id, n |-> InitialWindow - win[id]]
  <2>1. m \in Messages /\ GrantFor(m, 0) = 0
    BY <1>0, <1>9, LedgerTypes DEF GrantStream, Messages, GrantFor
  <2>2. toClient' = Append(toClient, m) /\ UNCHANGED <<frameChan, fcConn, TakenConn, connWin>>
    BY <1>9 DEF GrantStream, Transmit, writerVars, windowVars, senderVars, TakenConn
  <2>3. connWin' = connWin + GrantFor(m, 0)
    BY <1>t, <2>1, <2>2
  <2> HIDE DEF m
  <2> QED
    BY <1>7, <2>1, <2>2, <2>3
<1>10. CASE GrantConn
  <2> DEFINE m == [type |-> "WINDOW_UPDATE", id |-> 0, n |-> ConnWindow - connWin]
  <2>1. m \in Messages /\ GrantFor(m, 0) = ConnWindow - connWin
    BY <1>t, <1>10 DEF GrantConn, Messages, GrantFor
  <2>2. /\ toClient' = Append(toClient, m) /\ UNCHANGED <<frameChan, fcConn, TakenConn>>
        /\ connWin' = ConnWindow
    BY <1>10 DEF GrantConn, Transmit, writerVars, windowVars, senderVars, TakenConn
  <2>3. connWin' = connWin + GrantFor(m, 0)
    BY <1>t, <2>1, <2>2
  <2> HIDE DEF m
  <2> QED
    BY <1>7, <2>1, <2>2, <2>3
<1> QED
  BY <1>0, <1>2, <1>3, <1>4, <1>5, <1>6, <1>8, <1>9, <1>10, StepKinds

(* A stream that is known has an object: the sender has acquired it.       *)
LEMMA KnownOpened ==
  ASSUME IInv, NEW id \in Ids, Known(id)
  PROVE  objOf[id] # Nil
  BY DEF IInv, Known, Ownership, Fresh, Live

(* A stream opens with nothing queued and nothing granted.                 *)
LEMMA OpensFresh ==
  ASSUME WInv, Acquire
  PROVE  /\ streamID \in Ids /\ win[streamID] = InitialWindow /\ stream' \in Objs
         /\ Charged(frameChan, streamID, 0) /\ Granted(toClient, streamID, 0)
<1>0. /\ IInv /\ SenderType /\ PoolType /\ ServerType /\ Locals /\ Fresh /\ PoolInv /\ Traced
      /\ GrantsKnown /\ Unopened
  BY DEF WInv, IInv, TypeOK
<1>1. streamID \in Ids /\ objOf[streamID] = Nil /\ stream' \in Objs
  BY <1>0, AcquireKeepsPool
<1>2. ~ Known(streamID)
  BY <1>0, <1>1, KnownOpened
<1>3. streamID \notin seen /\ win[streamID] = InitialWindow
  BY <1>0, <1>1, <1>2 DEF Traced, Unopened
<1>4. frameChan \in Seq(Frames) /\ toClient \in Seq(Messages) /\ streamID # 0
  BY <1>0, <1>1, LedgerTypes
<1>5. ASSUME NEW k \in 1 .. Len(frameChan) PROVE PriceFor(frameChan[k], streamID) = 0
  <2>1. Known(frameChan[k].id)
    BY <1>0, <1>4 DEF Traced
  <2>2. frameChan[k].id # streamID
    BY <1>2, <2>1
  <2> QED
    BY <1>4, <2>2 DEF PriceFor
<1>6. ASSUME NEW k \in 1 .. Len(toClient) PROVE GrantFor(toClient[k], streamID) = 0
  BY <1>0, <1>3, <1>4 DEF GrantsKnown, GrantFor
<1> QED
  BY <1>1, <1>3, <1>4, <1>5, <1>6, ChargedLaws, GrantedLaws

(* A WINDOW_UPDATE widens the window of its own stream only, however often *)
(* the stream's object has been used before.                               *)
LEMMA WidensItsOwn ==
  ASSUME WInv, RecvWindowUpdate, NEW id \in Ids
  PROVE  Mine(id)' <= Mine(id) + GrantFor(Head(toClient), id)
<1>0. IInv /\ OwnObject /\ SharedType /\ PoolType /\ ServerType /\ Ownership /\ PoolInv /\ Locals
  BY DEF WInv, IInv, TypeOK
<1>1. /\ Head(toClient) \in Messages /\ rpc = "recv"
      /\ Head(toClient).id \in Ids \cup {0} /\ Head(toClient).n \in Nat
      /\ Head(toClient).type = "WINDOW_UPDATE"
  BY <1>0, HeadMessage DEF RecvWindowUpdate, Receive
<1>2. GrantFor(Head(toClient), id) \in Nat /\ Mine(id) \in Nat
  BY <1>0, <1>1, Amounts, LedgerTypes
<1>3. UNCHANGED <<spc, streamID, stream, req, i>>
  BY DEF RecvWindowUpdate, senderVars
<1>4. CASE fc' = fc
  <2>1. Mine(id)' = Mine(id)
    BY <1>3, <1>4 DEF Mine
  <2> QED
    BY <1>2, <2>1
<1>5. CASE id # streamID \/ spc \notin Sending
  <2>1. Mine(id)' = 0 /\ Mine(id) = 0
    BY <1>3, <1>5 DEF Mine
  <2> QED
    BY <1>2, <2>1
<1>6. CASE fc' # fc /\ id = streamID /\ spc \in Sending
  <2> DEFINE x == Head(toClient).id
  <2>1. /\ x # 0 /\ store[x] # Nil
        /\ fc' = [fc EXCEPT ![store[x]] = @ + Head(toClient).n]
    BY <1>6 DEF RecvWindowUpdate, windowVars
  <2>2. x \in Ids /\ x \in Live /\ store[x] = objOf[x] /\ store[x] \in Objs
    BY <1>0, <1>1, <2>1 DEF Ownership, Passed, SharedType
  <2>3. sid[store[x]] = x
    BY <1>0, <2>2 DEF PoolInv, PoolSound
  <2>4. stream \in Objs /\ sid[stream] = id
    BY <1>0, <1>6 DEF OwnObject, Locals
  <2>5. spc \in {"conn", "enqueue"} => req[i] \in Nat
    BY <1>0, PriceType DEF Queueing
  <2>6. fc[stream] \in Nat
    BY <1>0, <2>4 DEF SharedType
  <2>7. CASE stream # store[x]
    <3>1. fc'[stream] = fc[stream]
      BY <1>0, <2>1, <2>2, <2>4, <2>7 DEF SharedType
    <3>2. Mine(id)' = Mine(id)
      BY <1>3, <1>6, <3>1 DEF Mine
    <3> QED
      BY <1>2, <3>2
  <2>8. CASE stream = store[x]
    <3>1. x = id
      BY <2>3, <2>4, <2>8
    <3>2. fc'[stream] = fc[stream] + Head(toClient).n
      BY <1>0, <2>1, <2>2, <2>8 DEF SharedType
    <3>3. GrantFor(Head(toClient), id) = Head(toClient).n
      BY <1>1, <3>1 DEF GrantFor
    <3> QED
      BY <1>1, <1>3, <1>6, <2>5, <2>6, <3>2, <3>3 DEF Mine
  <2> QED
    BY <2>7, <2>8
<1> QED
  BY <1>4, <1>5, <1>6

(* What the sender has of its stream's window, in the steps that neither   *)
(* open a stream nor queue a frame nor widen a window.                     *)
LEMMA MineStays ==
  ASSUME IInv, NEW id \in Ids,
         Quiet \/ WaitStreamWindow \/ WaitConnWindow \/ Write
           \/ (SenderStays /\ UNCHANGED fc)
  PROVE  Mine(id)' <= Mine(id)
<1>0. SharedType /\ Locals /\ Mine(id) \in Nat
  BY LedgerTypes DEF IInv, TypeOK
<1>1. spc \in Queueing => req[i] \in Nat
  BY <1>0, PriceType
<1>2. spc \in Sending => stream \in Objs /\ fc[stream] \in Nat
  BY <1>0 DEF Locals, SharedType
<1>3. CASE Quiet
  BY <1>0, <1>1, <1>2, <1>3 DEF Quiet, Mine, Sending, Queueing
<1>4. CASE WaitStreamWindow
  <2>1. /\ spc = "stream" /\ spc' = "conn" /\ UNCHANGED <<streamID, stream, req, i>>
        /\ fc' = [fc EXCEPT ![stream] = @ - req[i]]
    BY <1>4 DEF WaitStreamWindow
  <2>2. stream \in Objs /\ fc[stream] \in Nat /\ req[i] \in Nat
    BY <1>1, <1>2, <2>1 DEF Sending, Queueing
  <2>3. fc'[stream] = fc[stream] - req[i]
    BY <1>0, <2>1, <2>2 DEF SharedType
  <2>4. Mine(id)' = Mine(id)
    BY <2>1, <2>2, <2>3 DEF Mine, Sending
  <2> QED
    BY <1>0, <2>4
<1>5. CASE WaitConnWindow
  <2>1. Mine(id)' = Mine(id)
    BY <1>5 DEF WaitConnWindow, Mine, Sending
  <2> QED
    BY <1>0, <2>1
<1>6. CASE Write \/ (SenderStays /\ UNCHANGED fc)
  <2>1. UNCHANGED <<spc, streamID, stream, req, i, fc>>
    BY <1>6 DEF Write, SenderStays, senderVars, windowVars
  <2>2. Mine(id)' = Mine(id)
    BY <2>1 DEF Mine
  <2> QED
    BY <1>0, <2>2
<1> QED
  BY <1>3, <1>4, <1>5, <1>6

(* A stream's window is handed around in the same way; the part granted to *)
(* a stream that has ended is lost, which is on the safe side.             *)
LEMMA StreamStep ==
  ASSUME WInv, [Next]_vars, NEW id \in Ids
  PROVE  StreamLedger(id)'
<1>0. IInv /\ StreamLedger(id)
  BY DEF WInv
<1>1. PICK a \in Nat, b \in Nat : /\ Charged(frameChan, id, a) /\ Granted(toClient, id, b)
                                  /\ win[id] >= a + b + Mine(id)
  BY <1>0 DEF StreamLedger
<1>t. /\ frameChan \in Seq(Frames) /\ toClient \in Seq(Messages) /\ win \in [Ids -> Int]
      /\ win[id] \in Int /\ Mine(id) \in Nat /\ InitialWindow \in Nat
      /\ id # 0 /\ id \in Ids \cup {0}
  BY <1>0, LedgerTypes
<1>m. Mine(id)' \in Nat
  <2>1. IInv'
    BY <1>0, StepIInv
  <2>2. SharedType' /\ Locals'
    BY <2>1 DEF IInv, TypeOK
  <2>3. spc' \in Sending => stream' \in Objs /\ req' \in Requests
    BY <2>2 DEF Locals
  <2>4. spc' \in {"conn", "enqueue"} => i' \in DOMAIN req' /\ req' \in Seq(Nat)
    BY <2>2, <2>3, RequestsAssumption DEF Locals, Queueing, Sending
  <2>5. spc' \in {"conn", "enqueue"} => req'[i'] \in Nat
    BY <2>4
  <2>6. spc' \in Sending => fc'[stream'] \in Nat
    BY <2>2, <2>3 DEF SharedType
  <2> QED
    BY <2>5, <2>6 DEF Mine
<1>2. CASE Quiet \/ WaitStreamWindow \/ WaitConnWindow
  <2>1. UNCHANGED <<frameChan, toClient, win>>
    BY <1>2 DEF Quiet, WaitStreamWindow, WaitConnWindow, writerVars, peerVars
  <2>2. Mine(id)' <= Mine(id)
    BY <1>0, <1>2, MineStays
  <2>3. win'[id] >= a + b + Mine(id)'
    BY <1>1, <1>t, <1>m, <2>1, <2>2
  <2> QED
    BY <1>1, <2>1, <2>3 DEF StreamLedger
<1>3. CASE Acquire
  <2>1. /\ UNCHANGED <<frameChan, toClient, win, streamID>> /\ spc = "acquire" /\ spc' = "setup"
        /\ fc' = [fc EXCEPT ![stream'] = InitialWindow]
    BY <1>3 DEF Acquire, writerVars, peerVars
  <2>2. CASE id = streamID
    <3>1. /\ win[id] = InitialWindow /\ stream' \in Objs
          /\ Charged(frameChan, id, 0) /\ Granted(toClient, id, 0)
      BY <1>3, <2>2, OpensFresh
    <3>2. fc'[stream'] = InitialWindow
      BY <1>0, <2>1, <3>1, LedgerTypes
    <3>3. Mine(id)' = InitialWindow
      BY <1>t, <2>1, <2>2, <3>2 DEF Mine, Sending
    <3>4. win'[id] >= 0 + 0 + Mine(id)' /\ 0 \in Nat
      BY <1>t, <2>1, <3>1, <3>3
    <3> QED
      BY <2>1, <3>1, <3>4 DEF StreamLedger
  <2>3. CASE id # streamID
    <3>1. Mine(id)' = 0 /\ Mine(id) = 0
      BY <2>1, <2>3 DEF Mine
    <3>2. win'[id] >= a + b + Mine(id)'
      BY <1>1, <1>t, <2>1, <3>1
    <3> QED
      BY <1>1, <2>1, <3>2 DEF StreamLedger
  <2> QED
    BY <2>2, <2>3
<1>4. CASE Enqueue
  <2> DEFINE f == [id |-> streamID, obj |-> stream, price |-> req[i], last |-> i = Len(req)]
  <2>1. Locals /\ SenderType /\ SharedType /\ spc = "enqueue"
    BY <1>0, <1>4 DEF IInv, TypeOK, Enqueue
  <2>2. f \in Frames /\ req[i] \in Nat /\ PriceFor(f, id) = IF id = streamID THEN req[i] ELSE 0
    BY <1>t, <2>1, PriceType DEF Locals, Queueing, Sending, Frames, PriceFor
  <2>3. /\ UNCHANGED <<toClient, win>> /\ frameChan' = Append(frameChan, f)
    BY <1>4 DEF Enqueue, peerVars
  <2>4. /\ UNCHANGED <<fc, streamID>>
        /\ spc' = "idle" \/ (spc' = "stream" /\ stream' = stream)
    BY <1>4 DEF Enqueue, windowVars
  <2> DEFINE c == PriceFor(f, id)
  <2>5. c \in Nat
    BY <2>2
  <2>6. stream \in Objs /\ fc[stream] \in Nat
    BY <2>1 DEF Locals, Sending, SharedType
  <2>7. Mine(id) >= Mine(id)' + c
    BY <2>1, <2>2, <2>4, <2>6 DEF Mine, Sending
  <2>8. Charged(frameChan', id, a + c)
    BY <1>1, <1>t, <2>2, <2>3, ChargedLaws
  <2> HIDE DEF c, f
  <2>9. a + c \in Nat /\ win'[id] >= (a + c) + b + Mine(id)'
    BY <1>1, <1>t, <1>m, <2>3, <2>5, <2>7
  <2> QED
    BY <1>1, <2>3, <2>8, <2>9 DEF StreamLedger
<1>5. CASE Write
  <2> DEFINE f == Head(frameChan)
  <2>1. /\ UNCHANGED toClient /\ frameChan # << >> /\ frameChan' = Tail(frameChan)
        /\ win' = [win EXCEPT ![f.id] = @ - f.price]
    BY <1>5 DEF Write
  <2>2. f \in Frames
    BY <1>t, <2>1, HeadTailProperties
  <2> DEFINE c == PriceFor(f, id)
  <2>3. c \in Nat /\ f.price \in Nat /\ f.id \in Ids
    BY <1>t, <2>2, Amounts DEF Frames
  <2>4. win'[id] = win[id] - c
    BY <1>t, <2>1, <2>3 DEF PriceFor
  <2>5. c <= a /\ Charged(frameChan', id, a - c)
    BY <1>1, <1>t, <2>1, ChargedLaws
  <2>6. Mine(id)' <= Mine(id)
    BY <1>0, <1>5, MineStays
  <2> HIDE DEF c, f
  <2>7. a - c \in Nat /\ win'[id] >= (a - c) + b + Mine(id)'
    BY <1>1, <1>t, <1>m, <2>3, <2>4, <2>5, <2>6
  <2> QED
    BY <1>1, <2>1, <2>5, <2>7 DEF StreamLedger
<1>6. CASE Dropped \/ RecvWindowUpdate
  <2>1. /\ UNCHANGED <<frameChan, win>> /\ toClient # << >> /\ toClient' = Tail(toClient)
    BY <1>6 DEF Dropped, SenderStays, RecvWindowUpdate, Receive, writerVars, peerVars
  <2>2. Head(toClient) \in Messages
    BY <1>t, <2>1, HeadTailProperties
  <2> DEFINE n == GrantFor(Head(toClient), id)
  <2>3. n \in Nat
    BY <1>t, <2>2, Amounts
  <2>4. n <= b /\ Granted(toClient', id, b - n)
    BY <1>1, <1>t, <2>1, GrantedLaws
  <2>5. Mine(id)' <= Mine(id) + n
    <3>1. CASE RecvWindowUpdate
      BY <3>1, WidensItsOwn
    <3>2. CASE Dropped
      <4>1. Mine(id)' <= Mine(id)
        BY <1>0, <3>2, MineStays DEF Dropped
      <4> HIDE DEF n
      <4> QED
        BY <1>t, <1>m, <2>3, <4>1
    <3> QED
      BY <1>6, <3>1, <3>2
  <2> HIDE DEF n
  <2>6. b - n \in Nat /\ win'[id] >= a + (b - n) + Mine(id)'
    BY <1>1, <1>t, <1>m, <2>1, <2>3, <2>4, <2>5
  <2> QED
    BY <1>1, <2>1, <2>4, <2>6 DEF StreamLedger
<1>7. ASSUME NEW m \in Messages, toClient' = Append(toClient, m), UNCHANGED frameChan,
             Mine(id)' <= Mine(id), win'[id] = win[id] + GrantFor(m, id)
      PROVE  StreamLedger(id)'
  <2> DEFINE c == GrantFor(m, id)
  <2>1. c \in Nat
    BY <1>t, Amounts
  <2>2. Granted(toClient', id, b + c)
    BY <1>1, <1>t, <1>7, GrantedLaws
  <2>3. b + c \in Nat /\ win'[id] >= a + (b + c) + Mine(id)'
    BY <1>1, <1>t, <1>m, <1>7, <2>1
  <2> HIDE DEF c
  <2> QED
    BY <1>1, <1>7, <2>2, <2>3 DEF StreamLedger
<1>8. CASE Replied
  <2>1. PICK m \in Messages : m.type # "WINDOW_UPDATE" /\ toClient' = Append(toClient, m)
    BY <1>8 DEF Replied
  <2>2. GrantFor(m, id) = 0 /\ UNCHANGED <<frameChan, win>>
    BY <1>8, <2>1 DEF Replied, SenderStays, GrantFor
  <2>3. Mine(id)' <= Mine(id) /\ win'[id] = win[id] + GrantFor(m, id)
    BY <1>0, <1>8, <1>t, <2>2, MineStays DEF Replied
  <2> QED
    BY <1>7, <2>1, <2>2, <2>3
<1>9. ASSUME NEW x \in Ids, GrantStream(x) PROVE StreamLedger(id)'
  <2> DEFINE m == [type |-> "WINDOW_UPDATE", id |-> x, n |-> InitialWindow - win[x]]
  <2>1. m \in Messages /\ GrantFor(m, id) = IF id = x THEN InitialWindow - win[x] ELSE 0
    BY <1>t, <1>9 DEF GrantStream, Messages, GrantFor
  <2>2. /\ toClient' = Append(toClient, m) /\ UNCHANGED <<frameChan, fc>> /\ SenderStays
        /\ win' = [win EXCEPT ![x] = InitialWindow]
    BY <1>9 DEF GrantStream, Transmit, writerVars, windowVars, senderVars, poolVars, SenderStays
  <2>3. win'[id] = win[id] + GrantFor(m, id)
    BY <1>t, <2>1, <2>2
  <2>4. Mine(id)' <= Mine(id)
    BY <1>0, <2>2, MineStays
  <2> HIDE DEF m
  <2> QED
    BY <1>7, <2>1, <2>2, <2>3, <2>4
<1>10. CASE GrantConn
  <2> DEFINE m == [type |-> "WINDOW_UPDATE", id |-> 0, n |-> ConnWindow - connWin]
  <2>1. m \in Messages /\ GrantFor(m, id) = 0
    BY <1>0, <1>t, <1>10, LedgerTypes DEF GrantConn, Messages, GrantFor
  <2>2. toClient' = Append(toClient, m) /\ UNCHANGED <<frameChan, fc, win>> /\ SenderStays
    BY <1>10 DEF GrantConn, Transmit, writerVars, windowVars, senderVars, poolVars, SenderStays
  <2>3. win'[id] = win[id] + GrantFor(m, id) /\ Mine(id)' <= Mine(id)
    BY <1>0, <1>t, <2>1, <2>2, MineStays
  <2> HIDE DEF m
  <2> QED
    BY <1>7, <2>1, <2>2, <2>3
<1> QED
  BY <1>0, <1>2, <1>3, <1>4, <1>5, <1>6, <1>8, <1>9, <1>10, StepKinds

(* Who grants what to whom stays as the ledgers need it.                   *)
LEMMA GrantsStep ==
  ASSUME WInv, [Next]_vars
  PROVE  GrantsKnown' /\ Unopened' /\ OwnObject'
<1>0. /\ IInv /\ GrantsKnown /\ Unopened /\ OwnObject /\ ServerType /\ SenderType /\ PoolType
      /\ Locals /\ Fresh /\ PoolInv
  BY DEF WInv, IInv, TypeOK
<1>t. /\ frameChan \in Seq(Frames) /\ toClient \in Seq(Messages) /\ win \in [Ids -> Int]
      /\ InitialWindow \in Nat /\ ConnWindow \in Nat /\ connWin \in Int /\ Len(toClient) \in Nat
      /\ seen \subseteq Ids /\ 0 \notin Ids
  BY <1>0, LedgerTypes DEF ServerType
<1>1. CASE Acquire
  <2>1. stream' \in Objs /\ sid' = [sid EXCEPT ![stream'] = streamID] /\ streamID' = streamID
    BY <1>0, <1>1, AcquireKeepsPool DEF Acquire
  <2>2. sid'[stream'] = streamID'
    BY <1>0, <2>1 DEF PoolType
  <2>3. UNCHANGED <<toClient, seen, win>>
    BY <1>1 DEF Acquire, peerVars
  <2> QED
    BY <1>0, <2>2, <2>3 DEF GrantsKnown, Unopened, OwnObject
<1>2. CASE Quiet \/ WaitStreamWindow \/ WaitConnWindow \/ Enqueue
  <2>1. UNCHANGED <<toClient, seen, win, sid>>
    BY <1>2 DEF Quiet, WaitStreamWindow, WaitConnWindow, Enqueue, peerVars, poolVars
  <2>2. spc' \in Sending => spc \in Sending /\ UNCHANGED <<streamID, stream>>
    BY <1>2 DEF Quiet, WaitStreamWindow, WaitConnWindow, Enqueue, Sending
  <2> QED
    BY <1>0, <2>1, <2>2 DEF GrantsKnown, Unopened, OwnObject
<1>3. CASE Write
  <2>1. /\ UNCHANGED <<toClient, sid, spc, streamID, stream>> /\ frameChan # << >>
        /\ seen' = seen \cup {Head(frameChan).id}
        /\ win' = [win EXCEPT ![Head(frameChan).id] = @ - Head(frameChan).price]
    BY <1>3 DEF Write, poolVars, senderVars
  <2>2. \A x \in Ids \ seen' : x \in Ids \ seen /\ win'[x] = win[x]
    BY <1>t, <2>1
  <2> QED
    BY <1>0, <2>1, <2>2 DEF GrantsKnown, Unopened, OwnObject
<1>4. CASE Dropped \/ RecvWindowUpdate
  <2>1. /\ UNCHANGED <<spc, stream, streamID, sid, win, seen>>
        /\ toClient # << >> /\ toClient' = Tail(toClient)
    BY <1>4 DEF Dropped, SenderStays, RecvWindowUpdate, Receive, senderVars, poolVars, peerVars
  <2>2. \A k \in DOMAIN toClient' : k + 1 \in DOMAIN toClient /\ toClient'[k] = toClient[k + 1]
    <3>1. /\ Len(toClient') = Len(toClient) - 1 /\ toClient' \in Seq(Messages)
          /\ \A k \in 1 .. Len(toClient') : toClient'[k] = toClient[k + 1]
      BY <1>t, <2>1, HeadTailProperties
    <3> QED
      BY <1>t, <3>1
  <2> QED
    BY <1>0, <2>1, <2>2 DEF GrantsKnown, Unopened, OwnObject
<1>5. ASSUME NEW m \in Messages, toClient' = Append(toClient, m), SenderStays,
             m.type = "WINDOW_UPDATE" => m.id \in seen \cup {0},
             \A x \in Ids \ seen : win'[x] = win[x]
      PROVE  GrantsKnown' /\ Unopened' /\ OwnObject'
  <2>1. \A k \in DOMAIN toClient' : \/ k \in DOMAIN toClient /\ toClient'[k] = toClient[k]
                                    \/ toClient'[k] = m
    <3>1. /\ Len(toClient') = Len(toClient) + 1 /\ toClient' \in Seq(Messages)
          /\ \A k \in 1 .. Len(toClient) : toClient'[k] = toClient[k]
          /\ toClient'[Len(toClient) + 1] = m
      BY <1>t, <1>5, AppendProperties
    <3> QED
      BY <1>t, <3>1
  <2>2. UNCHANGED <<seen, spc, stream, streamID, sid>>
    BY <1>5 DEF SenderStays
  <2> QED
    BY <1>0, <1>5, <2>1, <2>2 DEF GrantsKnown, Unopened, OwnObject
<1>6. CASE Replied
  BY <1>5, <1>6 DEF Replied
<1>7. ASSUME NEW x \in Ids, GrantStream(x) PROVE GrantsKnown' /\ Unopened' /\ OwnObject'
  <2> DEFINE m == [type |-> "WINDOW_UPDATE", id |-> x, n |-> InitialWindow - win[x]]
  <2>1. m \in Messages /\ m.id \in seen
    BY <1>t, <1>7 DEF GrantStream, Messages
  <2>2. /\ toClient' = Append(toClient, m) /\ SenderStays
        /\ win' = [win EXCEPT ![x] = InitialWindow] /\ x \in seen
    BY <1>7 DEF GrantStream, Transmit, writerVars, senderVars, poolVars, SenderStays
  <2>3. \A y \in Ids \ seen : win'[y] = win[y]
    BY <1>t, <2>2
  <2> HIDE DEF m
  <2> QED
    BY <1>5, <2>1, <2>2, <2>3
<1>8. CASE GrantConn
  <2> DEFINE m == [type |-> "WINDOW_UPDATE", id |-> 0, n |-> ConnWindow - connWin]
  <2>1. m \in Messages /\ m.id \in seen \cup {0}
    BY <1>t, <1>8 DEF GrantConn, Messages
  <2>2. toClient' = Append(toClient, m) /\ SenderStays /\ UNCHANGED win
    BY <1>8 DEF GrantConn, Transmit, writerVars, senderVars, poolVars, SenderStays
  <2> HIDE DEF m
  <2> QED
    BY <1>5, <2>1, <2>2
<1> QED
  BY <1>0, <1>1, <1>2, <1>3, <1>4, <1>6, <1>7, <1>8, StepKinds

LEMMA WInvariance == Spec => []WInv
<1>1. Init => WInv
  <2> SUFFICES ASSUME Init PROVE WInv
    OBVIOUS
  <2>1. /\ IInv /\ frameChan = << >> /\ toClient = << >> /\ spc = "idle"
        /\ win = [id \in Ids |-> InitialWindow] /\ fcConn = ConnWindow /\ connWin = ConnWindow
    BY InitIInv DEF Init
  <2>2. << >> \in Seq(Frames) /\ << >> \in Seq(Messages) /\ Len(<< >>) = 0 /\ DOMAIN << >> = {}
    OBVIOUS
  <2>3. ASSUME NEW id \in Ids \cup {0} PROVE Charged(<< >>, id, 0) /\ Granted(<< >>, id, 0)
    <3>1. 1 .. Len(<< >>) = {}
      BY <2>2
    <3>2. Charged(<< >>, id, 0)
      BY <2>2, <3>1, ChargedLaws
    <3>3. Granted(<< >>, id, 0)
      BY <2>2, <3>1, GrantedLaws
    <3> QED
      BY <3>2, <3>3
  <2>4. GrantsKnown /\ Unopened /\ OwnObject
    BY <2>1, <2>2 DEF GrantsKnown, Unopened, OwnObject, Sending
  <2>5. TakenConn = 0 /\ \A id \in Ids : Mine(id) = 0
    BY <2>1 DEF TakenConn, Mine, Sending
  <2>6. ConnLedger
    <3>1. connWin = fcConn + TakenConn + 0 + 0 /\ 0 \in Nat
      BY <2>1, <2>5, Numbers
    <3> QED
      BY <2>1, <2>3, <3>1 DEF ConnLedger
  <2>7. ASSUME NEW id \in Ids PROVE StreamLedger(id)
    <3>1. win[id] >= 0 + 0 + Mine(id) /\ 0 \in Nat
      BY <2>1, <2>5, Numbers
    <3> QED
      BY <2>1, <2>3, <3>1 DEF StreamLedger
  <2> QED
    BY <2>1, <2>4, <2>6, <2>7 DEF WInv
<1>2. WInv /\ [Next]_vars => WInv'
  <2> SUFFICES ASSUME WInv, [Next]_vars PROVE WInv'
    OBVIOUS
  <2>1. IInv'
    BY StepIInv DEF WInv
  <2>2. ASSUME NEW id \in Ids PROVE StreamLedger(id)'
    BY StreamStep
  <2> QED
    BY <2>1, <2>2, ConnStep, GrantsStep DEF WInv
<1> QED
  BY <1>1, <1>2, PTL DEF Spec

(* Sender.send waits for both windows before it queues a frame, and the    *)
(* receiver widens a window only by what the server sent: the DATA the     *)
(* server gets never exceeds what it granted, on a stream or altogether,   *)
(* though a stream's object may be in its second life when a WINDOW_UPDATE *)
(* for the first arrives.                                                  *)
THEOREM WindowsSafe == Spec => []WindowsRespected
<1>1. WInv => WindowsRespected
  <2> SUFFICES ASSUME WInv PROVE WindowsRespected
    OBVIOUS
  <2>1. /\ IInv /\ connWin \in Int /\ fcConn \in Nat /\ TakenConn \in Nat /\ win \in [Ids -> Int]
        /\ \A id \in Ids : Mine(id) \in Nat
    BY LedgerTypes DEF WInv
  <2>2. connWin >= 0
    BY <2>1 DEF WInv, ConnLedger
  <2>3. ASSUME NEW id \in Ids PROVE win[id] >= 0
    <3>1. StreamLedger(id) /\ win[id] \in Int /\ Mine(id) \in Nat
      BY <2>1 DEF WInv
    <3> QED
      BY <3>1 DEF StreamLedger
  <2> QED
    BY <2>2, <2>3 DEF WindowsRespected
<1> QED
  BY <1>1, WInvariance, PTL

-----------------------------------------------------------------------------
(* The slots of the limiter.  Two faults lose or double a slot, and are    *)
(* excluded here: a request that SetUp refuses keeps its slot, and a reset *)
(* behind an answer gives a slot back for the second time.                 *)
NoSlotLost == Faults \cap {"setup_error", "trailing_rst"} = {}

Handling == rpc \in {"endHeaders", "delete", "release", "take", "endTaken"}
Running == rpc \notin {"each", "stopped"}
IsAnswer(m) == m.type \in {"HEADERS", "DATA", "RST"}

(* Requests are queued one behind the other, so the server sees the end of *)
(* a request before it sees the next one.                                  *)
FrameOrder ==
  /\ \A j, k \in DOMAIN frameChan : j < k => frameChan[j].id <= frameChan[k].id
  /\ \A k \in DOMAIN frameChan : frameChan[k].id <= streamID
  /\ \A x \in seen : \A k \in DOMAIN frameChan : x <= frameChan[k].id
  /\ \A x \in Ids : objOf[x] # Nil =>
       \/ x \in reqDone
       \/ spc \in Sending /\ streamID = x
       \/ \E k \in DOMAIN frameChan : frameChan[k].id = x /\ frameChan[k].last
  /\ \A x \in Ids, y \in seen : x < y => x \in reqDone
  /\ seen # {} => \E y \in seen : \A x \in seen : x <= y

(* Steps that leave the frames and the streams opened as they are.         *)
FramesStay ==
  /\ UNCHANGED <<frameChan, seen, reqDone, objOf>>
  /\ streamID <= streamID'
  /\ spc \in Sending => spc' \in Sending /\ streamID' = streamID

LEMMA FrameKinds ==
  ASSUME IInv, [Next]_vars, NoSlotLost
  PROVE  Acquire \/ Enqueue \/ Write \/ FramesStay
<1>0. SenderType
  BY DEF IInv, TypeOK
<1>1. streamID \in Nat
  BY <1>0, IdFacts DEF SenderType
<1>2. CASE UNCHANGED <<frameChan, seen, reqDone, objOf, spc, streamID>>
  BY <1>1, <1>2 DEF FramesStay
<1>3. CASE Send \/ WaitAllow \/ StoreSet \/ WaitStreamWindow \/ WaitConnWindow \/ Flush
           \/ WaitResponses
  BY <1>1, <1>3 DEF Send, WaitAllow, StoreSet, WaitStreamWindow, WaitConnWindow, Flush,
     WaitResponses, FramesStay, Sending, writerVars, peerVars, history
<1>4. ~ SetUpError
  BY DEF NoSlotLost, SetUpError
<1>5. \/ Acquire \/ Enqueue \/ Write \/ SetUpError
      \/ (Send \/ WaitAllow \/ StoreSet \/ WaitStreamWindow \/ WaitConnWindow \/ Flush
           \/ WaitResponses)
      \/ UNCHANGED <<frameChan, seen, reqDone, objOf, spc, streamID>>
  BY DEF Next, Sender, Receiver, Server, Answer, Transmit, vars, senderVars, writerVars,
     peerVars, history, poolVars, EndStream, Cancel, Callback, RecvHeaders, EndHeaders, Delete,
     Release, RecvDataOrReset, GetAndDelete, EndTaken, RecvWindowUpdate, RecvGoAway, EachShard,
     EachVisit, Respond, TrailingReset, GrantStream, GrantConn, GoAway
<1> QED
  BY <1>2, <1>3, <1>4, <1>5

(* Frames stay in the order of their streams.                              *)
LEMMA FrameStep ==
  ASSUME IInv, FrameOrder, NoSlotLost, [Next]_vars
  PROVE  FrameOrder'
<1>0. /\ SenderType /\ PoolType /\ WriterType /\ ServerType /\ Locals /\ Fresh /\ PoolInv
      /\ Traced
  BY DEF IInv, TypeOK
<1>t. /\ frameChan \in Seq(Frames) /\ Len(frameChan) \in Nat
      /\ DOMAIN frameChan = 1 .. Len(frameChan)
      /\ \A k \in DOMAIN frameChan : /\ frameChan[k].id \in Ids /\ frameChan[k].id \in Nat
                                     /\ Known(frameChan[k].id)
      /\ streamID \in Nat /\ seen \subseteq Ids
      /\ \A x \in Ids : x \in Nat
  <2>1. \A f \in Frames : f.id \in Ids
    BY DEF Frames
  <2> QED
    BY <1>0, <2>1, IdFacts DEF WriterType, SenderType, ServerType, Traced
<1>s. \A x \in seen : objOf[x] # Nil /\ x <= streamID
  <2> SUFFICES ASSUME NEW x \in seen PROVE objOf[x] # Nil /\ x <= streamID
    OBVIOUS
  <2>1. objOf[x] # Nil /\ x \in Ids
    BY <1>0, <1>t, KnownOpened DEF Traced
  <2> QED
    BY <1>0, <1>t, <2>1 DEF Fresh
<1>1. CASE Acquire
  <2>1. /\ UNCHANGED <<frameChan, seen, reqDone, streamID>> /\ spc' = "setup" /\ spc = "acquire"
        /\ streamID \in Ids /\ objOf' = [objOf EXCEPT ![streamID] = stream']
    BY <1>0, <1>1, AcquireKeepsPool DEF Acquire, writerVars, peerVars
  <2>2. \A x \in Ids : x # streamID => objOf'[x] = objOf[x]
    BY <1>0, <2>1 DEF PoolType
  <2>3. \A x \in Ids : objOf'[x] # Nil =>
          \/ x \in reqDone'
          \/ spc' \in Sending /\ streamID' = x
          \/ \E k \in DOMAIN frameChan' : frameChan'[k].id = x /\ frameChan'[k].last
    BY <2>1, <2>2 DEF FrameOrder, Sending
  <2> QED
    BY <2>1, <2>3 DEF FrameOrder
<1>2. CASE Enqueue
  <2> DEFINE f == [id |-> streamID, obj |-> stream, price |-> req[i], last |-> i = Len(req)]
  <2>1. /\ UNCHANGED <<seen, reqDone, objOf, streamID>> /\ spc = "enqueue"
        /\ frameChan' = Append(frameChan, f)
        /\ (f.last /\ spc' = "idle") \/ (~ f.last /\ spc' = "stream")
    BY <1>2 DEF Enqueue, peerVars, history
  <2>2. f \in Frames /\ f.id = streamID /\ streamID \in Ids
    BY <1>0, <2>1, PriceType DEF Locals, Queueing, Sending, Frames
  <2> HIDE DEF f
  <2>3. /\ Len(frameChan') = Len(frameChan) + 1 /\ frameChan' \in Seq(Frames)
        /\ \A k \in 1 .. Len(frameChan) : frameChan'[k] = frameChan[k]
        /\ frameChan'[Len(frameChan) + 1] = f
    BY <1>t, <2>1, <2>2, AppendProperties
  <2>4. /\ DOMAIN frameChan' = 1 .. Len(frameChan) + 1
        /\ \A k \in DOMAIN frameChan' : \/ k \in DOMAIN frameChan /\ frameChan'[k] = frameChan[k]
                                        \/ k = Len(frameChan) + 1 /\ frameChan'[k] = f
        /\ \A k \in DOMAIN frameChan : k \in DOMAIN frameChan' /\ frameChan'[k] = frameChan[k]
        /\ Len(frameChan) + 1 \in DOMAIN frameChan'
        /\ \A k \in DOMAIN frameChan : k < Len(frameChan) + 1 /\ k \in Nat
    BY <1>t, <2>3
  <2>5. \A j, k \in DOMAIN frameChan' : j < k => frameChan'[j].id <= frameChan'[k].id
    <3> SUFFICES ASSUME NEW j \in DOMAIN frameChan', NEW k \in DOMAIN frameChan', j < k
                 PROVE  frameChan'[j].id <= frameChan'[k].id
      OBVIOUS
    <3>1. j \in DOMAIN frameChan /\ frameChan'[j] = frameChan[j]
      BY <1>t, <2>4
    <3>2. frameChan[j].id <= streamID
      BY <3>1 DEF FrameOrder
    <3>3. CASE k \in DOMAIN frameChan
      BY <2>4, <3>1, <3>3 DEF FrameOrder
    <3>4. CASE k = Len(frameChan) + 1
      BY <2>2, <2>3, <3>1, <3>2, <3>4
    <3> QED
      BY <2>4, <3>3, <3>4
  <2>6. \A k \in DOMAIN frameChan' : frameChan'[k].id <= streamID'
    BY <1>t, <2>1, <2>2, <2>4 DEF FrameOrder
  <2>7. \A x \in seen' : \A k \in DOMAIN frameChan' : x <= frameChan'[k].id
    BY <1>s, <2>1, <2>2, <2>4 DEF FrameOrder
  <2>8. \A x \in Ids : objOf'[x] # Nil =>
          \/ x \in reqDone'
          \/ spc' \in Sending /\ streamID' = x
          \/ \E k \in DOMAIN frameChan' : frameChan'[k].id = x /\ frameChan'[k].last
    <3> SUFFICES ASSUME NEW x \in Ids, objOf[x] # Nil, x \notin reqDone
                 PROVE  \/ spc' \in Sending /\ streamID' = x
                        \/ \E k \in DOMAIN frameChan' : frameChan'[k].id = x /\ frameChan'[k].last
      BY <2>1
    <3>1. CASE x = streamID
      <4>1. CASE f.last
        BY <2>2, <2>3, <2>4, <3>1, <4>1
      <4>2. CASE ~ f.last
        BY <2>1, <3>1, <4>2 DEF Sending
      <4> QED
        BY <4>1, <4>2
    <3>2. CASE x # streamID
      <4>1. PICK k \in DOMAIN frameChan : frameChan[k].id = x /\ frameChan[k].last
        BY <3>2 DEF FrameOrder
      <4> QED
        BY <2>4, <4>1
    <3> QED
      BY <3>1, <3>2
  <2>9. /\ \A x \in Ids, y \in seen' : x < y => x \in reqDone'
        /\ seen' # {} => \E y \in seen' : \A x \in seen' : x <= y
    BY <2>1 DEF FrameOrder
  <2> QED
    BY <2>5, <2>6, <2>7, <2>8, <2>9 DEF FrameOrder
<1>3. CASE Write
  <2> DEFINE f == Head(frameChan)
  <2>1. /\ frameChan # << >> /\ frameChan' = Tail(frameChan) /\ UNCHANGED <<objOf, spc, streamID>>
        /\ seen' = seen \cup {f.id}
        /\ reqDone' = IF f.last THEN reqDone \cup {f.id} ELSE reqDone
    BY <1>3 DEF Write, senderVars, history
  <2>2. f = frameChan[1] /\ 1 \in DOMAIN frameChan
    BY <1>t, <2>1
  <2> HIDE DEF f
  <2>3. /\ Len(frameChan') = Len(frameChan) - 1 /\ frameChan' \in Seq(Frames)
        /\ \A k \in 1 .. Len(frameChan') : frameChan'[k] = frameChan[k + 1]
    BY <1>t, <2>1, HeadTailProperties
  <2>4. /\ \A k \in DOMAIN frameChan' : /\ k + 1 \in DOMAIN frameChan
                                        /\ frameChan'[k] = frameChan[k + 1] /\ k \in Nat /\ k >= 1
        /\ \A k \in DOMAIN frameChan : k # 1 => /\ k - 1 \in DOMAIN frameChan'
                                                /\ frameChan'[k - 1] = frameChan[k]
    <3>1. \A k \in 1 .. Len(frameChan') : k + 1 \in 1 .. Len(frameChan) /\ k \in Nat /\ k >= 1
      BY <1>t, <2>3
    <3>2. \A k \in 1 .. Len(frameChan) : k # 1 => k - 1 \in 1 .. Len(frameChan') /\ (k - 1) + 1 = k
      BY <1>t, <2>3
    <3>3. DOMAIN frameChan' = 1 .. Len(frameChan')
      BY <2>3
    <3> QED
      BY <1>t, <2>3, <3>1, <3>2, <3>3
  <2>5. f.id \in Ids /\ f.id \in Nat /\ f.id <= streamID /\ objOf[f.id] # Nil
    <3>1. f.id \in Ids /\ f.id \in Nat /\ Known(f.id) /\ f.id <= streamID
      BY <1>t, <2>2 DEF FrameOrder
    <3> QED
      BY <3>1, KnownOpened
  <2>6. \A k \in DOMAIN frameChan : f.id <= frameChan[k].id
    <3> SUFFICES ASSUME NEW k \in DOMAIN frameChan PROVE f.id <= frameChan[k].id
      OBVIOUS
    <3>1. k = 1 \/ 1 < k
      BY <1>t
    <3> QED
      BY <2>2, <2>5, <3>1 DEF FrameOrder
  <2>7. ASSUME NEW x \in Ids, x < f.id PROVE x \in reqDone
    <3>1. objOf[x] # Nil /\ x # streamID
      BY <1>0, <1>t, <2>5, <2>7 DEF Fresh
    <3>2. \A k \in DOMAIN frameChan : frameChan[k].id # x
      BY <1>t, <2>5, <2>6, <2>7
    <3> QED
      BY <3>1, <3>2 DEF FrameOrder
  <2>8. \A x \in seen : x <= f.id
    BY <2>2 DEF FrameOrder
  <2>9. \A j, k \in DOMAIN frameChan' : j < k => frameChan'[j].id <= frameChan'[k].id
    BY <2>4 DEF FrameOrder
  <2>10. /\ \A k \in DOMAIN frameChan' : frameChan'[k].id <= streamID'
         /\ \A x \in seen' : \A k \in DOMAIN frameChan' : x <= frameChan'[k].id
    BY <2>1, <2>4, <2>6 DEF FrameOrder
  <2>11. \A x \in Ids : objOf'[x] # Nil =>
          \/ x \in reqDone'
          \/ spc' \in Sending /\ streamID' = x
          \/ \E k \in DOMAIN frameChan' : frameChan'[k].id = x /\ frameChan'[k].last
    <3> SUFFICES ASSUME NEW x \in Ids, objOf[x] # Nil, x \notin reqDone',
                        ~ (spc \in Sending /\ streamID = x)
                 PROVE  \E k \in DOMAIN frameChan' : frameChan'[k].id = x /\ frameChan'[k].last
      BY <2>1
    <3>1. x \notin reqDone
      BY <2>1
    <3>2. PICK k \in DOMAIN frameChan : frameChan[k].id = x /\ frameChan[k].last
      BY <3>1 DEF FrameOrder
    <3>3. k # 1
      BY <2>1, <2>2, <3>2
    <3> QED
      BY <2>4, <3>2, <3>3
  <2>12. \A x \in Ids, y \in seen' : x < y => x \in reqDone'
    BY <2>1, <2>7 DEF FrameOrder
  <2>13. \E y \in seen' : \A x \in seen' : x <= y
    <3>1. f.id \in seen' /\ f.id <= f.id
      BY <2>1, <2>5
    <3>2. \A x \in seen' : x <= f.id
      BY <2>1, <2>8, <3>1
    <3> QED
      BY <3>1, <3>2
  <2> QED
    BY <2>9, <2>10, <2>11, <2>12, <2>13 DEF FrameOrder
<1>4. CASE FramesStay
  <2>1. streamID' \in Nat
    <3>1. SenderType'
      BY StepIInv DEF IInv, TypeOK
    <3> QED
      BY <3>1, IdFacts DEF SenderType
  <2>2. \A k \in DOMAIN frameChan' : frameChan'[k].id <= streamID'
    BY <1>4, <1>t, <2>1 DEF FramesStay, FrameOrder
  <2> QED
    BY <1>4, <2>2 DEF FramesStay, FrameOrder
<1> QED
  BY <1>1, <1>2, <1>3, <1>4, FrameKinds

(* Every stream is answered once; until a GOAWAY no stream ends without    *)
(* its answer, so the receiver finds the stream of every answer.           *)
AnswerOnce ==
  /\ answered \subseteq seen
  /\ Handling => rid \in answered
  /\ \A k \in DOMAIN toClient : IsAnswer(toClient[k]) =>
       /\ toClient[k].id \in answered
       /\ ~ (Handling /\ rid = toClient[k].id)
       /\ Running => toClient[k].id \notin ended
  /\ \A j, k \in DOMAIN toClient :
       IsAnswer(toClient[j]) /\ IsAnswer(toClient[k]) /\ toClient[j].id = toClient[k].id => j = k
  /\ Running => ended \subseteq answered
  /\ rpc = "take" => store[rid] # Nil

(* While the receiver runs, the stream of an answer under way is stored.   *)
LEMMA AnswerStored ==
  ASSUME IInv, AnswerOnce, rpc = "recv", toClient # << >>, IsAnswer(Head(toClient))
  PROVE  /\ Head(toClient).id \in Live /\ Head(toClient).id \in answered
         /\ store[Head(toClient).id] # Nil
<1>0. ServerType /\ Locals /\ Traced /\ Ownership
  BY DEF IInv, TypeOK
<1>1. Head(toClient) = toClient[1] /\ 1 \in DOMAIN toClient
  BY <1>0, HeadMessage
<1>2. Head(toClient).id \in answered /\ Head(toClient).id \notin ended
  BY <1>1 DEF AnswerOnce, Running
<1>3. Known(Head(toClient).id) /\ Head(toClient).id \in Ids
  BY <1>0, <1>2 DEF AnswerOnce, Traced, ServerType
<1>4. store[Head(toClient).id] # Nil
  BY <1>2, <1>3 DEF Known
<1> QED
  BY <1>0, <1>2, <1>3, <1>4 DEF Ownership, Passed

(* The steps of the receiver and of the server that matter here.           *)
AnswersStay == UNCHANGED <<toClient, answered, ended, rpc, rid>> /\ seen \subseteq seen'

LEMMA AnswerKinds ==
  ASSUME IInv, [Next]_vars, NoSlotLost
  PROVE  \/ AnswersStay
         \/ RecvHeaders \/ RecvDataOrReset \/ RecvGoAway \/ RecvWindowUpdate
         \/ EndHeaders \/ EndTaken \/ Delete \/ Release \/ GetAndDelete
         \/ EachShard \/ (\E id \in Ids : EachVisit(id))
         \/ (\E id \in Ids : Answer(id)) \/ (\E id \in Ids : GrantStream(id)) \/ GrantConn
         \/ (\E id \in seen \cup {0} : GoAway(id))
<1>1. ~ SetUpError /\ \A id \in Ids : ~ TrailingReset(id)
  BY DEF NoSlotLost, SetUpError, TrailingReset
<1>2. CASE Sender \/ Write \/ Callback \/ Cancel \/ UNCHANGED vars
  BY <1>1, <1>2 DEF Sender, Send, WaitAllow, Acquire, StoreSet, WaitStreamWindow,
     WaitConnWindow, Enqueue, Flush, WaitResponses, Write, Callback, Cancel, vars, AnswersStay,
     peerVars, recvVars, history
<1> QED
  BY <1>1, <1>2 DEF Next, Receiver, Server

(* Every step keeps it so.                                                 *)
LEMMA AnswerStep ==
  ASSUME IInv, AnswerOnce, NoSlotLost, [Next]_vars
  PROVE  AnswerOnce'
<1>0. /\ PoolType /\ SharedType /\ ReceiverType /\ ServerType /\ Locals /\ PoolInv /\ Ownership
      /\ Fresh /\ Traced
  BY DEF IInv, TypeOK
<1>t. /\ toClient \in Seq(Messages) /\ Len(toClient) \in Nat /\ DOMAIN toClient = 1 .. Len(toClient)
      /\ answered \subseteq Ids /\ seen \subseteq Ids
  BY <1>0 DEF ServerType
<1>1. ASSUME toClient # << >>, toClient' = Tail(toClient)
      PROVE  \A k \in DOMAIN toClient' : /\ k + 1 \in DOMAIN toClient /\ k + 1 # 1 /\ k \in Nat
                                         /\ toClient'[k] = toClient[k + 1]
  <2>1. /\ Len(toClient') = Len(toClient) - 1 /\ toClient' \in Seq(Messages)
        /\ \A k \in 1 .. Len(toClient') : toClient'[k] = toClient[k + 1]
    BY <1>t, <1>1, HeadTailProperties
  <2> QED
    BY <1>t, <2>1
<1>2. ASSUME NEW m \in Messages, toClient' = Append(toClient, m)
      PROVE  \A k \in DOMAIN toClient' :
               \/ k \in DOMAIN toClient /\ toClient'[k] = toClient[k]
               \/ k = Len(toClient) + 1 /\ toClient'[k] = m
  <2>1. /\ Len(toClient') = Len(toClient) + 1 /\ toClient' \in Seq(Messages)
        /\ \A k \in 1 .. Len(toClient) : toClient'[k] = toClient[k]
        /\ toClient'[Len(toClient) + 1] = m
    BY <1>t, <1>2, AppendProperties
  <2> QED
    BY <1>t, <2>1
<1>3. ASSUME toClient # << >>, toClient' = Tail(toClient), UNCHANGED <<answered, ended, seen>>,
             rpc = "recv",
             \/ UNCHANGED <<rpc, rid>>
             \/ ~ Running' /\ ~ Handling'
             \/ /\ Running' /\ rid' = Head(toClient).id /\ IsAnswer(Head(toClient))
                /\ rpc' = "take" => UNCHANGED store
      PROVE  AnswerOnce'
  <2>1. Head(toClient) = toClient[1] /\ 1 \in DOMAIN toClient
    BY <1>0, <1>3, HeadMessage
  <2>2. \A k \in DOMAIN toClient' : /\ k + 1 \in DOMAIN toClient /\ k + 1 # 1 /\ k \in Nat
                                    /\ toClient'[k] = toClient[k + 1]
    BY <1>1, <1>3
  <2>3. IsAnswer(Head(toClient)) => /\ Head(toClient).id \in answered
                                    /\ store[Head(toClient).id] # Nil
    BY <1>3, AnswerStored
  <2>4. ASSUME NEW k \in DOMAIN toClient', IsAnswer(toClient'[k])
        PROVE  /\ toClient'[k].id \in answered' /\ ~ (Handling' /\ rid' = toClient'[k].id)
               /\ Running' => toClient'[k].id \notin ended'
    <3>1. /\ k + 1 \in DOMAIN toClient /\ k + 1 # 1 /\ toClient'[k] = toClient[k + 1]
          /\ IsAnswer(toClient[k + 1])
      BY <2>2, <2>4
    <3>2. toClient[k + 1].id \in answered /\ toClient[k + 1].id \notin ended
      BY <1>3, <3>1 DEF AnswerOnce, Running
    <3>3. IsAnswer(Head(toClient)) => Head(toClient).id # toClient[k + 1].id
      BY <2>1, <3>1 DEF AnswerOnce
    <3>4. ~ (Handling' /\ rid' = toClient'[k].id)
      BY <1>3, <3>1, <3>3 DEF Handling
    <3> QED
      BY <1>3, <3>1, <3>2, <3>4
  <2>5. ASSUME NEW j \in DOMAIN toClient', NEW k \in DOMAIN toClient',
               IsAnswer(toClient'[j]), IsAnswer(toClient'[k]), toClient'[j].id = toClient'[k].id
        PROVE  j = k
    <3>1. j + 1 = k + 1
      BY <2>2, <2>5 DEF AnswerOnce
    <3> QED
      BY <2>2, <3>1
  <2>6. Handling' => rid' \in answered'
    BY <1>3, <2>3 DEF Handling
  <2>7. rpc' = "take" => store'[rid'] # Nil
    BY <1>3, <2>3 DEF Handling, Running
  <2>8. answered' \subseteq seen' /\ (Running' => ended' \subseteq answered')
    BY <1>3 DEF AnswerOnce, Running
  <2> QED
    BY <2>4, <2>5, <2>6, <2>7, <2>8 DEF AnswerOnce
<1>4. ASSUME NEW m \in Messages, toClient' = Append(toClient, m),
             UNCHANGED <<ended, seen, rpc, rid, store>>,
             \/ ~ IsAnswer(m) /\ UNCHANGED answered
             \/ m.id \in seen \ answered /\ answered' = answered \cup {m.id}
      PROVE  AnswerOnce'
  <2>1. \A k \in DOMAIN toClient' : \/ k \in DOMAIN toClient /\ toClient'[k] = toClient[k]
                                    \/ k = Len(toClient) + 1 /\ toClient'[k] = m
    BY <1>2, <1>4
  <2>2. IsAnswer(m) => /\ m.id \in answered'
                       /\ ~ (Handling /\ rid = m.id)
                       /\ Running => m.id \notin ended
                       /\ \A k \in DOMAIN toClient : IsAnswer(toClient[k]) => toClient[k].id # m.id
    BY <1>4 DEF AnswerOnce
  <2>3. UNCHANGED <<Handling, Running>> /\ answered \subseteq answered'
    BY <1>4 DEF Handling, Running
  <2>4. ASSUME NEW k \in DOMAIN toClient', IsAnswer(toClient'[k])
        PROVE  /\ toClient'[k].id \in answered' /\ ~ (Handling' /\ rid' = toClient'[k].id)
               /\ Running' => toClient'[k].id \notin ended'
    <3>1. CASE k \in DOMAIN toClient /\ toClient'[k] = toClient[k]
      BY <1>4, <2>3, <2>4, <3>1 DEF AnswerOnce
    <3>2. CASE toClient'[k] = m
      BY <1>4, <2>2, <2>3, <2>4, <3>2
    <3> QED
      BY <2>1, <3>1, <3>2
  <2>5. ASSUME NEW j \in DOMAIN toClient', NEW k \in DOMAIN toClient',
               IsAnswer(toClient'[j]), IsAnswer(toClient'[k]), toClient'[j].id = toClient'[k].id
        PROVE  j = k
    BY <2>1, <2>2, <2>5 DEF AnswerOnce
  <2>6. answered' \subseteq seen' /\ (Running' => ended' \subseteq answered')
    BY <1>4, <2>3 DEF AnswerOnce
  <2>7. Handling' => rid' \in answered'
    BY <1>4, <2>3 DEF AnswerOnce
  <2>8. rpc' = "take" => store'[rid'] # Nil
    BY <1>4 DEF AnswerOnce
  <2> QED
    BY <2>4, <2>5, <2>6, <2>7, <2>8 DEF AnswerOnce
<1>5. CASE AnswersStay
  <2>1. ASSUME rpc = "take" PROVE store'[rid] # Nil
    <3>1. PICK x \in Ids : x = rid
      BY <1>0, <2>1 DEF Locals
    <3>2. store[x] # Nil
      BY <2>1, <3>1 DEF AnswerOnce
    <3>3. x \in Live /\ Known(x)
      BY <1>0, <2>1, <3>2 DEF Ownership, Passed, Known
    <3>4. Known(x)'
      BY <3>3, KnownStays
    <3> QED
      BY <1>5, <2>1, <3>1, <3>3, <3>4 DEF Known, Live, AnswersStay
  <2>2. UNCHANGED <<Handling, Running, toClient, answered, ended, rpc, rid>> /\ seen \subseteq seen'
    BY <1>5 DEF AnswersStay, Handling, Running
  <2>3. rpc' = "take" => store'[rid'] # Nil
    BY <2>1, <2>2
  <2> QED
    BY <2>2, <2>3 DEF AnswerOnce
<1>6. CASE RecvHeaders \/ RecvDataOrReset \/ RecvGoAway \/ RecvWindowUpdate
  <2>1. /\ toClient # << >> /\ toClient' = Tail(toClient) /\ rpc = "recv"
        /\ UNCHANGED <<answered, ended, seen, store>>
    BY <1>6 DEF RecvHeaders, RecvDataOrReset, RecvGoAway, RecvWindowUpdate, Receive, peerVars,
       history
  <2>2. \/ UNCHANGED <<rpc, rid>>
        \/ ~ Running' /\ ~ Handling'
        \/ Running' /\ rid' = Head(toClient).id /\ IsAnswer(Head(toClient))
    BY <1>6 DEF RecvHeaders, RecvDataOrReset, RecvGoAway, RecvWindowUpdate, Receive, recvVars,
       Running, Handling, IsAnswer
  <2> QED
    BY <1>3, <2>1, <2>2
<1>7. CASE EndHeaders \/ EndTaken
  <2>1. /\ rid \in Ids /\ ended' = ended \cup {rid} /\ Handling /\ Running'
        /\ rpc' \in {"delete", "recv"}
        /\ rid' = rid \/ ~ Handling'
        /\ UNCHANGED <<toClient, answered, seen>>
    BY <1>0, <1>7, WhoEnds, EndKeepsPool DEF EndHeaders, EndTaken, Handling, Running, Live, peerVars
  <2>2. rid \in answered /\ Running
    BY <1>7, <2>1 DEF AnswerOnce, EndHeaders, EndTaken, Running
  <2>3. ASSUME NEW k \in DOMAIN toClient, IsAnswer(toClient[k])
        PROVE  /\ toClient[k].id \in answered /\ ~ (Handling' /\ rid' = toClient[k].id)
               /\ toClient[k].id \notin ended'
    BY <2>1, <2>2, <2>3 DEF AnswerOnce
  <2> QED
    BY <2>1, <2>2, <2>3 DEF AnswerOnce
<1>8. CASE Delete \/ Release \/ GetAndDelete
  <2>1. /\ UNCHANGED <<toClient, answered, seen, ended>> /\ Handling /\ Running /\ Running'
        /\ rid' = rid \/ ~ Handling'
        /\ rpc' # "take"
    BY <1>8 DEF Delete, Release, GetAndDelete, Handling, Running, peerVars, history
  <2> QED
    BY <2>1 DEF AnswerOnce
<1>9. CASE EachShard \/ (\E id \in Ids : EachVisit(id))
  <2>1. UNCHANGED <<toClient, answered, seen>> /\ ~ Running' /\ ~ Handling' /\ rpc' # "take"
    BY <1>9 DEF EachShard, EachVisit, Running, Handling, peerVars
  <2> QED
    BY <2>1 DEF AnswerOnce
<1>10. ASSUME NEW id \in Ids, Answer(id) PROVE AnswerOnce'
  <2>1. PICK type \in {"HEADERS", "DATA", "RST"} : Respond(id, type)
    BY <1>10 DEF Answer
  <2> DEFINE m == [type |-> type, id |-> id, n |-> 0]
  <2>2. m \in Messages /\ m.id = id
    BY DEF Messages
  <2>3. /\ toClient' = Append(toClient, m) /\ UNCHANGED <<ended, seen, rpc, rid, store>>
        /\ id \in seen \ answered /\ answered' = answered \cup {id}
    BY <2>1 DEF Respond, Transmit, recvVars, history
  <2> HIDE DEF m
  <2> QED
    BY <1>4, <2>2, <2>3
<1>11. ASSUME NEW m \in Messages, ~ IsAnswer(m), Transmit(m), UNCHANGED answered
       PROVE  AnswerOnce'
  <2>1. toClient' = Append(toClient, m) /\ UNCHANGED <<ended, seen, rpc, rid, store>>
    BY <1>11 DEF Transmit, recvVars, history
  <2> QED
    BY <1>4, <1>11, <2>1
<1>12. ASSUME NEW id \in Ids, GrantStream(id) PROVE AnswerOnce'
  <2> DEFINE m == [type |-> "WINDOW_UPDATE", id |-> id, n |-> InitialWindow - win[id]]
  <2>1. m \in Messages /\ ~ IsAnswer(m) /\ Transmit(m) /\ UNCHANGED answered
    BY <1>12, LedgerTypes DEF GrantStream, Messages, IsAnswer
  <2> HIDE DEF m
  <2> QED
    BY <1>11, <2>1
<1>13. CASE GrantConn
  <2> DEFINE m == [type |-> "WINDOW_UPDATE", id |-> 0, n |-> ConnWindow - connWin]
  <2>1. m \in Messages /\ ~ IsAnswer(m) /\ Transmit(m) /\ UNCHANGED answered
    BY <1>13, LedgerTypes DEF GrantConn, Messages, IsAnswer
  <2> HIDE DEF m
  <2> QED
    BY <1>11, <2>1
<1>14. ASSUME NEW id \in seen \cup {0}, GoAway(id) PROVE AnswerOnce'
  <2> DEFINE m == [type |-> "GOAWAY", id |-> 0, n |-> id]
  <2>1. id \in Nat
    BY <1>t, IdFacts
  <2>2. m \in Messages /\ ~ IsAnswer(m) /\ Transmit(m) /\ UNCHANGED answered
    BY <1>14, <2>1 DEF GoAway, Messages, IsAnswer
  <2> HIDE DEF m
  <2> QED
    BY <1>11, <2>2
<1> QED
  BY <1>5, <1>6, <1>7, <1>8, <1>9, <1>10, <1>12, <1>13, <1>14, AnswerKinds

(* The streams the server may still count, as far as the client opened     *)
(* them.                                                                   *)
Unanswered == {x \in Ids : objOf[x] # Nil /\ x \notin answered}
Below(id) == {x \in Unanswered : x < id}

(* Each of them holds a slot, also behind a GOAWAY, when no slot is given  *)
(* back any more.                                                          *)
SlotsLeft ==
  Limited => quota + Cardinality(Unanswered) + One(spc = "acquire") <= MaxConcurrentStreams

(* A stream was opened when there was room for it, and those before it     *)
(* have only become fewer.                                                 *)
Room ==
  Limited => \A id \in Ids : objOf[id] # Nil => Cardinality(Below(id)) < MaxConcurrentStreams

SInv == IInv /\ FrameOrder /\ AnswerOnce /\ SlotsExact /\ SlotsLeft /\ Room

(* A part of a finite set has no more elements; finitely many ids.         *)
LEMMA FewerInPart ==
  ASSUME NEW T, NEW S, T \subseteq S, S \subseteq Ids
  PROVE  /\ IsFiniteSet(T) /\ IsFiniteSet(S) /\ Cardinality(T) <= Cardinality(S)
         /\ Cardinality(T) \in Nat /\ Cardinality(S) \in Nat
<1>1. 2 * MaxRequests + 1 \in Int /\ 0 \in Int /\ Ids \subseteq 0 .. 2 * MaxRequests + 1
  BY IdFacts, Numbers
<1>2. IsFiniteSet(0 .. 2 * MaxRequests + 1)
  BY <1>1, FS_Interval
<1>3. IsFiniteSet(S)
  BY <1>1, <1>2, FS_Subset
<1>4. IsFiniteSet(T) /\ Cardinality(T) <= Cardinality(S)
  BY <1>3, FS_Subset
<1> QED
  BY <1>3, <1>4, FS_CardinalityType

(* Until a GOAWAY, an unanswered stream is live.                           *)
LEMMA UnansweredLive ==
  ASSUME AnswerOnce, Running
  PROVE  Unanswered \subseteq Live
  BY DEF Unanswered, Live, AnswerOnce

SlotsStay ==
  /\ UNCHANGED <<quota, objOf, inUse, answered, rpc>>
  /\ spc' = "acquire" <=> spc = "acquire"

LEMMA SlotKinds ==
  ASSUME IInv, [Next]_vars, NoSlotLost
  PROVE  \/ SlotsStay \/ WaitAllow \/ Acquire
         \/ RecvHeaders \/ RecvDataOrReset \/ RecvGoAway
         \/ EndHeaders \/ EndTaken \/ Delete \/ Release \/ GetAndDelete
         \/ EachShard \/ (\E id \in Ids : EachVisit(id)) \/ (\E id \in Ids : Answer(id))
<1>1. ~ SetUpError
  BY DEF NoSlotLost, SetUpError
<1>2. \A id \in Ids : ~ TrailingReset(id)
  BY DEF NoSlotLost, TrailingReset
<1>3. CASE \/ Send \/ StoreSet \/ WaitStreamWindow \/ WaitConnWindow \/ Enqueue \/ Flush
           \/ WaitResponses
  BY <1>3 DEF Send, StoreSet, WaitStreamWindow, WaitConnWindow, Enqueue, Flush, WaitResponses,
     SlotsStay, poolVars, peerVars, recvVars, history
<1>4. CASE \/ Write \/ Callback \/ Cancel \/ UNCHANGED vars \/ RecvWindowUpdate
           \/ (\E id \in Ids : GrantStream(id)) \/ GrantConn
           \/ (\E id \in seen \cup {0} : GoAway(id))
  BY <1>4 DEF Write, Callback, Cancel, vars, RecvWindowUpdate, GrantStream, GrantConn, GoAway,
     Transmit, SlotsStay, senderVars, poolVars, peerVars, recvVars, history
<1> QED
  BY <1>1, <1>2, <1>3, <1>4 DEF Next, Sender, Receiver, Server

(* No step loses a slot or makes one up.                                   *)
LEMMA SlotsExactStep ==
  ASSUME SInv, NoSlotLost, [Next]_vars
  PROVE  SlotsExact'
<1>0. /\ IInv /\ SenderType /\ PoolType /\ SharedType /\ ReceiverType /\ ServerType /\ Locals
      /\ Fresh /\ PoolInv /\ Ownership /\ AnswerOnce
  BY DEF SInv, IInv, TypeOK
<1> DEFINE Exact == Limited /\ Running =>
                      quota + inUse + One(spc = "acquire") + One(rpc \in {"delete", "release"})
                        = MaxConcurrentStreams + One(rpc \in {"take", "endTaken"})
<1>1. Exact
  BY <1>0 DEF SInv, SlotsExact, PoolInv, InUseExact, Running
<1>2. SUFFICES Exact'
  <2>1. InUseExact'
    BY <1>0, StepIInv DEF IInv, PoolInv
  <2> QED
    BY <1>2, <2>1 DEF SlotsExact, InUseExact, Running
<1>t. inUse \in Nat /\ quota \in Nat /\ MaxConcurrentStreams \in Nat
  BY <1>0, Numbers DEF PoolType, SharedType
<1> USE DEF One, Running
<1>3. CASE SlotsStay
  BY <1>1, <1>3 DEF SlotsStay, Limited
<1>4. CASE WaitAllow
  <2>1. /\ spc = "allow" /\ spc' = "acquire" /\ UNCHANGED <<inUse, rpc>>
        /\ Limited => quota > 0 /\ quota' = quota - 1
    BY <1>4 DEF WaitAllow, TakeSlot, poolVars, recvVars
  <2> QED
    BY <1>1, <1>t, <2>1 DEF Limited
<1>5. CASE Acquire
  <2>1. spc = "acquire" /\ spc' = "setup" /\ inUse' = inUse + 1 /\ UNCHANGED <<quota, rpc>>
    BY <1>5 DEF Acquire, recvVars
  <2> QED
    BY <1>1, <1>t, <2>1 DEF Limited
<1>6. CASE RecvHeaders
  <2>1. rpc = "recv" /\ rpc' \in {"recv", "endHeaders"} /\ UNCHANGED <<inUse, quota, spc>>
    BY <1>6 DEF RecvHeaders, Receive, poolVars, senderVars
  <2> QED
    BY <1>1, <1>t, <2>1 DEF Limited
<1>7. CASE RecvDataOrReset
  <2>1. /\ rpc = "recv" /\ rpc' = "take" /\ UNCHANGED <<inUse, spc>>
        /\ Limited => quota' = quota + 1
    BY <1>7 DEF RecvDataOrReset, Receive, GiveSlot, poolVars, senderVars
  <2> QED
    BY <1>1, <1>t, <2>1 DEF Limited
<1>8. CASE RecvGoAway \/ EachShard \/ (\E id \in Ids : EachVisit(id))
  <2>1. rpc' \in {"each", "stopped"}
    BY <1>8 DEF RecvGoAway, EachShard, EachVisit
  <2> QED
    BY <2>1
<1>9. CASE EndHeaders
  <2>1. /\ rpc = "endHeaders" /\ rpc' = "delete" /\ UNCHANGED <<quota, spc>>
        /\ inUse' = inUse - 1
    BY <1>9 DEF EndHeaders, EndStream, senderVars
  <2> QED
    BY <1>1, <1>t, <2>1 DEF Limited
<1>10. CASE EndTaken
  <2>1. rpc = "endTaken" /\ rpc' = "recv" /\ UNCHANGED <<quota, spc>> /\ inUse' = inUse - 1
    BY <1>10 DEF EndTaken, EndStream, senderVars
  <2> QED
    BY <1>1, <1>t, <2>1 DEF Limited
<1>11. CASE Delete
  <2>1. rpc = "delete" /\ rpc' = "release" /\ UNCHANGED <<quota, spc, inUse>>
    BY <1>11 DEF Delete, poolVars, senderVars
  <2> QED
    BY <1>1, <1>t, <2>1 DEF Limited
<1>12. CASE Release
  <2>1. /\ rpc = "release" /\ rpc' = "recv" /\ UNCHANGED <<spc, inUse>>
        /\ Limited => quota' = quota + 1
    BY <1>12 DEF Release, GiveSlot, poolVars, senderVars
  <2> QED
    BY <1>1, <1>t, <2>1 DEF Limited
<1>13. CASE GetAndDelete
  <2>1. store[rid] # Nil
    BY <1>0, <1>13 DEF AnswerOnce, GetAndDelete
  <2>2. rpc = "take" /\ rpc' = "endTaken" /\ UNCHANGED <<quota, spc, inUse>>
    BY <1>13, <2>1 DEF GetAndDelete, poolVars, senderVars
  <2> QED
    BY <1>1, <1>t, <2>2 DEF Limited
<1>14. CASE \E id \in Ids : Answer(id)
  <2>1. UNCHANGED <<quota, spc, inUse, rpc>>
    BY <1>14 DEF Answer, Respond, Transmit, poolVars, senderVars, recvVars
  <2> QED
    BY <1>1, <2>1 DEF Limited
<1> QED
  BY <1>0, <1>3, <1>4, <1>5, <1>6, <1>7, <1>8, <1>9, <1>10, <1>11, <1>12, <1>13, <1>14, SlotKinds

(* A slot is given back only for a stream that is answered.                *)
LEMMA SlotsLeftStep ==
  ASSUME SInv, NoSlotLost, [Next]_vars, Limited
  PROVE  quota' + Cardinality(Unanswered') + One(spc' = "acquire") <= MaxConcurrentStreams
<1>0. /\ IInv /\ SenderType /\ PoolType /\ SharedType /\ ReceiverType /\ ServerType /\ Locals
      /\ Fresh /\ PoolInv /\ Ownership /\ AnswerOnce
  BY DEF SInv, IInv, TypeOK
<1> DEFINE U == Unanswered
           V == Unanswered'
<1>1. quota + Cardinality(U) + One(spc = "acquire") <= MaxConcurrentStreams
  BY DEF SInv, SlotsLeft
<1>2. Running => quota + inUse + One(spc = "acquire") + One(rpc \in {"delete", "release"})
                   = MaxConcurrentStreams + One(rpc \in {"take", "endTaken"})
  BY <1>0 DEF SInv, SlotsExact, PoolInv, InUseExact, Running
<1>3. U \subseteq Ids /\ V \subseteq Ids /\ Live \subseteq Ids
  BY DEF Unanswered, Live
<1>4. inUse = Cardinality(Live) /\ (Running => U \subseteq Live)
  BY <1>0, UnansweredLive DEF PoolInv, InUseExact
<1>5. UNCHANGED <<objOf, answered>> => V = U
  BY DEF Unanswered
<1>u. U = {x \in Ids : objOf[x] # Nil /\ x \notin answered}
  BY DEF Unanswered
<1>v. V = {x \in Ids : objOf'[x] # Nil /\ x \notin answered'}
  BY DEF Unanswered
<1> HIDE DEF U, V
<1>t. /\ inUse \in Nat /\ quota \in Nat /\ MaxConcurrentStreams \in Nat
      /\ Cardinality(U) \in Nat /\ Cardinality(V) \in Nat
      /\ One(spc = "acquire") \in {0, 1} /\ One(spc' = "acquire") \in {0, 1}
  BY <1>0, <1>3, Numbers, FewerInPart DEF PoolType, SharedType, One
<1>g. SUFFICES quota' + Cardinality(V) + One(spc' = "acquire") <= MaxConcurrentStreams
  BY <1>g DEF V
<1>6. ASSUME UNCHANGED <<quota, spc>>, V \subseteq U
      PROVE  quota' + Cardinality(V) + One(spc' = "acquire") <= MaxConcurrentStreams
  <2>1. Cardinality(V) <= Cardinality(U)
    BY <1>3, <1>6, FewerInPart
  <2> QED
    BY <1>1, <1>6, <1>t, <2>1 DEF One
<1>7. CASE SlotsStay
  <2>1. V = U /\ quota' = quota /\ (spc' = "acquire" <=> spc = "acquire")
    BY <1>5, <1>7 DEF SlotsStay
  <2> QED
    BY <1>1, <2>1 DEF One
<1>8. CASE WaitAllow
  <2>1. /\ spc = "allow" /\ spc' = "acquire" /\ quota' = quota - 1
        /\ UNCHANGED <<objOf, answered>>
    BY <1>8 DEF WaitAllow, TakeSlot, history, peerVars
  <2> QED
    BY <1>1, <1>5, <1>t, <2>1 DEF One
<1>9. CASE Acquire
  <2>1. /\ spc = "acquire" /\ spc' = "setup" /\ UNCHANGED <<quota, answered>>
        /\ streamID \in Ids /\ objOf' = [objOf EXCEPT ![streamID] = stream']
    BY <1>0, <1>9, AcquireKeepsPool DEF Acquire, peerVars
  <2>2. V \subseteq U \cup {streamID}
    BY <1>0, <1>u, <1>v, <2>1 DEF PoolType
  <2>3. U \cup {streamID} \subseteq Ids /\ IsFiniteSet(U)
    BY <1>3, <2>1, FewerInPart
  <2>4. Cardinality(V) <= Cardinality(U \cup {streamID})
    BY <2>2, <2>3, FewerInPart
  <2>5. Cardinality(U \cup {streamID}) = Cardinality(U) \/
        Cardinality(U \cup {streamID}) = Cardinality(U) + 1
    BY <2>3, FS_AddElement
  <2> QED
    BY <1>1, <1>t, <2>1, <2>4, <2>5 DEF One
<1>10. CASE RecvDataOrReset
  <2>1. /\ rpc = "recv" /\ UNCHANGED <<objOf, answered, spc>> /\ quota' = quota + 1
        /\ toClient # << >> /\ IsAnswer(Head(toClient))
    BY <1>10 DEF RecvDataOrReset, Receive, GiveSlot, IsAnswer, senderVars, history, peerVars
  <2>2. Head(toClient).id \in Live /\ Head(toClient).id \in answered
    BY <1>0, <2>1, AnswerStored
  <2>3. U \subseteq Live \ {Head(toClient).id}
    BY <1>4, <1>u, <2>1, <2>2 DEF Running
  <2>4. IsFiniteSet(Live) /\ Live \ {Head(toClient).id} \subseteq Ids
    BY <1>0, <1>3 DEF PoolInv
  <2>5. Cardinality(Live \ {Head(toClient).id}) = Cardinality(Live) - 1
    BY <2>2, <2>4, FS_RemoveElement
  <2>6. Cardinality(U) <= inUse - 1
    BY <1>4, <2>3, <2>4, <2>5, FewerInPart
  <2>7. quota + inUse + One(spc = "acquire") = MaxConcurrentStreams
    BY <1>2, <1>t, <2>1 DEF Running, One
  <2> QED
    BY <1>5, <1>t, <2>1, <2>6, <2>7
<1>11. CASE Release
  <2>1. rpc = "release" /\ UNCHANGED <<objOf, answered, spc>> /\ quota' = quota + 1
    BY <1>11 DEF Release, GiveSlot, senderVars, history, peerVars
  <2>2. Cardinality(U) <= inUse
    BY <1>3, <1>4, <2>1, FewerInPart DEF Running
  <2>3. quota + inUse + One(spc = "acquire") + 1 = MaxConcurrentStreams
    BY <1>2, <1>t, <2>1 DEF Running, One
  <2> QED
    BY <1>5, <1>t, <2>1, <2>2, <2>3
<1>12. CASE \E id \in Ids : Answer(id)
  <2>1. UNCHANGED <<quota, spc, objOf>> /\ answered \subseteq answered'
    BY <1>12 DEF Answer, Respond, Transmit, senderVars, history
  <2>2. V \subseteq U
    BY <1>u, <1>v, <2>1
  <2> QED
    BY <1>6, <2>1, <2>2
<1>13. CASE \/ RecvHeaders \/ RecvGoAway \/ EndHeaders \/ EndTaken \/ Delete \/ GetAndDelete
            \/ EachShard \/ (\E id \in Ids : EachVisit(id))
  <2>1. UNCHANGED <<quota, spc, objOf, answered>>
    BY <1>13 DEF RecvHeaders, RecvGoAway, EndHeaders, EndTaken, Delete, GetAndDelete, EachShard,
       EachVisit, EndStream, senderVars, history, peerVars
  <2> QED
    BY <1>5, <1>6, <2>1
<1> QED
  BY <1>0, <1>7, <1>8, <1>9, <1>10, <1>11, <1>12, <1>13, SlotKinds

(* A stream opens with room for it.                                        *)
LEMMA RoomStep ==
  ASSUME SInv, NoSlotLost, [Next]_vars, Limited, NEW id \in Ids, objOf'[id] # Nil
  PROVE  Cardinality(Below(id)') < MaxConcurrentStreams
<1>0. /\ IInv /\ SenderType /\ PoolType /\ SharedType /\ Locals /\ Fresh /\ PoolInv
  BY DEF SInv, IInv, TypeOK
<1> DEFINE B == Below(id)
           C == Below(id)'
<1>1. /\ B = {x \in Ids : objOf[x] # Nil /\ x \notin answered /\ x < id}
      /\ C = {x \in Ids : objOf'[x] # Nil /\ x \notin answered' /\ x < id}
  BY DEF Below, Unanswered
<1>2. objOf[id] # Nil => Cardinality(B) < MaxConcurrentStreams
  BY DEF SInv, Room
<1> HIDE DEF B, C
<1>3. MaxConcurrentStreams \in Nat /\ quota \in Nat
  BY <1>0, Numbers DEF SharedType
<1>g. SUFFICES Cardinality(C) < MaxConcurrentStreams
  BY <1>g DEF C
<1>4. ASSUME objOf[id] # Nil, C \subseteq B PROVE Cardinality(C) < MaxConcurrentStreams
  <2>1. B \subseteq Ids
    BY <1>1
  <2>2. Cardinality(C) <= Cardinality(B) /\ Cardinality(C) \in Nat /\ Cardinality(B) \in Nat
    BY <1>4, <2>1, FewerInPart
  <2> QED
    BY <1>2, <1>3, <1>4, <2>2
<1>5. CASE Acquire
  <2>1. /\ spc = "acquire" /\ UNCHANGED answered
        /\ streamID \in Ids /\ objOf' = [objOf EXCEPT ![streamID] = stream']
    BY <1>0, <1>5, AcquireKeepsPool DEF Acquire, peerVars
  <2>2. \A x \in Ids : x # streamID => objOf'[x] = objOf[x]
    BY <1>0, <2>1 DEF PoolType
  <2>3. \A x \in Ids : x \in Nat
    BY IdFacts
  <2>4. CASE id = streamID
    <3>1. C \subseteq Unanswered /\ Unanswered \subseteq Ids
      BY <1>1, <2>1, <2>2, <2>3, <2>4 DEF Unanswered
    <3>2. /\ Cardinality(C) <= Cardinality(Unanswered)
          /\ Cardinality(C) \in Nat /\ Cardinality(Unanswered) \in Nat
      BY <3>1, FewerInPart
    <3>3. quota + Cardinality(Unanswered) + 1 <= MaxConcurrentStreams
      BY <2>1 DEF SInv, SlotsLeft, One
    <3> QED
      BY <1>3, <3>2, <3>3
  <2>5. CASE id # streamID
    <3>1. objOf[id] # Nil /\ id < streamID
      BY <1>0, <2>1, <2>2, <2>5 DEF Fresh, Opening
    <3>2. C \subseteq B
      BY <1>1, <2>1, <2>2, <2>3, <3>1
    <3> QED
      BY <1>4, <3>1, <3>2
  <2> QED
    BY <2>4, <2>5
<1>6. CASE UNCHANGED objOf /\ answered \subseteq answered'
  <2>1. C \subseteq B
    BY <1>1, <1>6
  <2> QED
    BY <1>4, <1>6, <2>1
<1>7. Acquire \/ (UNCHANGED objOf /\ answered \subseteq answered')
  <2>1. SlotsStay => UNCHANGED objOf /\ answered \subseteq answered'
    BY DEF SlotsStay
  <2>2. (\E x \in Ids : Answer(x)) => UNCHANGED objOf /\ answered \subseteq answered'
    BY DEF Answer, Respond, Transmit, history
  <2>3. \/ WaitAllow \/ RecvHeaders \/ RecvDataOrReset \/ RecvGoAway
        \/ EndHeaders \/ EndTaken \/ Delete \/ Release \/ GetAndDelete
        \/ EachShard \/ (\E x \in Ids : EachVisit(x))
        => UNCHANGED <<objOf, answered>>
    BY DEF WaitAllow, RecvHeaders, RecvDataOrReset, RecvGoAway, EndHeaders, EndTaken, Delete,
       Release, GetAndDelete, EachShard, EachVisit, EndStream, history, peerVars
  <2> QED
    BY <1>0, <2>1, <2>2, <2>3, SlotKinds
<1> QED
  BY <1>5, <1>6, <1>7

LEMMA SInvariance == NoSlotLost /\ Spec => []SInv
<1>1. Init => SInv
  <2> SUFFICES ASSUME Init PROVE SInv
    OBVIOUS
  <2>1. IInv /\ SharedType
    BY InitIInv DEF IInv, TypeOK
  <2>2. /\ frameChan = << >> /\ toClient = << >> /\ spc = "idle" /\ rpc = "recv" /\ seen = {}
        /\ answered = {} /\ ended = {} /\ objOf = [id \in Ids |-> Nil] /\ inUse = 0
        /\ quota = MaxConcurrentStreams
    BY DEF Init
  <2>3. DOMAIN << >> = {}
    OBVIOUS
  <2>4. FrameOrder
    BY <2>2, <2>3 DEF FrameOrder
  <2>5. AnswerOnce
    BY <2>2, <2>3 DEF AnswerOnce, Handling
  <2>6. Cardinality(Live) = 0
    BY <2>1, <2>2 DEF IInv, PoolInv, InUseExact
  <2>7. MaxConcurrentStreams \in Nat
    BY Numbers
  <2>8. SlotsExact
    BY <2>2, <2>6, <2>7 DEF SlotsExact, One
  <2>9. Unanswered = {} /\ Cardinality({}) = 0
    BY <2>2, FS_EmptySet DEF Unanswered
  <2>10. SlotsLeft
    BY <2>2, <2>7, <2>9 DEF SlotsLeft, One
  <2>11. Room
    BY <2>2 DEF Room
  <2> QED
    BY <2>1, <2>4, <2>5, <2>8, <2>10, <2>11 DEF SInv
<1>2. NoSlotLost /\ SInv /\ [Next]_vars => SInv'
  <2> SUFFICES ASSUME NoSlotLost, SInv, [Next]_vars PROVE SInv'
    OBVIOUS
  <2>1. IInv' /\ FrameOrder' /\ AnswerOnce'
    BY StepIInv, FrameStep, AnswerStep DEF SInv
  <2>2. SlotsLeft'
    BY SlotsLeftStep DEF SlotsLeft, Limited
  <2>3. Room'
    <3>1. ASSUME Limited, NEW id \in Ids, objOf'[id] # Nil
          PROVE  Cardinality(Below(id)') < MaxConcurrentStreams
      BY <3>1, RoomStep
    <3> QED
      BY <3>1 DEF Room, Limited
  <2> QED
    BY <2>1, <2>2, <2>3, SlotsExactStep DEF SInv
<1>3. (NoSlotLost)' <=> NoSlotLost
  BY DEF NoSlotLost
<1> QED
  BY <1>1, <1>2, <1>3, PTL DEF Spec

(* The limiter, the pool and the receiver together keep                    *)
(* SETTINGS_MAX_CONCURRENT_STREAMS: the count of free slots is exact until *)
(* a GOAWAY, and the server never has more streams open than it allows,    *)
(* also when it answers early and when it goes away - as long as SetUp     *)
(* refuses no request and no RST_STREAM follows an answer.                 *)
THEOREM SlotsSafe == NoSlotLost /\ Spec => []SlotsSound
<1>1. SInv => SlotsSound
  <2> SUFFICES ASSUME SInv PROVE SlotsSound
    OBVIOUS
  <2>0. IInv /\ FrameOrder /\ ServerType /\ Traced
    BY DEF SInv, IInv, TypeOK
  <2> DEFINE Active == {id \in seen : id \in answered => id \in early \ reqDone}
  <2>1. ASSUME Limited PROVE Cardinality(Active) <= MaxConcurrentStreams
    <3>1. MaxConcurrentStreams \in Nat /\ MaxConcurrentStreams # 0
      BY <2>1, Numbers DEF Limited
    <3>2. CASE seen = {}
      <4>1. Active = {} /\ Cardinality({}) = 0
        BY <3>2, FS_EmptySet
      <4> QED
        BY <3>1, <4>1
    <3>3. CASE seen # {}
      <4>1. PICK y \in seen : \A x \in seen : x <= y
        BY <2>0, <3>3 DEF FrameOrder
      <4>2. seen \subseteq Ids /\ \A x \in Ids : x \in Nat
        BY <2>0, IdFacts DEF ServerType
      <4>3. \A x \in seen : objOf[x] # Nil
        BY <2>0, <4>2, KnownOpened DEF Traced
      <4>4. Cardinality(Below(y)) < MaxConcurrentStreams
        BY <2>1, <4>1, <4>2, <4>3 DEF SInv, Room
      <4>5. Active \subseteq Below(y) \cup {y}
        <5> SUFFICES ASSUME NEW x \in Active, x # y PROVE x \in Below(y)
          OBVIOUS
        <5>1. x \in seen /\ x \in Ids /\ y \in Ids /\ x < y
          BY <4>1, <4>2
        <5>2. x \in reqDone
          BY <2>0, <4>1, <5>1 DEF FrameOrder
        <5>3. x \notin answered
          BY <5>2
        <5> QED
          BY <4>3, <5>1, <5>3 DEF Below, Unanswered
      <4>6. Below(y) \cup {y} \subseteq Ids /\ Below(y) \subseteq Ids
        BY <4>1, <4>2 DEF Below, Unanswered
      <4> HIDE DEF Active
      <4>7. /\ Cardinality(Active) <= Cardinality(Below(y) \cup {y}) /\ IsFiniteSet(Below(y))
            /\ Cardinality(Active) \in Nat /\ Cardinality(Below(y)) \in Nat
        BY <4>5, <4>6, FewerInPart
      <4>8. Cardinality(Below(y) \cup {y}) = Cardinality(Below(y)) + 1
        <5>1. y \notin Below(y)
          BY <4>1, <4>2 DEF Below
        <5> QED
          BY <4>7, <5>1, FS_AddElement
      <4> QED
        BY <3>1, <4>4, <4>7, <4>8
    <3> QED
      BY <3>2, <3>3
  <2>2. ConcurrencyLimit
    BY <2>1 DEF ConcurrencyLimit
  <2> QED
    BY <2>2 DEF SInv, SlotsSound
<1> QED
  BY <1>1, SInvariance, PTL
=============================================================================
