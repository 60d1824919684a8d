-------------------------- MODULE ConverterProofs --------------------------
(***************************************************************************)
(* For any number of messages, goroutines and failures: the output is in   *)
(* the order of the input, and no read buffer has two owners.              *)
(*                                                                         *)
(* The messages under way are wi + 1 .. i: the reader has sent i, and the  *)
(* writer has taken wi.  Message n goes to goroutine (n - 1) % NumThreads, *)
(* and the writer asks that goroutine for it.  What makes the turns agree  *)
(* is that no message under way is missing and that a goroutine has its    *)
(* messages in order; no more is needed of % than that it chooses some     *)
(* goroutine.                                                              *)
(***************************************************************************)
EXTENDS Converter, SequenceTheorems, TLAPS

(* The goroutine that converts message n.                                  *)
ThreadOf(n) == (n - 1) % NumThreads

(* The message in the buffer of an item.                                   *)
Message(item) == mem[item.buf]

Busy(t) == citem[t].buf # 0

(* An item of goroutine t has a message that is under way, and is t's.     *)
UnderWay(t, item) ==
  /\ item.buf \in DOMAIN mem
  /\ Message(item) \in wi + 1 .. i /\ ThreadOf(Message(item)) = t

(* The reader's item is message i + 1, not sent yet.                       *)
ReaderHas ==
  /\ rpc = "send" => ritem.buf # 0
  /\ rpc = "read" => ritem = NoItem
  /\ ritem.buf # 0 => ritem.buf \in DOMAIN mem /\ Message(ritem) = i + 1 /\ i < NumMessages

(* The items of the converting goroutines, with the results so far.        *)
ConvertersHave ==
  \A t \in Threads :
    /\ cpc[t] \in {"decode", "encode", "send"} => Busy(t)
    /\ cpc[t] = "recv" => ~ Busy(t)
    /\ Busy(t) => UnderWay(t, citem[t])
    /\ cpc[t] = "encode" => input[Message(citem[t])] # "undecodable"
    /\ cpc[t] = "send" => /\ citem[t].value = Message(citem[t])
                          /\ citem[t].convertErr = (input[Message(citem[t])] # "ok")
    /\ \A k \in DOMAIN readChans[t] : UnderWay(t, readChans[t][k])

(* A goroutine has its messages in the order of the input.                 *)
InTurn ==
  \A t \in Threads : \A k \in DOMAIN readChans[t] :
    /\ Busy(t) => Message(citem[t]) < Message(readChans[t][k])
    /\ \A j \in DOMAIN readChans[t] : j < k => Message(readChans[t][j]) < Message(readChans[t][k])

(* Goroutine t has message n.                                              *)
Has(t, n) ==
  \/ Busy(t) /\ Message(citem[t]) = n
  \/ \E k \in DOMAIN readChans[t] : Message(readChans[t][k]) = n

(* No message under way is lost.                                           *)
NoneLost == wi <= i /\ \A n \in wi + 1 .. i : Has(ThreadOf(n), n)

(* The writer's item is the message it took last, converted.               *)
WriterHas ==
  /\ wpc = "recv" => wi = Len(handled) /\ closedChans < NumThreads
  /\ wpc = "write" => /\ witem.buf \in DOMAIN mem /\ Message(witem) = wi
                      /\ witem.value = wi /\ witem.convertErr = (input[wi] # "ok")
                      /\ wi = Len(handled) + 1
                      /\ closedChans < NumThreads
  /\ wpc # "write" => witem.buf = 0

(* The free buffers are nobody's.                                          *)
Free(b) ==
  /\ ritem.buf # b /\ witem.buf # b
  /\ \A t \in Threads : /\ citem[t].buf # b
                        /\ \A k \in DOMAIN readChans[t] : readChans[t][k].buf # b

PoolFree ==
  /\ \A a \in DOMAIN pool : Free(pool[a])
  /\ \A a, b \in DOMAIN pool : pool[a] = pool[b] => a = b

IInv == /\ TypeOK /\ ReaderHas /\ ConvertersHave /\ InTurn /\ NoneLost /\ WriterHas /\ PoolFree
        /\ OutputInOrder

-----------------------------------------------------------------------------
(* The bounds are numbers, and every message has a goroutine.              *)
LEMMA Sizes ==
  /\ NumMessages \in Nat /\ NumThreads \in Nat \ {0}
  /\ \A n \in Nat : n % NumThreads \in Threads
  /\ \A n \in Nat : n % NumThreads = ThreadOf(n + 1)
<1>1. NumMessages \in Nat /\ NumThreads \in Nat \ {0}
  BY SizesAssumption
<1>2. \A n \in Nat : n % NumThreads \in 0 .. NumThreads - 1
  BY <1>1
<1>3. ASSUME NEW n \in Nat PROVE n % NumThreads = ThreadOf(n + 1)
  <2>1. (n + 1) - 1 = n
    OBVIOUS
  <2> QED
    BY <2>1 DEF ThreadOf
<1> QED
  BY <1>1, <1>2, <1>3 DEF Threads

LEMMA NoItemType == NoItem \in Items /\ NoItem.buf = 0
  BY Sizes DEF NoItem, Items

(* Nothing but program counters and the group change, and a counter that   *)
(* changes goes to the end.                                                *)
Quiet ==
  /\ UNCHANGED <<input, failOnConvertErrors, i, ritem, readChans, citem, wi, witem, bufVars,
                 handled>>
  /\ rpc' \in {rpc, "exit"}
  /\ cpc' \in [Threads -> {"recv", "decode", "encode", "send", "exit"}]
  /\ \A t \in Threads : cpc'[t] \in {cpc[t], "exit"}
  /\ wpc' \in {wpc, "exit"} /\ (wpc' = wpc \/ wpc # "write")
  /\ closedChans' \in 0 .. NumThreads
  /\ wpc' # "exit" => closedChans' < NumThreads
  /\ cancelled' \in BOOLEAN
  /\ err' \in {"none", "read", "write", "errWriter", "convert", "ctx"}

LEMMA QuietKeeps == IInv /\ Quiet => IInv'
<1> SUFFICES ASSUME IInv, Quiet PROVE IInv'
  OBVIOUS
<1>0. /\ input' = input /\ failOnConvertErrors' = failOnConvertErrors /\ i' = i
      /\ ritem' = ritem /\ readChans' = readChans /\ citem' = citem /\ wi' = wi
      /\ witem' = witem /\ pool' = pool /\ mem' = mem /\ handled' = handled
  BY DEF Quiet, bufVars
<1>1. TypeOK'
  BY <1>0 DEF IInv, TypeOK, Quiet, Items
<1>2. ReaderHas'
  BY <1>0 DEF IInv, ReaderHas, Quiet, Message
<1>3. ConvertersHave'
  BY <1>0 DEF IInv, ConvertersHave, Quiet, Message, Busy, UnderWay, ThreadOf
<1>4. InTurn' /\ NoneLost'
  BY <1>0 DEF IInv, InTurn, NoneLost, Has, Message, Busy, ThreadOf
<1>5. WriterHas'
  BY <1>0 DEF IInv, WriterHas, Quiet, Message
<1>6. PoolFree' /\ OutputInOrder'
  BY <1>0 DEF IInv, PoolFree, Free, OutputInOrder
<1> QED
  BY <1>1, <1>2, <1>3, <1>4, <1>5, <1>6 DEF IInv

(* The steps that only end a goroutine, or cancel.                         *)
LEMMA QuietSteps ==
  ASSUME IInv,
         \/ ReadEnds \/ ReadDone \/ WriteDone \/ WriteChanClosed \/ Cancel
         \/ \E t \in Threads : ReadChanClosed(t) \/ ConvertDone(t)
         \/ UNCHANGED vars
  PROVE  Quiet
<1>0. TypeOK /\ WriterHas
  BY DEF IInv
<1>g. \A e \in {"read", "ctx"} :
        Fail(e) => /\ cancelled' \in BOOLEAN
                   /\ err' \in {"none", "read", "write", "errWriter", "convert", "ctx"}
  BY <1>0 DEF Fail, TypeOK
<1>w. wpc # "exit" => closedChans < NumThreads
  BY <1>0 DEF WriterHas, TypeOK
<1>1. CASE ReadEnds
  BY <1>0, <1>1, <1>g, <1>w
  DEF ReadEnds, Quiet, TypeOK, convVars, writeVars, bufVars, groupVars
<1>2. CASE ReadDone
  BY <1>0, <1>2, <1>g, <1>w
  DEF ReadDone, Quiet, TypeOK, convVars, writeVars, bufVars
<1>3. CASE WriteDone
  BY <1>0, <1>3, <1>g, <1>w
  DEF WriteDone, Quiet, TypeOK, readVars, convVars, bufVars
<1>4. CASE WriteChanClosed
  <2>1. closedChans < NumThreads /\ closedChans \in 0 .. NumThreads
    BY <1>0, <1>4 DEF WriteChanClosed, WriterHas, TypeOK
  <2>2. closedChans' \in 0 .. NumThreads /\ (wpc' # "exit" => closedChans' < NumThreads)
    BY <1>4, <2>1, Sizes DEF WriteChanClosed
  <2> QED
    BY <1>0, <1>4, <2>2
    DEF WriteChanClosed, Quiet, TypeOK, readVars, convVars, bufVars, groupVars
<1>5. CASE Cancel
  BY <1>0, <1>5, <1>w
  DEF Cancel, Quiet, TypeOK, readVars, convVars, writeVars, bufVars
<1>6. ASSUME NEW t \in Threads, ReadChanClosed(t) \/ ConvertDone(t) PROVE Quiet
  <2>1. /\ cpc' = [cpc EXCEPT ![t] = "exit"]
        /\ cancelled' \in BOOLEAN
        /\ err' \in {"none", "read", "write", "errWriter", "convert", "ctx"}
        /\ UNCHANGED <<input, failOnConvertErrors, readVars, readChans, citem, writeVars, bufVars,
                       handled>>
    BY <1>0, <1>6, <1>g DEF ReadChanClosed, ConvertDone, groupVars, TypeOK
  <2> QED
    BY <1>0, <1>w, <2>1 DEF Quiet, TypeOK, readVars, writeVars, bufVars
<1>7. CASE UNCHANGED vars
  BY <1>0, <1>7, <1>w
  DEF Quiet, TypeOK, vars, readVars, convVars, writeVars, bufVars, groupVars
<1> QED
  BY <1>1, <1>2, <1>3, <1>4, <1>5, <1>6, <1>7

(* Reading takes a buffer that is nobody's, so that the messages under way *)
(* stay as they are.                                                       *)
LEMMA ReadKeeps == IInv /\ Read => IInv'
<1> SUFFICES ASSUME IInv, Read PROVE IInv'
  OBVIOUS
<1> DEFINE b == IF pool # << >> THEN pool[Len(pool)] ELSE Len(mem) + 1
<1>0. /\ TypeOK /\ ReaderHas /\ ConvertersHave /\ InTurn /\ NoneLost /\ WriterHas /\ PoolFree
      /\ OutputInOrder
  BY DEF IInv
<1>1. /\ input' = input /\ failOnConvertErrors' = failOnConvertErrors /\ i' = i
      /\ readChans' = readChans /\ cpc' = cpc /\ citem' = citem /\ wpc' = wpc /\ wi' = wi
      /\ closedChans' = closedChans /\ witem' = witem /\ handled' = handled
      /\ cancelled' = cancelled /\ err' = err
      /\ rpc = "read" /\ rpc' = "send" /\ i < NumMessages
  BY DEF Read, convVars, writeVars, groupVars
<1>2. i \in Nat /\ i + 1 \in Numbers /\ mem \in Seq(Numbers) /\ pool \in Seq(1 .. Len(mem))
  BY <1>0, <1>1, Sizes DEF TypeOK, Numbers
<1>3. /\ ritem' = [NoItem EXCEPT !.buf = b]
      /\ IF pool # << >> THEN /\ pool' = SubSeq(pool, 1, Len(pool) - 1)
                              /\ mem' = [mem EXCEPT ![b] = i + 1]
                         ELSE pool' = pool /\ mem' = Append(mem, i + 1)
  BY DEF Read
<1>4. /\ mem' \in Seq(Numbers) /\ Len(mem') >= Len(mem) /\ b \in DOMAIN mem' /\ mem'[b] = i + 1
      /\ \A c \in DOMAIN mem : c # b => c \in DOMAIN mem' /\ mem'[c] = mem[c]
  <2>1. CASE pool # << >>
    <3>1. b \in 1 .. Len(mem)
      BY <1>2, <2>1
    <3>2. mem' = [mem EXCEPT ![b] = i + 1]
      BY <1>3, <2>1
    <3> HIDE DEF b
    <3> QED
      BY <1>2, <3>1, <3>2
  <2>2. CASE pool = << >>
    <3>1. b = Len(mem) + 1 /\ mem' = Append(mem, i + 1)
      BY <1>3, <2>2
    <3> HIDE DEF b
    <3> QED
      BY <1>2, <3>1
  <2> QED
    BY <2>1, <2>2
<1>5. /\ pool' \in Seq(1 .. Len(mem'))
      /\ \A a \in DOMAIN pool' : a \in DOMAIN pool /\ pool'[a] = pool[a] /\ pool[a] # b
  <2>1. CASE pool # << >>
    <3>1. /\ pool' = SubSeq(pool, 1, Len(pool) - 1) /\ b = pool[Len(pool)]
          /\ Len(pool) \in Nat /\ Len(pool) >= 1 /\ Len(mem') \in Nat /\ Len(mem') >= Len(mem)
      BY <1>2, <1>3, <1>4, <2>1
    <3> HIDE DEF b
    <3>2. /\ pool' \in Seq(1 .. Len(mem)) /\ Len(pool') = Len(pool) - 1
          /\ \A a \in DOMAIN pool' : a \in 1 .. Len(pool) - 1 /\ pool'[a] = pool[a]
      <4>a. \A a \in 1 .. Len(pool) - 1 : pool[a] \in 1 .. Len(mem)
        BY <1>2
      <4>b. /\ Len(SubSeq(pool, 1, Len(pool) - 1))
                 = IF 1 <= Len(pool) - 1 THEN Len(pool) - 1 - 1 + 1 ELSE 0
            /\ \A a \in 1 .. Len(pool) - 1 - 1 + 1 :
                 SubSeq(pool, 1, Len(pool) - 1)[a] = pool[1 + a - 1]
        BY <3>1, <4>a, SubSeqProperties
      <4>1. /\ Len(SubSeq(pool, 1, Len(pool) - 1)) = Len(pool) - 1
            /\ \A a \in 1 .. Len(pool) - 1 : SubSeq(pool, 1, Len(pool) - 1)[a] = pool[a]
        <5>1. PICK l \in Nat : l = Len(pool) /\ l >= 1
          BY <3>1
        <5>2. PICK r : r = SubSeq(pool, 1, Len(pool) - 1)
          OBVIOUS
        <5>3. /\ Len(r) = IF 1 <= l - 1 THEN l - 1 - 1 + 1 ELSE 0
              /\ \A a \in 1 .. l - 1 - 1 + 1 : r[a] = pool[1 + a - 1]
          BY <4>b, <5>1, <5>2
        <5>4. Len(r) = l - 1
          BY <5>1, <5>3
        <5>5. \A a \in 1 .. l - 1 : r[a] = pool[a]
          BY <5>1, <5>3
        <5> QED
          BY <5>1, <5>2, <5>4, <5>5
      <4>2. SubSeq(pool, 1, Len(pool) - 1) \in Seq(1 .. Len(mem))
        BY <1>2, <3>1, SubSeqProperties
      <4>3. DOMAIN pool' = 1 .. Len(pool) - 1
        BY <3>1, <4>1, <4>2
      <4> QED
        BY <3>1, <4>1, <4>2, <4>3
    <3>3. pool' \in Seq(1 .. Len(mem'))
      BY <1>2, <3>1, <3>2
    <3>4. ASSUME NEW a \in DOMAIN pool' PROVE a \in DOMAIN pool /\ pool[a] # b
      <4>1. a \in DOMAIN pool /\ Len(pool) \in DOMAIN pool /\ a # Len(pool)
        BY <1>2, <3>1, <3>2
      <4> QED
        BY <1>0, <3>1, <4>1 DEF PoolFree
    <3> QED
      BY <3>2, <3>3, <3>4
  <2>2. CASE pool = << >>
    BY <1>2, <1>3, <1>4, <2>2
  <2> QED
    BY <2>1, <2>2
<1>6. Free(b)
  <2>1. CASE pool # << >>
    BY <1>0, <1>2, <2>1 DEF PoolFree
  <2>2. CASE pool = << >>
    <3>1. b = Len(mem) + 1 /\ Len(mem) \in Nat
      BY <1>2, <2>2
    <3> HIDE DEF b
    <3>2. \A x \in Items : x.buf # b
      BY <3>1 DEF Items
    <3>3. \A t \in Threads : \A k \in DOMAIN readChans[t] : readChans[t][k] \in Items
      BY <1>0 DEF TypeOK
    <3>4. ritem \in Items /\ witem \in Items /\ \A t \in Threads : citem[t] \in Items
      BY <1>0 DEF TypeOK
    <3> QED
      BY <3>2, <3>3, <3>4 DEF Free
  <2> QED
    BY <2>1, <2>2
<1>7. b \in Nat /\ b # 0
  BY <1>4
<1>8. ritem'.buf = b
  BY <1>3 DEF NoItem
<1> HIDE DEF b
<1>9. /\ \A t \in Threads : UnderWay(t, citem[t]) => UnderWay(t, citem[t])'
      /\ \A t \in Threads : \A k \in DOMAIN readChans[t] :
           UnderWay(t, readChans[t][k]) => UnderWay(t, readChans[t][k])'
      /\ \A t \in Threads : Busy(t) => Message(citem[t])' = Message(citem[t])
      /\ \A t \in Threads : \A k \in DOMAIN readChans[t] :
           Message(readChans[t][k])' = Message(readChans[t][k])
      /\ wpc = "write" => witem'.buf \in DOMAIN mem' /\ Message(witem)' = Message(witem)
  <2>1. ASSUME NEW t \in Threads, UnderWay(t, citem[t])
        PROVE  UnderWay(t, citem[t])' /\ Message(citem[t])' = Message(citem[t])
    BY <1>1, <1>4, <1>6, <2>1 DEF UnderWay, Message, ThreadOf, Free
  <2>2. ASSUME NEW t \in Threads, NEW k \in DOMAIN readChans[t], UnderWay(t, readChans[t][k])
        PROVE  UnderWay(t, readChans[t][k])' /\ Message(readChans[t][k])' = Message(readChans[t][k])
    BY <1>1, <1>4, <1>6, <2>2 DEF UnderWay, Message, ThreadOf, Free
  <2>3. ASSUME wpc = "write" PROVE witem'.buf \in DOMAIN mem' /\ Message(witem)' = Message(witem)
    BY <1>0, <1>1, <1>4, <1>6, <2>3 DEF WriterHas, Message, Free
  <2>4. ASSUME NEW t \in Threads, Busy(t) PROVE Message(citem[t])' = Message(citem[t])
    BY <1>0, <2>1, <2>4 DEF ConvertersHave
  <2>5. ASSUME NEW t \in Threads, NEW k \in DOMAIN readChans[t]
        PROVE  Message(readChans[t][k])' = Message(readChans[t][k])
    BY <1>0, <2>2 DEF ConvertersHave
  <2> QED
    BY <2>1, <2>2, <2>3, <2>4, <2>5, Zenon
<1>10. \A t \in Threads : Busy(t)' <=> Busy(t)
  BY <1>1 DEF Busy
<1>t. TypeOK'
  <2>1. Items \subseteq Items' /\ ritem' \in Items'
    <3>1. Len(mem) \in Nat /\ Len(mem') \in Nat /\ b \in 0 .. Len(mem') /\ 0 \in 0 .. NumMessages
      <4>1. DOMAIN mem' = 1 .. Len(mem') /\ Len(mem') \in Nat
        BY <1>4
      <4>2. b \in 1 .. Len(mem')
        BY <1>4, <4>1
      <4> QED
        BY <1>2, <4>1, <4>2, Sizes
    <3>2. 0 .. Len(mem) \subseteq 0 .. Len(mem')
      BY <1>4, <3>1
    <3> QED
      BY <1>3, <3>1, <3>2 DEF Items, NoItem
  <2>2. \A t \in Threads : readChans[t] \in Seq(Items')
    BY <1>0, <2>1 DEF TypeOK
  <2>3. readChans' \in [Threads -> Seq(Items')] /\ citem' \in [Threads -> Items'] /\ witem' \in Items'
    BY <1>0, <1>1, <2>1, <2>2 DEF TypeOK
  <2> QED
    BY <1>0, <1>1, <1>4, <1>5, <2>1, <2>3 DEF TypeOK
<1>11. ReaderHas'
  BY <1>1, <1>4, <1>7, <1>8 DEF ReaderHas, Message
<1>12. ConvertersHave'
  BY <1>0, <1>1, <1>9, <1>10 DEF ConvertersHave
<1>13. InTurn'
  BY <1>0, <1>1, <1>9, <1>10 DEF InTurn
<1>14. NoneLost'
  <2>1. ASSUME NEW n \in wi + 1 .. i PROVE Has(ThreadOf(n), n)'
    <3>1. n - 1 \in Nat /\ ThreadOf(n) \in Threads
      <4>1. wi \in Nat
        BY <1>0, Sizes DEF TypeOK
      <4>2. n - 1 \in Nat
        BY <1>2, <4>1
      <4> QED
        BY <4>2, Sizes DEF ThreadOf
    <3>2. Has(ThreadOf(n), n) /\ ThreadOf(n)' = ThreadOf(n)
      BY <1>0 DEF NoneLost, ThreadOf
    <3> QED
      BY <1>1, <1>9, <1>10, <3>1, <3>2 DEF Has
  <2> QED
    BY <1>0, <1>1, <2>1 DEF NoneLost
<1>15. WriterHas'
  BY <1>0, <1>1, <1>9 DEF WriterHas
<1>16. PoolFree'
  <2>1. ASSUME NEW a \in DOMAIN pool' PROVE Free(pool[a])'
    BY <1>0, <1>1, <1>5, <1>8 DEF PoolFree, Free
  <2> QED
    BY <1>0, <1>5, <2>1 DEF PoolFree
<1>17. OutputInOrder'
  BY <1>0, <1>1 DEF OutputInOrder
<1> QED
  BY <1>t, <1>11, <1>12, <1>13, <1>14, <1>15, <1>16, <1>17 DEF IInv

(* The next message joins the messages under way, behind the others of its *)
(* goroutine.                                                              *)
LEMMA SendReadKeeps == IInv /\ SendRead => IInv'
<1> SUFFICES ASSUME IInv, SendRead PROVE IInv'
  OBVIOUS
<1>0. /\ TypeOK /\ ReaderHas /\ ConvertersHave /\ InTurn /\ NoneLost /\ WriterHas /\ PoolFree
      /\ OutputInOrder
  BY DEF IInv
<1>n. i \in Nat /\ wi \in Nat /\ ritem \in Items /\ wi <= i
  BY <1>0, Sizes DEF TypeOK, NoneLost
<1>u. PICK u \in Threads : u = i % NumThreads /\ u = ThreadOf(i + 1)
  BY <1>n, Sizes
<1>x. PICK x \in Items : x = ritem
  BY <1>n
<1>1. /\ input' = input /\ failOnConvertErrors' = failOnConvertErrors
      /\ cpc' = cpc /\ citem' = citem /\ wpc' = wpc /\ wi' = wi
      /\ closedChans' = closedChans /\ witem' = witem /\ handled' = handled
      /\ cancelled' = cancelled /\ err' = err /\ pool' = pool /\ mem' = mem
      /\ rpc = "send" /\ rpc' = "read" /\ i' = i + 1 /\ ritem' = NoItem
      /\ readChans' = [readChans EXCEPT ![u] = Append(@, x)]
      /\ Len(readChans[u]) < ThreadBuffer
  BY <1>u, <1>x DEF SendRead, convVars, writeVars, bufVars, groupVars
<1>2. /\ i < NumMessages /\ x.buf \in DOMAIN mem /\ mem[x.buf] = i + 1 /\ x.buf # 0
  BY <1>0, <1>1, <1>x DEF ReaderHas, Message
<1>4. /\ readChans \in [Threads -> Seq(Items)] /\ readChans' \in [Threads -> Seq(Items)]
      /\ Len(readChans'[u]) = Len(readChans[u]) + 1
      /\ readChans'[u][Len(readChans[u]) + 1] = x
      /\ \A t \in Threads : \A k \in DOMAIN readChans[t] :
           k \in DOMAIN readChans'[t] /\ readChans'[t][k] = readChans[t][k]
      /\ \A t \in Threads : \A k \in DOMAIN readChans'[t] :
           k \in DOMAIN readChans[t] \/ (t = u /\ k = Len(readChans[u]) + 1)
      /\ \A t \in Threads : t # u => readChans'[t] = readChans[t]
  <2>1. readChans \in [Threads -> Seq(Items)]
    BY <1>0 DEF TypeOK
  <2>2. /\ readChans'[u] = Append(readChans[u], x)
        /\ \A t \in Threads : t # u => readChans'[t] = readChans[t]
    BY <1>1, <2>1
  <2>3. readChans[u] \in Seq(Items) /\ readChans'[u] \in Seq(Items)
    BY <2>1, <2>2
  <2>4. readChans' \in [Threads -> Seq(Items)]
    BY <1>1, <2>1
  <2>5. /\ Len(readChans'[u]) = Len(readChans[u]) + 1
        /\ readChans'[u][Len(readChans[u]) + 1] = x
        /\ \A k \in DOMAIN readChans[u] : k \in DOMAIN readChans'[u] /\ readChans'[u][k] = readChans[u][k]
        /\ \A k \in DOMAIN readChans'[u] : k \in DOMAIN readChans[u] \/ k = Len(readChans[u]) + 1
    BY <2>2, <2>3
  <2> QED
    BY <2>1, <2>2, <2>4, <2>5
<1>5. \A t \in Threads : Busy(t)' <=> Busy(t)
  BY <1>1 DEF Busy
<1>6. \A y \in Items : Message(y)' = Message(y) /\ \A t \in Threads : UnderWay(t, y) => UnderWay(t, y)'
  <2>1. wi + 1 .. i \subseteq wi' + 1 .. i'
    BY <1>1, <1>n
  <2> QED
    BY <1>1, <2>1 DEF Message, UnderWay
<1>7. UnderWay(u, x)'
  <2>1. i + 1 \in wi' + 1 .. i'
    BY <1>1, <1>n
  <2> QED
    BY <1>1, <1>2, <1>u, <2>1 DEF UnderWay, Message
<1>8. /\ \A t \in Threads : citem[t] \in Items /\ (Busy(t) => UnderWay(t, citem[t]))
      /\ \A t \in Threads : \A k \in DOMAIN readChans[t] :
            readChans[t][k] \in Items /\ UnderWay(t, readChans[t][k])
  BY <1>0, <1>4 DEF TypeOK, ConvertersHave
<1>9. \A y \in Items : \A t \in Threads : UnderWay(t, y) => Message(y) \in Int /\ Message(y) < Message(x)
  BY <1>2, <1>n DEF UnderWay, Message
<1>t. TypeOK'
  <2>1. Items' = Items /\ NoItem \in Items
    BY <1>1, NoItemType DEF Items
  <2>2. i' \in 0 .. NumMessages
    BY <1>1, <1>2, <1>n, Sizes
  <2>3. \A t \in Threads : Len(readChans'[t]) <= ThreadBuffer
    <3>1. Len(readChans[u]) \in Nat /\ ThreadBuffer \in Nat
      BY <1>4, SizesAssumption
    <3> QED
      BY <1>0, <1>1, <1>4, <3>1 DEF TypeOK
  <2> QED
    BY <1>0, <1>1, <1>4, <2>1, <2>2, <2>3 DEF TypeOK
<1>11. ReaderHas'
  BY <1>1, NoItemType DEF ReaderHas
<1>12. ConvertersHave'
  <2>1. ASSUME NEW t \in Threads, NEW k \in DOMAIN readChans'[t] PROVE UnderWay(t, readChans[t][k])'
    <3>1. CASE k \in DOMAIN readChans[t]
      <4>1. PICK y \in Items : y = readChans[t][k]
        BY <1>8, <3>1
      <4>2. readChans'[t][k] = y /\ UnderWay(t, y)'
        BY <1>4, <1>6, <1>8, <3>1, <4>1
      <4> QED
        BY <4>2 DEF UnderWay, Message
    <3>2. CASE t = u /\ k = Len(readChans[u]) + 1
      <4>1. readChans'[t][k] = x
        BY <1>4, <3>2
      <4> QED
        BY <1>7, <3>2, <4>1 DEF UnderWay, Message
    <3> QED
      BY <1>4, <3>1, <3>2
  <2>2. ASSUME NEW t \in Threads, Busy(t) PROVE UnderWay(t, citem[t])'
    <3>1. PICK y \in Items : y = citem[t]
      BY <1>8
    <3> QED
      BY <1>1, <1>6, <1>8, <2>2, <3>1 DEF UnderWay, Message
  <2>3. \A t \in Threads : Message(citem[t])' = Message(citem[t])
    BY <1>1 DEF Message
  <2> QED
    BY <1>0, <1>1, <1>5, <2>1, <2>2, <2>3 DEF ConvertersHave
<1>13. InTurn'
  <2> SUFFICES ASSUME NEW t \in Threads, NEW k \in DOMAIN readChans'[t]
               PROVE  /\ Busy(t) => mem[citem[t].buf] < mem[readChans'[t][k].buf]
                      /\ \A j \in DOMAIN readChans'[t] :
                           j < k => mem[readChans'[t][j].buf] < mem[readChans'[t][k].buf]
    BY <1>1, <1>5 DEF InTurn, Message
  <2>1. CASE k \in DOMAIN readChans[t]
    <3>1. \A j \in DOMAIN readChans'[t] : j < k => j \in DOMAIN readChans[t]
      <4>1. DOMAIN readChans[t] = 1 .. Len(readChans[t]) /\ Len(readChans[t]) \in Nat
        BY <1>4
      <4> QED
        BY <1>4, <2>1, <4>1
    <3> QED
      BY <1>0, <1>4, <2>1, <3>1 DEF InTurn, Message
  <2>2. CASE t = u /\ k = Len(readChans[u]) + 1
    <3>1. readChans'[t][k] = x
      BY <1>4, <2>2
    <3>2. \A j \in DOMAIN readChans'[t] : j < k => j \in DOMAIN readChans[t]
      <4>1. DOMAIN readChans[t] = 1 .. Len(readChans[t]) /\ Len(readChans[t]) \in Nat
        BY <1>4
      <4> QED
        BY <1>4, <2>2, <4>1
    <3>3. \A j \in DOMAIN readChans[t] : Message(readChans[t][j]) < Message(x)
      BY <1>8, <1>9
    <3>4. Busy(t) => Message(citem[t]) < Message(x)
      BY <1>8, <1>9
    <3> QED
      BY <1>4, <3>1, <3>2, <3>3, <3>4 DEF Message
  <2> QED
    BY <1>4, <2>1, <2>2
<1>14. NoneLost'
  <2>1. ASSUME NEW n \in wi + 1 .. i PROVE Has(ThreadOf(n), n)'
    <3>1. n - 1 \in Nat /\ ThreadOf(n) \in Threads
      <4>2. n - 1 \in Nat
        BY <1>n
      <4> QED
        BY <4>2, Sizes DEF ThreadOf
    <3>2. PICK t \in Threads : t = ThreadOf(n)
      BY <3>1
    <3>3. Has(t, n)
      BY <1>0, <3>2 DEF NoneLost
    <3>4. Has(t, n)'
      BY <1>1, <1>4, <1>5, <3>3 DEF Has, Message
    <3> QED
      BY <3>2, <3>4
  <2>2. ASSUME NEW n, n = i + 1 PROVE Has(u, n)'
    <3>1. Len(readChans[u]) + 1 \in DOMAIN readChans'[u]
      BY <1>4
    <3>3. mem'[readChans'[u][Len(readChans[u]) + 1].buf] = n
      BY <1>1, <1>2, <1>4, <2>2
    <3> QED
      BY <3>1, <3>3 DEF Has, Message
  <2>3. ASSUME NEW n \in wi' + 1 .. i' PROVE Has(ThreadOf(n), n)'
    <3>1. n \in wi + 1 .. i \/ n = i + 1
      BY <1>1, <1>n
    <3> QED
      BY <1>u, <2>1, <2>2, <3>1
  <2> QED
    BY <1>1, <1>n, <2>3 DEF NoneLost
<1>15. WriterHas'
  BY <1>0, <1>1 DEF WriterHas, Message
<1>16. PoolFree'
  <2>1. ASSUME NEW a \in DOMAIN pool PROVE Free(pool[a])'
    <3>1. Free(pool[a]) /\ pool[a] # 0 /\ pool[a] # x.buf
      BY <1>0, <1>x DEF PoolFree, Free, TypeOK
    <3> QED
      BY <1>1, <1>4, <3>1, NoItemType DEF Free
  <2> QED
    BY <1>0, <1>1, <2>1 DEF PoolFree
<1>17. OutputInOrder'
  BY <1>0, <1>1 DEF OutputInOrder
<1> QED
  BY <1>t, <1>11, <1>12, <1>13, <1>14, <1>15, <1>16, <1>17 DEF IInv

(* A goroutine takes its next message.                                     *)
LEMMA ReceiveKeeps == ASSUME IInv, NEW u \in Threads, Receive(u) PROVE IInv'
<1>0. /\ TypeOK /\ ReaderHas /\ ConvertersHave /\ InTurn /\ NoneLost /\ WriterHas /\ PoolFree
      /\ OutputInOrder
  BY DEF IInv
<1>n. /\ i \in Nat /\ wi \in Nat /\ readChans \in [Threads -> Seq(Items)] /\ readChans[u] # << >>
      /\ citem \in [Threads -> Items] /\ cpc[u] = "recv" /\ ~ Busy(u)
      /\ cpc \in [Threads -> {"recv", "decode", "encode", "send", "exit"}]
  <2>0. i \in Nat /\ wi \in Nat
    BY <1>0, Sizes DEF TypeOK
  <2>1. /\ i \in Nat /\ wi \in Nat /\ readChans \in [Threads -> Seq(Items)]
        /\ citem \in [Threads -> Items]
        /\ cpc \in [Threads -> {"recv", "decode", "encode", "send", "exit"}]
    BY <1>0, <2>0 DEF TypeOK
  <2>2. cpc[u] = "recv" /\ readChans[u] # << >>
    BY DEF Receive
  <2>3. ~ Busy(u)
    BY <1>0, <2>2 DEF ConvertersHave
  <2> QED
    BY <2>1, <2>2, <2>3
<1>s. /\ readChans[u] \in Seq(Items) /\ Len(readChans[u]) \in Nat /\ Len(readChans[u]) >= 1
      /\ DOMAIN readChans[u] = 1 .. Len(readChans[u])
  BY <1>n
<1>x. PICK x \in Items : x = readChans[u][1] /\ x = Head(readChans[u])
  BY <1>s
<1>1. /\ input' = input /\ failOnConvertErrors' = failOnConvertErrors
      /\ wpc' = wpc /\ wi' = wi /\ i' = i /\ ritem' = ritem /\ rpc' = rpc
      /\ closedChans' = closedChans /\ witem' = witem /\ handled' = handled
      /\ cancelled' = cancelled /\ err' = err /\ pool' = pool /\ mem' = mem
      /\ citem' = [citem EXCEPT ![u] = x]
      /\ readChans' = [readChans EXCEPT ![u] = Tail(@)]
      /\ cpc' = [cpc EXCEPT ![u] = "decode"]
  BY <1>x DEF Receive, readVars, writeVars, bufVars, groupVars
<1>2. /\ citem' \in [Threads -> Items] /\ citem'[u] = x
      /\ \A t \in Threads : t # u => citem'[t] = citem[t] /\ cpc'[t] = cpc[t]
      /\ cpc' \in [Threads -> {"recv", "decode", "encode", "send", "exit"}] /\ cpc'[u] = "decode"
  BY <1>1, <1>n
<1>4. /\ readChans' \in [Threads -> Seq(Items)]
      /\ Len(readChans'[u]) = Len(readChans[u]) - 1
      /\ \A k \in DOMAIN readChans'[u] :
           k \in Nat /\ k + 1 \in DOMAIN readChans[u] /\ readChans'[u][k] = readChans[u][k + 1]
      /\ \A k \in DOMAIN readChans[u] : k = 1 \/ (k - 1 \in DOMAIN readChans'[u] /\ k = (k - 1) + 1)
      /\ \A t \in Threads : t # u => readChans'[t] = readChans[t]
  <2>2. /\ readChans'[u] = Tail(readChans[u])
        /\ \A t \in Threads : t # u => readChans'[t] = readChans[t]
    BY <1>1, <1>n
  <2>3. Tail(readChans[u]) \in Seq(Items)
    BY <1>s, <1>n
  <2>4. readChans' \in [Threads -> Seq(Items)]
    BY <1>1, <1>n, <2>3
  <2>5. /\ Len(readChans'[u]) = Len(readChans[u]) - 1
        /\ DOMAIN readChans'[u] = 1 .. Len(readChans[u]) - 1
        /\ \A k \in 1 .. Len(readChans[u]) - 1 : readChans'[u][k] = readChans[u][k + 1]
    BY <1>s, <1>n, <2>2, <2>3
  <2> QED
    BY <1>s, <2>2, <2>4, <2>5
<1>5. Busy(u)' /\ \A t \in Threads : t # u => (Busy(t)' <=> Busy(t))
  <2>1. x.buf # 0
    <3>1. UnderWay(u, x)
      BY <1>0, <1>s, <1>x DEF ConvertersHave
    <3>2. x.buf \in DOMAIN mem /\ mem \in Seq(Numbers)
      BY <1>0, <3>1 DEF UnderWay, TypeOK
    <3> QED
      BY <3>2
  <2> QED
    BY <1>1, <1>2, <2>1 DEF Busy
<1>6. \A y \in Items : Message(y)' = Message(y) /\ \A t \in Threads : UnderWay(t, y) => UnderWay(t, y)'
  BY <1>1 DEF Message, UnderWay
<1>8. \A t \in Threads : \A k \in DOMAIN readChans[t] : UnderWay(t, readChans[t][k])
  BY <1>0 DEF ConvertersHave
<1>t. TypeOK'
  <2>1. Items' = Items
    BY <1>1 DEF Items
  <2>3. \A t \in Threads : Len(readChans'[t]) <= ThreadBuffer
    <3>1. ThreadBuffer \in Nat /\ Len(readChans[u]) <= ThreadBuffer
      BY <1>0, SizesAssumption DEF TypeOK
    <3>2. Len(readChans'[u]) <= ThreadBuffer
      BY <1>4, <1>s, <3>1
    <3> QED
      BY <1>0, <1>4, <3>2 DEF TypeOK
  <2> QED
    BY <1>0, <1>1, <1>2, <1>4, <2>1, <2>3 DEF TypeOK
<1>11. ReaderHas'
  BY <1>0, <1>1 DEF ReaderHas, Message
<1>12. ConvertersHave'
  <2>1. ASSUME NEW t \in Threads, NEW k \in DOMAIN readChans'[t] PROVE UnderWay(t, readChans[t][k])'
    <3>1. PICK y \in Items : y = readChans'[t][k]
      BY <1>4
    <3>2. UnderWay(t, y)
      BY <1>4, <1>8, <3>1
    <3> QED
      BY <1>1, <3>1, <3>2 DEF UnderWay, Message
  <2>2. ASSUME NEW t \in Threads, Busy(t)' PROVE UnderWay(t, citem[t])'
    <3>1. PICK y \in Items : y = citem'[t]
      BY <1>2
    <3>2. CASE t = u
      BY <1>1, <1>2, <1>8, <1>s, <1>x, <3>1, <3>2 DEF UnderWay, Message
    <3>3. CASE t # u
      BY <1>0, <1>1, <1>2, <1>5, <2>2, <3>3 DEF ConvertersHave, UnderWay, Message
    <3> QED
      BY <3>2, <3>3
  <2>3. \A t \in Threads : t # u => Message(citem[t])' = Message(citem[t])
    BY <1>1, <1>2 DEF Message
  <2>4. ASSUME NEW t \in Threads
        PROVE  /\ cpc'[t] \in {"decode", "encode", "send"} => Busy(t)'
               /\ cpc'[t] = "recv" => ~ Busy(t)'
               /\ cpc'[t] = "encode" => input'[Message(citem[t])'] # "undecodable"
               /\ cpc'[t] = "send" => /\ citem'[t].value = Message(citem[t])'
                                      /\ citem'[t].convertErr = (input'[Message(citem[t])'] # "ok")
    <3>1. CASE t = u
      BY <1>2, <1>5, <3>1
    <3>2. CASE t # u
      BY <1>0, <1>1, <1>2, <1>5, <2>3, <3>2 DEF ConvertersHave
    <3> QED
      BY <3>1, <3>2
  <2> QED
    BY <2>1, <2>2, <2>4 DEF ConvertersHave
<1>13. InTurn'
  <2> SUFFICES ASSUME NEW t \in Threads, NEW k \in DOMAIN readChans'[t]
               PROVE  /\ Busy(t)' => mem[citem'[t].buf] < mem[readChans'[t][k].buf]
                      /\ \A j \in DOMAIN readChans'[t] :
                           j < k => mem[readChans'[t][j].buf] < mem[readChans'[t][k].buf]
    BY <1>1 DEF InTurn, Message
  <2>1. CASE t = u
    <3>1. k \in Nat /\ k + 1 \in DOMAIN readChans[u] /\ readChans'[u][k] = readChans[u][k + 1]
      BY <1>4, <2>1
    <3>2. 1 \in DOMAIN readChans[u] /\ 1 < k + 1
      BY <1>4, <1>s, <2>1, <3>1
    <3>3. mem[citem'[u].buf] < mem[readChans'[u][k].buf]
      BY <1>0, <1>2, <1>x, <3>1, <3>2 DEF InTurn, Message
    <3>4. ASSUME NEW j \in DOMAIN readChans'[u], j < k
          PROVE  mem[readChans'[u][j].buf] < mem[readChans'[u][k].buf]
      <4>1. j + 1 \in DOMAIN readChans[u] /\ readChans'[u][j] = readChans[u][j + 1] /\ j + 1 < k + 1
        BY <1>4, <3>1, <3>4
      <4> QED
        BY <1>0, <3>1, <4>1 DEF InTurn, Message
    <3> QED
      BY <2>1, <3>3, <3>4
  <2>2. CASE t # u
    BY <1>0, <1>2, <1>4, <1>5, <2>2 DEF InTurn, Message
  <2> QED
    BY <2>1, <2>2
<1>14. NoneLost'
  <2>1. ASSUME NEW n \in wi + 1 .. i PROVE Has(ThreadOf(n), n)'
    <3>1. n - 1 \in Nat /\ ThreadOf(n) \in Threads
      <4>2. n - 1 \in Nat
        BY <1>n
      <4> QED
        BY <4>2, Sizes DEF ThreadOf
    <3>2. PICK t \in Threads : t = ThreadOf(n)
      BY <3>1
    <3>3. Has(t, n)
      BY <1>0, <3>2 DEF NoneLost
    <3>4. CASE t # u
      BY <1>1, <1>2, <1>4, <1>5, <3>2, <3>3, <3>4 DEF Has, Message
    <3>5. CASE t = u
      <4>1. PICK k \in DOMAIN readChans[u] : mem[readChans[u][k].buf] = n
        BY <1>n, <3>3, <3>5 DEF Has, Message
      <4>2. CASE k = 1
        BY <1>1, <1>2, <1>5, <1>x, <3>2, <3>5, <4>1, <4>2 DEF Has, Message
      <4>3. CASE k # 1
        <5>1. k - 1 \in DOMAIN readChans'[u] /\ readChans'[u][k - 1] = readChans[u][k]
          BY <1>4, <4>3
        <5>2. Has(u, n)'
          BY <1>1, <4>1, <5>1 DEF Has, Message
        <5> QED
          BY <3>2, <3>5, <5>2
      <4> QED
        BY <4>2, <4>3
    <3> QED
      BY <3>4, <3>5
  <2> QED
    BY <1>0, <1>1, <2>1 DEF NoneLost
<1>15. WriterHas'
  BY <1>0, <1>1 DEF WriterHas, Message
<1>16. PoolFree'
  <2>1. ASSUME NEW a \in DOMAIN pool PROVE Free(pool[a])'
    <3>1. Free(pool[a]) /\ x.buf # pool[a]
      BY <1>0, <1>s, <1>x DEF PoolFree, Free
    <3>2. \A t \in Threads : citem'[t].buf # pool[a]
      BY <1>2, <3>1 DEF Free
    <3>3. \A t \in Threads : \A k \in DOMAIN readChans'[t] : readChans'[t][k].buf # pool[a]
      <4>1. \A t \in Threads : \A k \in DOMAIN readChans[t] : readChans[t][k].buf # pool[a]
        BY <3>1 DEF Free
      <4>2. \A k \in DOMAIN readChans'[u] : readChans'[u][k].buf # pool[a]
        BY <1>4, <4>1
      <4> QED
        BY <1>4, <4>1, <4>2
    <3> QED
      BY <1>1, <3>1, <3>2, <3>3 DEF Free
  <2> QED
    BY <1>0, <1>1, <2>1 DEF PoolFree
<1>17. OutputInOrder'
  BY <1>0, <1>1 DEF OutputInOrder
<1> QED
  BY <1>t, <1>11, <1>12, <1>13, <1>14, <1>15, <1>16, <1>17 DEF IInv

(* Decoding and encoding change the result of an item, not its buffer.     *)
LEMMA ConvertKeeps ==
  ASSUME IInv, NEW u \in Threads, Decode(u) \/ Encode(u)
  PROVE  IInv'
<1>0. /\ TypeOK /\ ReaderHas /\ ConvertersHave /\ InTurn /\ NoneLost /\ WriterHas /\ PoolFree
      /\ OutputInOrder
  BY DEF IInv
<1>n. /\ citem \in [Threads -> Items] /\ cpc[u] \in {"decode", "encode"}
      /\ cpc \in [Threads -> {"recv", "decode", "encode", "send", "exit"}]
      /\ Busy(u) /\ UnderWay(u, citem[u]) /\ mem \in Seq(Numbers) /\ citem[u].buf \in DOMAIN mem
      /\ input \in [Numbers -> Qualities]
  BY <1>0 DEF TypeOK, Decode, Encode, ConvertersHave, UnderWay
<1>m. PICK m \in Numbers : m = Message(citem[u]) /\ m = mem[citem[u].buf]
  BY <1>n DEF Message
<1>q. input[m] \in {"ok", "undecodable", "unencodable"} /\ m \in 0 .. NumMessages
  <2>1. input[m] \in Qualities
    BY <1>n
  <2>2. m \in 0 .. NumMessages
    BY Sizes DEF Numbers
  <2> QED
    BY <2>1, <2>2, QualitiesAssumption
<1>c. \A e \in BOOLEAN : /\ Result(citem[u], e) \in Items
                          /\ Result(citem[u], e).buf = citem[u].buf
                          /\ Result(citem[u], e).value = m /\ Result(citem[u], e).convertErr = e
  <2>1. citem[u].buf \in 0 .. Len(mem)
    BY <1>n DEF Items
  <2> QED
    BY <1>m, <1>q, <2>1 DEF Result, Items
<1>1. /\ input' = input /\ failOnConvertErrors' = failOnConvertErrors
      /\ wpc' = wpc /\ wi' = wi /\ i' = i /\ ritem' = ritem /\ rpc' = rpc
      /\ closedChans' = closedChans /\ witem' = witem /\ handled' = handled
      /\ cancelled' = cancelled /\ err' = err /\ pool' = pool /\ mem' = mem
      /\ readChans' = readChans
  BY DEF Decode, Encode, readVars, writeVars, bufVars, groupVars
<1>2. /\ citem' \in [Threads -> Items]
      /\ \A t \in Threads : citem'[t].buf = citem[t].buf
      /\ \A t \in Threads : t # u => citem'[t] = citem[t]
      /\ \A t \in Threads : t # u => cpc'[t] = cpc[t]
      /\ cpc' \in [Threads -> {"recv", "decode", "encode", "send", "exit"}]
      /\ cpc'[u] \in {"encode", "send"}
      /\ cpc'[u] = "encode" => input[m] # "undecodable"
      /\ cpc'[u] = "send" => citem'[u].value = m /\ citem'[u].convertErr = (input[m] # "ok")
  <2>1. CASE Decode(u) /\ input[m] = "undecodable"
    <3>1. citem' = [citem EXCEPT ![u] = Result(citem[u], TRUE)] /\ cpc' = [cpc EXCEPT ![u] = "send"]
      BY <1>m, <2>1 DEF Decode
    <3> QED
      BY <1>c, <1>n, <2>1, <3>1
  <2>2. CASE Decode(u) /\ input[m] # "undecodable"
    <3>1. cpc' = [cpc EXCEPT ![u] = "encode"] /\ citem' = citem
      BY <1>m, <2>2 DEF Decode
    <3> QED
      BY <1>n, <2>2, <3>1
  <2>3. CASE Encode(u)
    <3>0. PICK e \in BOOLEAN : e = (input[m] = "unencodable")
      OBVIOUS
    <3>1. /\ citem' = [citem EXCEPT ![u] = Result(citem[u], e)]
          /\ cpc' = [cpc EXCEPT ![u] = "send"] /\ cpc[u] = "encode"
      BY <1>m, <2>3, <3>0 DEF Encode
    <3>2. input[m] # "undecodable"
      BY <1>0, <1>m, <3>1 DEF ConvertersHave
    <3>3. e = (input[m] # "ok")
      BY <1>q, <3>0, <3>2
    <3> QED
      BY <1>c, <1>n, <2>3, <3>1, <3>3
  <2> QED
    BY <2>1, <2>2, <2>3
<1>5. \A t \in Threads : (Busy(t)' <=> Busy(t)) /\ Message(citem[t])' = Message(citem[t])
  BY <1>1, <1>2 DEF Busy, Message
<1>6. \A t \in Threads : UnderWay(t, citem[t]) => UnderWay(t, citem[t])'
  BY <1>1, <1>2 DEF UnderWay, Message
<1>t. TypeOK'
  <2>1. Items' = Items
    BY <1>1 DEF Items
  <2> QED
    BY <1>0, <1>1, <1>2, <2>1 DEF TypeOK
<1>11. ReaderHas'
  BY <1>0, <1>1 DEF ReaderHas, Message
<1>12. ConvertersHave'
  <2>1. ASSUME NEW t \in Threads
        PROVE  /\ cpc'[t] \in {"decode", "encode", "send"} => Busy(t)'
               /\ cpc'[t] = "recv" => ~ Busy(t)'
               /\ cpc'[t] = "encode" => input'[Message(citem[t])'] # "undecodable"
               /\ cpc'[t] = "send" => /\ citem'[t].value = Message(citem[t])'
                                      /\ citem'[t].convertErr = (input'[Message(citem[t])'] # "ok")
    <3>1. CASE t = u
      BY <1>1, <1>2, <1>5, <1>m, <1>n, <3>1
    <3>2. CASE t # u
      BY <1>0, <1>1, <1>2, <1>5, <3>2 DEF ConvertersHave
    <3> QED
      BY <3>1, <3>2
  <2>2. ASSUME NEW t \in Threads
        PROVE  /\ Busy(t)' => UnderWay(t, citem[t])'
               /\ \A k \in DOMAIN readChans'[t] : UnderWay(t, readChans[t][k])'
    BY <1>0, <1>1, <1>5, <1>6 DEF ConvertersHave, UnderWay, Message
  <2> QED
    BY <2>1, <2>2 DEF ConvertersHave
<1>13. InTurn'
  BY <1>0, <1>1, <1>5 DEF InTurn, Message
<1>14. NoneLost'
  <2>1. \A t \in Threads : \A n : Has(t, n) => Has(t, n)'
    BY <1>1, <1>5 DEF Has, Message
  <2>2. \A n \in wi + 1 .. i : ThreadOf(n) \in Threads
    <3>1. \A n \in wi + 1 .. i : n - 1 \in Nat
      BY <1>0, Sizes DEF TypeOK
    <3> QED
      BY <3>1, Sizes DEF ThreadOf
  <2> QED
    BY <1>0, <1>1, <2>1, <2>2 DEF NoneLost
<1>15. WriterHas'
  BY <1>0, <1>1 DEF WriterHas, Message
<1>16. PoolFree'
  BY <1>0, <1>1, <1>2 DEF PoolFree, Free
<1>17. OutputInOrder'
  BY <1>0, <1>1 DEF OutputInOrder
<1> QED
  BY <1>t, <1>11, <1>12, <1>13, <1>14, <1>15, <1>16, <1>17 DEF IInv

(* The goroutine whose turn it is has message wi + 1, and has it first.    *)
LEMMA TakeKeeps == IInv /\ Take => IInv'
<1> SUFFICES ASSUME IInv, Take PROVE IInv'
  OBVIOUS
<1>0. /\ TypeOK /\ ReaderHas /\ ConvertersHave /\ InTurn /\ NoneLost /\ WriterHas /\ PoolFree
      /\ OutputInOrder
  BY DEF IInv
<1>n. i \in Nat /\ wi \in Nat /\ i <= NumMessages
  BY <1>0, Sizes DEF TypeOK
<1>u. PICK u \in Threads : u = wi % NumThreads /\ u = ThreadOf(wi + 1)
  BY <1>n, Sizes
<1>1. /\ input' = input /\ failOnConvertErrors' = failOnConvertErrors
      /\ i' = i /\ ritem' = ritem /\ rpc' = rpc /\ readChans' = readChans
      /\ closedChans' = closedChans /\ handled' = handled
      /\ cancelled' = cancelled /\ err' = err /\ pool' = pool /\ mem' = mem
      /\ wpc = "recv" /\ wpc' = "write" /\ wi' = wi + 1
      /\ cpc[u] = "send" /\ witem' = citem[u]
      /\ cpc' = [cpc EXCEPT ![u] = "recv"] /\ citem' = [citem EXCEPT ![u] = NoItem]
  BY <1>u DEF Take, Turn, readVars, bufVars, groupVars
<1>2. /\ citem \in [Threads -> Items] /\ citem' \in [Threads -> Items] /\ citem'[u] = NoItem
      /\ \A t \in Threads : t # u => citem'[t] = citem[t] /\ cpc'[t] = cpc[t]
      /\ cpc' \in [Threads -> {"recv", "decode", "encode", "send", "exit"}] /\ cpc'[u] = "recv"
  <2>1. /\ citem \in [Threads -> Items]
        /\ cpc \in [Threads -> {"recv", "decode", "encode", "send", "exit"}]
    BY <1>0 DEF TypeOK
  <2> QED
    BY <1>1, <2>1, NoItemType
<1>3. /\ Busy(u) /\ UnderWay(u, citem[u]) /\ citem[u].value = Message(citem[u])
      /\ citem[u].convertErr = (input[Message(citem[u])] # "ok")
  BY <1>0, <1>1 DEF ConvertersHave
<1>4. Message(citem[u]) = wi + 1 /\ wi + 1 <= i
  <2>1. PICK m \in wi + 1 .. i : m = Message(citem[u])
    BY <1>3 DEF UnderWay
  <2>2. wi + 1 \in wi + 1 .. i
    BY <1>n, <2>1
  <2>3. Has(u, wi + 1)
    BY <1>0, <1>u, <2>2 DEF NoneLost
  <2>4. \A k \in DOMAIN readChans[u] : m < Message(readChans[u][k])
    BY <1>0, <1>3, <2>1 DEF InTurn
  <2>5. m = wi + 1 \/ \E k \in DOMAIN readChans[u] : Message(readChans[u][k]) = wi + 1
    BY <2>1, <2>3 DEF Has
  <2> QED
    BY <1>n, <2>1, <2>2, <2>4, <2>5
<1>5. ~ Busy(u)' /\ \A t \in Threads : t # u => (Busy(t)' <=> Busy(t))
  BY <1>1, <1>2, NoItemType DEF Busy
<1>6. \A y \in Items : \A t \in Threads :
        UnderWay(t, y) /\ Message(y) # wi + 1 => UnderWay(t, y)'
  <2>1. \A m \in wi + 1 .. i : m # wi + 1 => m \in wi' + 1 .. i'
    BY <1>1, <1>n
  <2> QED
    BY <1>1, <2>1 DEF UnderWay, Message
<1>7. \A t \in Threads : t # u /\ Busy(t) => UnderWay(t, citem[t]) /\ Message(citem[t]) # wi + 1
  BY <1>0, <1>u DEF ConvertersHave, UnderWay
<1>8. \A t \in Threads : \A k \in DOMAIN readChans[t] :
         /\ readChans[t][k] \in Items /\ UnderWay(t, readChans[t][k])
         /\ Message(readChans[t][k]) # wi + 1
  <2> SUFFICES ASSUME NEW t \in Threads, NEW k \in DOMAIN readChans[t]
               PROVE  /\ readChans[t][k] \in Items /\ UnderWay(t, readChans[t][k])
                      /\ Message(readChans[t][k]) # wi + 1
    OBVIOUS
  <2>1. readChans[t][k] \in Items /\ UnderWay(t, readChans[t][k])
    BY <1>0 DEF TypeOK, ConvertersHave
  <2>2. CASE t # u
    BY <1>u, <2>1, <2>2 DEF UnderWay
  <2>3. CASE t = u
    <3>1. wi + 1 < Message(readChans[u][k]) /\ Message(readChans[u][k]) \in Int
      BY <1>0, <1>3, <1>4, <2>1, <2>3 DEF InTurn, UnderWay
    <3> QED
      BY <1>n, <2>1, <2>3, <3>1
  <2> QED
    BY <2>2, <2>3, <2>1
<1>t. TypeOK'
  <2>1. Items' = Items /\ witem' \in Items
    BY <1>1, <1>2 DEF Items
  <2>2. wi' \in 0 .. NumMessages
    BY <1>1, <1>4, <1>n, Sizes
  <2> QED
    BY <1>0, <1>1, <1>2, <2>1, <2>2 DEF TypeOK
<1>11. ReaderHas'
  BY <1>0, <1>1 DEF ReaderHas, Message
<1>12. ConvertersHave'
  <2>1. ASSUME NEW t \in Threads, NEW k \in DOMAIN readChans'[t] PROVE UnderWay(t, readChans[t][k])'
    <3>1. PICK y \in Items : y = readChans[t][k] /\ y = readChans'[t][k]
      BY <1>1, <1>8, <2>1
    <3>2. UnderWay(t, y)'
      BY <1>1, <1>6, <1>8, <2>1, <3>1
    <3> QED
      BY <3>1, <3>2 DEF UnderWay, Message
  <2>2. ASSUME NEW t \in Threads, t # u, Busy(t) PROVE UnderWay(t, citem[t])'
    <3>1. PICK y \in Items : y = citem[t] /\ y = citem'[t]
      BY <1>2, <2>2
    <3>2. UnderWay(t, y)'
      BY <1>6, <1>7, <2>2, <3>1
    <3> QED
      BY <3>1, <3>2 DEF UnderWay, Message
  <2>3. \A t \in Threads : t # u => Message(citem[t])' = Message(citem[t])
    BY <1>1, <1>2 DEF Message
  <2>4. ASSUME NEW t \in Threads
        PROVE  /\ cpc'[t] \in {"decode", "encode", "send"} => Busy(t)'
               /\ cpc'[t] = "recv" => ~ Busy(t)'
               /\ cpc'[t] = "encode" => input'[Message(citem[t])'] # "undecodable"
               /\ cpc'[t] = "send" => /\ citem'[t].value = Message(citem[t])'
                                      /\ citem'[t].convertErr = (input'[Message(citem[t])'] # "ok")
    <3>1. CASE t = u
      BY <1>2, <1>5, <3>1
    <3>2. CASE t # u
      BY <1>0, <1>1, <1>2, <1>5, <2>3, <3>2 DEF ConvertersHave
    <3> QED
      BY <3>1, <3>2
  <2>5. ASSUME NEW t \in Threads, Busy(t)' PROVE UnderWay(t, citem[t])'
    BY <1>5, <2>2, <2>5
  <2> QED
    BY <2>1, <2>4, <2>5 DEF ConvertersHave
<1>13. InTurn'
  <2>1. \A t \in Threads : Busy(t)' => Busy(t) /\ Message(citem[t])' = Message(citem[t])
    BY <1>1, <1>2, <1>5 DEF Message
  <2>2. \A t \in Threads : \A k \in DOMAIN readChans[t] :
          Message(readChans[t][k])' = Message(readChans[t][k])
    BY <1>1 DEF Message
  <2> QED
    BY <1>0, <1>1, <2>1, <2>2 DEF InTurn
<1>14. NoneLost'
  <2>1. ASSUME NEW n \in wi' + 1 .. i' PROVE Has(ThreadOf(n), n)'
    <3>1. n \in wi + 1 .. i /\ n # wi + 1 /\ n - 1 \in Nat
      BY <1>1, <1>n
    <3>2. PICK t \in Threads : t = ThreadOf(n)
      BY <3>1, Sizes DEF ThreadOf
    <3>3. Has(t, n)
      BY <1>0, <3>1, <3>2 DEF NoneLost
    <3>4. CASE t = u
      <4>1. \E k \in DOMAIN readChans[u] : Message(readChans[u][k]) = n
        BY <1>4, <3>1, <3>3, <3>4 DEF Has
      <4> QED
        BY <1>1, <3>2, <3>4, <4>1 DEF Has, Message
    <3>5. CASE t # u
      BY <1>1, <1>2, <1>5, <3>2, <3>3, <3>5 DEF Has, Message
    <3> QED
      BY <3>4, <3>5
  <2>2. wi' <= i'
    BY <1>1, <1>4
  <2> QED
    BY <2>1, <2>2 DEF NoneLost
<1>15. WriterHas'
  <2>1. /\ citem[u].buf \in DOMAIN mem /\ mem[citem[u].buf] = wi + 1 /\ citem[u].value = wi + 1
        /\ citem[u].convertErr = (input[wi + 1] # "ok")
    BY <1>3, <1>4 DEF UnderWay, Message
  <2> QED
    BY <1>0, <1>1, <2>1 DEF WriterHas, Message
<1>16. PoolFree'
  <2>1. ASSUME NEW a \in DOMAIN pool PROVE Free(pool[a])'
    <3>1. Free(pool[a]) /\ pool[a] # 0
      BY <1>0 DEF PoolFree, TypeOK
    <3> QED
      BY <1>1, <1>2, <3>1, NoItemType DEF Free
  <2> QED
    BY <1>0, <1>1, <2>1 DEF PoolFree
<1>17. OutputInOrder'
  BY <1>0, <1>1 DEF OutputInOrder
<1> QED
  BY <1>t, <1>11, <1>12, <1>13, <1>14, <1>15, <1>16, <1>17 DEF IInv

(* The writer is done with its item; a buffer that is released is nobody's *)
(* any more, because the writer's message is behind all the others.        *)
LEMMA WriteKeeps == IInv /\ (Report \/ Write) => IInv'
<1> SUFFICES ASSUME IInv, Report \/ Write PROVE IInv'
  OBVIOUS
<1>0. /\ TypeOK /\ ReaderHas /\ ConvertersHave /\ InTurn /\ NoneLost /\ WriterHas /\ PoolFree
      /\ OutputInOrder
  BY DEF IInv
<1>1. /\ input' = input /\ failOnConvertErrors' = failOnConvertErrors
      /\ i' = i /\ ritem' = ritem /\ rpc' = rpc /\ readChans' = readChans
      /\ cpc' = cpc /\ citem' = citem /\ wi' = wi
      /\ closedChans' = closedChans /\ mem' = mem
      /\ wpc = "write" /\ wpc' \in {"recv", "exit"} /\ witem' = NoItem
      /\ pool' \in {pool, Append(pool, witem.buf)}
      /\ \/ wpc' = "recv" /\ Handle
         \/ wpc' = "exit" /\ handled' = handled
  BY DEF Report, Write, readVars, convVars, bufVars
<1>2. i \in Nat /\ wi \in Nat /\ wi <= i /\ mem \in Seq(Numbers) /\ pool \in Seq(1 .. Len(mem))
  BY <1>0, Sizes DEF TypeOK, NoneLost
<1>3. /\ witem.buf \in DOMAIN mem /\ mem[witem.buf] = wi /\ witem.value = wi
      /\ witem.convertErr = (input[wi] # "ok") /\ wi = Len(handled) + 1
      /\ closedChans < NumThreads
  BY <1>0, <1>1 DEF WriterHas, Message
<1>g. /\ cancelled' \in BOOLEAN
      /\ err' \in {"none", "read", "write", "errWriter", "convert", "ctx"}
  BY <1>0 DEF Report, Write, Fail, TypeOK, groupVars
<1>h. /\ handled' \in Seq([n : 0 .. NumMessages, bad : BOOLEAN])
      /\ wpc' = "recv" => Len(handled') = wi
      /\ OutputInOrder'
  <2>1. handled \in Seq([n : 0 .. NumMessages, bad : BOOLEAN])
    BY <1>0 DEF TypeOK
  <2>2. CASE wpc' = "exit" /\ handled' = handled
    BY <1>0, <1>1, <2>1, <2>2 DEF OutputInOrder
  <2>3. CASE wpc' = "recv" /\ Handle
    <3>1. PICK h \in [n : 0 .. NumMessages, bad : BOOLEAN] : h = [n |-> wi, bad |-> input[wi] # "ok"]
      <4>1. wi \in 0 .. NumMessages /\ (input[wi] # "ok") \in BOOLEAN
        BY <1>0 DEF TypeOK
      <4> QED
        BY <4>1
    <3>2. handled' = Append(handled, h)
      BY <1>3, <2>3, <3>1 DEF Handle
    <3>3. /\ handled' \in Seq([n : 0 .. NumMessages, bad : BOOLEAN]) /\ Len(handled') = wi
          /\ DOMAIN handled' = 1 .. wi /\ handled'[wi] = h
          /\ \A k \in 1 .. wi : k # wi => k \in DOMAIN handled /\ handled'[k] = handled[k]
      BY <1>2, <1>3, <2>1, <3>2
    <3>4. \A k \in DOMAIN handled : handled[k] = [n |-> k, bad |-> input[k] # "ok"]
      BY <1>0 DEF OutputInOrder
    <3>5. \A k \in 1 .. wi : handled'[k] = [n |-> k, bad |-> input[k] # "ok"]
      BY <3>1, <3>3, <3>4
    <3>6. handled' = [k \in DOMAIN handled' |-> handled'[k]]
      BY <3>3
    <3>7. handled' = [k \in DOMAIN handled' |-> [n |-> k, bad |-> input[k] # "ok"]]
      BY <3>3, <3>5, <3>6
    <3> QED
      BY <1>1, <3>3, <3>7 DEF OutputInOrder
  <2> QED
    BY <1>1, <2>2, <2>3
<1>p. /\ pool' \in Seq(1 .. Len(mem))
      /\ \A a \in DOMAIN pool' : \/ a \in DOMAIN pool /\ pool'[a] = pool[a]
                                 \/ a = Len(pool) + 1 /\ pool'[a] = witem.buf
  <2>1. witem.buf \in 1 .. Len(mem)
    BY <1>2, <1>3
  <2>2. CASE pool' = pool
    BY <1>2, <2>2
  <2>3. CASE pool' = Append(pool, witem.buf)
    BY <1>2, <2>1, <2>3
  <2> QED
    BY <1>1, <2>2, <2>3
<1>t. TypeOK'
  <2>1. Items' = Items /\ NoItem \in Items
    BY <1>1, NoItemType DEF Items
  <2> QED
    BY <1>0, <1>1, <1>g, <1>h, <1>p, <2>1 DEF TypeOK
<1>11. ReaderHas'
  BY <1>0, <1>1 DEF ReaderHas, Message
<1>12. ConvertersHave'
  BY <1>0, <1>1 DEF ConvertersHave, UnderWay, Message, Busy
<1>13. InTurn'
  BY <1>0, <1>1 DEF InTurn, Message, Busy
<1>14. NoneLost'
  BY <1>0, <1>1 DEF NoneLost, Has, Message, Busy
<1>15. WriterHas'
  BY <1>1, <1>3, <1>h, NoItemType DEF WriterHas
<1>16. PoolFree'
  <2>0. witem.buf # 0 /\ witem.buf \in Nat
    BY <1>2, <1>3
  <2>1. /\ ritem.buf # witem.buf
        /\ \A t \in Threads : /\ citem[t].buf # witem.buf
                              /\ \A k \in DOMAIN readChans[t] : readChans[t][k].buf # witem.buf
    <3>1. ritem.buf # witem.buf
      <4>1. ritem.buf # 0 => mem[ritem.buf] = i + 1
        BY <1>0 DEF ReaderHas, Message
      <4> QED
        BY <1>2, <1>3, <2>0, <4>1
    <3>2. \A y : \A t \in Threads : UnderWay(t, y) => y.buf # witem.buf
      BY <1>2, <1>3 DEF UnderWay, Message
    <3>3. \A t \in Threads : /\ citem[t].buf # 0 => UnderWay(t, citem[t])
                             /\ \A k \in DOMAIN readChans[t] : UnderWay(t, readChans[t][k])
      BY <1>0 DEF ConvertersHave, Busy
    <3> QED
      BY <2>0, <3>1, <3>2, <3>3
  <2>2. ASSUME NEW a \in DOMAIN pool' PROVE Free(pool[a])'
    <3>1. CASE a \in DOMAIN pool /\ pool'[a] = pool[a]
      <4>1. Free(pool[a]) /\ pool[a] # 0
        BY <1>0, <1>2, <3>1 DEF PoolFree
      <4> QED
        BY <1>1, <3>1, <4>1, NoItemType DEF Free
    <3>2. CASE pool'[a] = witem.buf
      BY <1>1, <2>0, <2>1, <3>2, NoItemType DEF Free
    <3> QED
      BY <1>p, <3>1, <3>2
  <2>3. ASSUME NEW a \in DOMAIN pool', NEW b \in DOMAIN pool', pool'[a] = pool'[b] PROVE a = b
    <3>1. \A c \in DOMAIN pool : pool[c] # witem.buf
      BY <1>0 DEF PoolFree, Free
    <3> QED
      BY <1>0, <1>p, <2>3, <3>1 DEF PoolFree
  <2> QED
    BY <2>2, <2>3 DEF PoolFree
<1> QED
  BY <1>t, <1>11, <1>12, <1>13, <1>14, <1>15, <1>16, <1>h DEF IInv

-----------------------------------------------------------------------------
LEMMA InitIInv == Init => IInv
<1> SUFFICES ASSUME Init PROVE IInv
  OBVIOUS
<1>0. /\ NoItem \in Items /\ NoItem.buf = 0 /\ NumMessages \in Nat /\ NumThreads \in Nat \ {0}
      /\ ThreadBuffer \in Nat
  BY NoItemType, Sizes, SizesAssumption
<1>1. /\ rpc = "read" /\ i = 0 /\ ritem = NoItem /\ readChans = [t \in Threads |-> << >>]
      /\ cpc = [t \in Threads |-> "recv"] /\ citem = [t \in Threads |-> NoItem]
      /\ wpc = "recv" /\ wi = 0 /\ closedChans = 0 /\ witem = NoItem
      /\ pool = << >> /\ mem = << >> /\ cancelled = FALSE /\ err = "none" /\ handled = << >>
      /\ input \in [Numbers -> Qualities] /\ failOnConvertErrors \in BOOLEAN
  BY SizesAssumption DEF Init
<1>2. /\ DOMAIN pool = {} /\ DOMAIN handled = {} /\ Len(handled) = 0 /\ i = 0 /\ wi = 0
      /\ \A t \in Threads : /\ readChans[t] = << >> /\ DOMAIN readChans[t] = {}
                            /\ citem[t] = NoItem /\ cpc[t] = "recv" /\ Len(readChans[t]) = 0
  BY <1>1
<1>t. TypeOK
  <2>1. /\ i \in 0 .. NumMessages /\ wi \in 0 .. NumMessages /\ closedChans \in 0 .. NumThreads
        /\ readChans \in [Threads -> Seq(Items)] /\ citem \in [Threads -> Items]
        /\ cpc \in [Threads -> {"recv", "decode", "encode", "send", "exit"}]
        /\ \A t \in Threads : Len(readChans[t]) <= ThreadBuffer
    BY <1>0, <1>1, <1>2
  <2>2. /\ mem \in Seq(Numbers) /\ pool \in Seq(1 .. Len(mem))
        /\ handled \in Seq([n : 0 .. NumMessages, bad : BOOLEAN])
    BY <1>1
  <2> QED
    BY <1>0, <1>1, <2>1, <2>2 DEF TypeOK
<1>3. ReaderHas /\ WriterHas
  BY <1>0, <1>1, <1>2 DEF ReaderHas, WriterHas
<1>4. ConvertersHave /\ InTurn
  BY <1>0, <1>2 DEF ConvertersHave, InTurn, Busy
<1>5. NoneLost
  BY <1>2 DEF NoneLost
<1>6. PoolFree /\ OutputInOrder
  BY <1>1, <1>2 DEF PoolFree, OutputInOrder
<1> QED
  BY <1>t, <1>3, <1>4, <1>5, <1>6 DEF IInv

LEMMA StepIInv == IInv /\ [Next]_vars => IInv'
<1> SUFFICES ASSUME IInv, [Next]_vars PROVE IInv'
  OBVIOUS
<1>1. CASE Read
  BY <1>1, ReadKeeps
<1>2. CASE SendRead
  BY <1>2, SendReadKeeps
<1>3. ASSUME NEW t \in Threads, Receive(t) PROVE IInv'
  BY <1>3, ReceiveKeeps
<1>4. ASSUME NEW t \in Threads, Decode(t) \/ Encode(t) PROVE IInv'
  BY <1>4, ConvertKeeps
<1>5. CASE Take
  BY <1>5, TakeKeeps
<1>6. CASE Report \/ Write
  BY <1>6, WriteKeeps
<1>7. CASE \/ ReadEnds \/ ReadDone \/ WriteDone \/ WriteChanClosed \/ Cancel
           \/ \E t \in Threads : ReadChanClosed(t) \/ ConvertDone(t)
           \/ UNCHANGED vars
  BY <1>7, QuietSteps, QuietKeeps
<1> QED
  BY <1>1, <1>2, <1>3, <1>4, <1>5, <1>6, <1>7 DEF Next, RunRead, RunConvert, RunWrite

LEMMA Invariance == Spec => []IInv
  BY InitIInv, StepIInv, PTL DEF Spec

(* A message's number says who has its buffer: the reader has i + 1, the   *)
(* writer wi, and the goroutines the ones between, each in one place.      *)
LEMMA OwnersApart == IInv => BuffersOwned
<1> SUFFICES ASSUME IInv, NEW p \in Places, NEW q \in Places, p[4] = q[4], p[4] # 0 PROVE p = q
  BY DEF BuffersOwned
<1>0. TypeOK /\ ReaderHas /\ ConvertersHave /\ InTurn /\ NoneLost /\ WriterHas /\ PoolFree
  BY DEF IInv
<1>n. i \in Nat /\ wi \in Nat /\ wi <= i
  BY <1>0, Sizes DEF TypeOK, NoneLost
<1> DEFINE Reader(x) == x = <<"read", 0, 0, ritem.buf>> /\ mem[x[4]] = i + 1
           Writer(x) == x = <<"write", 0, 0, witem.buf>> /\ mem[x[4]] = wi
           Converts(x, t) == /\ x = <<"convert", t, 0, citem[t].buf>>
                             /\ UnderWay(t, citem[t]) /\ Busy(t)
           Sent(x, t, k) == /\ x = <<"sent", t, k, readChans[t][k].buf>>
                            /\ UnderWay(t, readChans[t][k])
           Waits(x, t) == Converts(x, t) \/ \E k \in DOMAIN readChans[t] : Sent(x, t, k)
           Held(x) == Reader(x) \/ Writer(x) \/ \E t \in Threads : Waits(x, t)
           Pooled(x, k) == x = <<"free", 0, k, pool[k]>>
<1>1. ASSUME NEW x \in Places, x[4] # 0 PROVE Held(x) \/ \E k \in DOMAIN pool : Pooled(x, k)
  <2>1. CASE x = <<"read", 0, 0, ritem.buf>>
    BY <1>0, <1>1, <2>1 DEF ReaderHas, Message
  <2>2. CASE x = <<"write", 0, 0, witem.buf>>
    BY <1>0, <1>1, <2>2 DEF WriterHas, Message, TypeOK
  <2>3. ASSUME NEW t \in Threads, x = <<"convert", t, 0, citem[t].buf>> PROVE Converts(x, t)
    BY <1>0, <1>1, <2>3 DEF ConvertersHave, Busy
  <2>4. ASSUME NEW t \in Threads, NEW k \in DOMAIN readChans[t],
               x = <<"sent", t, k, readChans[t][k].buf>>
        PROVE  Sent(x, t, k)
    BY <1>0, <2>4 DEF ConvertersHave
  <2>5. \/ x = <<"read", 0, 0, ritem.buf>> \/ x = <<"write", 0, 0, witem.buf>>
        \/ \E t \in Threads : x = <<"convert", t, 0, citem[t].buf>>
        \/ \E t \in Threads : \E k \in DOMAIN readChans[t] : x = <<"sent", t, k, readChans[t][k].buf>>
        \/ \E k \in DOMAIN pool : x = <<"free", 0, k, pool[k]>>
    <3>1. \/ x \in {<<"read", 0, 0, ritem.buf>>, <<"write", 0, 0, witem.buf>>}
          \/ x \in {<<"convert", t, 0, citem[t].buf>> : t \in Threads}
          \/ x \in UNION {{<<"sent", t, k, readChans[t][k].buf>> : k \in DOMAIN readChans[t]} :
                           t \in Threads}
          \/ x \in {<<"free", 0, k, pool[k]>> : k \in DOMAIN pool}
      BY <1>1 DEF Places
    <3>2. ASSUME x \in UNION {{<<"sent", t, k, readChans[t][k].buf>> : k \in DOMAIN readChans[t]} :
                              t \in Threads}
          PROVE  \E t \in Threads : \E k \in DOMAIN readChans[t] :
                   x = <<"sent", t, k, readChans[t][k].buf>>
      BY <3>2, Zenon
    <3> QED
      BY <3>1, <3>2, Zenon
  <2> QED
    BY <2>1, <2>2, <2>3, <2>4, <2>5
<1>2. ASSUME NEW x, Held(x), NEW k \in DOMAIN pool PROVE x[4] # pool[k]
  <2>1. Free(pool[k])
    BY <1>0 DEF PoolFree
  <2> QED
    BY <1>2, <2>1 DEF Free
<1>3. ASSUME NEW x, NEW t \in Threads, Waits(x, t)
      PROVE  mem[x[4]] \in wi + 1 .. i /\ ThreadOf(mem[x[4]]) = t
  BY <1>3 DEF UnderWay, Message
<1>4. ASSUME NEW t \in Threads, Waits(p, t), Waits(q, t) PROVE p = q
  <2>m. PICK m \in Int : m = mem[p[4]] /\ m = mem[q[4]]
    BY <1>3, <1>4, <1>n
  <2>1. ASSUME NEW x, NEW y, Converts(x, t), NEW k \in DOMAIN readChans[t], Sent(y, t, k),
               mem[x[4]] = m, mem[y[4]] = m
        PROVE  FALSE
    <3>1. mem[citem[t].buf] < mem[readChans[t][k].buf]
      BY <1>0, <2>1 DEF InTurn, Message
    <3> QED
      BY <2>1, <3>1
  <2>2. ASSUME NEW j \in DOMAIN readChans[t], NEW k \in DOMAIN readChans[t], Sent(p, t, j), Sent(q, t, k)
        PROVE  j = k
    <3>1. mem[readChans[t][j].buf] = m /\ mem[readChans[t][k].buf] = m
      BY <2>m, <2>2
    <3>2. ~ (j < k) /\ ~ (k < j)
      BY <1>0, <3>1 DEF InTurn, Message
    <3>3. j \in Int /\ k \in Int
      <4>1. readChans[t] \in Seq(Items)
        BY <1>0 DEF TypeOK
      <4> QED
        BY <4>1
    <3> QED
      BY <3>2, <3>3
  <2> QED
    BY <1>4, <2>m, <2>1, <2>2
<1>5. CASE Held(p) /\ Held(q)
  <2>1. \A x : /\ Reader(x) => mem[x[4]] = i + 1
               /\ Writer(x) => mem[x[4]] = wi
    OBVIOUS
  <2>2. i + 1 \notin wi + 1 .. i /\ wi \notin wi + 1 .. i /\ i + 1 # wi
    BY <1>n
  <2>3. CASE Reader(p) \/ Reader(q) \/ Writer(p) \/ Writer(q)
    <3>1. ASSUME NEW x, NEW t \in Threads, Waits(x, t) PROVE mem[x[4]] # i + 1 /\ mem[x[4]] # wi
      BY <1>3, <2>2, <3>1
    <3> HIDE DEF Waits
    <3> QED
      BY <1>5, <2>2, <2>3, <3>1
  <2>4. ASSUME NEW t \in Threads, NEW u \in Threads, Waits(p, t), Waits(q, u) PROVE p = q
    <3>1. t = u
      BY <1>3, <2>4
    <3> HIDE DEF Waits
    <3> QED
      BY <1>4, <2>4, <3>1
  <2> HIDE DEF Waits
  <2> QED
    BY <1>5, <2>3, <2>4
<1>6. CASE \E k \in DOMAIN pool : Pooled(p, k)
  <2>1. PICK k \in DOMAIN pool : Pooled(p, k)
    BY <1>6
  <2>2. ~ Held(q)
    BY <1>2, <2>1
  <2>3. PICK j \in DOMAIN pool : Pooled(q, j)
    BY <1>1, <2>2
  <2> QED
    BY <1>0, <2>1, <2>3 DEF PoolFree
<1>7. CASE \E k \in DOMAIN pool : Pooled(q, k)
  <2>1. PICK k \in DOMAIN pool : Pooled(q, k)
    BY <1>7
  <2>2. ~ Held(p)
    BY <1>2, <2>1
  <2> QED
    BY <1>1, <1>6, <2>2
<1> QED
  BY <1>1, <1>5, <1>6, <1>7

(* For every number of messages, goroutines and channel sizes, and         *)
(* whatever fails: the state has its types, and no read buffer has two     *)
(* owners, so that reading never overwrites a message still to be          *)
(* converted.                                                              *)
THEOREM ConverterSafe == Spec => []Inv
<1>1. IInv => Inv
  BY OwnersApart DEF IInv, Inv
<1> QED
  BY <1>1, Invariance, PTL

(* Messages are written, or reported as bad, in the order of the input,    *)
(* each once and with its own content.                                     *)
THEOREM OrderSafe == Spec => []OutputInOrder
<1>1. IInv => OutputInOrder
  BY DEF IInv
<1> QED
  BY <1>1, Invariance, PTL

-----------------------------------------------------------------------------
(* As long as there is no error, whoever has returned had nothing left to  *)
(* do: the reader has sent all, a goroutine has passed all of its messages *)
(* on, and the writer, when it finds a channel closed, has written all.    *)
NothingLeft ==
  err = "none" =>
    /\ rpc = "exit" => i = NumMessages
    /\ \A t \in Threads : cpc[t] = "exit" => rpc = "exit" /\ readChans[t] = << >> /\ ~ Busy(t)
    /\ wpc = "exit" => closedChans > 0 /\ wi = Len(handled)
    /\ closedChans > 0 => wi = NumMessages

(* Process returns no error only if every message was written or reported. *)
SuccessIsComplete == Returned /\ err = "none" => Len(handled) = NumMessages

LEMMA NothingLeftStep == IInv /\ NothingLeft /\ [Next]_vars => NothingLeft'
<1> SUFFICES ASSUME IInv, NothingLeft, [Next]_vars, err' = "none" PROVE NothingLeft'
  BY DEF NothingLeft
<1>0. TypeOK /\ ReaderHas /\ ConvertersHave /\ NoneLost /\ WriterHas
  BY DEF IInv
<1>e. \A e \in {"read", "ctx", "convert", "errWriter", "write"} : ~ Fail(e)
  BY DEF Fail
<1>1. err = "none"
  BY <1>e DEF Next, RunRead, RunConvert, RunWrite, vars, groupVars, Read, ReadEnds, SendRead, ReadDone,
     Receive, ReadChanClosed, Decode, Encode, ConvertDone, Take, WriteChanClosed, Report, Write,
     WriteDone, Cancel
<1>2. /\ rpc = "exit" => i = NumMessages
      /\ \A t \in Threads : cpc[t] = "exit" => rpc = "exit" /\ readChans[t] = << >> /\ ~ Busy(t)
      /\ wpc = "exit" => closedChans > 0 /\ wi = Len(handled)
      /\ closedChans > 0 => wi = NumMessages
  BY <1>1 DEF NothingLeft
<1>n. /\ i \in Nat /\ wi \in Nat /\ wi <= i /\ i <= NumMessages /\ closedChans \in Nat
      /\ NumMessages \in Nat
  BY <1>0, Sizes DEF TypeOK, NoneLost
<1>t. /\ readChans \in [Threads -> Seq(Items)] /\ citem \in [Threads -> Items]
      /\ cpc \in [Threads -> {"recv", "decode", "encode", "send", "exit"}]
  BY <1>0 DEF TypeOK
<1>3. CASE Read
  BY <1>2, <1>3 DEF Read, NothingLeft, Busy, convVars, writeVars
<1>4. CASE ReadEnds
  BY <1>2, <1>4, <1>e DEF ReadEnds, NothingLeft, Busy, convVars, writeVars
<1>5. CASE SendRead
  BY <1>2, <1>5 DEF SendRead, NothingLeft, Busy, convVars, writeVars
<1>6. CASE ReadDone
  BY <1>6, <1>e DEF ReadDone
<1>7. ASSUME NEW u \in Threads, Receive(u) PROVE NothingLeft'
  <2>1. /\ cpc' = [cpc EXCEPT ![u] = "decode"] /\ rpc' = rpc /\ i' = i /\ wpc' = wpc /\ wi' = wi
        /\ closedChans' = closedChans /\ handled' = handled
        /\ \A t \in Threads : t # u => readChans'[t] = readChans[t] /\ citem'[t] = citem[t]
    BY <1>7, <1>t DEF Receive, readVars, writeVars
  <2>2. \A t \in Threads : cpc'[t] = "exit" => t # u /\ cpc[t] = "exit"
    BY <1>t, <2>1
  <2> QED
    BY <1>2, <2>1, <2>2 DEF NothingLeft, Busy
<1>8. ASSUME NEW u \in Threads, ReadChanClosed(u) PROVE NothingLeft'
  <2>1. ~ Busy(u) /\ readChans[u] = << >> /\ rpc = "exit"
    BY <1>0, <1>8 DEF ReadChanClosed, ConvertersHave
  <2> QED
    BY <1>2, <1>8, <1>t, <2>1 DEF ReadChanClosed, NothingLeft, Busy, readVars, writeVars
<1>9. ASSUME NEW u \in Threads, Decode(u) \/ Encode(u) PROVE NothingLeft'
  <2>1. /\ cpc' \in {[cpc EXCEPT ![u] = "send"], [cpc EXCEPT ![u] = "encode"]}
        /\ rpc' = rpc /\ i' = i /\ wpc' = wpc /\ wi' = wi
        /\ closedChans' = closedChans /\ handled' = handled /\ readChans' = readChans
        /\ \A t \in Threads : t # u => citem'[t] = citem[t]
    BY <1>9, <1>t DEF Decode, Encode, readVars, writeVars
  <2>2. \A t \in Threads : cpc'[t] = "exit" => t # u /\ cpc[t] = "exit"
    BY <1>t, <2>1
  <2> QED
    BY <1>2, <2>1, <2>2 DEF NothingLeft, Busy
<1>10. ASSUME NEW u \in Threads, ConvertDone(u) PROVE NothingLeft'
  BY <1>10, <1>e DEF ConvertDone
<1>11. CASE Take
  <2>u. PICK u \in Threads : u = Turn
    BY <1>n, Sizes DEF Turn
  <2>1. /\ cpc' = [cpc EXCEPT ![u] = "recv"] /\ rpc' = rpc /\ i' = i /\ wpc' = "write" /\ wi' = wi + 1
        /\ closedChans' = closedChans /\ handled' = handled /\ readChans' = readChans
        /\ \A t \in Threads : t # u => citem'[t] = citem[t]
    BY <1>11, <1>t, <2>u DEF Take, readVars
  <2>2. \A t \in Threads : cpc'[t] = "exit" => t # u /\ cpc[t] = "exit"
    BY <1>t, <2>1
  <2>3. wi < i
    <3>1. UnderWay(u, citem[u])
      BY <1>0, <1>11, <2>u DEF Take, ConvertersHave
    <3> QED
      BY <1>n, <3>1 DEF UnderWay
  <2>4. ~ closedChans > 0
    BY <1>2, <1>n, <2>3
  <2> QED
    BY <1>2, <2>1, <2>2, <2>4 DEF NothingLeft, Busy
<1>12. CASE WriteChanClosed
  <2>u. PICK u \in Threads : u = wi % NumThreads /\ u = ThreadOf(wi + 1)
    BY <1>n, Sizes
  <2>1. rpc = "exit" /\ readChans[u] = << >> /\ ~ Busy(u) /\ i = NumMessages
    BY <1>2, <1>12, <2>u DEF WriteChanClosed, Turn
  <2>2. wi = i
    <3>1. ~ Has(u, wi + 1)
      BY <2>1 DEF Has
    <3>2. wi + 1 \notin wi + 1 .. i
      BY <1>0, <2>u, <3>1 DEF NoneLost
    <3> QED
      BY <1>n, <3>2
  <2>3. wi = Len(handled)
    BY <1>0, <1>12 DEF WriteChanClosed, WriterHas
  <2>4. closedChans' > 0
    BY <1>12, <1>n DEF WriteChanClosed
  <2> QED
    BY <1>2, <1>12, <2>1, <2>2, <2>3, <2>4 DEF WriteChanClosed, NothingLeft, Busy, readVars, convVars
<1>13. CASE Report \/ Write
  <2>1. wpc' = "recv"
    BY <1>13, <1>e DEF Report, Write
  <2> QED
    BY <1>2, <1>13, <2>1 DEF Report, Write, NothingLeft, Busy, readVars, convVars
<1>14. CASE WriteDone
  BY <1>14, <1>e DEF WriteDone
<1>15. CASE Cancel \/ UNCHANGED vars
  BY <1>2, <1>15 DEF Cancel, NothingLeft, Busy, vars, readVars, convVars, writeVars
<1> QED
  BY <1>3, <1>4, <1>5, <1>6, <1>7, <1>8, <1>9, <1>10, <1>11, <1>12, <1>13, <1>14, <1>15
  DEF Next, RunRead, RunConvert, RunWrite

(* Whatever was cancelled, whoever returned first: if Process returns no   *)
(* error, every message of the input was written or reported.              *)
THEOREM SuccessSafe == Spec => []SuccessIsComplete
<1>1. Init => NothingLeft
  <2> SUFFICES ASSUME Init PROVE NothingLeft
    OBVIOUS
  <2>1. rpc = "read" /\ wpc = "recv" /\ closedChans = 0 /\ \A t \in Threads : cpc[t] = "recv"
    BY DEF Init
  <2> QED
    BY <2>1 DEF NothingLeft
<1>2. NothingLeft => SuccessIsComplete
  BY DEF NothingLeft, SuccessIsComplete, Returned
<1> QED
  BY <1>1, <1>2, Invariance, NothingLeftStep, PTL DEF Spec
=============================================================================
