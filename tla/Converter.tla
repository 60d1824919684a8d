----------------------------- MODULE Converter -----------------------------
(***************************************************************************)
(* framer convert: formats/converter reads messages in order, deals them   *)
(* to the converting goroutines in turn and collects their results in the  *)
(* same turn.  All of them run in one errgroup: the first error cancels    *)
(* the context of the others.                                              *)
(*                                                                         *)
(* A message is its number.  The memory it is read into comes from the     *)
(* pool of formats/internal/pooledreader and is converted in place (the    *)
(* decoded message points into it), so buffers are memory here.            *)
(***************************************************************************)
EXTENDS Integers, Sequences

CONSTANTS
  NumMessages,   \* messages of the input
  NumThreads,    \* converting goroutines (GOMAXPROCS)
  ThreadBuffer,  \* capacity of a read channel (100)
  Qualities,     \* what the messages may be, of "ok", "undecodable", "unencodable"
  FailModes,     \* values of failOnConvertErrors to check
  Faults         \* of "read", "write", "errWriter", "cancel"

ASSUME SizesAssumption ==
  /\ NumMessages \in Nat /\ {NumThreads, ThreadBuffer} \subseteq Nat \ {0}
  /\ FailModes \subseteq BOOLEAN
ASSUME QualitiesAssumption == Qualities \subseteq {"ok", "undecodable", "unencodable"}

Threads == 0 .. NumThreads - 1
Numbers == 1 .. NumMessages

VARIABLES
  input, failOnConvertErrors,   \* quality of each message; configuration
  rpc, i, ritem,                \* runRead: program counter, messages sent, the next
  readChans,
  cpc, citem,                   \* runConvert of each goroutine: its item
  wpc, wi, closedChans, witem,  \* runWrite
  pool, mem,                    \* free buffers, content of all
  cancelled, err,               \* errgroup: context, first error
  handled                       \* history: messages written or reported, in order

readVars == <<rpc, i, ritem>>
convVars == <<cpc, citem>>
writeVars == <<wpc, wi, closedChans, witem>>
bufVars == <<pool, mem>>
groupVars == <<cancelled, err>>
vars == <<input, failOnConvertErrors, readVars, readChans, convVars, writeVars, bufVars,
          groupVars, handled>>

NoItem == [buf |-> 0, convertErr |-> FALSE, value |-> 0]

Init ==
  /\ input \in [Numbers -> Qualities] /\ failOnConvertErrors \in FailModes
  /\ rpc = "read" /\ i = 0 /\ ritem = NoItem
  /\ readChans = [t \in Threads |-> << >>]
  /\ cpc = [t \in Threads |-> "recv"] /\ citem = [t \in Threads |-> NoItem]
  /\ wpc = "recv" /\ wi = 0 /\ closedChans = 0 /\ witem = NoItem
  /\ pool = << >> /\ mem = << >>
  /\ cancelled = FALSE /\ err = "none"
  /\ handled = << >>

(* errgroup: keep the first error and cancel the context.                  *)
Fail(e) == /\ err' = IF err = "none" THEN e ELSE err
           /\ cancelled' = TRUE

-----------------------------------------------------------------------------
(* runRead.                                                                *)

(* The buffer released last, or a new one.                                 *)
Read ==
  /\ rpc = "read" /\ i < NumMessages
  /\ IF pool # << >>
       THEN /\ ritem' = [NoItem EXCEPT !.buf = pool[Len(pool)]]
            /\ pool' = SubSeq(pool, 1, Len(pool) - 1)
            /\ mem' = [mem EXCEPT ![pool[Len(pool)]] = i + 1]
       ELSE /\ ritem' = [NoItem EXCEPT !.buf = Len(mem) + 1]
            /\ mem' = Append(mem, i + 1)
            /\ UNCHANGED pool
  /\ rpc' = "send"
  /\ UNCHANGED <<input, failOnConvertErrors, i, readChans, convVars, writeVars, groupVars,
                 handled>>

(* End of file, or an error; the read channels are closed.                 *)
ReadEnds ==
  /\ rpc = "read"
  /\ \/ i = NumMessages /\ UNCHANGED groupVars
     \/ "read" \in Faults /\ Fail("read")
  /\ rpc' = "exit"
  /\ UNCHANGED <<input, failOnConvertErrors, i, ritem, readChans, convVars, writeVars, bufVars,
                 handled>>

SendRead ==
  /\ rpc = "send" /\ Len(readChans[i % NumThreads]) < ThreadBuffer
  /\ readChans' = [readChans EXCEPT ![i % NumThreads] = Append(@, ritem)]
  /\ i' = i + 1 /\ ritem' = NoItem
  /\ rpc' = "read"
  /\ UNCHANGED <<input, failOnConvertErrors, convVars, writeVars, bufVars, groupVars, handled>>

ReadDone ==
  /\ rpc = "send" /\ cancelled
  /\ Fail("ctx")
  /\ rpc' = "exit"
  /\ UNCHANGED <<input, failOnConvertErrors, i, ritem, readChans, convVars, writeVars, bufVars,
                 handled>>

-----------------------------------------------------------------------------
(* runConvert.                                                             *)

Receive(t) ==
  /\ cpc[t] = "recv" /\ readChans[t] # << >>
  /\ citem' = [citem EXCEPT ![t] = Head(readChans[t])]
  /\ readChans' = [readChans EXCEPT ![t] = Tail(@)]
  /\ cpc' = [cpc EXCEPT ![t] = "decode"]
  /\ UNCHANGED <<input, failOnConvertErrors, readVars, writeVars, bufVars, groupVars, handled>>

ReadChanClosed(t) ==
  /\ cpc[t] = "recv" /\ readChans[t] = << >> /\ rpc = "exit"
  /\ cpc' = [cpc EXCEPT ![t] = "exit"]
  /\ UNCHANGED <<input, failOnConvertErrors, readVars, readChans, citem, writeVars, bufVars,
                 groupVars, handled>>

(* The item with what became of the message in its buffer.                 *)
Result(item, bad) == [buf |-> item.buf, convertErr |-> bad, value |-> mem[item.buf]]

(* Mutant of Decode: the buffer is released before the message is encoded. *)
DecodeReleases(t) ==
  /\ cpc[t] = "decode"
  /\ cpc' = [cpc EXCEPT ![t] = "encode"]
  /\ pool' = Append(pool, citem[t].buf)
  /\ UNCHANGED <<input, failOnConvertErrors, readVars, readChans, citem, writeVars, mem, groupVars,
                 handled>>

Decode(t) ==
  /\ cpc[t] = "decode"
  /\ IF input[mem[citem[t].buf]] = "undecodable"
       THEN /\ citem' = [citem EXCEPT ![t] = Result(citem[t], TRUE)]
            /\ cpc' = [cpc EXCEPT ![t] = "send"]
       ELSE cpc' = [cpc EXCEPT ![t] = "encode"] /\ UNCHANGED citem
  /\ UNCHANGED <<input, failOnConvertErrors, readVars, readChans, writeVars, bufVars, groupVars,
                 handled>>

(* The result is memory of its own.                                        *)
Encode(t) ==
  /\ cpc[t] = "encode"
  /\ citem' = [citem EXCEPT ![t] = Result(citem[t], input[mem[citem[t].buf]] = "unencodable")]
  /\ cpc' = [cpc EXCEPT ![t] = "send"]
  /\ UNCHANGED <<input, failOnConvertErrors, readVars, readChans, writeVars, bufVars, groupVars,
                 handled>>

(* Mutant of ConvertDone: a goroutine that is cancelled returns no error.  *)
ConvertDoneQuietly(t) ==
  /\ cpc[t] \in {"recv", "send"} /\ cancelled
  /\ cpc' = [cpc EXCEPT ![t] = "exit"]
  /\ UNCHANGED <<input, failOnConvertErrors, readVars, readChans, citem, writeVars, bufVars,
                 groupVars, handled>>

ConvertDone(t) ==
  /\ cpc[t] \in {"recv", "send"} /\ cancelled
  /\ Fail("ctx")
  /\ cpc' = [cpc EXCEPT ![t] = "exit"]
  /\ UNCHANGED <<input, failOnConvertErrors, readVars, readChans, citem, writeVars, bufVars,
                 handled>>

-----------------------------------------------------------------------------
(* runWrite.                                                               *)

Turn == wi % NumThreads

(* Mutant of Take: the writer takes a result from whoever has one.         *)
TakeAny ==
  /\ wpc = "recv"
  /\ \E t \in Threads : /\ cpc[t] = "send"
                        /\ witem' = citem[t]
                        /\ cpc' = [cpc EXCEPT ![t] = "recv"]
                        /\ citem' = [citem EXCEPT ![t] = NoItem]
  /\ wi' = wi + 1
  /\ wpc' = "write"
  /\ UNCHANGED <<input, failOnConvertErrors, readVars, readChans, closedChans, bufVars, groupVars,
                 handled>>

(* The write channels are unbuffered.                                      *)
Take ==
  /\ wpc = "recv" /\ cpc[Turn] = "send"
  /\ witem' = citem[Turn]
  /\ cpc' = [cpc EXCEPT ![Turn] = "recv"]
  /\ citem' = [citem EXCEPT ![Turn] = NoItem]
  /\ wi' = wi + 1
  /\ wpc' = "write"
  /\ UNCHANGED <<input, failOnConvertErrors, readVars, readChans, closedChans, bufVars, groupVars,
                 handled>>

(* The channel is closed: receive from it again, until it has been closed  *)
(* as often as there are channels.                                         *)
WriteChanClosed ==
  /\ wpc = "recv" /\ cpc[Turn] = "exit"
  /\ closedChans' = closedChans + 1
  /\ wpc' = IF closedChans' = NumThreads THEN "exit" ELSE "recv"
  /\ UNCHANGED <<input, failOnConvertErrors, readVars, readChans, convVars, wi, witem, bufVars,
                 groupVars, handled>>

Handle == handled' = Append(handled, [n |-> witem.value, bad |-> witem.convertErr])

(* A conversion error ends the run or goes to errWriter.                   *)
Report ==
  /\ wpc = "write" /\ witem.convertErr
  /\ \/ /\ failOnConvertErrors /\ Fail("convert")
        /\ wpc' = "exit" /\ UNCHANGED handled
     \/ /\ ~ failOnConvertErrors /\ Handle
        /\ wpc' = "recv" /\ UNCHANGED groupVars
     \/ /\ ~ failOnConvertErrors /\ "errWriter" \in Faults /\ Fail("errWriter")
        /\ wpc' = "exit" /\ UNCHANGED handled
  /\ witem' = NoItem
  /\ UNCHANGED <<input, failOnConvertErrors, readVars, readChans, convVars, wi, closedChans,
                 bufVars>>

(* The read buffer is released whether or not the write succeeds.          *)
Write ==
  /\ wpc = "write" /\ ~ witem.convertErr
  /\ pool' = Append(pool, witem.buf)
  /\ \/ Handle /\ wpc' = "recv" /\ UNCHANGED groupVars
     \/ "write" \in Faults /\ Fail("write") /\ wpc' = "exit" /\ UNCHANGED handled
  /\ witem' = NoItem
  /\ UNCHANGED <<input, failOnConvertErrors, readVars, readChans, convVars, wi, closedChans, mem>>

WriteDone ==
  /\ wpc = "recv" /\ cancelled
  /\ Fail("ctx")
  /\ wpc' = "exit"
  /\ UNCHANGED <<input, failOnConvertErrors, readVars, readChans, convVars, wi, closedChans, witem,
                 bufVars, handled>>

(* The caller's context is cancelled.                                      *)
Cancel ==
  /\ "cancel" \in Faults /\ ~ cancelled
  /\ cancelled' = TRUE
  /\ UNCHANGED <<input, failOnConvertErrors, readVars, readChans, convVars, writeVars, bufVars, err,
                 handled>>

-----------------------------------------------------------------------------
RunRead == Read \/ ReadEnds \/ SendRead \/ ReadDone

RunConvert(t) == Receive(t) \/ ReadChanClosed(t) \/ Decode(t) \/ Encode(t) \/ ConvertDone(t)

RunWrite == Take \/ WriteChanClosed \/ Report \/ Write \/ WriteDone

Next == RunRead \/ (\E t \in Threads : RunConvert(t)) \/ RunWrite \/ Cancel

Spec == Init /\ [][Next]_vars

(* Goroutines that can run do run.                                         *)
FairSpec == Spec /\ WF_vars(RunRead) /\ WF_vars(RunWrite)
                 /\ \A t \in Threads : WF_vars(RunConvert(t))

-----------------------------------------------------------------------------
Items == [buf : 0 .. Len(mem), convertErr : BOOLEAN, value : 0 .. NumMessages]

TypeOK ==
  /\ input \in [Numbers -> Qualities] /\ failOnConvertErrors \in BOOLEAN
  /\ rpc \in {"read", "send", "exit"} /\ i \in 0 .. NumMessages /\ ritem \in Items
  /\ readChans \in [Threads -> Seq(Items)]
  /\ \A t \in Threads : Len(readChans[t]) <= ThreadBuffer
  /\ cpc \in [Threads -> {"recv", "decode", "encode", "send", "exit"}]
  /\ citem \in [Threads -> Items]
  /\ wpc \in {"recv", "write", "exit"} /\ wi \in 0 .. NumMessages
  /\ closedChans \in 0 .. NumThreads /\ witem \in Items
  /\ mem \in Seq(Numbers) /\ pool \in Seq(1 .. Len(mem))
  /\ cancelled \in BOOLEAN
  /\ err \in {"none", "read", "write", "errWriter", "convert", "ctx"}
  /\ handled \in Seq([n : 0 .. NumMessages, bad : BOOLEAN])

(* The output is in the order of the input: the messages handled, written  *)
(* or reported as bad, are 1, 2, 3, ..., each once, with its own content,  *)
(* however the goroutines are scheduled.                                   *)
OutputInOrder ==
  handled = [k \in DOMAIN handled |-> [n |-> k, bad |-> input[k] # "ok"]]

(* Where the buffers are: with the reader, the writer, a converting        *)
(* goroutine, in a read channel or in the pool.                            *)
Places ==
  {<<"read", 0, 0, ritem.buf>>, <<"write", 0, 0, witem.buf>>}
    \cup {<<"convert", t, 0, citem[t].buf>> : t \in Threads}
    \cup {<<"free", 0, k, pool[k]>> : k \in DOMAIN pool}
    \cup UNION {{<<"sent", t, k, readChans[t][k].buf>> : k \in DOMAIN readChans[t]} : t \in Threads}

(* A buffer belongs to one message or is free: reading never overwrites a  *)
(* message that is still to be converted.                                  *)
BuffersOwned == \A p, q \in Places : p[4] = q[4] /\ p[4] # 0 => p = q

(* The state has its types, and buffers are owned.  (runWrite stays at a   *)
(* closed channel and counts it again until it has counted NumThreads:     *)
(* that it gives up on no open one is OutputInOrder and ProcessReturns.)   *)
Inv == TypeOK /\ BuffersOwned

Returned == rpc = "exit" /\ wpc = "exit" /\ \A t \in Threads : cpc[t] = "exit"

(* Process returns: no goroutine is left behind on a channel when another  *)
(* one gives up.  And it reports success only for a complete output,       *)
(* whoever returned first and whatever was cancelled.                      *)
ProcessReturns == <>(Returned /\ (err = "none" => Len(handled) = NumMessages))
=============================================================================
