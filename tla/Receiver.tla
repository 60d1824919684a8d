------------------------------ MODULE Receiver ------------------------------
(***************************************************************************)
(* The read side of a connection, loader/reciever: the reader fills two    *)
(* buffers in turn and hands each to the processor over an unbuffered      *)
(* channel; the Framer cuts it into headers and pieces of payload, and the *)
(* processor of the frame's type puts the pieces together.  conn.Read may  *)
(* return after any byte, so a frame arrives in any number of pieces.      *)
(*                                                                         *)
(* A byte is its place in what the server sends: frame and offset.  A      *)
(* header is HeaderLen bytes (9); a word, a uint32, is its WordLen (4)     *)
(* bytes, the highest first.  Buffers are memory: the processor reads what *)
(* is there when it gets to it.  What the processors do to the shared      *)
(* objects is in Streams; here log keeps what each frame came to.          *)
(* Acks of PINGs and WINDOW_UPDATEs go to the sender, through a channel;   *)
(* the sender may leave at any time, and is in SendPipeline.               *)
(***************************************************************************)
EXTENDS Integers, Sequences, FiniteSets, Functions

CONSTANTS
  FrameSet,    \* frames the server may send
  MaxFrames,   \* how many it sends
  HeaderLen, WordLen,
  Byte,        \* values of a byte of a payload
  Malformed,   \* of them, those at which the HPACK decoder fails
  BufSize,     \* RecieveBufferSize
  Threshold,   \* windowUpdateMinValue
  OutCap,      \* capacity of the channel to the sender (1)
  Known        \* streams in the store at the beginning

ASSUME SizesAssumption ==
  /\ {HeaderLen, WordLen, BufSize, Threshold, OutCap} \subseteq Nat \ {0}
  /\ MaxFrames \in Nat /\ 0 \in Byte /\ Malformed \subseteq Byte

(* UNKNOWN is a type of 10 or more.                                        *)
Types == {"DATA", "HEADERS", "PRIORITY", "RST", "SETTINGS", "PING", "GOAWAY", "WINDOW_UPDATE",
          "UNKNOWN"}

(* Payloads that consist of words have the length HTTP/2 prescribes.       *)
ASSUME FramesAssumption ==
  \A fr \in FrameSet :
    /\ fr \in [type : Types, id : Nat, flag : BOOLEAN, payload : Seq(Byte)]
    /\ fr.type \in {"RST", "WINDOW_UPDATE"} => Len(fr.payload) = WordLen
    /\ fr.type = "GOAWAY" => Len(fr.payload) >= 2 * WordLen

VARIABLES
  script,                             \* the frames the server sends
  cancelled,                          \* ctx of Loader.Run
  at, mem, turn, rd,                  \* reader: next byte, buffers, the one it fills
  ppc, cb, from, to,                  \* processor: what is left of its buffer
  currentHeader, header, payloadLeft, \* Framer
  piece, status,                      \* what Framer.Next returned
  ack, fields, acc, increment, errCode, goAway,  \* the frame processors
  open, updates, log,                 \* store; credit given back so far; frames handled
  outFrames, sending                  \* frames in outFramesChan; the sender takes them

readVars == <<script, cancelled, at, mem, turn, rd>>
bufVars == <<cb, from, to>>
framerVars == <<currentHeader, header, payloadLeft, piece, status>>
partVars == <<ack, fields, acc, increment, errCode, goAway>>
outVars == <<open, updates, log>>
chanVars == <<outFrames, sending>>
vars == <<readVars, ppc, bufVars, framerVars, partVars, outVars, chanVars>>

Zero == [a \in 1 .. WordLen |-> 0]

NoGoAway == [index |-> 0, last |-> Zero, code |-> Zero, debug |-> << >>]

Init ==
  /\ script \in [1 .. MaxFrames -> FrameSet]
  /\ cancelled = FALSE
  /\ at = [f |-> 1, k |-> 1] /\ mem = [b \in 1 .. 2 |-> << >>] /\ turn = 1 /\ rd = "read"
  /\ ppc = "idle" /\ cb = 2 /\ from = 0 /\ to = 0
  /\ currentHeader = << >> /\ header = << >> /\ payloadLeft = 0
  /\ piece = [start |-> 0, end |-> 0] /\ status = "doneBufEmpty"
  /\ ack = << >> /\ fields = << >> /\ acc = 0 /\ increment = Zero /\ errCode = Zero
  /\ goAway = NoGoAway
  /\ open = Known /\ updates = 0 /\ log = << >>
  /\ outFrames = 0 /\ sending = TRUE

-----------------------------------------------------------------------------
(* The reader.                                                             *)

Size(f) == HeaderLen + Len(script[f].payload)

(* The byte behind b.                                                      *)
After(b) == IF b.k < Size(b.f) THEN [f |-> b.f, k |-> b.k + 1] ELSE [f |-> b.f + 1, k |-> 1]

(* conn.Read puts a byte into the buffer ...                               *)
ReadByte ==
  /\ rd = "read" /\ at.f <= MaxFrames /\ Len(mem[turn]) < BufSize
  /\ mem' = [mem EXCEPT ![turn] = Append(@, at)]
  /\ at' = After(at)
  /\ UNCHANGED <<script, cancelled, turn, rd, ppc, bufVars, framerVars, partVars, outVars, chanVars>>

(* ... and returns after any of them.                                      *)
ReadReturns ==
  /\ rd = "read" /\ mem[turn] # << >>
  /\ rd' = "send"
  /\ UNCHANGED <<script, cancelled, at, mem, turn, ppc, bufVars, framerVars, partVars, outVars, chanVars>>

(* The connection is closed, behind the last frame or before: close(ch).   *)
ReadFails ==
  /\ rd = "read" /\ mem[turn] = << >>
  /\ rd' = "exit"
  /\ UNCHANGED <<script, cancelled, at, mem, turn, ppc, bufVars, framerVars, partVars, outVars, chanVars>>

(* Mutant of HandOver: Run reads into the same buffer again.               *)
HandOverOneBuffer ==
  /\ rd = "send" /\ ppc = "idle"
  /\ cb' = turn /\ from' = 0 /\ to' = Len(mem[turn])
  /\ ppc' = "next" /\ rd' = "read"
  /\ UNCHANGED <<script, cancelled, at, turn, mem, framerVars, partVars, outVars, chanVars>>

(* The channel is unbuffered: the processor takes the buffer when it is    *)
(* done with the last one, and the reader turns to that one.               *)
HandOver ==
  /\ rd = "send" /\ ppc = "idle"
  /\ cb' = turn /\ from' = 0 /\ to' = Len(mem[turn])
  /\ ppc' = "next"
  /\ turn' = 3 - turn
  /\ mem' = [mem EXCEPT ![3 - turn] = << >>]
  /\ rd' = "read"
  /\ UNCHANGED <<script, cancelled, at, framerVars, partVars, outVars, chanVars>>

(* Mutant of ReaderDone: read sends on ch without looking at ctx.          *)
ReaderDoneBeforeRead ==
  /\ cancelled \/ ppc = "exit"
  /\ rd = "read" /\ mem[turn] = << >>
  /\ rd' = "exit"
  /\ UNCHANGED <<script, cancelled, at, mem, turn, ppc, bufVars, framerVars, partVars, outVars, chanVars>>

(* ctx is done, because Loader.Run's is or because the processor failed:   *)
(* the reader sees it before it reads and while it waits to hand over.     *)
ReaderDone ==
  /\ cancelled \/ ppc = "exit"
  /\ \/ rd = "send"
     \/ rd = "read" /\ mem[turn] = << >>
  /\ rd' = "exit"
  /\ UNCHANGED <<script, cancelled, at, mem, turn, ppc, bufVars, framerVars, partVars, outVars, chanVars>>

Cancel ==
  /\ ~ cancelled
  /\ cancelled' = TRUE
  /\ UNCHANGED <<script, at, mem, turn, rd, ppc, bufVars, framerVars, partVars, outVars, chanVars>>

(* for b := range ch.                                                      *)
ChanClosed ==
  /\ ppc = "idle" /\ rd = "exit"
  /\ ppc' = "exit"
  /\ UNCHANGED <<readVars, bufVars, framerVars, partVars, outVars, chanVars>>

-----------------------------------------------------------------------------
(* Framer.Next.                                                            *)

Length(h) == Len(script[h[1].f].payload)

(* Too few bytes for the header: keep them and wait for the next buffer.   *)
HeaderIncomplete ==
  /\ ppc = "next" /\ Len(currentHeader) # HeaderLen
  /\ to - from < HeaderLen - Len(currentHeader)
  /\ currentHeader' = currentHeader \o SubSeq(mem[cb], from + 1, to)
  /\ ppc' = "idle"
  /\ UNCHANGED <<readVars, bufVars, header, payloadLeft, piece, status, partVars, outVars, chanVars>>

(* Mutant of NextPiece: a third piece is measured against the whole        *)
(* payload.                                                                *)
NextPieceLeftOver ==
  /\ ppc = "next" /\ to - from >= HeaderLen - Len(currentHeader)
  /\ LET start == from + HeaderLen - Len(currentHeader)
         h == currentHeader \o SubSeq(mem[cb], from + 1, start)
         bufLen == to - start
         left == Length(h)
     IN  /\ header' = h
         /\ status' = IF bufLen > left THEN "done"
                      ELSE IF bufLen = left THEN "doneBufEmpty" ELSE "incomplete"
         /\ piece' = [start |-> start, end |-> IF bufLen > left THEN start + left ELSE to]
         /\ from' = IF bufLen > left THEN start + left ELSE start
         /\ currentHeader' = IF bufLen < left THEN h ELSE << >>
         /\ payloadLeft' = left
  /\ ppc' = "process"
  /\ UNCHANGED <<readVars, cb, to, partVars, outVars, chanVars>>

(* The header is complete: return what the buffer has of its payload.      *)
NextPiece ==
  /\ ppc = "next" /\ to - from >= HeaderLen - Len(currentHeader)
  /\ LET start == from + HeaderLen - Len(currentHeader)
         h == currentHeader \o SubSeq(mem[cb], from + 1, start)
         left == IF Len(currentHeader) = HeaderLen THEN payloadLeft ELSE Length(h)
         bufLen == to - start
     IN  /\ header' = h
         /\ status' = IF bufLen > left THEN "done"
                      ELSE IF bufLen = left THEN "doneBufEmpty" ELSE "incomplete"
         /\ piece' = [start |-> start, end |-> IF bufLen > left THEN start + left ELSE to]
         /\ from' = IF bufLen > left THEN start + left ELSE start
         /\ currentHeader' = IF bufLen < left THEN h ELSE << >>
         /\ payloadLeft' = IF bufLen < left THEN left - bufLen ELSE left
  /\ ppc' = "process"
  /\ UNCHANGED <<readVars, cb, to, partVars, outVars, chanVars>>

-----------------------------------------------------------------------------
(* The frame processors.                                                   *)

Frame == script[header[1].f]

Value(byte) == IF byte.k > HeaderLen THEN script[byte.f].payload[byte.k - HeaderLen] ELSE 0

Payload ==
  LET bytes == SubSeq(mem[cb], piece.start + 1, piece.end)
  IN  [a \in DOMAIN bytes |-> Value(bytes[a])]

Complete == status # "incomplete"

(* v = (v << 8) | b, for each byte b: bytes come in at the low end of the  *)
(* uint32 and the highest go out.                                          *)
Shift(v, bytes) ==
  [a \in 1 .. WordLen |-> IF a + Len(bytes) <= WordLen THEN v[a + Len(bytes)]
                          ELSE bytes[a + Len(bytes) - WordLen]]

(* process goes on with the buffer only after StatusFrameDone.             *)
Continue == ppc' = IF status = "done" THEN "next" ELSE "idle"

Log(value) == log' = Append(log, [type |-> Frame.type, id |-> Frame.id, value |-> value])

(* outFramesChan <- frame: waits for room, without looking at ctx.         *)
Send == outFrames < OutCap /\ outFrames' = outFrames + 1

ProcessPing ==
  /\ Frame.type = "PING"
  /\ IF Complete THEN Send /\ Log(ack \o Payload) /\ ack' = << >>
                 ELSE ack' = ack \o Payload /\ UNCHANGED <<log, outFrames>>
  /\ Continue
  /\ UNCHANGED <<fields, acc, increment, errCode, goAway, open, updates>>

(* Mutant of ProcessData: windowUpdateAcc is not reset.                    *)
ProcessDataKeepsAcc ==
  /\ Frame.type = "DATA"
  /\ IF Complete
       THEN /\ acc' = acc + Length(header)
            /\ IF acc' >= Threshold THEN Send /\ updates' = updates + acc'
                                    ELSE UNCHANGED <<updates, outFrames>>
            /\ open' = IF Frame.flag THEN open \ {Frame.id} ELSE open
            /\ Log(<< >>)
       ELSE UNCHANGED <<acc, updates, open, log, outFrames>>
  /\ Continue
  /\ UNCHANGED <<ack, fields, increment, errCode, goAway>>

(* Count the frame's length and give it back once it is worth a frame; end *)
(* the stream on END_STREAM.                                               *)
ProcessData ==
  /\ Frame.type = "DATA"
  /\ IF Complete
       THEN /\ LET sum == acc + Length(header) IN
                 IF sum >= Threshold THEN Send /\ updates' = updates + sum /\ acc' = 0
                                     ELSE acc' = sum /\ UNCHANGED <<updates, outFrames>>
            /\ open' = IF Frame.flag THEN open \ {Frame.id} ELSE open
            /\ Log(<< >>)
       ELSE UNCHANGED <<acc, updates, open, log, outFrames>>
  /\ Continue
  /\ UNCHANGED <<ack, fields, increment, errCode, goAway>>

(* HEADERS and CONTINUATION: the decoder emits only for a known stream,    *)
(* and decodes for any.                                                    *)
ProcessHeaders ==
  /\ Frame.type = "HEADERS" /\ Range(Payload) \cap Malformed = {}
  /\ LET heard == IF Frame.id \in open THEN fields \o Payload ELSE fields IN
       IF Complete
         THEN /\ Log(heard) /\ fields' = << >>
              /\ open' = IF Frame.flag THEN open \ {Frame.id} ELSE open
         ELSE fields' = heard /\ UNCHANGED <<open, log>>
  /\ Continue
  /\ UNCHANGED <<ack, acc, increment, errCode, goAway, updates, outFrames>>

(* The decoder fails, in whatever piece of the frame: the run ends.  What  *)
(* it emitted of this piece before is not followed.                        *)
DecodingFails ==
  /\ Frame.type = "HEADERS" /\ Range(Payload) \cap Malformed # {}
  /\ ppc' = "exit"
  /\ UNCHANGED <<partVars, outVars, outFrames>>

(* errCode is never reset: four more bytes shift the old one out.          *)
ProcessRST ==
  /\ Frame.type = "RST"
  /\ errCode' = Shift(errCode, Payload)
  /\ IF Complete
       THEN /\ Log(IF Frame.id \in open THEN errCode' ELSE << >>)
            /\ open' = open \ {Frame.id}
       ELSE UNCHANGED <<open, log>>
  /\ Continue
  /\ UNCHANGED <<ack, fields, acc, increment, goAway, updates, outFrames>>

(* An increment for an unknown stream is not reset either.                 *)
ProcessWindowUpdate ==
  /\ Frame.type = "WINDOW_UPDATE"
  /\ LET sum == Shift(increment, Payload)
         fcKnown == Frame.id = 0 \/ Frame.id \in open
     IN  IF Complete
           THEN /\ Log(IF fcKnown THEN sum ELSE << >>)
                /\ increment' = IF fcKnown THEN Zero ELSE sum
           ELSE increment' = sum /\ UNCHANGED log
  /\ Continue
  /\ UNCHANGED <<ack, fields, acc, errCode, goAway, open, updates, outFrames>>

(* The bytes of the payload at places lo + 1 .. hi of the frame.           *)
Part(lo, hi) ==
  LET i == goAway.index
  IN  SubSeq(Payload, IF lo > i THEN lo - i + 1 ELSE 1,
                      IF hi - i < Len(Payload) THEN hi - i ELSE Len(Payload))

(* LastStreamID, error code, debug data; the GoAwayError ends the run.     *)
ProcessGoAway ==
  /\ Frame.type = "GOAWAY"
  /\ LET i == goAway.index + Len(Payload)
         g == [index |-> IF i < 2 * WordLen THEN i ELSE 2 * WordLen,
               last |-> Shift(goAway.last, Part(0, WordLen)),
               code |-> Shift(goAway.code, Part(WordLen, 2 * WordLen)),
               debug |-> goAway.debug \o Part(2 * WordLen, i)]
     IN  IF Complete
           THEN /\ Log(g.last \o g.code \o g.debug)
                /\ goAway' = NoGoAway
                /\ ppc' = "exit"
           ELSE goAway' = g /\ Continue /\ UNCHANGED log
  /\ UNCHANGED <<ack, fields, acc, increment, errCode, open, updates, outFrames>>

(* Only an ack is welcome.                                                 *)
ProcessSettings ==
  /\ Frame.type = "SETTINGS"
  /\ IF ~ Complete THEN Continue /\ UNCHANGED log
     ELSE Log(<< >>) /\ IF Frame.flag THEN Continue ELSE ppc' = "exit"
  /\ UNCHANGED <<partVars, open, updates, outFrames>>

NotSupported ==
  /\ Frame.type = "PRIORITY"
  /\ ppc' = "exit"
  /\ UNCHANGED <<partVars, outVars, outFrames>>

Process ==
  /\ ppc = "process"
  /\ \/ ProcessPing \/ ProcessData \/ ProcessHeaders \/ DecodingFails \/ ProcessRST
     \/ ProcessWindowUpdate \/ ProcessGoAway \/ ProcessSettings \/ NotSupported
  /\ UNCHANGED <<readVars, bufVars, framerVars, sending>>

(* subprocessors has no element for the type: the program panics, and with *)
(* it ends the reader.                                                     *)
Panic ==
  /\ ppc = "process" /\ Frame.type = "UNKNOWN"
  /\ ppc' = "exit" /\ rd' = "exit"
  /\ UNCHANGED <<script, cancelled, at, mem, turn, bufVars, framerVars, partVars, outVars, chanVars>>

-----------------------------------------------------------------------------
(* The other end of outFramesChan, the frame processor of the sender.      *)

TakeFrame ==
  /\ sending /\ outFrames > 0
  /\ outFrames' = outFrames - 1
  /\ UNCHANGED <<readVars, ppc, bufVars, framerVars, partVars, outVars, sending>>

(* It returns, with an error or because ctx is done, or a write blocks it. *)
SenderLeaves ==
  /\ sending
  /\ sending' = FALSE
  /\ UNCHANGED <<readVars, ppc, bufVars, framerVars, partVars, outVars, outFrames>>

-----------------------------------------------------------------------------
Reader == ReadByte \/ ReadReturns \/ ReadFails \/ ReaderDone

Processor == HeaderIncomplete \/ NextPiece \/ Process \/ Panic \/ ChanClosed

Next == Reader \/ HandOver \/ Processor \/ TakeFrame \/ SenderLeaves \/ Cancel

Spec == Init /\ [][Next]_vars

(* Both goroutines run, and so does the sender until it leaves.  The       *)
(* server sends its frames, and the connection ends at some time.          *)
FairSpec ==
  Spec /\ WF_vars(Reader) /\ WF_vars(HandOver) /\ WF_vars(Processor) /\ WF_vars(TakeFrame)

-----------------------------------------------------------------------------
Bytes == [f : 1 .. MaxFrames, k : Nat]
Word == [1 .. WordLen -> Byte]

TypeOK ==
  /\ cancelled \in BOOLEAN /\ at \in [f : 1 .. MaxFrames + 1, k : Nat \ {0}]
  /\ mem \in [1 .. 2 -> Seq(Bytes)] /\ turn \in 1 .. 2 /\ rd \in {"read", "send", "exit"}
  /\ ppc \in {"idle", "next", "process", "exit"}
  /\ cb \in 1 .. 2 /\ from \in Nat /\ to \in Nat
  /\ currentHeader \in Seq(Bytes) /\ header \in Seq(Bytes) /\ payloadLeft \in Nat
  /\ piece \in [start : Nat, end : Nat] /\ status \in {"done", "doneBufEmpty", "incomplete"}
  /\ {ack, fields} \subseteq Seq(Byte) /\ {increment, errCode} \subseteq Word
  /\ goAway \in [index : 0 .. 2 * WordLen, last : Word, code : Word, debug : Seq(Byte)]
  /\ open \subseteq Known /\ {acc, updates} \subseteq Nat
  /\ log \in Seq([type : Types, id : Nat, value : Seq(Byte)])
  /\ outFrames \in 0 .. OutCap /\ sending \in BOOLEAN

(* The reader never writes into the buffer the processor is working on, so *)
(* the bytes the Framer was given stay what they were.                     *)
BuffersDisjoint == ppc \in {"next", "process"} => cb # turn /\ to = Len(mem[cb])

(* The state has its types (a word stays a word whatever was left over),   *)
(* and the buffers are apart.                                              *)
Inv == TypeOK /\ BuffersDisjoint

(* A frame after which its stream is not in the store.                     *)
Ends(fr) == fr.type = "RST" \/ (fr.type \in {"HEADERS", "DATA"} /\ fr.flag)

(* The stream of frame f is in the store when the frame comes.             *)
KnownAt(f) ==
  /\ script[f].id \in Known
  /\ \A g \in 1 .. f - 1 : script[g].id = script[f].id => ~ Ends(script[g])

(* What comes of frame f, taken whole, after the frames before it: the     *)
(* payload, if it is one that is looked at and there is someone to get it. *)
Reference(f) ==
  LET fr == script[f]
      heard == \/ fr.type \in {"PING", "GOAWAY"}
               \/ fr.type \in {"HEADERS", "RST", "WINDOW_UPDATE"} /\ KnownAt(f)
               \/ fr.type = "WINDOW_UPDATE" /\ fr.id = 0
  IN  [type |-> fr.type, id |-> fr.id, value |-> IF heard THEN fr.payload ELSE << >>]

(* What the receiver makes of the frames does not depend on how their      *)
(* bytes were cut: each frame is handled once, in order, by the processor  *)
(* of its type, with its whole payload and nothing of its neighbours', and *)
(* nothing is left over from the frame before.                             *)
PiecesDoNotMatter == \A f \in DOMAIN log : log[f] = Reference(f)

(* The bytes of the DATA frames that were handled.                         *)
DataBytes ==
  UNION {{f} \X (1 .. Len(script[f].payload)) : f \in {g \in DOMAIN log : script[g].type = "DATA"}}

(* The connection's receive window is given back in full, but for less     *)
(* than the threshold.                                                     *)
CreditReturned == acc < Threshold /\ updates + acc = Cardinality(DataBytes)

(* Frames the processor stops at, with an error: those it does not support *)
(* and headers it cannot decode (before they are logged), new settings,    *)
(* GOAWAY; or with a panic, those of an unknown type.                      *)
Fatal(f) == \/ script[f].type \in {"PRIORITY", "GOAWAY", "UNKNOWN"}
            \/ script[f].type = "SETTINGS" /\ ~ script[f].flag
            \/ script[f].type = "HEADERS" /\ Range(script[f].payload) \cap Malformed # {}

(* Reciever.Run is over, and unless it was cancelled every whole frame     *)
(* that came in has been handled, up to one the processor stops at.        *)
Returned ==
  /\ ppc = "exit" /\ rd = "exit"
  /\ \/ cancelled
     \/ Len(log) = at.f - 1
     \/ \E f \in {Len(log), Len(log) + 1} \cap 1 .. at.f - 1 : Fatal(f)

(* The processor waits for room in outFramesChan, for ever: the sender has *)
(* left, and the send does not look at ctx.                                *)
SendBlocked ==
  /\ ppc = "process" /\ Complete /\ ~ sending /\ outFrames = OutCap
  /\ Frame.type = "PING" \/ (Frame.type = "DATA" /\ acc + Length(header) >= Threshold)

(* Reader and processor do not block each other: Reciever.Run returns once *)
(* the connection ends or the processor fails, unless the processor is     *)
(* left with an ack or a WINDOW_UPDATE that nobody takes.                  *)
RunReturns == <>(Returned \/ SendBlocked)
=============================================================================
