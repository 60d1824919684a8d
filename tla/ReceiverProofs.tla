--------------------------- MODULE ReceiverProofs ---------------------------
(***************************************************************************)
(* The receiver for any frames, any sizes of buffers, headers and words    *)
(* and any way conn.Read cuts what the server sends: each frame is handled *)
(* as if it had come whole, and the receive window is given back.          *)
(***************************************************************************)
EXTENDS Receiver, SequenceTheorems, FiniteSetTheorems, TLAPS

-----------------------------------------------------------------------------
(* The inductive invariant.                                                *)

(* Of the frames sc, the size of the one numbered f.                       *)
SizeIn(sc, f) == HeaderLen + Len(sc[f].payload)

(* c is m places behind b, if that is in the same frame or the first byte  *)
(* of the next.                                                            *)
Behind(sc, b, m, c) ==
  /\ b.k + m <= SizeIn(sc, b.f) => c = [f |-> b.f, k |-> b.k + m]
  /\ b.k + m = SizeIn(sc, b.f) + 1 => c = [f |-> b.f + 1, k |-> 1]

(* s holds bytes that follow one another, and e is the one behind them.    *)
Run(sc, s, e) ==
  /\ \A j \in 1 .. Len(s) : /\ s[j].k \in 1 .. SizeIn(sc, s[j].f)
                            /\ Behind(sc, s[j], Len(s) + 1 - j, e)
  /\ \A j \in 1 .. Len(s) : \A m \in 1 .. Len(s) - j : Behind(sc, s[j], m, s[j + m])

(* The first byte that was not handed over yet.                            *)
NextIn == IF mem[turn] = << >> THEN at ELSE mem[turn][1]

(* What is in the buffers follows in the order it was sent.                *)
InOrder ==
  /\ script \in [1 .. MaxFrames -> FrameSet]
  /\ at.f <= MaxFrames => at.k <= SizeIn(script, at.f)
  /\ Run(script, mem[turn], at)
  /\ ppc \in {"next", "process"} => Run(script, mem[cb], NextIn)
  /\ rd = "send" => mem[turn] # << >>

(* The frame the Framer is in, and the length of its payload.              *)
Cur == Len(log) + 1
CurLen == Len(script[Cur].payload)

(* The byte the Framer has to get next.                                    *)
Expected ==
  [f |-> Cur, k |-> IF Len(currentHeader) < HeaderLen THEN Len(currentHeader) + 1
                    ELSE HeaderLen + CurLen - payloadLeft + 1]

(* Between two calls of Framer.Next.                                       *)
FramerAt ==
  ppc \in {"idle", "next"} =>
    /\ Len(currentHeader) <= HeaderLen
    /\ \A j \in 1 .. Len(currentHeader) : currentHeader[j] = [f |-> Cur, k |-> j]
    /\ Len(currentHeader) = HeaderLen => payloadLeft \in 1 .. CurLen
    /\ ppc = "idle" => NextIn = Expected
    /\ ppc = "next" => from < to /\ mem[cb][from + 1] = Expected

(* Bytes of the payload that the processors have had.                      *)
Done ==
  IF ppc = "process"
    THEN CurLen - payloadLeft - (IF Complete THEN 0 ELSE piece.end - piece.start)
    ELSE IF Len(currentHeader) = HeaderLen THEN CurLen - payloadLeft ELSE 0

(* What Framer.Next has returned.                                          *)
PieceAt ==
  ppc = "process" =>
    /\ Len(header) = HeaderLen /\ \A j \in 1 .. HeaderLen : header[j] = [f |-> Cur, k |-> j]
    /\ piece.start <= piece.end /\ piece.end <= to /\ Done \in 0 .. CurLen
    /\ \A a \in 1 .. piece.end - piece.start :
         mem[cb][piece.start + a] = [f |-> Cur, k |-> HeaderLen + Done + a]
    /\ status = "incomplete" =>
         /\ currentHeader = header /\ payloadLeft \in 1 .. CurLen
         /\ NextIn = [f |-> Cur, k |-> HeaderLen + CurLen - payloadLeft + 1]
    /\ Complete => currentHeader = << >> /\ payloadLeft = piece.end - piece.start
    /\ status = "done" => /\ from = piece.end /\ from < to
                          /\ mem[cb][from + 1] = [f |-> Cur + 1, k |-> 1]
    /\ status = "doneBufEmpty" => NextIn = [f |-> Cur + 1, k |-> 1]

(* A frame of type t is being handled.                                     *)
Within(t) == Cur <= MaxFrames /\ script[Cur].type = t

(* The part of its payload that the processors have had.                   *)
Had == SubSeq(script[Cur].payload, 1, Done)

(* The last n bytes of the word w are those behind the first lo of p.      *)
Low(p, w, lo, n) == \A a \in 1 .. n : w[WordLen - n + a] = p[lo + a]

Least(a, b) == IF a <= b THEN a ELSE b
Most(a, b) == IF a <= b THEN b ELSE a

(* What the frame processors keep is of the current frame, or nothing.     *)
PartsAt ==
  ppc # "exit" =>
    /\ ack = IF Within("PING") THEN Had ELSE << >>
    /\ fields = IF Within("HEADERS") /\ script[Cur].id \in open THEN Had ELSE << >>
    /\ Within("RST") => Low(script[Cur].payload, errCode, 0, Done)
    /\ Within("WINDOW_UPDATE") => Low(script[Cur].payload, increment, 0, Done)
    /\ ~ Within("GOAWAY") => goAway = NoGoAway
    /\ Within("GOAWAY") =>
         /\ goAway.index = Least(Done, 2 * WordLen)
         /\ Low(script[Cur].payload, goAway.last, 0, Least(Done, WordLen))
         /\ Done > WordLen => Low(script[Cur].payload, goAway.code, WordLen,
                                Least(Done, 2 * WordLen) - WordLen)
         /\ goAway.debug = SubSeq(script[Cur].payload, 2 * WordLen + 1, Done)

(* The store.                                                              *)
StoreAt ==
  /\ Len(log) <= MaxFrames
  /\ open = {id \in Known : \A g \in 1 .. Len(log) : script[g].id = id => ~ Ends(script[g])}

Credited == IsFiniteSet(DataBytes) /\ CreditReturned

(* Types, by part.                                                         *)

ReaderOK ==
  /\ cancelled \in BOOLEAN /\ at \in [f : 1 .. MaxFrames + 1, k : Nat \ {0}]
  /\ mem \in [1 .. 2 -> Seq(Bytes)] /\ turn \in 1 .. 2 /\ rd \in {"read", "send", "exit"}

FramerOK ==
  /\ ppc \in {"idle", "next", "process", "exit"}
  /\ cb \in 1 .. 2 /\ from \in Nat /\ to \in Nat
  /\ currentHeader \in Seq(Bytes) /\ header \in Seq(Bytes) /\ payloadLeft \in Nat
  /\ piece \in [start : Nat, end : Nat] /\ status \in {"done", "doneBufEmpty", "incomplete"}

GoAways == [index : 0 .. 2 * WordLen, last : Word, code : Word, debug : Seq(Byte)]
Entries == [type : Types, id : Nat, value : Seq(Byte)]

PartsOK ==
  /\ ack \in Seq(Byte) /\ fields \in Seq(Byte) /\ increment \in Word /\ errCode \in Word
  /\ goAway \in GoAways /\ open \subseteq Known /\ acc \in Nat /\ updates \in Nat
  /\ log \in Seq(Entries)

Types0 == ReaderOK /\ FramerOK /\ PartsOK

(* Inv without the channel to the sender.                                  *)
Inv0 == Types0 /\ BuffersDisjoint

IInv == /\ Inv0 /\ InOrder /\ FramerAt /\ PieceAt /\ PartsAt /\ StoreAt
        /\ PiecesDoNotMatter /\ Credited


-----------------------------------------------------------------------------
(* Frames and runs of bytes.                                               *)

Scripts == [1 .. MaxFrames -> FrameSet]

LEMMA Sizes ==
  /\ HeaderLen \in Nat \ {0} /\ WordLen \in Nat \ {0} /\ BufSize \in Nat \ {0}
  /\ Threshold \in Nat \ {0} /\ MaxFrames \in Nat /\ 0 \in Byte
  BY SizesAssumption

LEMMA FrameType ==
  ASSUME NEW sc \in Scripts, NEW f \in 1 .. MaxFrames
  PROVE  /\ sc[f].payload \in Seq(Byte) /\ Len(sc[f].payload) \in Nat
         /\ sc[f].type \in Types /\ sc[f].id \in Nat /\ sc[f].flag \in BOOLEAN
         /\ sc[f].type \in {"RST", "WINDOW_UPDATE"} => Len(sc[f].payload) = WordLen
         /\ sc[f].type = "GOAWAY" => Len(sc[f].payload) >= 2 * WordLen
         /\ SizeIn(sc, f) = HeaderLen + Len(sc[f].payload) /\ SizeIn(sc, f) \in Nat
<1>1. sc[f] \in FrameSet
  BY DEF Scripts
<1>2. /\ sc[f].payload \in Seq(Byte) /\ sc[f].type \in Types /\ sc[f].id \in Nat
      /\ sc[f].type \in {"RST", "WINDOW_UPDATE"} => Len(sc[f].payload) = WordLen
      /\ sc[f].type = "GOAWAY" => Len(sc[f].payload) >= 2 * WordLen
  BY <1>1, FramesAssumption
<1>3. sc[f].flag \in BOOLEAN
  BY <1>1, FramesAssumption, Zenon
<1>4. Len(sc[f].payload) \in Nat
  BY <1>2, LenProperties
<1> QED
  BY <1>2, <1>3, <1>4, Sizes DEF SizeIn

LEMMA OneLess ==
  ASSUME NEW i \in Nat, NEW j \in Nat, NEW l \in Nat
  PROVE  /\ i + (j + 1) <= l => i + j <= l /\ i + j < l
         /\ i + (j + 1) = l + 1 => i + j <= l /\ i + j = l
  OBVIOUS

(* A byte more at the end of a run.                                        *)
LEMMA RunAppend ==
  ASSUME NEW sc \in Scripts, NEW s \in Seq(Bytes), NEW e \in Bytes,
         e.k \in 1 .. SizeIn(sc, e.f), Run(sc, s, e), NEW c,
         c = IF e.k < SizeIn(sc, e.f) THEN [f |-> e.f, k |-> e.k + 1] ELSE [f |-> e.f + 1, k |-> 1]
  PROVE  Run(sc, Append(s, e), c)
<1> DEFINE A == Append(s, e)
<1>1. /\ Len(s) \in Nat /\ Len(A) = Len(s) + 1 /\ A[Len(s) + 1] = e
      /\ \A j \in 1 .. Len(s) : A[j] = s[j] /\ s[j] \in Bytes
  BY AppendProperties, LenProperties, ElementOfSeq
<1> HIDE DEF A
<1>2. \A b \in Bytes : b.f \in 1 .. MaxFrames /\ b.k \in Nat /\ b = [f |-> b.f, k |-> b.k]
  BY DEF Bytes
<1>3. \A f \in 1 .. MaxFrames : SizeIn(sc, f) \in Nat
  BY FrameType
<1>4. ASSUME NEW j \in 1 .. Len(s) + 1
      PROVE  A[j].k \in 1 .. SizeIn(sc, A[j].f) /\ Behind(sc, A[j], Len(s) + 2 - j, c)
  <2>1. CASE j = Len(s) + 1
    <3>1. A[j] = e /\ Len(s) + 2 - j = 1
      BY <1>1, <2>1
    <3>2. Behind(sc, e, 1, c)
      BY <1>2, <1>3 DEF Behind
    <3> QED
      BY <3>1, <3>2
  <2>2. CASE j \in 1 .. Len(s)
    <3>1. /\ A[j] = s[j] /\ s[j] \in Bytes /\ s[j].k \in 1 .. SizeIn(sc, s[j].f)
          /\ Behind(sc, s[j], Len(s) + 1 - j, e)
      BY <1>1, <2>2 DEF Run
    <3>2. PICK b, n, z : b = s[j] /\ n = Len(s) + 1 - j /\ z = SizeIn(sc, s[j].f)
      OBVIOUS
    <3>3. /\ b.f \in 1 .. MaxFrames /\ b.k \in Nat /\ n \in Nat /\ z \in Nat /\ Len(s) + 2 - j = n + 1
      <4>1. b.f \in 1 .. MaxFrames /\ b.k \in Nat
        BY <1>2, <3>1, <3>2
      <4>2. z \in Nat
        BY <1>3, <3>2, <4>1
      <4>3. n \in Nat /\ Len(s) + 2 - j = n + 1
        BY <1>1, <2>2, <3>2
      <4> QED
        BY <4>1, <4>2, <4>3
    <3>4. /\ b.k + n <= z => e = [f |-> b.f, k |-> b.k + n]
          /\ b.k + n = z + 1 => e = [f |-> b.f + 1, k |-> 1]
      BY <3>1, <3>2 DEF Behind
    <3>5. b.k + (n + 1) <= z => c = [f |-> b.f, k |-> b.k + (n + 1)]
      <4>1. HAVE b.k + (n + 1) <= z
      <4>2. b.k + n <= z /\ b.k + n < z
        BY <3>3, <4>1, OneLess, Zenon
      <4>3. e.f = b.f /\ e.k = b.k + n
        BY <3>4, <4>2
      <4>4. SizeIn(sc, e.f) = z
        BY <3>2, <4>3
      <4>5. c = [f |-> e.f, k |-> e.k + 1]
        BY <4>2, <4>3, <4>4
      <4>6. e.k + 1 = b.k + (n + 1)
        BY <3>3, <4>3
      <4> QED
        BY <4>3, <4>5, <4>6
    <3>6. b.k + (n + 1) = z + 1 => c = [f |-> b.f + 1, k |-> 1]
      <4>1. HAVE b.k + (n + 1) = z + 1
      <4>2. b.k + n <= z /\ b.k + n = z
        BY <3>3, <4>1, OneLess, Zenon
      <4>3. e.f = b.f /\ e.k = z
        BY <3>4, <4>2
      <4>4. SizeIn(sc, e.f) = z /\ ~ e.k < z
        BY <3>2, <3>3, <4>3
      <4> QED
        BY <4>3, <4>4
    <3>7. Behind(sc, b, n + 1, c)
      BY <3>2, <3>5, <3>6 DEF Behind
    <3> QED
      BY <3>1, <3>2, <3>3, <3>7
  <2> QED
    BY <1>1, <2>1, <2>2
<1>5. ASSUME NEW j \in 1 .. Len(s) + 1, NEW m \in 1 .. Len(s) + 1 - j
      PROVE  Behind(sc, A[j], m, A[j + m])
  <2>1. j \in 1 .. Len(s) /\ A[j] = s[j]
    BY <1>1
  <2>2. CASE m = Len(s) + 1 - j
    <3>1. A[j + m] = e
      BY <1>1, <2>1, <2>2
    <3>2. Behind(sc, s[j], Len(s) + 1 - j, e)
      BY <2>1 DEF Run
    <3> QED
      BY <2>1, <2>2, <3>1, <3>2
  <2>3. CASE m \in 1 .. Len(s) - j
    <3>1. A[j + m] = s[j + m]
      <4>1. j + m \in 1 .. Len(s)
        BY <1>1, <2>1, <2>3
      <4> QED
        BY <1>1, <4>1
    <3>2. Behind(sc, s[j], m, s[j + m])
      BY <2>1, <2>3 DEF Run
    <3> QED
      BY <2>1, <3>1, <3>2
  <2> QED
    BY <1>1, <2>1, <2>2, <2>3
<1>6. Run(sc, A, c)
  <2>1. /\ \A j \in 1 .. Len(A) : /\ A[j].k \in 1 .. SizeIn(sc, A[j].f)
                                  /\ Behind(sc, A[j], Len(A) + 1 - j, c)
    BY <1>1, <1>4
  <2>2. \A j \in 1 .. Len(A) : \A m \in 1 .. Len(A) - j : Behind(sc, A[j], m, A[j + m])
    BY <1>1, <1>5
  <2> QED
    BY <2>1, <2>2 DEF Run
<1> QED
  BY <1>6 DEF A

(* No bytes are a run.                                                     *)
LEMMA RunEmpty ==
  ASSUME NEW sc, NEW e
  PROVE  Run(sc, << >>, e)
  BY DEF Run

(* m places on in a buffer, within a frame.                                *)
LEMMA RunAt ==
  ASSUME NEW sc \in Scripts, NEW s \in Seq(Bytes), NEW e, Run(sc, s, e),
         NEW j \in 1 .. Len(s), NEW m \in 0 .. Len(s) - j, s[j].k + m <= SizeIn(sc, s[j].f)
  PROVE  s[j + m] = [f |-> s[j].f, k |-> s[j].k + m]
<1>1. s[j] \in Bytes /\ Len(s) \in Nat
  BY LenProperties, ElementOfSeq
<1>2. CASE m = 0
  <2>1. j + m = j /\ s[j].k + m = s[j].k /\ s[j] = [f |-> s[j].f, k |-> s[j].k]
    BY <1>1, <1>2 DEF Bytes
  <2> QED
    BY <2>1
<1>3. CASE m # 0
  <2>1. m \in 1 .. Len(s) - j
    BY <1>1, <1>3
  <2> QED
    BY <2>1 DEF Run, Behind
<1> QED
  BY <1>2, <1>3


-----------------------------------------------------------------------------
(* Facts every step uses.                                                  *)

LEMMA TypesJoin ==
  ASSUME ReaderOK', FramerOK', PartsOK'
  PROVE  Types0'
  BY DEF Types0

LEMMA Facts ==
  ASSUME IInv
  PROVE  /\ script \in Scripts /\ ReaderOK /\ FramerOK /\ PartsOK
         /\ Len(log) \in Nat /\ Cur \in Nat \ {0}
         /\ mem[turn] \in Seq(Bytes) /\ mem[cb] \in Seq(Bytes)
         /\ Len(mem[turn]) \in Nat /\ Len(mem[cb]) \in Nat
         /\ (mem[turn] = << >> <=> Len(mem[turn]) = 0)
         /\ Len(currentHeader) \in Nat
<1>1. script \in Scripts /\ ReaderOK /\ FramerOK /\ PartsOK
  BY DEF IInv, Inv0, Types0, InOrder, Scripts
<1>2. mem[turn] \in Seq(Bytes) /\ mem[cb] \in Seq(Bytes)
  BY <1>1 DEF ReaderOK, FramerOK
<1>3. Len(mem[turn]) \in Nat /\ Len(mem[cb]) \in Nat /\ (mem[turn] = << >> <=> Len(mem[turn]) = 0)
  BY <1>2, LenProperties, EmptySeq
<1>4. Len(log) \in Nat /\ Len(currentHeader) \in Nat
  BY <1>1, LenProperties DEF PartsOK, FramerOK
<1>5. Cur \in Nat \ {0}
  BY <1>4 DEF Cur
<1> QED
  BY <1>1, <1>2, <1>3, <1>4, <1>5

(* A step of the reader that leaves the buffer of the processor alone.     *)
LEMMA ReaderFrame ==
  ASSUME IInv, UNCHANGED <<script, bufVars, framerVars, partVars, outVars>>,
         ppc' = ppc \/ ppc' = "exit", ReaderOK', InOrder', NextIn' = NextIn,
         ppc' \in {"next", "process"} => mem'[cb] = mem[cb] /\ turn' = turn
  PROVE  IInv'
<1>1. /\ UNCHANGED <<script, cb, from, to, currentHeader, header, payloadLeft, piece, status>>
      /\ UNCHANGED <<ack, fields, acc, increment, errCode, goAway, open, updates, log>>
  BY DEF bufVars, framerVars, partVars, outVars
<1>2. FramerOK' /\ PartsOK'
  BY <1>1, Facts DEF FramerOK, PartsOK
<1>3. Types0'
  BY <1>2, TypesJoin
<1>4. BuffersDisjoint'
  BY <1>1 DEF IInv, Inv0, BuffersDisjoint
<1>5. Cur' = Cur /\ CurLen' = CurLen /\ Expected' = Expected
  BY <1>1 DEF Cur, CurLen, Expected
<1>6. FramerAt'
  <2>1. CASE ppc' = "exit"
    BY <2>1 DEF FramerAt
  <2>2. CASE ppc' = ppc
    BY <1>1, <1>5, <2>2 DEF IInv, FramerAt
  <2> QED
    BY <2>1, <2>2
<1>7. ppc' = ppc => Done' = Done
  BY <1>1, <1>5 DEF Done, Complete
<1>8. PieceAt'
  <2>1. CASE ppc' = "exit"
    BY <2>1 DEF PieceAt
  <2>2. CASE ppc' = ppc
    BY <1>1, <1>5, <1>7, <2>2 DEF IInv, PieceAt, Complete
  <2> QED
    BY <2>1, <2>2
<1>9. PartsAt'
  <2>1. CASE ppc' = "exit"
    BY <2>1 DEF PartsAt
  <2>2. CASE ppc' = ppc
    BY <1>1, <1>5, <1>7, <2>2 DEF IInv, PartsAt, Within, Had
  <2> QED
    BY <2>1, <2>2
<1>10. StoreAt' /\ PiecesDoNotMatter'
  BY <1>1 DEF IInv, StoreAt, PiecesDoNotMatter, Reference, KnownAt
<1>11. Credited'
  BY <1>1 DEF IInv, Credited, CreditReturned, DataBytes
<1> QED
  BY <1>3, <1>4, <1>6, <1>8, <1>9, <1>10, <1>11 DEF IInv, Inv0

LEMMA ReadByteStep ==
  ASSUME IInv, ReadByte
  PROVE  IInv'
<1>1. /\ rd = "read" /\ at.f <= MaxFrames /\ mem' = [mem EXCEPT ![turn] = Append(@, at)]
      /\ at' = After(at) /\ UNCHANGED <<script, cancelled, turn, rd, ppc>>
      /\ UNCHANGED <<script, bufVars, framerVars, partVars, outVars>>
  BY DEF ReadByte
<1>2. /\ script \in Scripts /\ mem[turn] \in Seq(Bytes) /\ turn \in 1 .. 2 /\ mem \in [1 .. 2 -> Seq(Bytes)]
      /\ at.f \in 1 .. MaxFrames /\ at.k \in Nat /\ at.k \in 1 .. SizeIn(script, at.f)
      /\ at = [f |-> at.f, k |-> at.k] /\ at \in Bytes
  <2>1. /\ script \in Scripts /\ mem[turn] \in Seq(Bytes) /\ turn \in 1 .. 2 /\ mem \in [1 .. 2 -> Seq(Bytes)]
        /\ at \in [f : 1 .. MaxFrames + 1, k : Nat \ {0}]
    BY Facts DEF ReaderOK
  <2>2. at.f \in 1 .. MaxFrames /\ at.k \in Nat \ {0} /\ at = [f |-> at.f, k |-> at.k]
    BY <1>1, <2>1, Sizes
  <2>3. SizeIn(script, at.f) \in Nat /\ at.k <= SizeIn(script, at.f)
    BY <1>1, <2>1, <2>2, FrameType DEF IInv, InOrder
  <2> QED
    BY <2>1, <2>2, <2>3 DEF Bytes
<1>3. at' = IF at.k < SizeIn(script, at.f) THEN [f |-> at.f, k |-> at.k + 1] ELSE [f |-> at.f + 1, k |-> 1]
  BY <1>1 DEF After, Size, SizeIn
<1>4. mem'[turn] = Append(mem[turn], at) /\ mem'[turn] \in Seq(Bytes) /\ mem' \in [1 .. 2 -> Seq(Bytes)]
  <2>1. Append(mem[turn], at) \in Seq(Bytes)
    BY <1>2, AppendProperties
  <2> QED
    BY <1>1, <1>2, <2>1
<1>5. at' \in [f : 1 .. MaxFrames + 1, k : Nat \ {0}] /\ (at'.f <= MaxFrames => at'.k <= SizeIn(script, at'.f))
  <2>1. \A f \in 1 .. MaxFrames : SizeIn(script, f) \in Nat \ {0}
    <3>1. \A f \in 1 .. MaxFrames : /\ Len(script[f].payload) \in Nat
                                    /\ SizeIn(script, f) = HeaderLen + Len(script[f].payload)
      BY <1>2, FrameType
    <3> QED
      BY <3>1, Sizes
  <2>2. CASE at.k < SizeIn(script, at.f)
    BY <1>2, <1>3, <2>1, <2>2, Sizes
  <2>3. CASE ~ at.k < SizeIn(script, at.f)
    <3>1. at' = [f |-> at.f + 1, k |-> 1] /\ at.f + 1 \in 1 .. MaxFrames + 1
      BY <1>2, <1>3, <2>3, Sizes
    <3>2. at'.f = at.f + 1 /\ at'.k = 1
      BY <3>1
    <3>3. at.f + 1 <= MaxFrames => 1 <= SizeIn(script, at.f + 1)
      BY <1>2, <2>1, <3>1, Sizes
    <3> QED
      BY <3>1, <3>2, <3>3
  <2> QED
    BY <2>2, <2>3
<1>6. ReaderOK'
  BY <1>1, <1>4, <1>5, Facts DEF ReaderOK
<1>7. Run(script, mem'[turn], at')
  <2>1. Run(script, mem[turn], at)
    BY DEF IInv, InOrder
  <2> QED
    BY <1>2, <1>3, <1>4, <2>1, RunAppend
<1>8. NextIn' = NextIn
  <2>1. mem'[turn] # << >>
    BY <1>2, <1>4, AppendProperties, LenProperties, EmptySeq
  <2>2. CASE mem[turn] = << >>
    <3>1. mem'[turn][1] = at
      <4>1. Len(mem[turn]) = 0
        BY <2>2
      <4>2. mem'[turn][Len(mem[turn]) + 1] = at
        BY <1>2, <1>4, AppendProperties
      <4> QED
        BY <4>1, <4>2
    <3> QED
      BY <1>1, <2>1, <2>2, <3>1 DEF NextIn
  <2>3. CASE mem[turn] # << >>
    <3>1. mem'[turn][1] = mem[turn][1]
      <4>1. 1 \in 1 .. Len(mem[turn])
        BY <2>3, Facts
      <4> QED
        BY <1>2, <1>4, <4>1, AppendProperties
    <3> QED
      BY <1>1, <2>1, <2>3, <3>1 DEF NextIn
  <2> QED
    BY <2>2, <2>3
<1>9. ppc \in {"next", "process"} => mem'[cb] = mem[cb] /\ turn' = turn
  <2>1. HAVE ppc \in {"next", "process"}
  <2>2. cb # turn /\ cb \in 1 .. 2
    BY <2>1, Facts DEF IInv, Inv0, BuffersDisjoint, FramerOK
  <2> QED
    BY <1>1, <1>2, <2>2
<1>10. InOrder'
  <2>1. ppc' \in {"next", "process"} => Run(script', mem'[cb'], NextIn')
    BY <1>1, <1>8, <1>9 DEF IInv, InOrder, bufVars
  <2> QED
    BY <1>1, <1>2, <1>5, <1>7, <2>1 DEF InOrder, Scripts
<1> QED
  BY <1>1, <1>6, <1>8, <1>9, <1>10, ReaderFrame

(* The other steps that do not touch the buffers.                          *)
LEMMA ReaderSteps ==
  ASSUME IInv, \/ ReadReturns \/ ReadFails \/ ReaderDone \/ Cancel \/ ChanClosed \/ Panic
               \/ TakeFrame \/ SenderLeaves \/ UNCHANGED vars
  PROVE  IInv'
<1>1. /\ UNCHANGED <<script, bufVars, framerVars, partVars, outVars>> /\ UNCHANGED <<at, mem, turn>>
      /\ ppc' = ppc \/ ppc' = "exit"
  BY DEF ReadReturns, ReadFails, ReaderDone, Cancel, ChanClosed, Panic, TakeFrame, SenderLeaves, vars, readVars
<1>2. rd' \in {"read", "send", "exit"} /\ (rd' = "send" => mem[turn] # << >>)
  BY Facts DEF IInv, InOrder, ReaderOK, ReadReturns, ReadFails, ReaderDone, Cancel, ChanClosed, Panic,
         TakeFrame, SenderLeaves, vars, readVars
<1>3. cancelled' \in BOOLEAN
  <2>1. cancelled' = cancelled \/ cancelled' = TRUE
    BY Zenon DEF ReadReturns, ReadFails, ReaderDone, Cancel, ChanClosed, Panic, TakeFrame, SenderLeaves, vars, readVars
  <2>2. cancelled \in BOOLEAN
    BY Facts DEF ReaderOK
  <2> QED
    BY <2>1, <2>2, Zenon
<1>4. ReaderOK'
  BY <1>1, <1>2, <1>3, Facts DEF ReaderOK
<1>5. NextIn' = NextIn
  BY <1>1 DEF NextIn
<1>6. InOrder'
  BY <1>1, <1>2, <1>5 DEF IInv, InOrder, bufVars
<1>7. ppc' \in {"next", "process"} => mem'[cb] = mem[cb] /\ turn' = turn
  BY <1>1
<1> QED
  BY <1>1, <1>4, <1>5, <1>6, <1>7, ReaderFrame


(* A part of a sequence.                                                   *)
LEMMA SubSeqRange ==
  ASSUME NEW S, NEW s \in Seq(S), NEW a \in Nat, NEW d \in Nat, a + d <= Len(s)
  PROVE  /\ SubSeq(s, a + 1, a + d) \in Seq(S) /\ Len(SubSeq(s, a + 1, a + d)) = d
         /\ \A m \in 1 .. d : SubSeq(s, a + 1, a + d)[m] = s[a + m]
<1>1. Len(s) \in Nat /\ \A j \in 1 .. Len(s) : s[j] \in S
  BY LenProperties, ElementOfSeq
<1>2. PICK lo, hi : lo = a + 1 /\ hi = a + d
  OBVIOUS
<1>3. \A j \in lo .. hi : s[j] \in S
  BY <1>1, <1>2
<1>4. /\ SubSeq(s, lo, hi) \in Seq(S)
      /\ Len(SubSeq(s, lo, hi)) = IF lo <= hi THEN hi - lo + 1 ELSE 0
      /\ \A j \in 1 .. hi - lo + 1 : SubSeq(s, lo, hi)[j] = s[lo + j - 1]
  BY <1>2, <1>3, SubSeqProperties
<1>5. (IF lo <= hi THEN hi - lo + 1 ELSE 0) = d /\ hi - lo + 1 = d
  BY <1>2
<1>6. \A m \in 1 .. d : lo + m - 1 = a + m
  BY <1>2
<1> QED
  BY <1>2, <1>4, <1>5, <1>6

-----------------------------------------------------------------------------
(* HandOver and Framer.Next.                                               *)

(* A step that does not concern the frame processors and leaves the place  *)
(* in the frame as it is.                                                  *)
LEMMA PartsFrame ==
  ASSUME IInv, UNCHANGED <<script, partVars, outVars>>, ppc # "exit", Done' = Done
  PROVE  PartsAt' /\ StoreAt' /\ PiecesDoNotMatter' /\ Credited' /\ PartsOK'
<1>1. UNCHANGED <<script, ack, fields, acc, increment, errCode, goAway, open, updates, log>>
  BY DEF partVars, outVars
<1>2. Cur' = Cur /\ CurLen' = CurLen
  BY <1>1 DEF Cur, CurLen
<1>3. PartsAt'
  BY <1>1, <1>2 DEF IInv, PartsAt, Within, Had
<1>4. StoreAt' /\ PiecesDoNotMatter'
  BY <1>1 DEF IInv, StoreAt, PiecesDoNotMatter, Reference, KnownAt
<1>5. Credited'
  BY <1>1 DEF IInv, Credited, CreditReturned, DataBytes
<1>6. PartsOK'
  BY <1>1, Facts DEF PartsOK
<1> QED
  BY <1>3, <1>4, <1>5, <1>6

LEMMA HandOverStep ==
  ASSUME IInv, HandOver
  PROVE  IInv'
<1>1. /\ rd = "send" /\ ppc = "idle" /\ cb' = turn /\ from' = 0 /\ to' = Len(mem[turn])
      /\ ppc' = "next" /\ turn' = 3 - turn /\ mem' = [mem EXCEPT ![3 - turn] = << >>] /\ rd' = "read"
      /\ UNCHANGED <<script, cancelled, at>>
      /\ UNCHANGED <<currentHeader, header, payloadLeft, piece, status>>
      /\ UNCHANGED <<script, partVars, outVars>>
      /\ log' = log
  BY DEF HandOver, framerVars, outVars
<1>2. /\ turn \in 1 .. 2 /\ 3 - turn \in 1 .. 2 /\ 3 - turn # turn /\ mem \in [1 .. 2 -> Seq(Bytes)]
      /\ mem[turn] \in Seq(Bytes) /\ Len(mem[turn]) \in Nat
  <2>1. turn \in 1 .. 2 /\ mem \in [1 .. 2 -> Seq(Bytes)] /\ mem[turn] \in Seq(Bytes) /\ Len(mem[turn]) \in Nat
    BY Facts DEF ReaderOK
  <2> QED
    BY <2>1
<1>3. Len(mem[turn]) > 0 /\ mem[turn] # << >>
  BY <1>1, Facts DEF IInv, InOrder
<1>4. mem'[turn'] = << >> /\ mem'[cb'] = mem[turn] /\ << >> \in Seq(Bytes) /\ mem' \in [1 .. 2 -> Seq(Bytes)]
  <2>1. << >> \in Seq(Bytes)
    BY EmptySeq
  <2> QED
    BY <1>1, <1>2, <2>1
<1>5. NextIn' = at
  BY <1>1, <1>4 DEF NextIn
<1>6. ReaderOK'
  BY <1>1, <1>2, <1>4, Facts DEF ReaderOK
<1>7. FramerOK'
  BY <1>1, <1>2, Facts DEF FramerOK
<1>8. BuffersDisjoint'
  BY <1>1, <1>2, <1>4 DEF BuffersDisjoint
<1>9. InOrder'
  <2>1. Run(script', mem'[turn'], at')
    BY <1>4, RunEmpty
  <2>2. Run(script', mem'[cb'], NextIn')
    BY <1>1, <1>4, <1>5 DEF IInv, InOrder
  <2> QED
    BY <1>1, <2>1, <2>2 DEF IInv, InOrder
<1>10. Done' = Done /\ Expected' = Expected /\ Cur' = Cur /\ CurLen' = CurLen
  BY <1>1 DEF Done, Expected, Cur, CurLen
<1>11. FramerAt'
  <2>1. mem'[cb'][1] = Expected
    BY <1>1, <1>3, <1>4 DEF IInv, FramerAt, NextIn
  <2>2. from' < to' /\ from' + 1 = 1
    BY <1>1, <1>2, <1>3
  <2> QED
    BY <1>1, <1>10, <2>1, <2>2 DEF IInv, FramerAt
<1>12. PieceAt'
  BY <1>1 DEF PieceAt
<1>13. PartsAt' /\ StoreAt' /\ PiecesDoNotMatter' /\ Credited' /\ PartsOK'
  BY <1>1, <1>10, PartsFrame
<1> QED
  BY <1>6, <1>7, <1>8, <1>9, <1>11, <1>12, <1>13, TypesJoin DEF IInv, Inv0

(* The bytes of the frame that come next in the buffer.                    *)
LEMMA Upcoming ==
  ASSUME IInv, ppc = "next"
  PROVE  /\ Cur \in 1 .. MaxFrames /\ from < to /\ to = Len(mem[cb]) /\ from \in Nat /\ to \in Nat
         /\ Expected.f = Cur /\ Expected.k \in 1 .. SizeIn(script, Cur)
         /\ \A m \in 1 .. to - from :
              Expected.k + m - 1 <= SizeIn(script, Cur) =>
                mem[cb][from + m] = [f |-> Cur, k |-> Expected.k + m - 1]
         /\ Expected.k + (to - from) <= SizeIn(script, Cur) =>
              NextIn = [f |-> Cur, k |-> Expected.k + (to - from)]
         /\ Expected.k + (to - from) = SizeIn(script, Cur) + 1 => NextIn = [f |-> Cur + 1, k |-> 1]
         /\ \A m \in 1 .. to - from :
              Expected.k + m - 1 = SizeIn(script, Cur) + 1 =>
                mem[cb][from + m] = [f |-> Cur + 1, k |-> 1]
<1>1. /\ from < to /\ mem[cb][from + 1] = Expected /\ to = Len(mem[cb]) /\ from \in Nat /\ to \in Nat
      /\ Run(script, mem[cb], NextIn) /\ mem[cb] \in Seq(Bytes) /\ script \in Scripts
  BY Facts DEF IInv, FramerAt, InOrder, FramerOK, Inv0, BuffersDisjoint
<1>2. from + 1 \in 1 .. Len(mem[cb])
  BY <1>1
<1>3. Expected \in Bytes /\ Expected.f = Cur /\ Expected.k \in 1 .. SizeIn(script, Expected.f)
  <2>1. Expected \in Bytes
    BY <1>1, <1>2, ElementOfSeq
  <2>2. Expected.f = Cur
    BY DEF Expected
  <2>3. mem[cb][from + 1].k \in 1 .. SizeIn(script, mem[cb][from + 1].f)
    BY <1>1, <1>2 DEF Run
  <2> QED
    BY <1>1, <2>1, <2>2, <2>3
<1>4. Cur \in 1 .. MaxFrames /\ Expected.k \in Nat
  BY <1>3 DEF Bytes
<1>5. SizeIn(script, Cur) \in Nat
  BY <1>1, <1>4, FrameType
<1>6. ASSUME NEW m \in 1 .. to - from, Expected.k + m - 1 <= SizeIn(script, Cur)
      PROVE  mem[cb][from + m] = [f |-> Cur, k |-> Expected.k + m - 1]
  <2>1. /\ m - 1 \in 0 .. Len(mem[cb]) - (from + 1) /\ from + 1 + (m - 1) = from + m
        /\ Expected.k + (m - 1) = Expected.k + m - 1
    BY <1>1, <1>4
  <2>2. mem[cb][from + 1].k + (m - 1) <= SizeIn(script, mem[cb][from + 1].f)
    BY <1>1, <1>3, <1>6, <2>1
  <2>3. mem[cb][from + 1 + (m - 1)] = [f |-> mem[cb][from + 1].f, k |-> mem[cb][from + 1].k + (m - 1)]
    BY <1>1, <1>2, <2>1, <2>2, RunAt
  <2> QED
    BY <1>1, <1>3, <2>1, <2>3
<1>7. Behind(script, Expected, to - from, NextIn)
  <2>1. Behind(script, mem[cb][from + 1], Len(mem[cb]) + 1 - (from + 1), NextIn)
    BY <1>1, <1>2 DEF Run
  <2>2. Len(mem[cb]) + 1 - (from + 1) = to - from
    <3>1. to = Len(mem[cb]) /\ from \in Nat /\ to \in Nat
      BY <1>1
    <3>2. \A x, y \in Nat : x + 1 - (y + 1) = x - y
      OBVIOUS
    <3> QED
      BY <3>1, <3>2, Zenon
  <2> QED
    BY <1>1, <2>1, <2>2
<1>8. ASSUME NEW m \in 1 .. to - from, Expected.k + m - 1 = SizeIn(script, Cur) + 1
      PROVE  mem[cb][from + m] = [f |-> Cur + 1, k |-> 1]
  <2>1. m # 1
    BY <1>3, <1>5, <1>8
  <2>2. /\ m - 1 \in 1 .. Len(mem[cb]) - (from + 1) /\ from + 1 + (m - 1) = from + m
        /\ Expected.k + (m - 1) = Expected.k + m - 1
    <3>1. to = Len(mem[cb]) /\ from \in Nat /\ to \in Nat /\ Expected.k \in Nat
      BY <1>1, <1>4
    <3> QED
      BY <2>1, <3>1
  <2>3. Behind(script, mem[cb][from + 1], m - 1, mem[cb][from + 1 + (m - 1)])
    BY <1>1, <1>2, <2>2 DEF Run
  <2>4. Behind(script, Expected, m - 1, mem[cb][from + m])
    BY <1>1, <2>2, <2>3
  <2> QED
    BY <1>3, <1>8, <2>2, <2>4 DEF Behind
<1> QED
  BY <1>1, <1>3, <1>4, <1>6, <1>7, <1>8 DEF Behind

LEMMA HeaderIncompleteStep ==
  ASSUME IInv, HeaderIncomplete
  PROVE  IInv'
<1>1. /\ ppc = "next" /\ Len(currentHeader) # HeaderLen /\ to - from < HeaderLen - Len(currentHeader)
      /\ currentHeader' = currentHeader \o SubSeq(mem[cb], from + 1, to) /\ ppc' = "idle"
      /\ UNCHANGED <<script, cancelled, at, mem, turn, rd>> /\ UNCHANGED <<cb, from, to>>
      /\ UNCHANGED <<header, payloadLeft, piece, status>>
      /\ UNCHANGED <<script, partVars, outVars>> /\ log' = log
  BY DEF HeaderIncomplete, readVars, bufVars, outVars
<1>2. PICK n, d : n = Len(currentHeader) /\ d = to - from
  OBVIOUS
<1>3. /\ n \in Nat /\ n <= HeaderLen /\ n < HeaderLen /\ d \in Nat /\ d > 0 /\ n + d < HeaderLen
      /\ currentHeader \in Seq(Bytes) /\ mem[cb] \in Seq(Bytes) /\ script \in Scripts
      /\ \A j \in 1 .. n : currentHeader[j] = [f |-> Cur, k |-> j]
      /\ from \in Nat /\ to = from + d /\ to = Len(mem[cb])
  <2>1. /\ n \in Nat /\ n <= HeaderLen /\ currentHeader \in Seq(Bytes) /\ mem[cb] \in Seq(Bytes)
        /\ script \in Scripts
        /\ \A j \in 1 .. n : currentHeader[j] = [f |-> Cur, k |-> j]
    BY <1>1, <1>2, Facts DEF IInv, FramerAt, FramerOK
  <2>2. from < to /\ to = Len(mem[cb]) /\ from \in Nat /\ to \in Nat
    BY <1>1, Upcoming
  <2> QED
    BY <1>1, <1>2, <2>1, <2>2, Sizes
<1>4. Expected = [f |-> Cur, k |-> n + 1] /\ Expected.k = n + 1 /\ Cur \in 1 .. MaxFrames
  BY <1>1, <1>2, <1>3, Upcoming DEF Expected
<1>5. SizeIn(script, Cur) \in Nat /\ SizeIn(script, Cur) >= HeaderLen
  <2>1. SizeIn(script, Cur) = HeaderLen + Len(script[Cur].payload) /\ Len(script[Cur].payload) \in Nat
    BY <1>3, <1>4, FrameType
  <2> QED
    BY <2>1, Sizes
<1>6. \A m \in 1 .. d : mem[cb][from + m] = [f |-> Cur, k |-> n + m]
  <2>1. \A m \in 1 .. d : Expected.k + m - 1 <= SizeIn(script, Cur) /\ Expected.k + m - 1 = n + m
    BY <1>3, <1>4, <1>5, Sizes
  <2>2. \A m \in 1 .. d : Expected.k + m - 1 <= SizeIn(script, Cur) =>
                mem[cb][from + m] = [f |-> Cur, k |-> Expected.k + m - 1]
    BY <1>1, <1>2, Upcoming
  <2> QED
    BY <2>1, <2>2
<1>7. NextIn = [f |-> Cur, k |-> n + d + 1]
  <2>1. Expected.k + d <= SizeIn(script, Cur) /\ Expected.k + d = n + d + 1
    BY <1>3, <1>4, <1>5, Sizes
  <2>2. Expected.k + d <= SizeIn(script, Cur) => NextIn = [f |-> Cur, k |-> Expected.k + d]
    BY <1>1, <1>2, Upcoming
  <2> QED
    BY <2>1, <2>2
<1>8. /\ SubSeq(mem[cb], from + 1, to) \in Seq(Bytes) /\ Len(SubSeq(mem[cb], from + 1, to)) = d
      /\ \A m \in 1 .. d : SubSeq(mem[cb], from + 1, to)[m] = mem[cb][from + m]
  BY <1>3, SubSeqRange
<1>9. /\ currentHeader' \in Seq(Bytes) /\ Len(currentHeader') = n + d
      /\ \A j \in 1 .. n + d : currentHeader'[j] = [f |-> Cur, k |-> j]
  <2>1. PICK s : s = SubSeq(mem[cb], from + 1, to)
    OBVIOUS
  <2>2. /\ currentHeader' \in Seq(Bytes) /\ Len(currentHeader') = n + d
        /\ \A j \in 1 .. n + d : currentHeader'[j] = IF j <= n THEN currentHeader[j] ELSE s[j - n]
    BY <1>1, <1>2, <1>3, <1>8, <2>1, ConcatProperties
  <2>3. ASSUME NEW j \in 1 .. n + d PROVE currentHeader'[j] = [f |-> Cur, k |-> j]
    <3>1. CASE j <= n
      <4>1. j \in 1 .. n
        BY <1>3, <3>1
      <4>2. currentHeader'[j] = currentHeader[j]
        BY <2>2, <3>1
      <4>3. currentHeader[j] = [f |-> Cur, k |-> j]
        BY <1>3, <4>1, Zenon
      <4> QED
        BY <4>2, <4>3
    <3>2. CASE ~ j <= n
      <4>1. j - n \in 1 .. d /\ n + (j - n) = j
        BY <1>3, <3>2
      <4>2. s[j - n] = [f |-> Cur, k |-> n + (j - n)]
        BY <1>6, <1>8, <2>1, <4>1
      <4> QED
        BY <2>2, <3>2, <4>1, <4>2
    <3> QED
      BY <3>1, <3>2
  <2> QED
    BY <2>2, <2>3
<1>10. Cur' = Cur /\ CurLen' = CurLen /\ NextIn' = NextIn
  BY <1>1 DEF Cur, CurLen, NextIn
<1>11. Done' = Done
  <2>1. Len(currentHeader) # HeaderLen /\ Len(currentHeader') # HeaderLen
    BY <1>1, <1>3, <1>9, Sizes
  <2> QED
    BY <1>1, <2>1 DEF Done
<1>12. FramerAt'
  <2>1. n + d < HeaderLen /\ n + d <= HeaderLen /\ n + d # HeaderLen
    BY <1>3, Sizes
  <2>2. NextIn' = Expected'
    BY <1>7, <1>9, <1>10, <2>1 DEF Expected
  <2>3. \A j \in 1 .. Len(currentHeader') : currentHeader'[j] = [f |-> Cur', k |-> j]
    BY <1>9, <1>10
  <2> QED
    BY <1>1, <1>9, <2>1, <2>2, <2>3 DEF FramerAt
<1>13. ReaderOK' /\ FramerOK'
  BY <1>1, <1>9, Facts DEF ReaderOK, FramerOK
<1>14. BuffersDisjoint' /\ PieceAt'
  BY <1>1 DEF BuffersDisjoint, PieceAt
<1>15. InOrder'
  BY <1>1 DEF IInv, InOrder
<1>16. PartsAt' /\ StoreAt' /\ PiecesDoNotMatter' /\ Credited' /\ PartsOK'
  BY <1>1, <1>11, PartsFrame
<1> QED
  BY <1>12, <1>13, <1>14, <1>15, <1>16, TypesJoin DEF IInv, Inv0


LEMMA FirstField ==
  ASSUME NEW f, NEW k, NEW b, b = [f |-> f, k |-> k]
  PROVE  b.f = f /\ b.k = k
  OBVIOUS

LEMMA Complement ==
  ASSUME NEW c \in Nat, NEW b \in 0 .. c, NEW a, a = c - b
  PROVE  a \in Nat /\ b \in Nat /\ a + b = c
  OBVIOUS

(* Framer.Next with a whole header: where the piece begins, what is left   *)
(* of the payload, and the bytes behind.                                   *)
LEMMA PieceAhead ==
  ASSUME IInv, ppc = "next", to - from >= HeaderLen - Len(currentHeader),
         NEW start, start = from + HeaderLen - Len(currentHeader),
         NEW h, h = currentHeader \o SubSeq(mem[cb], from + 1, start),
         NEW left, left = IF Len(currentHeader) = HeaderLen THEN payloadLeft ELSE Length(h)
  PROVE  /\ start \in Nat /\ start <= to /\ to \in Nat
         /\ h \in Seq(Bytes) /\ Len(h) = HeaderLen /\ \A j \in 1 .. HeaderLen : h[j] = [f |-> Cur, k |-> j]
         /\ CurLen \in Nat /\ left \in 0 .. CurLen /\ Done = CurLen - left
         /\ \A a \in 1 .. to - start :
              /\ Done + a <= CurLen => mem[cb][start + a] = [f |-> Cur, k |-> HeaderLen + Done + a]
              /\ Done + a = CurLen + 1 => mem[cb][start + a] = [f |-> Cur + 1, k |-> 1]
         /\ to - start < left => NextIn = [f |-> Cur, k |-> HeaderLen + Done + (to - start) + 1]
         /\ to - start = left => NextIn = [f |-> Cur + 1, k |-> 1]
<1>1. PICK n, x, z : n = Len(currentHeader) /\ x = Expected.k /\ z = SizeIn(script, Cur)
  OBVIOUS
<1>2. /\ Cur \in 1 .. MaxFrames /\ from < to /\ to = Len(mem[cb]) /\ from \in Nat /\ to \in Nat
      /\ \A m \in 1 .. to - from : x + m - 1 <= z => mem[cb][from + m] = [f |-> Cur, k |-> x + m - 1]
      /\ x + (to - from) <= z => NextIn = [f |-> Cur, k |-> x + (to - from)]
      /\ x + (to - from) = z + 1 => NextIn = [f |-> Cur + 1, k |-> 1]
      /\ \A m \in 1 .. to - from : x + m - 1 = z + 1 => mem[cb][from + m] = [f |-> Cur + 1, k |-> 1]
  BY <1>1, Upcoming
<1>3. /\ n \in Nat /\ n <= HeaderLen /\ currentHeader \in Seq(Bytes) /\ mem[cb] \in Seq(Bytes)
      /\ script \in Scripts /\ \A j \in 1 .. n : currentHeader[j] = [f |-> Cur, k |-> j]
      /\ n = HeaderLen => payloadLeft \in 1 .. CurLen
  BY <1>1, Facts DEF IInv, FramerAt, FramerOK
<1>4. CurLen \in Nat /\ z = HeaderLen + CurLen /\ HeaderLen \in Nat \ {0}
  <2>1. z = HeaderLen + Len(script[Cur].payload) /\ Len(script[Cur].payload) \in Nat
    BY <1>1, <1>2, <1>3, FrameType
  <2> QED
    BY <2>1, Sizes DEF CurLen
<1>5. PICK o : o = HeaderLen - n
  OBVIOUS
<1>6. o \in Nat /\ start = from + o /\ o <= to - from /\ start \in Nat /\ start <= to /\ n + o = HeaderLen
  <2>1. to - from >= HeaderLen - n /\ start = from + HeaderLen - n
    BY <1>1
  <2>2. n \in Nat /\ n <= HeaderLen /\ from \in Nat /\ to \in Nat /\ HeaderLen \in Nat
    BY <1>2, <1>3, <1>4
  <2> QED
    BY <1>5, <2>1, <2>2
<1>7. x = IF n < HeaderLen THEN n + 1 ELSE HeaderLen + CurLen - payloadLeft + 1
  BY <1>1 DEF Expected
<1>8. \A m \in 1 .. o : mem[cb][from + m] = [f |-> Cur, k |-> n + m]
  <2>1. TAKE m \in 1 .. o
  <2>2. n < HeaderLen
    BY <1>3, <1>4, <1>6
  <2>3. x = n + 1
    BY <1>7, <2>2
  <2>4. m \in 1 .. to - from /\ x + m - 1 <= z /\ x + m - 1 = n + m
    <3>1. o \in Nat /\ o <= to - from /\ to \in Nat /\ from \in Nat
      BY <1>2, <1>6
    <3>2. n \in Nat /\ x = n + 1 /\ z = HeaderLen + CurLen /\ n + o = HeaderLen /\ CurLen \in Nat
      BY <1>3, <1>4, <1>6, <2>3
    <3>3. m \in 1 .. to - from
      BY <3>1
    <3>4. x + m - 1 = n + m
      BY <3>2
    <3>5. n + m <= z
      BY <3>1, <3>2
    <3> QED
      BY <3>3, <3>4, <3>5
  <2> QED
    BY <1>2, <2>4
<1>9. /\ SubSeq(mem[cb], from + 1, start) \in Seq(Bytes) /\ Len(SubSeq(mem[cb], from + 1, start)) = o
      /\ \A m \in 1 .. o : SubSeq(mem[cb], from + 1, start)[m] = mem[cb][from + m]
  <2>1. start = from + o /\ start <= to /\ to = Len(mem[cb])
    BY <1>2, <1>6
  <2>2. from + o <= Len(mem[cb]) /\ from \in Nat /\ o \in Nat /\ mem[cb] \in Seq(Bytes)
    BY <1>2, <1>3, <1>6, <2>1, Zenon
  <2>3. /\ SubSeq(mem[cb], from + 1, from + o) \in Seq(Bytes) /\ Len(SubSeq(mem[cb], from + 1, from + o)) = o
        /\ \A m \in 1 .. o : SubSeq(mem[cb], from + 1, from + o)[m] = mem[cb][from + m]
    BY <2>2, SubSeqRange, Zenon
  <2> QED
    BY <2>1, <2>3, Zenon
<1>10. /\ h \in Seq(Bytes) /\ Len(h) = HeaderLen /\ \A j \in 1 .. HeaderLen : h[j] = [f |-> Cur, k |-> j]
  <2>1. PICK s : s = SubSeq(mem[cb], from + 1, start)
    OBVIOUS
  <2>2. /\ h \in Seq(Bytes) /\ Len(h) = n + o
        /\ \A j \in 1 .. n + o : h[j] = IF j <= n THEN currentHeader[j] ELSE s[j - n]
    BY <1>1, <1>3, <1>9, <2>1, ConcatProperties
  <2>3. ASSUME NEW j \in 1 .. n + o PROVE h[j] = [f |-> Cur, k |-> j]
    <3>1. CASE j <= n
      <4>1. j \in 1 .. n
        BY <1>3, <3>1
      <4>2. h[j] = currentHeader[j]
        BY <2>2, <3>1
      <4>3. currentHeader[j] = [f |-> Cur, k |-> j]
        BY <1>3, <4>1, Zenon
      <4> QED
        BY <4>2, <4>3
    <3>2. CASE ~ j <= n
      <4>1. j - n \in 1 .. o /\ n + (j - n) = j
        BY <1>3, <1>6, <3>2
      <4>2. s[j - n] = [f |-> Cur, k |-> n + (j - n)]
        BY <1>8, <1>9, <2>1, <4>1
      <4> QED
        BY <2>2, <3>2, <4>1, <4>2
    <3> QED
      BY <3>1, <3>2
  <2> QED
    BY <1>6, <2>2, <2>3
<1>11. Length(h) = CurLen
  <2>1. h[1] = [f |-> Cur, k |-> 1]
    BY <1>4, <1>10
  <2>2. h[1].f = Cur
    BY <2>1, FirstField, Zenon
  <2> QED
    BY <2>2, Zenon DEF Length, CurLen
<1>12. left \in 0 .. CurLen /\ Done = CurLen - left /\ x + o = HeaderLen + (CurLen - left) + 1
  <2>1. CASE n = HeaderLen
    <3>1. left = payloadLeft /\ o = 0
      BY <1>1, <1>3, <1>5, <2>1
    <3>2. Done = CurLen - payloadLeft
      BY <1>1, <2>1 DEF Done
    <3>3. x = HeaderLen + CurLen - payloadLeft + 1
      BY <1>3, <1>4, <1>7, <2>1
    <3>4. payloadLeft \in 1 .. CurLen
      BY <1>3, <2>1
    <3> QED
      BY <1>4, <3>1, <3>2, <3>3, <3>4
  <2>2. CASE n # HeaderLen
    <3>1. left = CurLen /\ x = n + 1
      BY <1>1, <1>3, <1>4, <1>7, <1>11, <2>2
    <3>2. Done = 0
      BY <1>1, <2>2 DEF Done
    <3>3. x + o = HeaderLen + 1
      BY <1>3, <1>4, <1>6, <3>1
    <3> QED
      BY <1>4, <3>1, <3>2, <3>3
  <2> QED
    BY <2>1, <2>2
<1>13. PICK d, b : d = Done /\ b = to - start
  OBVIOUS
<1>14. /\ d \in Nat /\ b \in Nat /\ x + o = HeaderLen + d + 1 /\ to - from = o + b /\ d + left = CurLen
       /\ left \in Nat /\ x \in Int
  <2>1. x \in Int
    BY <1>3, <1>4, <1>7
  <2>2. /\ start = from + o /\ start <= to /\ b = to - start /\ from \in Nat /\ to \in Nat /\ start \in Nat
        /\ o \in Nat
    BY <1>2, <1>6, <1>13
  <2>3. b \in Nat /\ to - from = o + b
    BY <2>2
  <2>4. d = CurLen - left /\ left \in 0 .. CurLen /\ CurLen \in Nat /\ x + o = HeaderLen + (CurLen - left) + 1
    BY <1>4, <1>12, <1>13
  <2>5. d \in Nat /\ left \in Nat /\ d + left = CurLen
    BY <2>4, Complement, Zenon
  <2> QED
    BY <2>1, <2>3, <2>4, <2>5
<1>15. ASSUME NEW a \in 1 .. b
       PROVE  /\ d + a <= CurLen => mem[cb][start + a] = [f |-> Cur, k |-> HeaderLen + d + a]
              /\ d + a = CurLen + 1 => mem[cb][start + a] = [f |-> Cur + 1, k |-> 1]
  <2>1. /\ o + a \in 1 .. to - from /\ x + (o + a) - 1 = HeaderLen + d + a /\ from + (o + a) = start + a
        /\ d + a <= CurLen => HeaderLen + d + a <= z
        /\ d + a = CurLen + 1 => HeaderLen + d + a = z + 1
    <3>1. x \in Int /\ o \in Nat /\ x + o = HeaderLen + d + 1 /\ d \in Nat /\ HeaderLen \in Nat /\ a \in Nat
      BY <1>4, <1>6, <1>14
    <3>2. x + (o + a) - 1 = HeaderLen + d + a
      BY <3>1
    <3>3. o + a \in 1 .. to - from /\ from + (o + a) = start + a
      <4>1. to - from = o + b /\ start = from + o /\ o \in Nat /\ b \in Nat /\ from \in Nat
        BY <1>2, <1>6, <1>14
      <4>2. o + a \in 1 .. o + b /\ from + (o + a) = from + o + a
        BY <4>1
      <4> QED
        BY <4>1, <4>2, Zenon
    <3> QED
      BY <1>4, <1>14, <3>1, <3>2, <3>3
  <2> QED
    BY <1>2, <2>1
<1>16. b < left => NextIn = [f |-> Cur, k |-> HeaderLen + d + b + 1]
  <2>1. HAVE b < left
  <2>2. x + (to - from) = HeaderLen + d + b + 1 /\ HeaderLen + d + b + 1 <= z
    <3>1. /\ to - from = o + b /\ x + o = HeaderLen + d + 1 /\ x \in Int /\ o \in Nat /\ b \in Nat
          /\ d \in Nat /\ HeaderLen \in Nat
      BY <1>4, <1>6, <1>14
    <3>2. x + (o + b) = HeaderLen + d + b + 1
      BY <3>1
    <3>3. z = HeaderLen + CurLen /\ CurLen \in Nat /\ d + left = CurLen /\ left \in Nat
      BY <1>4, <1>14
    <3>4. HeaderLen + d + b + 1 <= z
      BY <2>1, <3>1, <3>3
    <3> QED
      BY <3>1, <3>2, <3>4, Zenon
  <2> QED
    BY <1>2, <2>2
<1>17. b = left => NextIn = [f |-> Cur + 1, k |-> 1]
  <2>1. HAVE b = left
  <2>2. x + (to - from) = z + 1
    <3>1. /\ to - from = o + b /\ x + o = HeaderLen + d + 1 /\ x \in Int /\ o \in Nat /\ b \in Nat
          /\ d \in Nat /\ HeaderLen \in Nat
      BY <1>4, <1>6, <1>14
    <3>2. z = HeaderLen + CurLen /\ CurLen \in Nat /\ d + b = CurLen
      BY <1>4, <1>14, <2>1
    <3>3. x + (o + b) = z + 1
      BY <3>1, <3>2
    <3> QED
      BY <3>1, <3>3, Zenon
  <2> QED
    BY <1>2, <2>2
<1> QED
  BY <1>2, <1>4, <1>6, <1>10, <1>12, <1>13, <1>15, <1>16, <1>17


LEMMA NextPieceStep ==
  ASSUME IInv, NextPiece
  PROVE  IInv'
<1>1. PICK start, h, left, b :
        /\ start = from + HeaderLen - Len(currentHeader)
        /\ h = currentHeader \o SubSeq(mem[cb], from + 1, start)
        /\ left = IF Len(currentHeader) = HeaderLen THEN payloadLeft ELSE Length(h)
        /\ b = to - start
  OBVIOUS
<1>2. /\ ppc = "next" /\ to - from >= HeaderLen - Len(currentHeader)
      /\ header' = h
      /\ status' = IF b > left THEN "done" ELSE IF b = left THEN "doneBufEmpty" ELSE "incomplete"
      /\ piece' = [start |-> start, end |-> IF b > left THEN start + left ELSE to]
      /\ from' = IF b > left THEN start + left ELSE start
      /\ currentHeader' = IF b < left THEN h ELSE << >>
      /\ payloadLeft' = IF b < left THEN left - b ELSE left
      /\ ppc' = "process" /\ UNCHANGED <<cb, to>> /\ UNCHANGED <<script, cancelled, at, mem, turn, rd>>
      /\ UNCHANGED <<script, partVars, outVars>> /\ log' = log
  BY <1>1 DEF NextPiece, readVars, outVars
<1>3. PICK d, c, u : d = Done /\ c = CurLen /\ u = Cur
  OBVIOUS
<1>4. /\ start \in Nat /\ start <= to /\ to \in Nat
      /\ h \in Seq(Bytes) /\ Len(h) = HeaderLen /\ \A j \in 1 .. HeaderLen : h[j] = [f |-> u, k |-> j]
      /\ c \in Nat /\ left \in 0 .. c /\ d = c - left
      /\ \A a \in 1 .. b : /\ d + a <= c => mem[cb][start + a] = [f |-> u, k |-> HeaderLen + d + a]
                           /\ d + a = c + 1 => mem[cb][start + a] = [f |-> u + 1, k |-> 1]
      /\ b < left => NextIn = [f |-> u, k |-> HeaderLen + d + b + 1]
      /\ b = left => NextIn = [f |-> u + 1, k |-> 1]
  BY <1>1, <1>2, <1>3, PieceAhead
<1>5. /\ d \in Nat /\ left \in Nat /\ d + left = c /\ b \in Nat /\ b = to - start /\ start + b = to
  <2>1. /\ d \in Nat /\ left \in Nat /\ d + left = c
    BY <1>4, Complement, Zenon
  <2>2. b \in Nat /\ b = to - start /\ start + b = to
    <3>1. start \in Nat /\ start <= to /\ to \in Nat /\ b = to - start
      BY <1>1, <1>4
    <3> QED
      BY <3>1
  <2> QED
    BY <2>1, <2>2
<1>6. PICK e : e = IF b > left THEN start + left ELSE to
  OBVIOUS
<1>7. /\ piece' = [start |-> start, end |-> e] /\ piece'.start = start /\ piece'.end = e /\ e \in Nat
      /\ e - start = IF b > left THEN left ELSE b
      /\ start <= e /\ e <= to
  <2>1. piece' = [start |-> start, end |-> e]
    BY <1>2, <1>6
  <2>2. piece'.start = start /\ piece'.end = e
    BY <2>1
  <2>3. /\ e \in Nat /\ e - start = (IF b > left THEN left ELSE b) /\ start <= e /\ e <= to
    BY <1>4, <1>5, <1>6
  <2> QED
    BY <2>1, <2>2, <2>3
<1>8. Cur' = u /\ CurLen' = c /\ NextIn' = NextIn
  BY <1>2, <1>3 DEF Cur, CurLen, NextIn
<1>9. Done' = d
  <2>1. Done' = CurLen' - payloadLeft' - (IF status' # "incomplete" THEN 0 ELSE piece'.end - piece'.start)
    BY <1>2 DEF Done, Complete
  <2>2. CASE b < left
    <3>1. payloadLeft' = left - b /\ status' = "incomplete" /\ e - start = b
      BY <1>2, <1>5, <1>7, <2>2
    <3>2. Done' = c - (left - b) - b
      BY <1>7, <1>8, <2>1, <3>1
    <3> QED
      BY <1>4, <1>5, <3>2
  <2>3. CASE ~ b < left
    <3>1. payloadLeft' = left /\ status' # "incomplete"
      BY <1>2, <1>5, <2>3
    <3>2. Done' = c - left - 0
      BY <1>8, <2>1, <3>1
    <3> QED
      BY <1>4, <1>5, <3>2
  <2> QED
    BY <2>2, <2>3
<1>10. PieceAt'
  <2>1. Len(header') = HeaderLen /\ \A j \in 1 .. HeaderLen : header'[j] = [f |-> Cur', k |-> j]
    BY <1>2, <1>4, <1>8
  <2>2. piece'.start <= piece'.end /\ piece'.end <= to' /\ Done' \in 0 .. CurLen'
    <3>1. d \in 0 .. c
      BY <1>4, <1>5
    <3> QED
      BY <1>2, <1>7, <1>8, <1>9, <3>1
  <2>3. \A a \in 1 .. e - start : mem[cb][start + a] = [f |-> u, k |-> HeaderLen + d + a]
    <3>1. TAKE a \in 1 .. e - start
    <3>2. e - start <= b /\ e - start <= left /\ e - start \in Nat
      BY <1>5, <1>7
    <3>3. a \in 1 .. b /\ d + a <= c
      BY <1>5, <3>2
    <3> QED
      BY <1>4, <3>3
  <2>4. \A a \in 1 .. piece'.end - piece'.start :
          mem'[cb'][piece'.start + a] = [f |-> Cur', k |-> HeaderLen + Done' + a]
    BY <1>2, <1>7, <1>8, <1>9, <2>3
  <2>5. status' = "incomplete" =>
          /\ currentHeader' = header' /\ payloadLeft' \in 1 .. CurLen'
          /\ NextIn' = [f |-> Cur', k |-> HeaderLen + CurLen' - payloadLeft' + 1]
    <3>1. HAVE status' = "incomplete"
    <3>2. b < left
      BY <1>2, <1>5, <3>1
    <3>3. currentHeader' = header' /\ payloadLeft' = left - b
      BY <1>2, <3>2
    <3>4. left - b \in 1 .. c /\ HeaderLen + c - (left - b) + 1 = HeaderLen + d + b + 1
      BY <1>4, <1>5, <3>2, Sizes
    <3>5. NextIn = [f |-> u, k |-> HeaderLen + d + b + 1]
      BY <1>4, <3>2
    <3> QED
      BY <1>8, <3>3, <3>4, <3>5
  <2>6. status' # "incomplete" => currentHeader' = << >> /\ payloadLeft' = piece'.end - piece'.start
    <3>1. HAVE status' # "incomplete"
    <3>2. ~ b < left /\ (IF b > left THEN left ELSE b) = left
      BY <1>2, <1>5, <3>1
    <3> QED
      BY <1>2, <1>7, <3>2
  <2>7. status' = "done" => /\ from' = piece'.end /\ from' < to'
                            /\ mem'[cb'][from' + 1] = [f |-> Cur' + 1, k |-> 1]
    <3>1. HAVE status' = "done"
    <3>2. b > left
      BY <1>2, <1>5, <3>1
    <3>3. from' = start + left /\ e = start + left
      BY <1>2, <1>6, <3>2
    <3>4. start + left < to /\ left + 1 \in 1 .. b /\ d + (left + 1) = c + 1 /\ start + (left + 1) = start + left + 1
      BY <1>4, <1>5, <3>2
    <3>5. mem[cb][start + (left + 1)] = [f |-> u + 1, k |-> 1]
      BY <1>4, <3>4
    <3> QED
      BY <1>2, <1>7, <1>8, <3>3, <3>4, <3>5
  <2>8. status' = "doneBufEmpty" => NextIn' = [f |-> Cur' + 1, k |-> 1]
    <3>1. HAVE status' = "doneBufEmpty"
    <3>2. b = left
      BY <1>2, <1>5, <3>1
    <3> QED
      BY <1>4, <1>8, <3>2
  <2> QED
    BY <2>1, <2>2, <2>4, <2>5, <2>6, <2>7, <2>8, Zenon DEF PieceAt, Complete
<1>11. FramerOK'
  <2>1. from' \in Nat /\ payloadLeft' \in Nat
    BY <1>2, <1>4, <1>5
  <2>2. currentHeader' \in Seq(Bytes) /\ header' \in Seq(Bytes)
    BY <1>2, <1>4, EmptySeq
  <2>3. status' \in {"done", "doneBufEmpty", "incomplete"} /\ piece' \in [start : Nat, end : Nat]
    BY <1>2, <1>4, <1>7
  <2>4. cb' \in 1 .. 2 /\ to' \in Nat /\ ppc' \in {"idle", "next", "process", "exit"}
    BY <1>2, Facts DEF FramerOK
  <2> QED
    BY <2>1, <2>2, <2>3, <2>4 DEF FramerOK
<1>12. ReaderOK' /\ BuffersDisjoint' /\ FramerAt'
  BY <1>2, Facts DEF IInv, Inv0, ReaderOK, BuffersDisjoint, FramerAt
<1>13. InOrder'
  BY <1>2, <1>8 DEF IInv, InOrder
<1>14. PartsAt' /\ StoreAt' /\ PiecesDoNotMatter' /\ Credited' /\ PartsOK'
  <2>1. Done' = Done /\ ppc # "exit"
    BY <1>2, <1>3, <1>9
  <2> QED
    BY <1>2, <2>1, PartsFrame
<1> QED
  BY <1>10, <1>11, <1>12, <1>13, <1>14, TypesJoin DEF IInv, Inv0


-----------------------------------------------------------------------------
(* Pieces of a payload, and words.                                         *)

LEMMA SliceJoin ==
  ASSUME NEW S, NEW p \in Seq(S), NEW lo \in Nat, NEW d \in Nat, NEW n \in Nat, lo <= d, d + n <= Len(p)
  PROVE  SubSeq(p, lo + 1, d) \o SubSeq(p, d + 1, d + n) = SubSeq(p, lo + 1, d + n)
<1>1. Len(p) \in Nat
  BY LenProperties
<1>2. PICK m, e : m = lo + 1 /\ e = d + n
  OBVIOUS
<1>3. m \in 1 .. Len(p) + 1 /\ d \in m - 1 .. Len(p) /\ e \in d .. Len(p)
  BY <1>1, <1>2
<1>4. SubSeq(p, m, d) \o SubSeq(p, d + 1, e) = SubSeq(p, m, e)
  BY <1>3, ConcatAdjacentSubSeq
<1> QED
  BY <1>2, <1>4

LEMMA SliceMore ==
  ASSUME NEW S, NEW p \in Seq(S), NEW d \in Nat, NEW n \in Nat, d + n <= Len(p)
  PROVE  /\ SubSeq(p, 1, d) \o SubSeq(p, d + 1, d + n) = SubSeq(p, 1, d + n)
         /\ SubSeq(p, 1, d + n) \in Seq(S)
         /\ d + n = Len(p) => SubSeq(p, 1, d + n) = p
<1>1. PICK z, e : z = 0 /\ e = d + n
  OBVIOUS
<1>2. z \in Nat /\ z <= d /\ z + 1 = 1 /\ e \in Nat /\ z + e = e /\ z + e <= Len(p)
  BY <1>1
<1>3. SubSeq(p, z + 1, d) \o SubSeq(p, d + 1, d + n) = SubSeq(p, z + 1, d + n)
  BY <1>2, SliceJoin
<1>4. SubSeq(p, z + 1, z + e) \in Seq(S)
  BY <1>2, SubSeqRange
<1>5. SubSeq(p, 1, Len(p)) = p
  BY SubSeqFull
<1> QED
  BY <1>1, <1>2, <1>3, <1>4, <1>5

(* What of the places lo + 1 .. hi is in q, which begins behind place i.   *)
PartOf(q, i, lo, hi) ==
  SubSeq(q, IF lo > i THEN lo - i + 1 ELSE 1, IF hi - i < Len(q) THEN hi - i ELSE Len(q))

PartIs(q, i, lo, hi, r) == PartOf(q, i, lo, hi) = r

LEMMA PartSlice ==
  ASSUME NEW S, NEW p \in Seq(S), NEW d \in Nat, NEW n \in Nat, d + n <= Len(p),
         NEW lo \in Nat, NEW hi \in Nat
  PROVE  PartIs(SubSeq(p, d + 1, d + n), d, lo, hi, SubSeq(p, Most(lo, d) + 1, Least(hi, d + n)))
<1>1. PICK q, x, y : q = SubSeq(p, d + 1, d + n) /\ x = Most(lo, d) /\ y = Least(hi, d + n)
  OBVIOUS
<1>2. q \in Seq(S) /\ Len(q) = n /\ Len(p) \in Nat
  BY <1>1, SubSeqRange, LenProperties
<1>3. PICK s, t : s = x - d + 1 /\ t = y - d
  OBVIOUS
<1>4. x \in Nat /\ y \in Nat /\ x >= d /\ y <= d + n /\ s \in Int /\ t \in Int
  BY <1>1, <1>3 DEF Most, Least
<1>5. PartOf(q, d, lo, hi) = SubSeq(q, s, t)
  <2>1. s = IF lo > d THEN lo - d + 1 ELSE 1
    BY <1>1, <1>3 DEF Most
  <2>2. t = IF hi - d < n THEN hi - d ELSE n
    BY <1>1, <1>3 DEF Least
  <2> QED
    BY <1>2, <2>1, <2>2 DEF PartOf
<1>6. ASSUME y <= x PROVE PartOf(q, d, lo, hi) = SubSeq(p, x + 1, y)
  <2>1. t < s /\ y < x + 1 /\ x + 1 \in Int
    BY <1>3, <1>4, <1>6
  <2>2. SubSeq(q, s, t) = << >> /\ SubSeq(p, x + 1, y) = << >>
    BY <1>4, <2>1, SubSeqEmpty
  <2> QED
    BY <1>5, <2>2
<1>7. ASSUME ~ y <= x PROVE PartOf(q, d, lo, hi) = SubSeq(p, x + 1, y)
  <2>1. PICK i, j : i = d + 1 /\ j = d + n
    OBVIOUS
  <2>2. /\ i \in 1 .. Len(p) /\ j \in 1 .. Len(p) /\ s \in 1 .. j - i + 1 /\ t \in 1 .. j - i + 1
    BY <1>2, <1>3, <1>4, <1>7, <2>1
  <2>3. SubSeq(SubSeq(p, i, j), s, t) = SubSeq(p, i + s - 1, i + t - 1)
    BY <2>2, SubSeqOfSubSeq
  <2>4. i + s - 1 = x + 1 /\ i + t - 1 = y
    BY <1>3, <1>4, <2>1
  <2> QED
    BY <1>1, <1>5, <2>1, <2>3, <2>4
<1>8. PartOf(q, d, lo, hi) = SubSeq(p, x + 1, y)
  BY <1>6, <1>7
<1> QED
  BY <1>1, <1>8, Zenon DEF PartIs

LEMMA WordSeq ==
  ASSUME NEW w \in Word
  PROVE  w \in Seq(Byte) /\ Len(w) = WordLen
  BY Sizes DEF Word

LEMMA ShiftWord ==
  ASSUME NEW w \in Word, NEW s \in Seq(Byte)
  PROVE  Shift(w, s) \in Word
<1>1. Len(s) \in Nat /\ WordLen \in Nat
  BY LenProperties, Sizes
<1>2. ASSUME NEW a \in 1 .. WordLen
      PROVE  (IF a + Len(s) <= WordLen THEN w[a + Len(s)] ELSE s[a + Len(s) - WordLen]) \in Byte
  <2>1. CASE a + Len(s) <= WordLen
    <3>1. a + Len(s) \in 1 .. WordLen
      BY <1>1, <2>1
    <3> QED
      BY <2>1, <3>1 DEF Word
  <2>2. CASE ~ a + Len(s) <= WordLen
    <3>1. a + Len(s) - WordLen \in 1 .. Len(s)
      BY <1>1, <2>2
    <3> QED
      BY <2>2, <3>1, ElementOfSeq
  <2> QED
    BY <2>1, <2>2
<1> QED
  BY <1>2 DEF Shift, Word

LEMMA ShiftNothing ==
  ASSUME NEW w \in Word
  PROVE  Shift(w, << >>) = w
<1>1. Len(<< >>) = 0 /\ WordLen \in Nat
  BY Sizes, EmptySeq
<1>2. \A a \in 1 .. WordLen : a + 0 = a /\ a <= WordLen
  BY <1>1
<1>3. Shift(w, << >>) = [a \in 1 .. WordLen |-> w[a]]
  BY <1>1, <1>2 DEF Shift
<1> QED
  BY <1>3 DEF Word

(* The bytes behind the first lo + e move in behind the first e of them.   *)
LEMMA ShiftLow ==
  ASSUME NEW w \in Word, NEW p \in Seq(Byte), NEW lo \in Nat, NEW e \in Nat, Low(p, w, lo, e),
         NEW m \in Nat, lo + e + m <= Len(p), e + m <= WordLen,
         NEW s, s = SubSeq(p, lo + e + 1, lo + e + m)
  PROVE  Low(p, Shift(w, s), lo, e + m)
<1>1. Len(s) = m /\ \A a \in 1 .. m : s[a] = p[lo + e + a]
  <2>1. PICK g : g = lo + e
    OBVIOUS
  <2>2. g \in Nat /\ g + m <= Len(p)
    BY <2>1
  <2>3. /\ Len(SubSeq(p, g + 1, g + m)) = m
        /\ \A a \in 1 .. m : SubSeq(p, g + 1, g + m)[a] = p[g + a]
    BY <2>2, SubSeqRange
  <2> QED
    BY <2>1, <2>3
<1>2. WordLen \in Nat /\ e <= WordLen
  BY Sizes
<1>3. ASSUME NEW a \in 1 .. e + m
      PROVE  Shift(w, s)[WordLen - (e + m) + a] = p[lo + a]
  <2>1. PICK j : j = WordLen - (e + m) + a
    OBVIOUS
  <2>2. j \in 1 .. WordLen /\ j + m = WordLen - e + a
    BY <1>2, <2>1
  <2>3. Shift(w, s)[j] = IF j + m <= WordLen THEN w[j + m] ELSE s[j + m - WordLen]
    BY <1>1, <2>2 DEF Shift
  <2>4. CASE a <= e
    <3>1. j + m <= WordLen /\ a \in 1 .. e
      BY <1>2, <2>2, <2>4
    <3>2. w[WordLen - e + a] = p[lo + a]
      BY <3>1 DEF Low
    <3> QED
      BY <2>1, <2>2, <2>3, <3>1, <3>2
  <2>5. CASE ~ a <= e
    <3>1. ~ j + m <= WordLen /\ j + m - WordLen = a - e /\ a - e \in 1 .. m /\ lo + e + (a - e) = lo + a
      BY <1>2, <2>2, <2>5
    <3>2. s[a - e] = p[lo + e + (a - e)]
      BY <1>1, <3>1
    <3> QED
      BY <2>1, <2>3, <3>1, <3>2
  <2> QED
    BY <2>4, <2>5
<1> QED
  BY <1>3 DEF Low

LEMMA LowNone ==
  ASSUME NEW p, NEW w, NEW lo
  PROVE  Low(p, w, lo, 0)
  BY DEF Low

(* A whole word.                                                           *)
LEMMA LowWhole ==
  ASSUME NEW w \in Word, NEW p \in Seq(Byte), NEW lo \in Nat, Low(p, w, lo, WordLen)
  PROVE  \A a \in 1 .. WordLen : w[a] = p[lo + a]
<1>1. \A a \in 1 .. WordLen : WordLen - WordLen + a = a
  BY Sizes
<1> QED
  BY <1>1 DEF Low

LEMMA WholeWord ==
  ASSUME NEW w \in Word, NEW p \in Seq(Byte), Len(p) = WordLen, Low(p, w, 0, WordLen)
  PROVE  w = p
<1>1. \A a \in 1 .. WordLen : w[a] = p[0 + a] /\ 0 + a = a
  BY LowWhole, Sizes
<1>2. w \in Seq(Byte) /\ Len(w) = WordLen
  BY WordSeq
<1>3. \A a \in 1 .. Len(w) : w[a] = p[a]
  BY <1>1, <1>2
<1> QED
  BY <1>2, <1>3, SeqEqual

(* The payload of a GOAWAY frame from its parts.                           *)
LEMMA GoAwayWhole ==
  ASSUME NEW p \in Seq(Byte), Len(p) >= 2 * WordLen, NEW v \in Word, NEW w \in Word,
         Low(p, v, 0, WordLen), Low(p, w, WordLen, WordLen)
  PROVE  v \o w \o SubSeq(p, 2 * WordLen + 1, Len(p)) = p
<1>1. WordLen \in Nat /\ Len(p) \in Nat
  BY Sizes, LenProperties
<1>2. /\ \A a \in 1 .. WordLen : v[a] = p[0 + a]
      /\ \A a \in 1 .. WordLen : w[a] = p[WordLen + a]
  BY <1>1, LowWhole
<1>3. v \in Seq(Byte) /\ Len(v) = WordLen /\ w \in Seq(Byte) /\ Len(w) = WordLen
  BY WordSeq
<1>4. v = SubSeq(p, 1, WordLen)
  <2>1. /\ SubSeq(p, 0 + 1, 0 + WordLen) \in Seq(Byte) /\ Len(SubSeq(p, 0 + 1, 0 + WordLen)) = WordLen
        /\ \A m \in 1 .. WordLen : SubSeq(p, 0 + 1, 0 + WordLen)[m] = p[0 + m]
    <3>1. 0 + WordLen <= Len(p)
      BY <1>1
    <3> QED
      BY <1>1, <3>1, SubSeqRange
  <2>2. 0 + 1 = 1 /\ 0 + WordLen = WordLen
    BY <1>1
  <2>3. \A a \in 1 .. Len(v) : v[a] = SubSeq(p, 0 + 1, 0 + WordLen)[a]
    BY <1>2, <1>3, <2>1
  <2>4. v = SubSeq(p, 0 + 1, 0 + WordLen)
    BY <1>3, <2>1, <2>3, SeqEqual
  <2> QED
    BY <2>2, <2>4
<1>5. w = SubSeq(p, WordLen + 1, WordLen + WordLen)
  <2>1. /\ SubSeq(p, WordLen + 1, WordLen + WordLen) \in Seq(Byte)
        /\ Len(SubSeq(p, WordLen + 1, WordLen + WordLen)) = WordLen
        /\ \A m \in 1 .. WordLen : SubSeq(p, WordLen + 1, WordLen + WordLen)[m] = p[WordLen + m]
    <3>1. WordLen + WordLen <= Len(p)
      BY <1>1
    <3> QED
      BY <1>1, <3>1, SubSeqRange
  <2>2. \A a \in 1 .. Len(w) : w[a] = SubSeq(p, WordLen + 1, WordLen + WordLen)[a]
    BY <1>2, <1>3, <2>1
  <2> QED
    BY <1>3, <2>1, <2>2, SeqEqual
<1>6. v \o w = SubSeq(p, 1, WordLen + WordLen)
  <2>1. SubSeq(p, 0 + 1, WordLen) \o SubSeq(p, WordLen + 1, WordLen + WordLen)
          = SubSeq(p, 0 + 1, WordLen + WordLen)
    <3>1. 0 <= WordLen /\ WordLen + WordLen <= Len(p) /\ 0 \in Nat
      BY <1>1
    <3> QED
      BY <1>1, <3>1, SliceJoin
  <2>2. 0 + 1 = 1
    OBVIOUS
  <2> QED
    BY <1>4, <1>5, <2>1, <2>2
<1>7. SubSeq(p, 1, WordLen + WordLen) \o SubSeq(p, 2 * WordLen + 1, Len(p)) = SubSeq(p, 1, Len(p))
  <2>1. PICK d, n : d = 2 * WordLen /\ n = Len(p) - d
    OBVIOUS
  <2>2. d \in Nat /\ n \in Nat /\ 0 <= d /\ d + n = Len(p) /\ d + n <= Len(p) /\ d = WordLen + WordLen
    BY <1>1, <2>1
  <2>3. PICK z : z = 0
    OBVIOUS
  <2>4. SubSeq(p, z + 1, d) \o SubSeq(p, d + 1, d + n) = SubSeq(p, z + 1, d + n) /\ z + 1 = 1
    <3>1. d \in Nat /\ n \in Nat /\ z \in Nat /\ z <= d /\ d + n <= Len(p) /\ z + 1 = 1
      BY <2>2, <2>3
    <3>2. SubSeq(p, z + 1, d) \o SubSeq(p, d + 1, d + n) = SubSeq(p, z + 1, d + n)
      BY <3>1, SliceJoin, SMT
    <3> QED
      BY <3>1, <3>2, Zenon
  <2> QED
    BY <2>1, <2>2, <2>4
<1>8. SubSeq(p, 1, Len(p)) = p
  BY SubSeqFull
<1> QED
  BY <1>6, <1>7, <1>8


-----------------------------------------------------------------------------
(* The frame processors.                                                   *)

(* The length of the piece.                                                *)
Piece == piece.end - piece.start

(* Framer.Next has returned the bytes of the frame's payload behind those  *)
(* the processor has had, and all of them if the frame is complete.        *)
LEMMA PayloadIs ==
  ASSUME IInv, ppc = "process"
  PROVE  /\ Cur \in 1 .. MaxFrames /\ Frame = script[Cur] /\ Length(header) = CurLen
         /\ CurLen \in Nat /\ Done \in Nat /\ Piece \in Nat /\ Done + Piece <= CurLen
         /\ Payload = SubSeq(script[Cur].payload, Done + 1, Done + Piece)
         /\ Payload \in Seq(Byte) /\ Len(Payload) = Piece
         /\ Complete => Done + Piece = CurLen
         /\ ~ Complete => Done + Piece = CurLen - payloadLeft
<1>1. /\ Len(header) = HeaderLen /\ \A j \in 1 .. HeaderLen : header[j] = [f |-> Cur, k |-> j]
      /\ piece.start <= piece.end /\ piece.end <= to /\ Done \in 0 .. CurLen
      /\ \A a \in 1 .. piece.end - piece.start :
           mem[cb][piece.start + a] = [f |-> Cur, k |-> HeaderLen + Done + a]
      /\ ~ Complete => payloadLeft \in 1 .. CurLen
      /\ Complete => payloadLeft = piece.end - piece.start
  BY DEF IInv, PieceAt, Complete
<1>2. /\ header \in Seq(Bytes) /\ mem[cb] \in Seq(Bytes) /\ script \in Scripts /\ to \in Nat
      /\ piece.start \in Nat /\ piece.end \in Nat /\ to = Len(mem[cb])
  BY Facts DEF FramerOK, IInv, Inv0, BuffersDisjoint
<1>3. header[1] \in Bytes /\ header[1] = [f |-> Cur, k |-> 1]
  <2>1. 1 \in 1 .. HeaderLen
    BY Sizes
  <2> QED
    BY <1>1, <1>2, <2>1, ElementOfSeq
<1>4. header[1].f = Cur /\ Cur \in 1 .. MaxFrames
  BY <1>3 DEF Bytes
<1>5. Frame = script[Cur] /\ Length(header) = CurLen
  BY <1>4 DEF Frame, Length, CurLen
<1>6. PICK p : p = script[Cur].payload
  OBVIOUS
<1>7. p \in Seq(Byte) /\ CurLen = Len(p) /\ CurLen \in Nat
  BY <1>2, <1>4, <1>6, FrameType DEF CurLen
<1>8. PICK n, d, b : n = Piece /\ d = Done /\ b = piece.start
  OBVIOUS
<1>9. /\ n \in Nat /\ d \in Nat /\ b \in Nat /\ b + n = piece.end /\ b + n <= Len(mem[cb])
  <2>1. d \in 0 .. CurLen /\ d \in Nat
    BY <1>1, <1>7, <1>8
  <2>2. n = piece.end - b /\ b \in Nat /\ piece.end \in Nat /\ b <= piece.end /\ piece.end <= Len(mem[cb])
    BY <1>1, <1>2, <1>8 DEF Piece
  <2>3. n \in Nat /\ b + n = piece.end
    BY <2>2
  <2> QED
    BY <2>1, <2>2, <2>3
<1>10. Done = CurLen - payloadLeft - (IF Complete THEN 0 ELSE n)
  BY <1>8 DEF Done, Piece
<1>11. Complete => d + n = CurLen
  <2>1. HAVE Complete
  <2>2. payloadLeft = n /\ d = CurLen - payloadLeft - 0
    BY <1>1, <1>8, <1>10, <2>1 DEF Piece
  <2> QED
    BY <1>7, <1>9, <2>2
<1>12. ~ Complete => d + n = CurLen - payloadLeft /\ d + n <= CurLen
  <2>1. HAVE ~ Complete
  <2>2. d = CurLen - payloadLeft - n /\ payloadLeft \in 1 .. CurLen
    BY <1>1, <1>8, <1>10, <2>1
  <2> QED
    BY <1>7, <1>9, <2>2
<1>13. d + n <= CurLen
  BY <1>7, <1>9, <1>11, <1>12
<1>14. Payload = SubSeq(p, d + 1, d + n) /\ Payload \in Seq(Byte) /\ Len(Payload) = n
  <2>1. PICK s : s = SubSeq(mem[cb], b + 1, b + n)
    OBVIOUS
  <2>2. s \in Seq(Bytes) /\ Len(s) = n /\ \A m \in 1 .. n : s[m] = mem[cb][b + m]
    <3>1. b \in Nat /\ n \in Nat /\ mem[cb] \in Seq(Bytes) /\ b + n <= Len(mem[cb])
      BY <1>2, <1>9, Zenon
    <3> QED
      BY <2>1, <3>1, SubSeqRange, Zenon
  <2>3. DOMAIN s = 1 .. n
    BY <2>2, LenProperties
  <2>4. Payload = [a \in 1 .. n |-> Value(s[a])]
    BY <1>8, <1>9, <2>1, <2>3 DEF Payload
  <2>5. ASSUME NEW a \in 1 .. n
        PROVE  Value(s[a]) = p[d + a] /\ p[d + a] \in Byte
    <3>1. s[a] = [f |-> Cur, k |-> HeaderLen + d + a]
      BY <1>1, <1>8, <2>2 DEF Piece
    <3>2. s[a].f = Cur /\ s[a].k = HeaderLen + d + a
      BY <3>1
    <3>3. HeaderLen + d + a > HeaderLen /\ HeaderLen + d + a - HeaderLen = d + a
      BY <1>9, Sizes
    <3>4. Value(s[a]) = p[d + a]
      <4>1. s[a].k > HeaderLen /\ s[a].k - HeaderLen = d + a
        <5>1. PICK k : k = s[a].k
          OBVIOUS
        <5>2. k > HeaderLen /\ k - HeaderLen = d + a
          <6>1. k = HeaderLen + d + a /\ HeaderLen \in Nat /\ d \in Nat
            BY <1>9, <3>2, <5>1, Sizes
          <6> QED
            BY <6>1
        <5> QED
          BY <5>1, <5>2, Zenon
      <4>2. Value(s[a]) = script[s[a].f].payload[s[a].k - HeaderLen]
        BY <4>1, Zenon DEF Value
      <4> QED
        BY <1>6, <3>2, <4>1, <4>2, Zenon
    <3>5. d + a \in 1 .. Len(p)
      BY <1>7, <1>9, <1>13
    <3> QED
      BY <1>7, <3>4, <3>5, ElementOfSeq
  <2>6. Payload = [a \in 1 .. n |-> p[d + a]]
    BY <2>4, <2>5
  <2>7. Payload \in Seq(Byte) /\ Len(Payload) = n /\ \A a \in 1 .. n : Payload[a] = p[d + a]
    BY <1>9, <2>5, <2>6
  <2>8. /\ SubSeq(p, d + 1, d + n) \in Seq(Byte) /\ Len(SubSeq(p, d + 1, d + n)) = n
        /\ \A m \in 1 .. n : SubSeq(p, d + 1, d + n)[m] = p[d + m]
    BY <1>7, <1>9, <1>13, SubSeqRange
  <2>9. Len(Payload) = Len(SubSeq(p, d + 1, d + n)) /\ \A m \in 1 .. Len(Payload) : Payload[m] = SubSeq(p, d + 1, d + n)[m]
    BY <2>7, <2>8
  <2> QED
    BY <2>7, <2>8, <2>9, SeqEqual
<1> QED
  BY <1>4, <1>5, <1>6, <1>7, <1>8, <1>9, <1>11, <1>12, <1>13, <1>14

(* The steps of a processor that ends in the middle of a frame.            *)
LEMMA MoreToCome ==
  ASSUME IInv, ppc = "process", ~ Complete, Continue, log' = log,
         UNCHANGED <<readVars, bufVars, framerVars>>
  PROVE  /\ FramerAt' /\ PieceAt' /\ InOrder' /\ BuffersDisjoint' /\ ReaderOK' /\ FramerOK'
         /\ Cur' = Cur /\ CurLen' = CurLen /\ Done' = Done + Piece /\ ppc' = "idle"
<1>1. /\ UNCHANGED <<script, cancelled, at, mem, turn, rd>> /\ UNCHANGED <<cb, from, to>>
      /\ UNCHANGED <<currentHeader, header, payloadLeft, piece, status>> /\ ppc' = "idle" /\ status = "incomplete"
  BY DEF readVars, bufVars, framerVars, Continue, Complete
<1>2. Cur' = Cur /\ CurLen' = CurLen /\ NextIn' = NextIn
  BY <1>1 DEF Cur, CurLen, NextIn
<1>3. /\ Len(currentHeader) = HeaderLen /\ \A j \in 1 .. HeaderLen : currentHeader[j] = [f |-> Cur, k |-> j]
      /\ payloadLeft \in 1 .. CurLen
      /\ NextIn = [f |-> Cur, k |-> HeaderLen + CurLen - payloadLeft + 1]
  BY <1>1 DEF IInv, PieceAt
<1>4. ~ HeaderLen < HeaderLen /\ HeaderLen <= HeaderLen
  BY Sizes
<1>5. NextIn' = Expected'
  BY <1>1, <1>2, <1>3, <1>4 DEF Expected
<1>6. FramerAt'
  BY <1>1, <1>2, <1>3, <1>4, <1>5 DEF FramerAt
<1>7. PieceAt' /\ BuffersDisjoint'
  BY <1>1 DEF PieceAt, BuffersDisjoint
<1>8. InOrder'
  BY <1>1 DEF IInv, InOrder
<1>9. ReaderOK' /\ FramerOK'
  BY <1>1, Facts DEF ReaderOK, FramerOK
<1>10. Done' = Done + Piece
  <2>1. Done' = CurLen - payloadLeft
    BY <1>1, <1>2, <1>3 DEF Done
  <2> QED
    BY <2>1, PayloadIs
<1> QED
  BY <1>1, <1>2, <1>6, <1>7, <1>8, <1>9, <1>10

(* ... or with the frame.                                                  *)
LEMMA FrameDone ==
  ASSUME IInv, ppc = "process", Complete, Continue \/ ppc' = "exit", Len(log') = Len(log) + 1,
         UNCHANGED <<readVars, bufVars, framerVars>>
  PROVE  /\ FramerAt' /\ PieceAt' /\ InOrder' /\ BuffersDisjoint' /\ ReaderOK' /\ FramerOK'
         /\ Cur' = Cur + 1 /\ (ppc' # "exit" => Done' = 0)
<1>1. /\ UNCHANGED <<script, cancelled, at, mem, turn, rd>> /\ UNCHANGED <<cb, from, to>>
      /\ UNCHANGED <<currentHeader, header, payloadLeft, piece, status>>
      /\ ppc' \in {"next", "idle", "exit"} /\ (ppc' = "next" => status = "done")
      /\ status \in {"done", "doneBufEmpty"} /\ (ppc' = "idle" => status = "doneBufEmpty")
  BY Facts DEF readVars, bufVars, framerVars, Continue, Complete, FramerOK
<1>2. Cur' = Cur + 1 /\ NextIn' = NextIn
  BY <1>1 DEF Cur, NextIn
<1>3. /\ currentHeader = << >> /\ Len(currentHeader) = 0 /\ 0 < HeaderLen /\ 0 # HeaderLen /\ 0 <= HeaderLen
      /\ status = "done" => from < to /\ mem[cb][from + 1] = [f |-> Cur + 1, k |-> 1]
      /\ status = "doneBufEmpty" => NextIn = [f |-> Cur + 1, k |-> 1]
  <2>1. Len(<< >>) = 0 /\ 0 < HeaderLen /\ 0 # HeaderLen /\ 0 <= HeaderLen
    BY Sizes
  <2> QED
    BY <2>1 DEF IInv, PieceAt
<1>4. Expected' = [f |-> Cur + 1, k |-> 1]
  BY <1>1, <1>2, <1>3 DEF Expected
<1>5. FramerAt'
  <2>1. ppc' = "idle" => NextIn' = Expected'
    BY <1>1, <1>2, <1>3, <1>4
  <2>2. ppc' = "next" => from' < to' /\ mem'[cb'][from' + 1] = Expected'
    BY <1>1, <1>3, <1>4
  <2>3. \A j \in 1 .. 0 : currentHeader'[j] = [f |-> Cur', k |-> j]
    OBVIOUS
  <2>4. Len(currentHeader') = 0
    BY <1>1, <1>3
  <2> QED
    BY <1>3, <2>1, <2>2, <2>3, <2>4 DEF FramerAt
<1>6. PieceAt'
  BY <1>1 DEF PieceAt
<1>7. BuffersDisjoint' /\ InOrder'
  BY <1>1, <1>2 DEF IInv, Inv0, BuffersDisjoint, InOrder
<1>8. ReaderOK' /\ FramerOK'
  BY <1>1, Facts DEF ReaderOK, FramerOK
<1>9. ppc' # "exit" => Done' = 0
  BY <1>1, <1>3 DEF Done
<1> QED
  BY <1>2, <1>5, <1>6, <1>7, <1>8, <1>9


(* The stream of the frame at hand.                                        *)
LEMMA KnownNow ==
  ASSUME IInv, ppc = "process"
  PROVE  script[Cur].id \in open <=> KnownAt(Cur)
<1>1. open = {id \in Known : \A g \in 1 .. Len(log) : script[g].id = id => ~ Ends(script[g])}
  BY DEF IInv, StoreAt
<1>2. Cur - 1 = Len(log)
  BY Facts DEF Cur
<1> QED
  BY <1>1, <1>2, Zenon DEF KnownAt

(* The frame is logged as it should be.                                    *)
LEMMA LogStep ==
  ASSUME IInv, ppc = "process", script' = script, NEW v \in Seq(Byte), Log(v),
         v = Reference(Cur).value
  PROVE  /\ log' \in Seq(Entries) /\ Len(log') = Len(log) + 1 /\ PiecesDoNotMatter'
<1>1. PICK e : e = [type |-> Frame.type, id |-> Frame.id, value |-> v]
  OBVIOUS
<1>2. /\ log' = Append(log, e) /\ log \in Seq(Entries) /\ Cur \in 1 .. MaxFrames /\ Frame = script[Cur]
      /\ script \in Scripts /\ Len(log) \in Nat
  BY <1>1, Facts, PayloadIs DEF Log, PartsOK
<1>3. e \in Entries
  <2>1. script[Cur].type \in Types /\ script[Cur].id \in Nat
    BY <1>2, FrameType
  <2> QED
    BY <1>1, <1>2, <2>1 DEF Entries
<1>4. e = Reference(Cur)
  <2>1. Reference(Cur) = [type |-> script[Cur].type, id |-> script[Cur].id, value |-> Reference(Cur).value]
    BY DEF Reference
  <2> QED
    BY <1>1, <1>2, <2>1
<1>5. /\ log' \in Seq(Entries) /\ Len(log') = Len(log) + 1 /\ log'[Len(log) + 1] = e
      /\ \A j \in 1 .. Len(log) : log'[j] = log[j]
  BY <1>2, <1>3, AppendProperties
<1>6. DOMAIN log' = 1 .. Len(log) + 1 /\ DOMAIN log = 1 .. Len(log)
  BY <1>2, <1>5, LenProperties
<1>7. ASSUME NEW f PROVE Reference(f)' = Reference(f)
  BY DEF Reference, KnownAt
<1>8. ASSUME NEW f \in DOMAIN log' PROVE log'[f] = Reference(f)'
  <2>1. CASE f = Len(log) + 1
    BY <1>4, <1>5, <1>7, <2>1 DEF Cur
  <2>2. CASE f # Len(log) + 1
    <3>1. f \in 1 .. Len(log)
      BY <1>2, <1>6, <2>2
    <3> QED
      BY <1>5, <1>6, <1>7, <3>1 DEF IInv, PiecesDoNotMatter
  <2> QED
    BY <2>1, <2>2
<1> QED
  BY <1>5, <1>8 DEF PiecesDoNotMatter

(* The store loses the frame's stream if the frame ends it.                *)
LEMMA StoreStep ==
  ASSUME IInv, ppc = "process", script' = script, Len(log') = Len(log) + 1,
         open' = IF Ends(script[Cur]) THEN open \ {script[Cur].id} ELSE open
  PROVE  StoreAt' /\ open' \subseteq Known
<1>1. open = {id \in Known : \A g \in 1 .. Len(log) : script[g].id = id => ~ Ends(script[g])}
  BY DEF IInv, StoreAt
<1>2. Len(log) \in Nat /\ Cur = Len(log) + 1 /\ Cur <= MaxFrames
  BY Facts, PayloadIs DEF Cur
<1>3. \A g : g \in 1 .. Len(log) + 1 <=> g \in 1 .. Len(log) \/ g = Cur
  BY <1>2
<1>4. open' = {id \in Known : \A g \in 1 .. Len(log) + 1 : script[g].id = id => ~ Ends(script[g])}
  <2>1. CASE Ends(script[Cur])
    <3>1. open' = open \ {script[Cur].id}
      BY <2>1
    <3> QED
      BY <1>1, <1>3, <2>1, <3>1, Zenon
  <2>2. CASE ~ Ends(script[Cur])
    <3>1. open' = open
      BY <2>2
    <3> QED
      BY <1>1, <1>3, <2>2, <3>1, Zenon
  <2> QED
    BY <2>1, <2>2
<1>5. Len(log') <= MaxFrames
  BY <1>2
<1>6. open' = {id \in Known : \A g \in 1 .. Len(log') : script'[g].id = id => ~ Ends(script'[g])}
  BY <1>4
<1>7. StoreAt'
  BY <1>5, <1>6 DEF StoreAt, Ends
<1> QED
  BY <1>6, <1>7

(* Nothing happens to the store and the log.                               *)
LEMMA StoreSame ==
  ASSUME IInv, UNCHANGED <<script, open, log>>
  PROVE  StoreAt' /\ PiecesDoNotMatter' /\ open' \subseteq Known /\ log' \in Seq(Entries)
  BY Facts DEF IInv, StoreAt, PiecesDoNotMatter, Reference, KnownAt, PartsOK

(* Only DATA frames count.                                                 *)
LEMMA CreditSame ==
  ASSUME IInv, ppc = "process", UNCHANGED <<script, acc, updates>>,
         \/ log' = log
         \/ log' \in Seq(Entries) /\ Len(log') = Len(log) + 1 /\ script[Cur].type # "DATA"
  PROVE  Credited'
<1>1. IsFiniteSet(DataBytes) /\ acc < Threshold /\ updates + acc = Cardinality(DataBytes)
  BY DEF IInv, Credited, CreditReturned
<1>2. {g \in DOMAIN log' : script[g].type = "DATA"} = {g \in DOMAIN log : script[g].type = "DATA"}
  <2>1. CASE log' = log
    BY <2>1
  <2>2. CASE log' \in Seq(Entries) /\ Len(log') = Len(log) + 1 /\ script[Cur].type # "DATA"
    <3>1. DOMAIN log' = 1 .. Len(log) + 1 /\ DOMAIN log = 1 .. Len(log) /\ Len(log) \in Nat
      BY <2>2, Facts, LenProperties DEF PartsOK
    <3>2. \A g : g \in 1 .. Len(log) + 1 <=> g \in 1 .. Len(log) \/ g = Cur
      BY <3>1 DEF Cur
    <3> QED
      BY <2>2, <3>1, <3>2
  <2> QED
    BY <2>1, <2>2
<1>3. DataBytes' = DataBytes
  BY <1>2 DEF DataBytes
<1> QED
  BY <1>1, <1>3 DEF Credited, CreditReturned

(* A DATA frame more.                                                      *)
LEMMA CreditData ==
  ASSUME IInv, ppc = "process", script' = script, script[Cur].type = "DATA",
         log' \in Seq(Entries), Len(log') = Len(log) + 1,
         IF acc + CurLen >= Threshold THEN updates' = updates + (acc + CurLen) /\ acc' = 0
                                      ELSE acc' = acc + CurLen /\ updates' = updates
  PROVE  Credited' /\ acc' \in Nat /\ updates' \in Nat
<1>1. /\ IsFiniteSet(DataBytes) /\ acc < Threshold /\ updates + acc = Cardinality(DataBytes)
      /\ acc \in Nat /\ updates \in Nat /\ Threshold \in Nat \ {0} /\ CurLen \in Nat
  BY Facts, Sizes, PayloadIs DEF IInv, Credited, CreditReturned, PartsOK
<1>2. acc' < Threshold /\ acc' \in Nat /\ updates' \in Nat /\ updates' + acc' = (updates + acc) + CurLen
  <2>1. CASE acc + CurLen >= Threshold
    BY <1>1, <2>1
  <2>2. CASE ~ acc + CurLen >= Threshold
    BY <1>1, <2>2
  <2> QED
    BY <2>1, <2>2
<1>3. PICK D, N : D = DataBytes /\ N = {Cur} \X (1 .. CurLen)
  OBVIOUS
<1>4. IsFiniteSet(N) /\ Cardinality(N) = CurLen
  <2>1. IsFiniteSet({Cur}) /\ Cardinality({Cur}) = 1
    BY FS_Singleton
  <2>2. IsFiniteSet(1 .. CurLen) /\ Cardinality(1 .. CurLen) = CurLen
    <3>1. /\ IsFiniteSet(1 .. CurLen)
          /\ Cardinality(1 .. CurLen) = IF 1 > CurLen THEN 0 ELSE CurLen - 1 + 1
      <4>1. 1 \in Int /\ CurLen \in Int
        BY <1>1
      <4> QED
        BY <4>1, FS_Interval
    <3>2. (IF 1 > CurLen THEN 0 ELSE CurLen - 1 + 1) = CurLen
      BY <1>1
    <3> QED
      BY <3>1, <3>2
  <2>3. IsFiniteSet({Cur} \X (1 .. CurLen)) /\ Cardinality({Cur} \X (1 .. CurLen)) = 1 * CurLen
    <3>1. PICK A, B : A = {Cur} /\ B = 1 .. CurLen
      OBVIOUS
    <3>2. IsFiniteSet(A \X B) /\ Cardinality(A \X B) = Cardinality(A) * Cardinality(B)
      BY <2>1, <2>2, <3>1, FS_Product
    <3> QED
      BY <2>1, <2>2, <3>1, <3>2, Zenon
  <2>4. 1 * CurLen = CurLen
    BY <1>1
  <2> QED
    BY <1>3, <2>3, <2>4
<1>5. DOMAIN log' = 1 .. Len(log) + 1 /\ DOMAIN log = 1 .. Len(log) /\ Len(log) \in Nat
  BY Facts, LenProperties DEF PartsOK
<1>6. \A g : g \in 1 .. Len(log) + 1 <=> g \in 1 .. Len(log) \/ g = Cur
  BY <1>5 DEF Cur
<1>7. DataBytes' = D \cup N
  <2>1. ASSUME NEW b
        PROVE  b \in DataBytes' <=> b \in D \/ b \in N
    <3>1. b \in D <=> \E g \in DOMAIN log : script[g].type = "DATA" /\ b \in {g} \X (1 .. Len(script[g].payload))
      BY <1>3 DEF DataBytes
    <3>2. b \in DataBytes' <=>
            \E g \in DOMAIN log' : script[g].type = "DATA" /\ b \in {g} \X (1 .. Len(script[g].payload))
      BY DEF DataBytes
    <3>3. b \in N <=> b \in {Cur} \X (1 .. Len(script[Cur].payload))
      BY <1>3 DEF CurLen
    <3> QED
      BY <1>5, <1>6, <3>1, <3>2, <3>3, Zenon
  <2> QED
    BY <2>1
<1>8. D \cap N = {}
  <2>1. ASSUME NEW b \in D, b \in N PROVE FALSE
    <3>1. PICK g \in DOMAIN log : b \in {g} \X (1 .. Len(script[g].payload))
      BY <1>3 DEF DataBytes
    <3>2. b[1] = g /\ b[1] = Cur
      BY <1>3, <2>1, <3>1
    <3>3. g # Len(log) + 1
      BY <1>5
    <3> QED
      BY <3>2, <3>3 DEF Cur
  <2> QED
    BY <2>1
<1>9. IsFiniteSet(D \cup N) /\ Cardinality(D \cup N) = Cardinality(D) + Cardinality(N)
  <2>1. IsFiniteSet(D) /\ Cardinality(D) \in Nat /\ Cardinality(N) \in Nat
    BY <1>1, <1>3, <1>4, FS_CardinalityType
  <2>2. /\ IsFiniteSet(D \cup N)
        /\ Cardinality(D \cup N) = Cardinality(D) + Cardinality(N) - Cardinality(D \cap N)
    BY <1>4, <2>1, FS_Union
  <2>3. Cardinality(D \cap N) = 0
    BY <1>8, FS_EmptySet
  <2> QED
    BY <2>1, <2>2, <2>3
<1>10. updates' + acc' = Cardinality(DataBytes')
  BY <1>1, <1>2, <1>3, <1>4, <1>7, <1>9
<1> QED
  BY <1>2, <1>7, <1>9, <1>10 DEF Credited, CreditReturned


(* Whoever is not concerned keeps nothing.                                 *)
LEMMA Others ==
  ASSUME IInv, ppc = "process"
  PROVE  /\ \A t : Within(t) <=> script[Cur].type = t
         /\ script[Cur].type # "PING" => ack = << >>
         /\ script[Cur].type # "HEADERS" => fields = << >>
         /\ script[Cur].type # "GOAWAY" => goAway = NoGoAway
<1>1. Cur <= MaxFrames
  BY PayloadIs
<1>2. \A t : Within(t) <=> script[Cur].type = t
  BY <1>1 DEF Within
<1>3. /\ ack = IF Within("PING") THEN Had ELSE << >>
      /\ fields = IF Within("HEADERS") /\ script[Cur].id \in open THEN Had ELSE << >>
      /\ ~ Within("GOAWAY") => goAway = NoGoAway
  BY DEF IInv, PartsAt
<1> QED
  BY <1>2, <1>3

(* At the beginning of a frame they have to.                               *)
LEMMA PartsNew ==
  ASSUME IInv, script' = script, Cur' = Cur + 1,
         ppc' = "exit" \/ (Done' = 0 /\ ack' = << >> /\ fields' = << >> /\ goAway' = NoGoAway)
  PROVE  PartsAt'
<1> SUFFICES ASSUME ppc' # "exit" PROVE PartsAt'
  BY DEF PartsAt
<1>1. Done' = 0 /\ ack' = << >> /\ fields' = << >> /\ goAway' = NoGoAway
  OBVIOUS
<1>2. Had' = << >>
  <2>1. Had' = SubSeq(script'[Cur'].payload, 1, 0)
    BY <1>1 DEF Had
  <2>2. \A q : SubSeq(q, 1, 0) = << >>
    BY SubSeqEmpty
  <2> QED
    BY <2>1, <2>2
<1>3. SubSeq(script'[Cur'].payload, 2 * WordLen + 1, Done') = << >>
  <2>1. 2 * WordLen + 1 \in Int /\ 0 \in Int /\ 0 < 2 * WordLen + 1
    BY Sizes
  <2> QED
    BY <1>1, <2>1, SubSeqEmpty
<1>4. /\ goAway'.index = 0 /\ Least(0, 2 * WordLen) = 0 /\ Least(0, WordLen) = 0 /\ ~ 0 > WordLen
      /\ goAway'.debug = << >>
  <2>1. 0 <= 2 * WordLen /\ 0 <= WordLen /\ ~ 0 > WordLen
    BY Sizes
  <2>2. goAway'.index = 0 /\ goAway'.debug = << >>
    BY <1>1 DEF NoGoAway
  <2> QED
    BY <2>1, <2>2 DEF Least
<1>5. \A p, w, lo : Low(p, w, lo, 0)
  BY LowNone
<1>6. /\ ack' = IF Within("PING")' THEN Had' ELSE << >>
      /\ fields' = IF Within("HEADERS")' /\ script'[Cur'].id \in open' THEN Had' ELSE << >>
  BY <1>1, <1>2
<1>7. /\ Within("RST")' => Low(script'[Cur'].payload, errCode', 0, Done')
      /\ Within("WINDOW_UPDATE")' => Low(script'[Cur'].payload, increment', 0, Done')
      /\ ~ Within("GOAWAY")' => goAway' = NoGoAway
  BY <1>1, <1>5
<1>8. /\ goAway'.index = Least(Done', 2 * WordLen)
      /\ Low(script'[Cur'].payload, goAway'.last, 0, Least(Done', WordLen))
      /\ ~ Done' > WordLen
      /\ goAway'.debug = SubSeq(script'[Cur'].payload, 2 * WordLen + 1, Done')
  BY <1>1, <1>3, <1>4, <1>5
<1> QED
  BY <1>6, <1>7, <1>8, Zenon DEF PartsAt

(* The parts make up the invariant.                                        *)
LEMMA Together ==
  ASSUME FramerAt', PieceAt', InOrder', BuffersDisjoint', ReaderOK', FramerOK',
         PartsOK', PartsAt', StoreAt', PiecesDoNotMatter', Credited'
  PROVE  IInv'
  BY TypesJoin DEF IInv, Inv0

(* The step of a frame processor; what it leaves alone is in its action.   *)
Around == ppc = "process" /\ UNCHANGED <<readVars, bufVars, framerVars>>


LEMMA NoGoAwayType == NoGoAway \in GoAways /\ Zero \in Word
<1>1. Zero \in Word
  BY Sizes DEF Zero, Word
<1>2. 0 \in 0 .. 2 * WordLen /\ << >> \in Seq(Byte)
  BY Sizes, EmptySeq
<1> QED
  BY <1>1, <1>2 DEF NoGoAway, GoAways

(* A frame is complete, and logged.                                        *)
LEMMA WholeFrame ==
  ASSUME IInv, Around, Complete, Continue \/ ppc' = "exit",
         NEW v \in Seq(Byte), Log(v), v = Reference(Cur).value,
         ack' = << >>, fields' = << >>, goAway' = NoGoAway, increment' \in Word, errCode' \in Word,
         open' = IF Ends(script[Cur]) THEN open \ {script[Cur].id} ELSE open,
         IF script[Cur].type # "DATA" THEN UNCHANGED <<acc, updates>>
         ELSE IF acc + CurLen >= Threshold THEN updates' = updates + (acc + CurLen) /\ acc' = 0
         ELSE acc' = acc + CurLen /\ updates' = updates
  PROVE  IInv'
<1>1. /\ ppc = "process" /\ script' = script /\ UNCHANGED <<readVars, bufVars, framerVars>>
  BY DEF Around, readVars
<1>2. /\ log' \in Seq(Entries) /\ Len(log') = Len(log) + 1 /\ PiecesDoNotMatter'
  BY <1>1, LogStep
<1>3. /\ FramerAt' /\ PieceAt' /\ InOrder' /\ BuffersDisjoint' /\ ReaderOK' /\ FramerOK'
      /\ Cur' = Cur + 1 /\ (ppc' # "exit" => Done' = 0)
  BY <1>1, <1>2, FrameDone
<1>4. StoreAt' /\ open' \subseteq Known
  BY <1>1, <1>2, StoreStep
<1>5. Credited' /\ acc' \in Nat /\ updates' \in Nat
  <2>1. CASE script[Cur].type = "DATA"
    BY <1>1, <1>2, <2>1, CreditData
  <2>2. CASE script[Cur].type # "DATA"
    <3>1. UNCHANGED <<script, acc, updates>>
      BY <1>1, <2>2
    <3>2. acc \in Nat /\ updates \in Nat
      BY Facts DEF PartsOK
    <3> QED
      BY <1>1, <1>2, <2>2, <3>1, <3>2, CreditSame
  <2> QED
    BY <2>1, <2>2
<1>6. PartsAt'
  BY <1>1, <1>3, PartsNew
<1>7. PartsOK'
  BY <1>2, <1>4, <1>5, EmptySeq, NoGoAwayType DEF PartsOK
<1> QED
  BY <1>2, <1>3, <1>4, <1>5, <1>6, <1>7, Together

(* What the processors of words and of GOAWAY keep of the payload p after  *)
(* d bytes.                                                                *)
GoAwayAt(g, p, d) ==
  /\ g.index = Least(d, 2 * WordLen)
  /\ Low(p, g.last, 0, Least(d, WordLen))
  /\ d > WordLen => Low(p, g.code, WordLen, Least(d, 2 * WordLen) - WordLen)
  /\ g.debug = SubSeq(p, 2 * WordLen + 1, d)

(* A frame is not complete.                                                *)
LEMMA PieceOfFrame ==
  ASSUME IInv, Around, ~ Complete, Continue, UNCHANGED <<acc, open, updates, log>>,
         NEW t, t = script[Cur].type, NEW p, p = script[Cur].payload, NEW e, e = Done + Piece,
         ack' \in Seq(Byte), fields' \in Seq(Byte), goAway' \in GoAways,
         increment' \in Word, errCode' \in Word,
         ack' = IF t = "PING" THEN SubSeq(p, 1, e) ELSE << >>,
         fields' = IF t = "HEADERS" /\ script[Cur].id \in open THEN SubSeq(p, 1, e) ELSE << >>,
         t = "RST" => Low(p, errCode', 0, e), t = "WINDOW_UPDATE" => Low(p, increment', 0, e),
         IF t = "GOAWAY" THEN GoAwayAt(goAway', p, e) ELSE goAway' = NoGoAway
  PROVE  IInv'
<1>1. /\ ppc = "process" /\ script' = script /\ UNCHANGED <<readVars, bufVars, framerVars>>
  BY DEF Around, readVars
<1>2. /\ FramerAt' /\ PieceAt' /\ InOrder' /\ BuffersDisjoint' /\ ReaderOK' /\ FramerOK'
      /\ Cur' = Cur /\ CurLen' = CurLen /\ Done' = e /\ ppc' = "idle"
  BY <1>1, MoreToCome
<1>3. StoreAt' /\ PiecesDoNotMatter' /\ open' \subseteq Known /\ log' \in Seq(Entries)
  BY <1>1, StoreSame
<1>4. Credited' /\ acc' \in Nat /\ updates' \in Nat
  BY <1>1, CreditSame, Facts DEF PartsOK
<1>5. Had' = SubSeq(p, 1, e) /\ \A x : Within(x)' <=> t = x
  <2>1. Had' = SubSeq(p, 1, e) /\ \A x : Within(x)' <=> Within(x)
    BY <1>1, <1>2 DEF Had, Within
  <2>2. \A x : Within(x) <=> t = x
    BY <1>1, Others
  <2> QED
    BY <2>1, <2>2
<1>6. script'[Cur'].payload = p /\ script'[Cur'].id = script[Cur].id /\ open' = open /\ Done' = e
  BY <1>1, <1>2
<1>7. PartsAt'
  <2>1. /\ ack' = IF Within("PING")' THEN Had' ELSE << >>
        /\ fields' = IF Within("HEADERS")' /\ script'[Cur'].id \in open' THEN Had' ELSE << >>
    BY <1>5, <1>6
  <2>2. /\ Within("RST")' => Low(script'[Cur'].payload, errCode', 0, Done')
        /\ Within("WINDOW_UPDATE")' => Low(script'[Cur'].payload, increment', 0, Done')
        /\ ~ Within("GOAWAY")' => goAway' = NoGoAway
    BY <1>5, <1>6
  <2>3. Within("GOAWAY")' =>
          /\ goAway'.index = Least(Done', 2 * WordLen)
          /\ Low(script'[Cur'].payload, goAway'.last, 0, Least(Done', WordLen))
          /\ Done' > WordLen => Low(script'[Cur'].payload, goAway'.code, WordLen,
                                  Least(Done', 2 * WordLen) - WordLen)
          /\ goAway'.debug = SubSeq(script'[Cur'].payload, 2 * WordLen + 1, Done')
    BY <1>5, <1>6, Zenon DEF GoAwayAt
  <2> QED
    BY <2>1, <2>2, <2>3, Zenon DEF PartsAt
<1>8. PartsOK'
  BY <1>3, <1>4 DEF PartsOK
<1> QED
  BY <1>2, <1>3, <1>4, <1>7, <1>8, Together

LEMMA PingStep ==
  ASSUME IInv, Around, ProcessPing
  PROVE  IInv'
<1>1. /\ ppc = "process" /\ Frame.type = "PING" /\ Continue
      /\ UNCHANGED <<fields, acc, increment, errCode, goAway, open, updates>>
      /\ Complete => Log(ack \o Payload) /\ ack' = << >>
      /\ ~ Complete => ack' = ack \o Payload /\ log' = log
  BY DEF Around, ProcessPing
<1>2. PICK p, d, n : p = script[Cur].payload /\ d = Done /\ n = Piece
  OBVIOUS
<1>3. /\ script[Cur].type = "PING" /\ CurLen = Len(p) /\ d \in Nat /\ n \in Nat /\ d + n <= Len(p)
      /\ Payload = SubSeq(p, d + 1, d + n) /\ p \in Seq(Byte)
      /\ Complete => d + n = Len(p)
  BY <1>1, <1>2, PayloadIs, Facts, FrameType DEF CurLen
<1>4. ack = SubSeq(p, 1, d)
  BY <1>1, <1>2, <1>3, Others DEF IInv, PartsAt, Had
<1>5. ack \o Payload = SubSeq(p, 1, d + n)
  BY <1>3, <1>4, SliceMore
<1>6. SubSeq(p, 1, d + n) \in Seq(Byte) /\ (Complete => SubSeq(p, 1, d + n) = p)
  BY <1>3, SliceMore
<1>7. /\ fields = << >> /\ goAway = NoGoAway /\ increment \in Word /\ errCode \in Word
      /\ fields \in Seq(Byte) /\ goAway \in GoAways
  BY <1>1, <1>3, Others, Facts DEF PartsOK
<1>8. CASE Complete
  <2>1. Reference(Cur).value = p
    BY <1>2, <1>3 DEF Reference
  <2>2. ~ Ends(script[Cur])
    BY <1>3 DEF Ends
  <2> QED
    BY <1>1, <1>3, <1>5, <1>6, <1>7, <1>8, <2>1, <2>2, WholeFrame
<1>9. CASE ~ Complete
  BY <1>1, <1>2, <1>3, <1>5, <1>6, <1>7, <1>9, PieceOfFrame
<1> QED
  BY <1>8, <1>9

LEMMA DataStep ==
  ASSUME IInv, Around, ProcessData
  PROVE  IInv'
<1>1. /\ ppc = "process" /\ Frame.type = "DATA" /\ Continue
      /\ UNCHANGED <<ack, fields, increment, errCode, goAway>>
      /\ Complete =>
           /\ IF acc + Length(header) >= Threshold
                THEN updates' = updates + (acc + Length(header)) /\ acc' = 0
                ELSE acc' = acc + Length(header) /\ updates' = updates
           /\ open' = IF Frame.flag THEN open \ {Frame.id} ELSE open
           /\ Log(<< >>)
      /\ ~ Complete => UNCHANGED <<acc, open, updates, log>>
  BY DEF Around, ProcessData
<1>2. script[Cur].type = "DATA" /\ Length(header) = CurLen /\ Frame = script[Cur]
  BY <1>1, PayloadIs
<1>3. /\ ack = << >> /\ fields = << >> /\ goAway = NoGoAway /\ increment \in Word /\ errCode \in Word
      /\ ack \in Seq(Byte) /\ fields \in Seq(Byte) /\ goAway \in GoAways
  BY <1>1, <1>2, Others, Facts DEF PartsOK
<1>4. CASE Complete
  <2>1. Reference(Cur).value = << >> /\ << >> \in Seq(Byte)
    BY <1>2, EmptySeq DEF Reference
  <2>2. Ends(script[Cur]) <=> script[Cur].flag
    BY <1>2 DEF Ends
  <2>3. open' = IF Ends(script[Cur]) THEN open \ {script[Cur].id} ELSE open
    BY <1>1, <1>2, <1>4, <2>2
  <2> QED
    BY <1>1, <1>2, <1>3, <1>4, <2>1, <2>3, WholeFrame
<1>5. CASE ~ Complete
  BY <1>1, <1>2, <1>3, <1>5, PieceOfFrame
<1> QED
  BY <1>4, <1>5


LEMMA HeadersStep ==
  ASSUME IInv, Around, ProcessHeaders
  PROVE  IInv'
<1>1. PICK heard : heard = IF Frame.id \in open THEN fields \o Payload ELSE fields
  OBVIOUS
<1>2. /\ ppc = "process" /\ Frame.type = "HEADERS" /\ Continue
      /\ UNCHANGED <<ack, acc, increment, errCode, goAway, updates>>
      /\ Complete => /\ Log(heard) /\ fields' = << >>
                     /\ open' = IF Frame.flag THEN open \ {Frame.id} ELSE open
      /\ ~ Complete => fields' = heard /\ UNCHANGED <<open, log>>
  BY <1>1 DEF Around, ProcessHeaders
<1>3. PICK p, d, n : p = script[Cur].payload /\ d = Done /\ n = Piece
  OBVIOUS
<1>4. /\ script[Cur].type = "HEADERS" /\ CurLen = Len(p) /\ d \in Nat /\ n \in Nat /\ d + n <= Len(p)
      /\ Payload = SubSeq(p, d + 1, d + n) /\ p \in Seq(Byte) /\ Frame = script[Cur]
      /\ Complete => d + n = Len(p)
  BY <1>2, <1>3, PayloadIs, Facts, FrameType DEF CurLen
<1>5. fields = IF script[Cur].id \in open THEN SubSeq(p, 1, d) ELSE << >>
  BY <1>2, <1>3, <1>4, Others DEF IInv, PartsAt, Had
<1>6. heard = IF script[Cur].id \in open THEN SubSeq(p, 1, d + n) ELSE << >>
  <2>1. SubSeq(p, 1, d) \o Payload = SubSeq(p, 1, d + n)
    BY <1>4, SliceMore
  <2> QED
    BY <1>1, <1>4, <1>5, <2>1
<1>7. heard \in Seq(Byte) /\ (Complete => heard = IF script[Cur].id \in open THEN p ELSE << >>)
  <2>1. SubSeq(p, 1, d + n) \in Seq(Byte) /\ (Complete => SubSeq(p, 1, d + n) = p)
    BY <1>4, SliceMore
  <2> QED
    BY <1>6, <2>1, EmptySeq
<1>8. /\ ack = << >> /\ goAway = NoGoAway /\ increment \in Word /\ errCode \in Word
      /\ ack \in Seq(Byte) /\ goAway \in GoAways
  BY <1>2, <1>4, Others, Facts DEF PartsOK
<1>9. CASE Complete
  <2>1. Reference(Cur).value = heard
    <3>1. Reference(Cur).value = IF KnownAt(Cur) THEN p ELSE << >>
      BY <1>3, <1>4 DEF Reference
    <3>2. script[Cur].id \in open <=> KnownAt(Cur)
      BY <1>2, KnownNow
    <3> QED
      BY <1>7, <1>9, <3>1, <3>2
  <2>2. Ends(script[Cur]) <=> script[Cur].flag
    BY <1>4 DEF Ends
  <2>3. open' = IF Ends(script[Cur]) THEN open \ {script[Cur].id} ELSE open
    BY <1>2, <1>4, <1>9, <2>2
  <2> QED
    BY <1>2, <1>4, <1>7, <1>8, <1>9, <2>1, <2>3, WholeFrame
<1>10. CASE ~ Complete
  BY <1>2, <1>3, <1>4, <1>6, <1>7, <1>8, <1>10, PieceOfFrame
<1> QED
  BY <1>9, <1>10

(* A word that is to be the payload of the frame.                          *)
LEMMA WordStep ==
  ASSUME NEW p \in Seq(Byte), Len(p) = WordLen, NEW d \in Nat, NEW n \in Nat, d + n <= Len(p),
         NEW w \in Word, Low(p, w, 0, d)
  PROVE  /\ Shift(w, SubSeq(p, d + 1, d + n)) \in Word
         /\ Low(p, Shift(w, SubSeq(p, d + 1, d + n)), 0, d + n)
         /\ d + n = Len(p) => Shift(w, SubSeq(p, d + 1, d + n)) = p
<1>1. PICK s : s = SubSeq(p, d + 1, d + n)
  OBVIOUS
<1>2. s \in Seq(Byte)
  BY <1>1, SubSeqRange
<1>3. Shift(w, s) \in Word
  BY <1>2, ShiftWord
<1>4. Low(p, Shift(w, s), 0, d + n)
  <2>1. PICK z : z = 0
    OBVIOUS
  <2>2. /\ z \in Nat /\ z + d + n <= Len(p) /\ d + n <= WordLen /\ s = SubSeq(p, z + d + 1, z + d + n)
        /\ Low(p, w, z, d)
    <3>1. z + d + 1 = d + 1 /\ z + d + n = d + n
      BY <2>1
    <3> QED
      BY <1>1, <2>1, <3>1
  <2>3. Low(p, Shift(w, s), z, d + n)
    BY <2>2, ShiftLow
  <2> QED
    BY <2>1, <2>3
<1>5. d + n = Len(p) => Shift(w, s) = p
  BY <1>3, <1>4, WholeWord
<1> QED
  BY <1>1, <1>3, <1>4, <1>5

LEMMA RSTStep ==
  ASSUME IInv, Around, ProcessRST
  PROVE  IInv'
<1>1. /\ ppc = "process" /\ Frame.type = "RST" /\ Continue /\ errCode' = Shift(errCode, Payload)
      /\ UNCHANGED <<ack, fields, acc, increment, goAway, updates>>
      /\ Complete => /\ Log(IF Frame.id \in open THEN errCode' ELSE << >>)
                     /\ open' = open \ {Frame.id}
      /\ ~ Complete => UNCHANGED <<open, log>>
  BY DEF Around, ProcessRST
<1>2. PICK p, d, n : p = script[Cur].payload /\ d = Done /\ n = Piece
  OBVIOUS
<1>3. /\ script[Cur].type = "RST" /\ CurLen = Len(p) /\ d \in Nat /\ n \in Nat /\ d + n <= Len(p)
      /\ Payload = SubSeq(p, d + 1, d + n) /\ p \in Seq(Byte) /\ Frame = script[Cur] /\ Len(p) = WordLen
      /\ Complete => d + n = Len(p)
  BY <1>1, <1>2, PayloadIs, Facts, FrameType DEF CurLen
<1>4. Low(p, errCode, 0, d) /\ errCode \in Word
  BY <1>1, <1>2, <1>3, Others, Facts DEF IInv, PartsAt, PartsOK
<1>5. errCode' \in Word /\ Low(p, errCode', 0, d + n) /\ (Complete => errCode' = p)
  BY <1>1, <1>3, <1>4, WordStep
<1>6. /\ ack = << >> /\ fields = << >> /\ goAway = NoGoAway /\ increment \in Word
      /\ ack \in Seq(Byte) /\ fields \in Seq(Byte) /\ goAway \in GoAways
  BY <1>1, <1>3, Others, Facts DEF PartsOK
<1>7. CASE Complete
  <2>1. PICK v : v = IF Frame.id \in open THEN errCode' ELSE << >>
    OBVIOUS
  <2>2. v \in Seq(Byte) /\ v = IF script[Cur].id \in open THEN p ELSE << >>
    BY <1>3, <1>5, <1>7, <2>1, EmptySeq
  <2>3. Reference(Cur).value = v
    <3>1. Reference(Cur).value = IF KnownAt(Cur) THEN p ELSE << >>
      BY <1>2, <1>3 DEF Reference
    <3>2. script[Cur].id \in open <=> KnownAt(Cur)
      BY <1>1, KnownNow
    <3> QED
      BY <2>2, <3>1, <3>2
  <2>4. Ends(script[Cur])
    BY <1>3 DEF Ends
  <2>5. Log(v)
    BY <1>1, <1>7, <2>1
  <2> QED
    BY <1>1, <1>3, <1>5, <1>6, <1>7, <2>2, <2>3, <2>4, <2>5, WholeFrame
<1>8. CASE ~ Complete
  BY <1>1, <1>2, <1>3, <1>5, <1>6, <1>8, PieceOfFrame
<1> QED
  BY <1>7, <1>8

LEMMA WindowUpdateStep ==
  ASSUME IInv, Around, ProcessWindowUpdate
  PROVE  IInv'
<1>1. PICK sum, fcKnown : sum = Shift(increment, Payload) /\ (fcKnown <=> Frame.id = 0 \/ Frame.id \in open)
  OBVIOUS
<1>2. /\ ppc = "process" /\ Frame.type = "WINDOW_UPDATE" /\ Continue
      /\ UNCHANGED <<ack, fields, acc, errCode, goAway, open, updates>>
      /\ Complete => /\ Log(IF fcKnown THEN sum ELSE << >>)
                     /\ increment' = IF fcKnown THEN Zero ELSE sum
      /\ ~ Complete => increment' = sum /\ log' = log
  BY <1>1 DEF Around, ProcessWindowUpdate
<1>3. PICK p, d, n : p = script[Cur].payload /\ d = Done /\ n = Piece
  OBVIOUS
<1>4. /\ script[Cur].type = "WINDOW_UPDATE" /\ CurLen = Len(p) /\ d \in Nat /\ n \in Nat /\ d + n <= Len(p)
      /\ Payload = SubSeq(p, d + 1, d + n) /\ p \in Seq(Byte) /\ Frame = script[Cur] /\ Len(p) = WordLen
      /\ Complete => d + n = Len(p)
  BY <1>2, <1>3, PayloadIs, Facts, FrameType DEF CurLen
<1>5. Low(p, increment, 0, d) /\ increment \in Word
  BY <1>2, <1>3, <1>4, Others, Facts DEF IInv, PartsAt, PartsOK
<1>6. sum \in Word /\ Low(p, sum, 0, d + n) /\ (Complete => sum = p)
  BY <1>1, <1>4, <1>5, WordStep
<1>7. /\ ack = << >> /\ fields = << >> /\ goAway = NoGoAway /\ errCode \in Word
      /\ ack \in Seq(Byte) /\ fields \in Seq(Byte) /\ goAway \in GoAways
  BY <1>2, <1>4, Others, Facts DEF PartsOK
<1>8. CASE Complete
  <2>1. PICK v : v = IF fcKnown THEN sum ELSE << >>
    OBVIOUS
  <2>2. v \in Seq(Byte) /\ v = IF fcKnown THEN p ELSE << >>
    BY <1>4, <1>6, <1>8, <2>1, EmptySeq
  <2>3. Reference(Cur).value = v
    <3>1. Reference(Cur).value = IF KnownAt(Cur) \/ script[Cur].id = 0 THEN p ELSE << >>
      BY <1>3, <1>4 DEF Reference
    <3>2. script[Cur].id \in open <=> KnownAt(Cur)
      BY <1>2, KnownNow
    <3> QED
      BY <1>1, <1>4, <2>2, <3>1, <3>2
  <2>4. ~ Ends(script[Cur])
    BY <1>4 DEF Ends
  <2>5. Log(v) /\ increment' \in Word
    BY <1>2, <1>6, <1>8, <2>1, NoGoAwayType
  <2> QED
    BY <1>2, <1>4, <1>7, <1>8, <2>2, <2>3, <2>4, <2>5, WholeFrame
<1>9. CASE ~ Complete
  BY <1>2, <1>3, <1>4, <1>6, <1>7, <1>9, PieceOfFrame
<1> QED
  BY <1>8, <1>9

LEMMA SettingsStep ==
  ASSUME IInv, Around, ProcessSettings
  PROVE  IInv'
<1>1. /\ ppc = "process" /\ Frame.type = "SETTINGS" /\ UNCHANGED <<ack, fields, acc, increment, errCode, goAway>>
      /\ UNCHANGED <<open, updates>>
      /\ Complete => Log(<< >>) /\ (Continue \/ ppc' = "exit")
      /\ ~ Complete => Continue /\ log' = log
  BY DEF Around, ProcessSettings, partVars
<1>2. script[Cur].type = "SETTINGS"
  BY <1>1, PayloadIs
<1>3. /\ ack = << >> /\ fields = << >> /\ goAway = NoGoAway /\ increment \in Word /\ errCode \in Word
      /\ ack \in Seq(Byte) /\ fields \in Seq(Byte) /\ goAway \in GoAways
  BY <1>1, <1>2, Others, Facts DEF PartsOK
<1>4. CASE Complete
  <2>1. Reference(Cur).value = << >> /\ << >> \in Seq(Byte) /\ ~ Ends(script[Cur])
    BY <1>2, EmptySeq DEF Reference, Ends
  <2> QED
    BY <1>1, <1>2, <1>3, <1>4, <2>1, WholeFrame
<1>5. CASE ~ Complete
  BY <1>1, <1>2, <1>3, <1>5, PieceOfFrame
<1> QED
  BY <1>4, <1>5

LEMMA ErrorStep ==
  ASSUME IInv, Around, NotSupported \/ DecodingFails
  PROVE  IInv'
<1>1. /\ ppc' = "exit" /\ UNCHANGED <<script, bufVars, framerVars, partVars, outVars>>
      /\ UNCHANGED <<script, cancelled, at, mem, turn, rd>>
  BY DEF Around, NotSupported, DecodingFails, readVars
<1>2. ReaderOK' /\ NextIn' = NextIn
  BY <1>1, Facts DEF ReaderOK, NextIn
<1>3. InOrder'
  BY <1>1 DEF IInv, InOrder
<1> QED
  BY <1>1, <1>2, <1>3, ReaderFrame


-----------------------------------------------------------------------------
(* GOAWAY: two words and the debug data, from pieces that may end anywhere. *)

LEMMA PartSeq ==
  ASSUME NEW q \in Seq(Byte), NEW i \in Nat, NEW lo \in Nat, NEW hi \in Nat
  PROVE  PartOf(q, i, lo, hi) \in Seq(Byte)
<1>1. PICK s, t : /\ s = IF lo > i THEN lo - i + 1 ELSE 1
                  /\ t = IF hi - i < Len(q) THEN hi - i ELSE Len(q)
  OBVIOUS
<1>2. Len(q) \in Nat
  BY LenProperties
<1>3. s \in Int /\ t \in Int /\ s >= 1 /\ t <= Len(q)
  BY <1>1, <1>2
<1>4. \A j \in s .. t : q[j] \in Byte
  <2>1. \A j \in s .. t : j \in 1 .. Len(q)
    BY <1>2, <1>3
  <2> QED
    BY <2>1, ElementOfSeq
<1> QED
  BY <1>1, <1>3, <1>4, SubSeqProperties DEF PartOf

(* How many of the places lo + 1 .. hi are among the first d.              *)
Have(d, lo, hi) == IF d <= lo THEN 0 ELSE Least(d, hi) - lo

LEMMA WordPart ==
  ASSUME NEW p \in Seq(Byte), NEW d \in Nat, NEW n \in Nat, d + n <= Len(p),
         NEW q, q = SubSeq(p, d + 1, d + n), NEW top \in Nat, NEW i, i = Least(d, top),
         NEW lo \in Nat, NEW hi \in Nat, hi = lo + WordLen, hi <= top,
         NEW w \in Word, Low(p, w, lo, Have(d, lo, hi))
  PROVE  Low(p, Shift(w, PartOf(q, i, lo, hi)), lo, Have(d + n, lo, hi))
<1>1. /\ WordLen \in Nat \ {0} /\ Len(p) \in Nat /\ q \in Seq(Byte) /\ Len(q) = n /\ i \in Nat
  BY Sizes, LenProperties, SubSeqRange DEF Least
<1>2. CASE d >= hi
  <2>1. i >= hi
    BY <1>2 DEF Least
  <2>2. PICK s, t : /\ s = IF lo > i THEN lo - i + 1 ELSE 1
                    /\ t = IF hi - i < n THEN hi - i ELSE n
    OBVIOUS
  <2>3. s \in Int /\ t \in Int /\ t < s
    BY <1>1, <2>1, <2>2
  <2>4. PartOf(q, i, lo, hi) = << >>
    BY <1>1, <2>2, <2>3, SubSeqEmpty DEF PartOf
  <2>5. Have(d + n, lo, hi) = Have(d, lo, hi)
    BY <1>1, <1>2 DEF Have, Least
  <2> QED
    BY <2>4, <2>5, ShiftNothing
<1>3. CASE d < hi
  <2>1. i = d
    BY <1>3 DEF Least
  <2>2. PICK x, y : x = Most(lo, d) /\ y = Least(hi, d + n)
    OBVIOUS
  <2>3. PICK s : s = SubSeq(p, x + 1, y)
    OBVIOUS
  <2>4. PartOf(q, i, lo, hi) = s
    <3>1. PartIs(SubSeq(p, d + 1, d + n), d, lo, hi, SubSeq(p, Most(lo, d) + 1, Least(hi, d + n)))
      BY PartSlice, Zenon
    <3> QED
      BY <2>1, <2>2, <2>3, <3>1, Zenon DEF PartIs
  <2>5. /\ x \in Nat /\ y \in Nat /\ x >= lo /\ x >= d /\ x < hi /\ y <= hi /\ y <= d + n /\ y <= Len(p)
        /\ x = lo \/ x = d
        /\ y = hi \/ y = d + n
    BY <1>1, <1>3, <2>2 DEF Most, Least
  <2>6. CASE y <= x
    <3>1. CASE d + n <= lo
      <4>1. Have(d + n, lo, hi) = 0
        BY <3>1 DEF Have
      <4> QED
        BY <4>1, LowNone
    <3>2. CASE ~ d + n <= lo
      <4>1. d + n <= x /\ x = d /\ n = 0
        BY <1>1, <1>3, <2>5, <2>6, <3>2
      <4>2. d + n = d
        BY <4>1
      <4>3. s = << >>
        <5>1. x + 1 \in Int /\ y \in Int /\ y < x + 1
          BY <2>5, <2>6
        <5> QED
          BY <2>3, <5>1, SubSeqEmpty
      <4> QED
        BY <2>4, <4>2, <4>3, ShiftNothing
    <3> QED
      BY <3>1, <3>2
  <2>7. CASE ~ y <= x
    <3>1. PICK e, m : e = x - lo /\ m = y - x
      OBVIOUS
    <3>2. /\ e \in Nat /\ m \in Nat /\ lo + e + m <= Len(p) /\ e + m <= WordLen
          /\ lo + e + 1 = x + 1 /\ lo + e + m = y
      BY <1>1, <2>5, <2>7, <3>1
    <3>3. Low(p, w, lo, e)
      <4>1. CASE x = lo
        BY <3>1, <3>2, <4>1, LowNone
      <4>2. CASE x # lo
        <5>1. x = d /\ ~ d <= lo /\ Have(d, lo, hi) = e
          BY <1>3, <2>5, <3>1, <4>2 DEF Have, Least
        <5> QED
          BY <5>1
      <4> QED
        BY <4>1, <4>2
    <3>4. Low(p, Shift(w, s), lo, e + m)
      BY <2>3, <3>2, <3>3, ShiftLow
    <3>5. Have(d + n, lo, hi) = e + m
      <4>1. ~ d + n <= lo /\ e + m = y - lo
        BY <2>5, <2>7, <3>1
      <4>2. Least(d + n, hi) = y
        BY <2>5 DEF Least
      <4> QED
        BY <4>1, <4>2 DEF Have
    <3> QED
      BY <2>4, <3>4, <3>5
  <2> QED
    BY <2>6, <2>7
<1> QED
  BY <1>2, <1>3

(* The GoAwayError after another piece q.                                  *)
Further(g, q) ==
  [index |-> IF g.index + Len(q) < 2 * WordLen THEN g.index + Len(q) ELSE 2 * WordLen,
   last |-> Shift(g.last, PartOf(q, g.index, 0, WordLen)),
   code |-> Shift(g.code, PartOf(q, g.index, WordLen, 2 * WordLen)),
   debug |-> g.debug \o PartOf(q, g.index, 2 * WordLen, g.index + Len(q))]

(* It is the payload of the frame.                                         *)
Whole(g, p) == g.last \o g.code \o g.debug = p

LEMMA GoAwayNext ==
  ASSUME NEW p \in Seq(Byte), Len(p) >= 2 * WordLen, NEW d \in Nat, NEW n \in Nat, d + n <= Len(p),
         NEW g \in GoAways, GoAwayAt(g, p, d), NEW q, q = SubSeq(p, d + 1, d + n),
         NEW h, h = Further(g, q)
  PROVE  /\ h \in GoAways /\ GoAwayAt(h, p, d + n)
         /\ d + n = Len(p) => Whole(h, p)
<1>1. PICK i, top, z : i = g.index /\ top = 2 * WordLen /\ z = 0
  OBVIOUS
<1>2. /\ WordLen \in Nat \ {0} /\ top \in Nat /\ top = WordLen + WordLen /\ z \in Nat /\ Len(p) \in Nat
      /\ q \in Seq(Byte) /\ Len(q) = n
  BY <1>1, Sizes, LenProperties, SubSeqRange
<1>3. /\ g.index \in 0 .. 2 * WordLen /\ g.last \in Word /\ g.code \in Word /\ g.debug \in Seq(Byte)
  BY DEF GoAways
<1>4. i = Least(d, top) /\ i \in Nat
  BY <1>1, <1>2, <1>3 DEF GoAwayAt
<1>5. h.index = Least(d + n, top) /\ h.index \in 0 .. 2 * WordLen
  <2>1. h.index = IF i + n < top THEN i + n ELSE top
    BY <1>1, <1>2 DEF Further
  <2> QED
    BY <1>1, <1>2, <1>4, <2>1 DEF Least
<1>6. h.last \in Word /\ Low(p, h.last, 0, Least(d + n, WordLen))
  <2>1. h.last = Shift(g.last, PartOf(q, i, z, WordLen))
    BY <1>1 DEF Further
  <2>2. \A a \in Nat : Have(a, z, WordLen) = Least(a, WordLen)
    BY <1>1, <1>2 DEF Have, Least
  <2>3. Low(p, g.last, z, Have(d, z, WordLen))
    BY <1>1, <2>2 DEF GoAwayAt
  <2>4. WordLen = z + WordLen /\ WordLen <= top /\ WordLen \in Nat
    BY <1>1, <1>2
  <2>5. Low(p, h.last, z, Have(d + n, z, WordLen))
    <3>1. z \in Nat /\ top \in Nat /\ g.last \in Word /\ i = Least(d, top)
      BY <1>2, <1>3, <1>4
    <3>2. Low(p, Shift(g.last, PartOf(q, i, z, WordLen)), z, Have(d + n, z, WordLen))
      BY <2>3, <2>4, <3>1, WordPart, Zenon
    <3> QED
      BY <2>1, <3>2, Zenon
  <2>6. Have(d + n, z, WordLen) = Least(d + n, WordLen)
    BY <2>2
  <2>7. h.last \in Word
    BY <1>2, <1>3, <1>4, <2>1, <2>4, PartSeq, ShiftWord
  <2> QED
    BY <1>1, <2>5, <2>6, <2>7
<1>7. h.code \in Word /\ (d + n > WordLen => Low(p, h.code, WordLen, Least(d + n, top) - WordLen))
  <2>1. h.code = Shift(g.code, PartOf(q, i, WordLen, top))
    BY <1>1 DEF Further
  <2>2. \A a \in Nat : Have(a, WordLen, top) = IF a > WordLen THEN Least(a, top) - WordLen ELSE 0
    BY <1>2 DEF Have
  <2>3. Low(p, g.code, WordLen, Have(d, WordLen, top))
    <3>1. CASE d > WordLen
      BY <1>1, <2>2, <3>1 DEF GoAwayAt
    <3>2. CASE ~ d > WordLen
      BY <2>2, <3>2, LowNone
    <3> QED
      BY <3>1, <3>2
  <2>4. top = WordLen + WordLen /\ top <= top /\ WordLen \in Nat
    BY <1>2
  <2>5. Low(p, h.code, WordLen, Have(d + n, WordLen, top))
    <3>1. top \in Nat /\ g.code \in Word /\ i = Least(d, top)
      BY <1>2, <1>3, <1>4
    <3>2. Low(p, Shift(g.code, PartOf(q, i, WordLen, top)), WordLen, Have(d + n, WordLen, top))
      BY <2>3, <2>4, <3>1, WordPart, Zenon
    <3> QED
      BY <2>1, <3>2, Zenon
  <2>6. d + n > WordLen => Have(d + n, WordLen, top) = Least(d + n, top) - WordLen
    BY <2>2
  <2>7. h.code \in Word
    BY <1>2, <1>3, <1>4, <2>1, <2>4, PartSeq, ShiftWord
  <2> QED
    BY <2>5, <2>6, <2>7
<1>8. h.debug = SubSeq(p, top + 1, d + n) /\ h.debug \in Seq(Byte)
  <2>1. h.debug = g.debug \o PartOf(q, i, top, i + n) /\ g.debug = SubSeq(p, top + 1, d)
    BY <1>1, <1>2 DEF Further, GoAwayAt
  <2>2. PartOf(q, i, top, i + n) \in Seq(Byte)
    <3>1. i + n \in Nat /\ i \in Nat /\ top \in Nat /\ q \in Seq(Byte)
      BY <1>2, <1>4
    <3> QED
      BY <3>1, PartSeq, Zenon
  <2>3. CASE d <= top
    <3>1. i = d
      BY <1>4, <2>3 DEF Least
    <3>2. PICK x, y, u : x = top /\ y = d + n /\ u = d + n
      OBVIOUS
    <3>3. PartOf(q, d, top, d + n) = SubSeq(p, top + 1, d + n)
      <4>1. x = Most(top, d) /\ y = Least(u, d + n) /\ top \in Nat /\ u \in Nat
        BY <1>2, <2>3, <3>2 DEF Most, Least
      <4>2. PartIs(SubSeq(p, d + 1, d + n), d, top, u, SubSeq(p, Most(top, d) + 1, Least(u, d + n)))
        BY <4>1, PartSlice, Zenon
      <4>3. PartIs(q, d, top, d + n, SubSeq(p, top + 1, d + n))
        BY <3>2, <4>1, <4>2, Zenon
      <4> QED
        BY <4>3, Zenon DEF PartIs
    <3>4. g.debug = << >>
      <4>1. top + 1 \in Int /\ d \in Int /\ d < top + 1
        BY <1>2, <2>3
      <4> QED
        BY <2>1, <4>1, SubSeqEmpty
    <3>5. PICK s : s = PartOf(q, i, top, i + n)
      OBVIOUS
    <3>6. s \in Seq(Byte) /\ s = SubSeq(p, top + 1, d + n)
      BY <2>2, <3>1, <3>3, <3>5, Zenon
    <3>7. << >> \o s = s
      BY <3>6, ConcatEmptySeq
    <3> QED
      BY <2>1, <3>4, <3>5, <3>6, <3>7, Zenon
  <2>4. CASE d > top
    <3>1. i = top
      BY <1>2, <1>4, <2>4 DEF Least
    <3>2. PartOf(q, i, top, i + n) = q
      <4>1. ~ top > i /\ ~ (i + n) - i < n
        BY <1>2, <1>4, <3>1
      <4>2. PartOf(q, i, top, i + n) = SubSeq(q, 1, Len(q))
        BY <1>2, <4>1 DEF PartOf
      <4> QED
        BY <1>2, <4>2, SubSeqFull
    <3>3. SubSeq(p, top + 1, d) \o SubSeq(p, d + 1, d + n) = SubSeq(p, top + 1, d + n)
      <4>1. top <= d
        BY <1>2, <2>4
      <4> QED
        BY <1>2, <4>1, SliceJoin
    <3>4. g.debug \o q \in Seq(Byte)
      BY <1>2, <1>3, ConcatProperties
    <3> QED
      BY <2>1, <3>2, <3>3, <3>4
  <2> QED
    BY <1>2, <2>3, <2>4
<1>9. h = [index |-> h.index, last |-> h.last, code |-> h.code, debug |-> h.debug]
  BY DEF Further
<1>10. h \in GoAways
  BY <1>5, <1>6, <1>7, <1>8, <1>9 DEF GoAways
<1>11. GoAwayAt(h, p, d + n)
  BY <1>1, <1>5, <1>6, <1>7, <1>8 DEF GoAwayAt
<1>12. d + n = Len(p) => Whole(h, p)
  <2>1. HAVE d + n = Len(p)
  <2>2. Least(d + n, WordLen) = WordLen /\ d + n > WordLen /\ Least(d + n, top) - WordLen = WordLen
    BY <1>1, <1>2, <2>1 DEF Least
  <2>3. Low(p, h.last, 0, WordLen) /\ Low(p, h.code, WordLen, WordLen)
    BY <1>6, <1>7, <2>2
  <2>4. h.last \o h.code \o SubSeq(p, 2 * WordLen + 1, Len(p)) = p
    BY <1>6, <1>7, <2>3, GoAwayWhole
  <2> QED
    BY <1>1, <1>8, <2>1, <2>4 DEF Whole
<1> QED
  BY <1>10, <1>11, <1>12

LEMMA GoAwayStep ==
  ASSUME IInv, Around, ProcessGoAway
  PROVE  IInv'
<1>1. PICK g : g = Further(goAway, Payload)
  OBVIOUS
<1>2. /\ ppc = "process" /\ Frame.type = "GOAWAY"
      /\ UNCHANGED <<ack, fields, acc, increment, errCode, open, updates>>
      /\ Complete => Log(g.last \o g.code \o g.debug) /\ goAway' = NoGoAway /\ ppc' = "exit"
      /\ ~ Complete => goAway' = g /\ Continue /\ log' = log
  BY <1>1 DEF Around, ProcessGoAway, Further, Part, PartOf
<1>3. PICK p, d, n : p = script[Cur].payload /\ d = Done /\ n = Piece
  OBVIOUS
<1>4. /\ script[Cur].type = "GOAWAY" /\ CurLen = Len(p) /\ d \in Nat /\ n \in Nat /\ d + n <= Len(p)
      /\ Payload = SubSeq(p, d + 1, d + n) /\ p \in Seq(Byte) /\ Frame = script[Cur]
      /\ Len(p) >= 2 * WordLen
      /\ Complete => d + n = Len(p)
  BY <1>2, <1>3, PayloadIs, Facts, FrameType DEF CurLen
<1>5. goAway \in GoAways /\ GoAwayAt(goAway, p, d)
  BY <1>2, <1>3, <1>4, Others, Facts DEF IInv, PartsAt, PartsOK, GoAwayAt
<1>6. /\ g \in GoAways /\ GoAwayAt(g, p, d + n)
      /\ d + n = Len(p) => Whole(g, p)
  <2>1. PICK q : q = SubSeq(p, d + 1, d + n)
    OBVIOUS
  <2>2. /\ p \in Seq(Byte) /\ Len(p) >= 2 * WordLen /\ d \in Nat /\ n \in Nat /\ d + n <= Len(p)
        /\ g = Further(goAway, q)
    BY <1>1, <1>4, <2>1, Zenon
  <2> QED
    BY <1>5, <2>1, <2>2, GoAwayNext, Zenon
<1>7. /\ ack = << >> /\ fields = << >> /\ increment \in Word /\ errCode \in Word
      /\ ack \in Seq(Byte) /\ fields \in Seq(Byte)
  BY <1>2, <1>4, Others, Facts DEF PartsOK
<1>8. CASE Complete
  <2>1. Reference(Cur).value = p
    BY <1>3, <1>4 DEF Reference
  <2>2. ~ Ends(script[Cur])
    BY <1>4 DEF Ends
  <2>3. Log(p)
    BY <1>2, <1>4, <1>6, <1>8 DEF Whole
  <2> QED
    BY <1>2, <1>4, <1>7, <1>8, <2>1, <2>2, <2>3, WholeFrame
<1>9. CASE ~ Complete
  BY <1>2, <1>3, <1>4, <1>6, <1>7, <1>9, PieceOfFrame
<1> QED
  BY <1>8, <1>9

-----------------------------------------------------------------------------
LEMMA InitIInv ==
  ASSUME Init
  PROVE  IInv
<1>1. /\ script \in [1 .. MaxFrames -> FrameSet] /\ cancelled = FALSE
      /\ at = [f |-> 1, k |-> 1] /\ mem = [b \in 1 .. 2 |-> << >>] /\ turn = 1 /\ rd = "read"
      /\ ppc = "idle" /\ cb = 2 /\ from = 0 /\ to = 0
      /\ currentHeader = << >> /\ header = << >> /\ payloadLeft = 0
      /\ piece = [start |-> 0, end |-> 0] /\ status = "doneBufEmpty"
      /\ ack = << >> /\ fields = << >> /\ acc = 0 /\ increment = Zero /\ errCode = Zero
      /\ goAway = NoGoAway /\ open = Known /\ updates = 0 /\ log = << >>
  BY DEF Init
<1>2. /\ << >> \in Seq(Bytes) /\ << >> \in Seq(Byte) /\ << >> \in Seq(Entries) /\ Len(<< >>) = 0
  BY EmptySeq
<1>3. Types0
  <2>1. at \in [f : 1 .. MaxFrames + 1, k : Nat \ {0}]
    BY <1>1, Sizes
  <2>2. mem \in [1 .. 2 -> Seq(Bytes)] /\ piece \in [start : Nat, end : Nat]
    BY <1>1, <1>2
  <2>3. /\ turn \in 1 .. 2 /\ rd \in {"read", "send", "exit"}
        /\ ppc \in {"idle", "next", "process", "exit"} /\ cb \in 1 .. 2 /\ from \in Nat /\ to \in Nat
        /\ status \in {"done", "doneBufEmpty", "incomplete"} /\ payloadLeft \in Nat
    BY <1>1
  <2>4. /\ currentHeader \in Seq(Bytes) /\ header \in Seq(Bytes) /\ {ack, fields} \subseteq Seq(Byte)
        /\ {increment, errCode} \subseteq Word /\ goAway \in GoAways
        /\ open \subseteq Known /\ {acc, updates} \subseteq Nat /\ log \in Seq(Entries)
    BY <1>1, <1>2, NoGoAwayType
  <2> QED
    BY <1>1, <2>1, <2>2, <2>3, <2>4 DEF Types0, ReaderOK, FramerOK, PartsOK
<1>4. Len(log) = 0 /\ Cur = 1 /\ Len(currentHeader) = 0 /\ 0 < HeaderLen /\ 0 # HeaderLen
  BY <1>1, <1>2, Sizes DEF Cur
<1>5. mem[turn] = << >> /\ NextIn = at
  BY <1>1 DEF NextIn
<1>6. InOrder
  <2>1. at.f <= MaxFrames => at.k <= SizeIn(script, at.f)
    <3>1. HAVE at.f <= MaxFrames
    <3>2. at.f = 1 /\ at.k = 1 /\ 1 \in 1 .. MaxFrames /\ script \in Scripts
      BY <1>1, <3>1, Sizes DEF Scripts
    <3>3. SizeIn(script, 1) = HeaderLen + Len(script[1].payload) /\ Len(script[1].payload) \in Nat
      BY <3>2, FrameType
    <3> QED
      BY <3>2, <3>3, Sizes
  <2> QED
    BY <1>1, <1>5, <2>1, RunEmpty DEF InOrder
<1>7. FramerAt
  <2>1. Expected = [f |-> 1, k |-> 1]
    BY <1>4 DEF Expected
  <2>2. 0 <= HeaderLen /\ \A j \in 1 .. 0 : currentHeader[j] = [f |-> Cur, k |-> j]
    BY Sizes
  <2>3. NextIn = Expected
    BY <1>1, <1>5, <2>1
  <2> QED
    BY <1>1, <1>4, <2>2, <2>3 DEF FramerAt
<1>8. PieceAt /\ BuffersDisjoint
  BY <1>1 DEF PieceAt, BuffersDisjoint
<1>9. PartsAt
  <2>1. Done = 0
    BY <1>1, <1>4 DEF Done
  <2>2. Had = << >> /\ SubSeq(script[Cur].payload, 2 * WordLen + 1, Done) = << >>
    <3>1. 2 * WordLen + 1 \in Int /\ 0 \in Int /\ 1 \in Int /\ 0 < 2 * WordLen + 1 /\ 0 < 1
      BY Sizes
    <3>2. \A q : SubSeq(q, 1, 0) = << >> /\ SubSeq(q, 2 * WordLen + 1, 0) = << >>
      BY <3>1, SubSeqEmpty
    <3> QED
      BY <2>1, <3>2 DEF Had
  <2>3. /\ goAway.index = 0 /\ Least(0, 2 * WordLen) = 0 /\ Least(0, WordLen) = 0 /\ ~ 0 > WordLen
        /\ goAway.debug = << >>
    <3>1. 0 <= 2 * WordLen /\ 0 <= WordLen /\ ~ 0 > WordLen
      BY Sizes
    <3>2. goAway.index = 0 /\ goAway.debug = << >>
      BY <1>1 DEF NoGoAway
    <3> QED
      BY <3>1, <3>2 DEF Least
  <2>4. \A p, w, lo : Low(p, w, lo, 0)
    BY LowNone
  <2> QED
    BY <1>1, <2>1, <2>2, <2>3, <2>4 DEF PartsAt
<1>10. StoreAt /\ PiecesDoNotMatter /\ DataBytes = {}
  <2>1. DOMAIN log = {} /\ 1 .. Len(log) = {}
    BY <1>1, <1>4
  <2>2. StoreAt
    BY <1>1, <1>4, <2>1, Sizes DEF StoreAt
  <2>3. PiecesDoNotMatter /\ DataBytes = {}
    BY <2>1 DEF PiecesDoNotMatter, DataBytes
  <2> QED
    BY <2>2, <2>3
<1>11. Credited
  BY <1>1, <1>10, Sizes, FS_EmptySet DEF Credited, CreditReturned
<1> QED
  BY <1>3, <1>6, <1>7, <1>8, <1>9, <1>10, <1>11 DEF IInv, Inv0

LEMMA StepIInv ==
  ASSUME IInv, [Next]_vars
  PROVE  IInv'
<1>1. CASE Process
  <2>1. Around
    BY <1>1 DEF Process, Around
  <2> QED
    BY <1>1, <2>1, PingStep, DataStep, HeadersStep, RSTStep, WindowUpdateStep, GoAwayStep, SettingsStep,
       ErrorStep DEF Process
<1>2. CASE HandOver \/ HeaderIncomplete \/ NextPiece \/ ReadByte
  BY <1>2, HandOverStep, HeaderIncompleteStep, NextPieceStep, ReadByteStep
<1>3. CASE \/ ReadReturns \/ ReadFails \/ ReaderDone \/ Cancel \/ ChanClosed \/ Panic
           \/ TakeFrame \/ SenderLeaves \/ UNCHANGED vars
  BY <1>3, ReaderSteps
<1> QED
  BY <1>1, <1>2, <1>3 DEF Next, Reader, Processor

LEMMA Invariance == Spec => []IInv
<1>1. Init => IInv
  BY InitIInv
<1>2. IInv /\ [Next]_vars => IInv'
  BY StepIInv
<1> QED
  BY <1>1, <1>2, PTL DEF Spec

(* outFramesChan has room for what is sent there.                          *)
ChanOK == outFrames \in 0 .. OutCap /\ sending \in BOOLEAN

LEMMA ChanInvariance == Spec => []ChanOK
<1>0. OutCap \in Nat \ {0}
  BY SizesAssumption
<1>1. Init => ChanOK
  <2>1. Init => outFrames \in 0 .. OutCap
    BY <1>0 DEF Init
  <2>2. Init => sending \in BOOLEAN
    BY Zenon DEF Init
  <2> QED
    BY <2>1, <2>2 DEF ChanOK
<1>2. ASSUME ChanOK, [Next]_vars PROVE ChanOK'
  <2>1. outFrames \in 0 .. OutCap /\ sending \in BOOLEAN
    BY <1>2, Zenon DEF ChanOK
  <2>2. CASE Process
    <3>1. outFrames' = outFrames \/ Send
      BY <2>2 DEF Process, ProcessPing, ProcessData, ProcessHeaders, DecodingFails, ProcessRST,
                  ProcessWindowUpdate, ProcessGoAway, ProcessSettings, NotSupported
    <3>2. outFrames' \in 0 .. OutCap
      BY <1>0, <2>1, <3>1 DEF Send
    <3>3. sending' = sending
      BY <2>2 DEF Process
    <3> QED
      BY <2>1, <3>2, <3>3, Zenon DEF ChanOK
  <2>3. CASE TakeFrame
    <3>1. outFrames > 0 /\ outFrames' = outFrames - 1 /\ sending' = sending
      BY <2>3 DEF TakeFrame
    <3>2. outFrames' \in 0 .. OutCap
      BY <1>0, <2>1, <3>1
    <3> QED
      BY <2>1, <3>1, <3>2, Zenon DEF ChanOK
  <2>4. CASE SenderLeaves
    <3>1. sending' = FALSE /\ outFrames' = outFrames
      BY <2>4, Zenon DEF SenderLeaves
    <3> QED
      BY <2>1, <3>1, Zenon DEF ChanOK
  <2>5. CASE Reader \/ HandOver \/ HeaderIncomplete \/ NextPiece \/ Panic \/ ChanClosed \/ Cancel
             \/ UNCHANGED vars
    <3>1. UNCHANGED <<outFrames, sending>>
      BY <2>5 DEF Reader, ReadByte, ReadReturns, ReadFails, ReaderDone, HandOver, HeaderIncomplete,
                  NextPiece, Panic, ChanClosed, Cancel, vars, chanVars
    <3> QED
      BY <2>1, <3>1, Zenon DEF ChanOK
  <2> QED
    BY <1>2, <2>2, <2>3, <2>4, <2>5 DEF Next, Processor
<1> QED
  BY <1>1, <1>2, PTL DEF Spec

(* The words and buffers of the receiver keep their types, and the reader  *)
(* never writes into the buffer the processor was handed, whatever the     *)
(* order of Read, the channels and cancellation.                           *)
THEOREM ReceiverSafe == Spec => []Inv
<1>1. ASSUME IInv, ChanOK PROVE Inv
  <2>1. ReaderOK /\ FramerOK /\ PartsOK /\ BuffersDisjoint
    BY <1>1 DEF IInv, Inv0, Types0
  <2>2. {ack, fields} \subseteq Seq(Byte) /\ {increment, errCode} \subseteq Word /\ {acc, updates} \subseteq Nat
    BY <2>1 DEF PartsOK
  <2>3. TypeOK
    BY <1>1, <2>1, <2>2, Zenon DEF TypeOK, ReaderOK, FramerOK, PartsOK, GoAways, Entries, ChanOK
  <2> QED
    BY <2>1, <2>3 DEF Inv
<1> QED
  BY <1>1, Invariance, ChanInvariance, PTL

(* However conn.Read cuts the stream of bytes, each frame is handled once, *)
(* in order, with its whole payload and nothing of its neighbours'.        *)
THEOREM PiecesSafe == Spec => []PiecesDoNotMatter
<1>1. IInv => PiecesDoNotMatter
  BY DEF IInv
<1> QED
  BY <1>1, Invariance, PTL

(* The connection's receive window is given back for every DATA frame, but *)
(* for less than windowUpdateMinValue.                                     *)
THEOREM CreditSafe == Spec => []CreditReturned
<1>1. IInv => CreditReturned
  BY DEF IInv, Credited
<1> QED
  BY <1>1, Invariance, PTL
=============================================================================
