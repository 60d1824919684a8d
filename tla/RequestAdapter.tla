--------------------------- MODULE RequestAdapter ---------------------------
(***************************************************************************)
(* RequestAdapter: how a request becomes HTTP/2 frames.  SetUp is called   *)
(* by one sender for one stream after another, on adapters that are        *)
(* reused, with the HPACK encoder of the connection.  Payloads are         *)
(* sequences of bytes, where a byte says what it is a byte of: of a header *)
(* field, of the length prefix of gRPC, of the message.  The limits are    *)
(* those of the connection's setup.  The server at the other end keeps the *)
(* HPACK table its decoder has.                                            *)
(***************************************************************************)
EXTENDS Setup, FiniteSets

CONSTANTS
  Fields,             \* header fields
  Allowed,            \* those of them the metadata of a request may have
  Additional,         \* the field the middleware adds to each request
  LiteralLen,         \* bytes of a field the encoder has not met before
  MessageLens,        \* lengths of messages
  MaxMeta,            \* bound on the metadata of a request
  MaxRequests         \* bound on the requests of a connection

PrefixLen == 5
FrameHeaderLen == 9

ASSUME FieldsAssumption ==
  /\ IsFiniteSet(Fields) /\ Allowed \subseteq Fields /\ Additional \in Fields
ASSUME LengthsAssumption ==
  /\ LiteralLen \in Nat \ {0} /\ MessageLens \subseteq Nat
  /\ {MaxMeta, MaxRequests} \subseteq Nat
ASSUME FrameSizeAssumption ==
  /\ Default["MAX_FRAME_SIZE"] > PrefixLen
  /\ \A sf \in Announced : \A k \in DOMAIN sf :
       sf[k].id = "MAX_FRAME_SIZE" => sf[k].val > PrefixLen

VARIABLES
  pc, streamID,
  data,             \* the request: path, meta, length of the message
  enc, resize,      \* table of the connection's HPACK encoder; its size is to be told
  headersBuf, pl,   \* what is left of the header block and of the message
  frames, size, failed,
  dec, refused      \* the server's table; history: requests SetUp refused

adapterVars == <<pc, streamID, data, enc, resize, headersBuf, pl, frames, size, failed, dec,
                 refused>>
vars == <<setupVars, adapterVars>>

MaxFramePayloadLen == Limit("MAX_FRAME_SIZE")
MaxHeaderListSize == Limit("MAX_HEADER_LIST_SIZE")

Requests == [path : Fields, meta : SeqOf(Fields, MaxMeta), message : MessageLens]

Init ==
  /\ SetupInit /\ pc = "setup" /\ streamID = 1 /\ data = << >>
  /\ enc = << >> /\ resize = FALSE /\ headersBuf = << >> /\ pl = << >>
  /\ frames = << >> /\ size = 0 /\ failed = FALSE
  /\ dec = [table |-> << >>, max |-> 0] /\ refused = 0

(* The loader is made: a size the server announced is told to its decoder. *)
NewLoader ==
  /\ pc = "setup" /\ setup = "done"
  /\ pc' = "idle"
  /\ resize' = (conf["HEADER_TABLE_SIZE"] # 0)
  /\ dec' = [table |-> << >>, max |-> Least(ServerLimit("HEADER_TABLE_SIZE"),
                                            Default["HEADER_TABLE_SIZE"])]
  /\ UNCHANGED <<setupVars, streamID, data, enc, headersBuf, pl, frames, size, failed, refused>>

-----------------------------------------------------------------------------
(* Headers.                                                                *)

(* What SetUp writes with WriteField, in order.                            *)
Written(d) == <<d.path, Additional>> \o SelectSeq(d.meta, LAMBDA f : f \in Allowed)

Take(s, n) == SubSeq(s, 1, Least(n, Len(s)))
Drop(s, n) == SubSeq(s, n + 1, Len(s))

(* A new entry of a table comes first, and the oldest ones make room.      *)
Insert(f, table, max) == Take(<<f>> \o table, max)

Literal(f) == [b \in 1..LiteralLen |-> [literal |-> f, byte |-> b]]

(* A field that is in the table is its index, another is a literal, after  *)
(* which it is in the table.                                               *)
WriteField(acc, f) ==
  LET at == {k \in DOMAIN acc.table : acc.table[k] = f} IN
  IF at # {}
    THEN [acc EXCEPT !.bytes = Append(@, [index |-> CHOOSE k \in at : TRUE])]
    ELSE [table |-> Insert(f, acc.table, Limit("HEADER_TABLE_SIZE")),
          bytes |-> acc.bytes \o Literal(f)]

Encode(fs) ==
  FoldLeft(WriteField,
           [table |-> enc,
            bytes |-> IF resize THEN <<[resize |-> Limit("HEADER_TABLE_SIZE")]>> ELSE << >>], fs)

(* The server reads a byte of a header block.                              *)
ReadField(acc, b) ==
  CASE "resize" \in DOMAIN b ->
         [acc EXCEPT !.max = b.resize, !.table = Take(@, b.resize),
                     !.ok = @ /\ b.resize <= ServerLimit("HEADER_TABLE_SIZE")]
    [] "index" \in DOMAIN b ->
         IF b.index \in DOMAIN acc.table
           THEN [acc EXCEPT !.fields = Append(@, acc.table[b.index])]
           ELSE [acc EXCEPT !.ok = FALSE]
    [] OTHER ->
         IF b.byte = LiteralLen
           THEN [acc EXCEPT !.fields = Append(@, b.literal), !.table = Insert(b.literal, @, acc.max)]
           ELSE acc

Decode(bytes) ==
  FoldLeft(ReadField, [table |-> dec.table, max |-> dec.max, fields |-> << >>, ok |-> TRUE], bytes)

(* The fields SetUp counts: not the additional ones.                       *)
HeaderListSize(d) == LiteralLen * (1 + Len(SelectSeq(d.meta, LAMBDA f : f \in Allowed)))

(* A request is fetched and set up: everything is reset, the fields are    *)
(* encoded, and the list may be too long: then SetUp goes on with the      *)
(* payload all the same.                                                   *)
SetUp(d) ==
  /\ pc = "idle" /\ streamID < 2 * MaxRequests
  /\ streamID' = streamID + 2 /\ data' = d
  /\ headersBuf' = Encode(Written(d)).bytes /\ enc' = Encode(Written(d)).table
  /\ resize' = FALSE
  /\ failed' = (HeaderListSize(d) > MaxHeaderListSize)
  /\ frames' = << >> /\ size' = 0 /\ pl' = << >>
  /\ pc' = IF failed' THEN "payload" ELSE "headers"
  /\ UNCHANGED <<setupVars, dec, refused>>

Frame(type, flags, length, payload, price) ==
  [type |-> type, flags |-> flags, length |-> length, stream |-> streamID,
   payload |-> payload, price |-> price]

(* Mutant of HeaderFrame: a block that just fills its frames is complete.  *)
HeaderFrameFull ==
  LET n == Least(Len(headersBuf), MaxFramePayloadLen)
      type == IF frames = << >> THEN "HEADERS" ELSE "CONTINUATION"
      flags == IF n < MaxFramePayloadLen THEN {"END_HEADERS"} ELSE {}
  IN /\ pc = "headers"
     /\ frames' = Append(frames, Frame(type, flags, n, Take(headersBuf, n), 0))
     /\ headersBuf' = Drop(headersBuf, n)
     /\ size' = size + FrameHeaderLen + n
     /\ pc' = IF Len(headersBuf) = n THEN "payload" ELSE "headers"
     /\ UNCHANGED <<setupVars, streamID, data, enc, resize, pl, failed, dec, refused>>

(* One turn of the loop of setUpHeaders.  A block whose last frame is full *)
(* is followed by an empty one.                                            *)
HeaderFrame ==
  LET n == Least(Len(headersBuf), MaxFramePayloadLen)
      last == n < MaxFramePayloadLen
      type == IF frames = << >> THEN "HEADERS" ELSE "CONTINUATION"
      flags == IF last THEN {"END_HEADERS"} ELSE {}
  IN /\ pc = "headers"
     /\ frames' = Append(frames, Frame(type, flags, n, Take(headersBuf, n), 0))
     /\ headersBuf' = Drop(headersBuf, n)
     /\ size' = size + FrameHeaderLen + n
     /\ pc' = IF last THEN "payload" ELSE "headers"
     /\ UNCHANGED <<setupVars, streamID, data, enc, resize, pl, failed, dec, refused>>

-----------------------------------------------------------------------------
(* The payload.                                                            *)

Message(d) == [k \in 1..d.message |-> [message |-> k]]
PayloadPrefix(d) == [k \in 1..PrefixLen |-> [prefix |-> d.message, byte |-> k]]

FirstData ==
  LET n == Least(data.message, MaxFramePayloadLen - PrefixLen)
      flags == IF n = data.message THEN {"END_STREAM"} ELSE {}
      payload == PayloadPrefix(data) \o Take(Message(data), n)
  IN /\ pc = "payload"
     /\ frames' = Append(frames, Frame("DATA", flags, n + PrefixLen, payload, n + PrefixLen))
     /\ pl' = Drop(Message(data), n)
     /\ size' = size + FrameHeaderLen + PrefixLen + n
     /\ pc' = IF n = data.message THEN "ready" ELSE "more"
     /\ UNCHANGED <<setupVars, streamID, data, enc, resize, headersBuf, failed, dec, refused>>

(* One turn of the loop of setUpPayload.  The prefix is among the chunks   *)
(* of this frame too, but not in its length; and a last frame that is full *)
(* does not end the stream.                                                *)
MoreData ==
  LET n == Least(Len(pl), MaxFramePayloadLen)
      flags == IF n < MaxFramePayloadLen THEN {"END_STREAM"} ELSE {}
  IN /\ pc = "more"
     /\ frames' = Append(frames, Frame("DATA", flags, n, PayloadPrefix(data) \o Take(pl, n), n))
     /\ pl' = Drop(pl, n)
     /\ size' = size + FrameHeaderLen + n
     /\ pc' = IF Len(pl) = n THEN "ready" ELSE "more"
     /\ UNCHANGED <<setupVars, streamID, data, enc, resize, headersBuf, failed, dec, refused>>

-----------------------------------------------------------------------------
(* SetUp has returned an error: the sender ends the stream and sends       *)
(* nothing.                                                                *)
Refuse ==
  /\ pc = "ready" /\ failed
  /\ pc' = "idle" /\ refused' = refused + 1
  /\ UNCHANGED <<setupVars, streamID, data, enc, resize, headersBuf, pl, frames, size, failed, dec>>

OfType(types) == SelectSeq(frames, LAMBDA f : f.type \in types)
Payload(fs) == FlattenSeq([k \in DOMAIN fs |-> fs[k].payload])
HeaderBlock == Payload(OfType({"HEADERS", "CONTINUATION"}))

(* The frames are sent, and the server reads the header block.             *)
Send ==
  /\ pc = "ready" /\ ~ failed
  /\ pc' = "idle"
  /\ LET d == Decode(HeaderBlock) IN dec' = [table |-> d.table, max |-> d.max]
  /\ UNCHANGED <<setupVars, streamID, data, enc, resize, headersBuf, pl, frames, size, failed, refused>>

Next == \/ SetupNext /\ UNCHANGED adapterVars
        \/ NewLoader
        \/ \E d \in Requests : SetUp(d)
        \/ HeaderFrame \/ FirstData \/ MoreData \/ Refuse \/ Send

Spec == Init /\ [][Next]_vars

-----------------------------------------------------------------------------
FrameTypes == {"HEADERS", "CONTINUATION", "DATA"}
Flags == {"END_HEADERS", "END_STREAM"}

TypeOK ==
  /\ pc \in {"setup", "idle", "headers", "payload", "more", "ready"}
  /\ streamID \in 1..(2 * MaxRequests + 1) /\ data \in Requests \cup {<< >>}
  /\ setup \in {"preface", "read", "answer", "done", "failed"}
  /\ dec.table \in Seq(Fields) /\ enc \in Seq(Fields) /\ resize \in BOOLEAN
  /\ size \in Nat /\ failed \in BOOLEAN /\ refused \in Nat
  /\ \A k \in DOMAIN frames :
       /\ frames[k].type \in FrameTypes /\ frames[k].flags \subseteq Flags
       /\ frames[k].length \in 0..MaxFramePayloadLen /\ frames[k].stream = streamID

Ready == pc = "ready" /\ ~ failed

(* The server can put the header block together: HEADERS comes first, then *)
(* CONTINUATION only, then DATA; END_HEADERS is on the last frame of the   *)
(* block and on no other, also when the block just fills its frames; and   *)
(* what an adapter sent before does not come back.                         *)
HeaderBlockFramed ==
  Ready =>
    LET block == OfType({"HEADERS", "CONTINUATION"})
        n == Len(block)
    IN /\ n > 0 /\ block = SubSeq(frames, 1, n)
       /\ \A k \in 1..n : /\ block[k].type = IF k = 1 THEN "HEADERS" ELSE "CONTINUATION"
                          /\ block[k].flags = IF k = n THEN {"END_HEADERS"} ELSE {}

(* The server decodes the fields that were written: its table and the      *)
(* encoder's hold the same entries whenever one refers to them, so they    *)
(* have the same size.  This needs each block that was encoded to be sent, *)
(* so nothing is claimed once SetUp has refused a request; and a server    *)
(* that announces a table of size 0, which the setup overlooks, cannot     *)
(* decode anything for long.                                               *)
HeadersDecoded ==
  Ready /\ refused = 0 /\ ServerLimit("HEADER_TABLE_SIZE") # 0 =>
    LET d == Decode(HeaderBlock) IN d.ok /\ d.fields = Written(data)

MessageFramed ==
  LET datas == OfType({"DATA"})
      n == Len(datas)
  IN /\ \A k \in DOMAIN frames : frames[k].length = Len(frames[k].payload)
     /\ Payload(datas) = PayloadPrefix(data) \o Message(data)
     /\ \A k \in 1..n : datas[k].flags = IF k = n THEN {"END_STREAM"} ELSE {}

Fits == data.message + PrefixLen <= MaxFramePayloadLen

(* The server reads the request that was made.  It can put the header      *)
(* block together, wherever that is cut, and the fields it decodes are     *)
(* those that were written; the length of each frame counts the bytes that *)
(* follow it, the payloads of the DATA frames are the prefix and the       *)
(* message, and the last of them, and no other, ends the stream.  This is  *)
(* so for messages that fit in one frame.                                  *)
RequestIntact ==
  HeaderBlockFramed /\ HeadersDecoded /\ (Ready /\ Fits => MessageFramed)

(* The same for a message of any length, as request_test.go has it for a   *)
(* short one.  It does not hold: see MoreData.                             *)
EveryMessageIntact == Ready => MessageFramed

Total(F(_)) == FoldLeft(LAMBDA acc, f : acc + F(f), 0, frames)

(* What the sender takes from the windows is what the server counts, and   *)
(* the size that is reported is that of the bytes written, if the message  *)
(* fits in one frame.                                                      *)
AccountsExact ==
  Ready => /\ Total(LAMBDA f : f.price) =
                Total(LAMBDA f : IF f.type = "DATA" THEN f.length ELSE 0)
           /\ Fits => size = Total(LAMBDA f : FrameHeaderLen + Len(f.payload))

(* Frames are frames, the sender keeps to the limits of the server, and    *)
(* the accounts are right.                                                 *)
Inv == TypeOK /\ SettingsObeyed /\ AccountsExact
=============================================================================
