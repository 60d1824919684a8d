------------------------------ MODULE Formats ------------------------------
(***************************************************************************)
(* The formats of request files: ozon.binary, ozon.json and pandora.json.  *)
(* A file is written in one of them, read line by line, decoded, encoded   *)
(* in another one (the convert command), and, if that one is ozon.binary,  *)
(* decoded by the load command with its caches of strings.  Texts are      *)
(* sequences of bytes.  The lexer of easyjson, utf8.DecodeRune and the     *)
(* JSON form of protobuf messages are external.                            *)
(***************************************************************************)
EXTENDS Integers, Sequences, FiniteSets, SequencesExt

CONSTANTS
  Files,       \* the requests of each file: tag, method, metadata, message
  Names,       \* fully qualified names of the methods the descriptors have
  BufLens,     \* length of the JSON reader's buffer (4096)
  CacheSize    \* maxSize of the caches (1024)

ASSUME BoundsAssumption ==
  BufLens \subseteq Nat \ {0} /\ CacheSize \in Nat \ {0}

NL == 10
Quote == 34
Comma == 44
Dot == 46
Slash == 47
Colon == 58
Backslash == 92

Conversions == {<<"ozon.json", "ozon.binary">>, <<"ozon.binary", "ozon.json">>,
                <<"pandora.json", "ozon.binary">>, <<"pandora.json", "ozon.json">>}

-----------------------------------------------------------------------------
(* Strings.                                                                *)

Continues(s, k) == k <= Len(s) /\ s[k] \in 128 .. 191

(* The bytes of the rune s begins with; 1 if s[1] begins none (RuneError). *)
DecodeRune(s) ==
  LET b == s[1] IN
  CASE b \in 194 .. 223 /\ Continues(s, 2) -> 2
    [] /\ b \in 224 .. 239 /\ Continues(s, 2) /\ Continues(s, 3)
       /\ (b = 224 => s[2] >= 160) /\ (b = 237 => s[2] < 160) -> 3
    [] /\ b \in 240 .. 244 /\ Continues(s, 2) /\ Continues(s, 3) /\ Continues(s, 4)
       /\ (b = 240 => s[2] >= 144) /\ (b = 244 => s[2] < 144) -> 4
    [] OTHER -> 1

(* Mutant of SafeByte: quotes and backslashes only are escaped.            *)
SafeByteLoose(b) == b \notin {Quote, Backslash}

(* The table lt, for bytes below utf8.RuneSelf.                            *)
SafeByte(b) == b >= 32 /\ b \notin {Quote, Backslash} \cup {38, 60, 62}

Hex(d) == IF d < 10 THEN 48 + d ELSE 87 + d
Unicode(a, b, c, d) == <<Backslash, 117, a, b, c, d>>
Letter(b) == CASE b = NL -> 110 [] b = 13 -> 114 [] OTHER -> b

EscapeByte(b) ==
  IF b \in {Backslash, Quote, NL, 13} THEN <<Backslash, Letter(b)>>
                                      ELSE Unicode(48, 48, Hex(b \div 16), Hex(b % 16))

(* Bytes that begin no rune become U+FFFD, and U+2028 and U+2029 are       *)
(* escaped.                                                                *)
EscapeRune(r) ==
  CASE Len(r) = 1 -> Unicode(102, 102, 102, 100)
    [] Len(r) = 3 /\ SubSeq(r, 1, 2) = <<226, 128>> /\ r[3] \in {168, 169} ->
         Unicode(50, 48, 50, Hex(r[3] - 160))
    [] OTHER -> r

RECURSIVE Escape(_)
Escape(s) ==
  IF s = << >> THEN << >>
  ELSE LET k == IF s[1] < 128 THEN 1 ELSE DecodeRune(s)
           e == IF s[1] >= 128 THEN EscapeRune(SubSeq(s, 1, k))
                ELSE IF SafeByte(s[1]) THEN <<s[1]>> ELSE EscapeByte(s[1])
       IN e \o Escape(SubSeq(s, k + 1, Len(s)))

EscapeString(s) == <<Quote>> \o Escape(s) \o <<Quote>>

-----------------------------------------------------------------------------
(* The lexer.                                                              *)

FromHex(h) == IF h < 58 THEN h - 48 ELSE h - 87

UTF8(c) ==
  CASE c < 128 -> <<c>>
    [] c \in 128 .. 2047 -> <<192 + c \div 64, 128 + (c % 64)>>
    [] OTHER -> <<224 + c \div 4096, 128 + ((c \div 64) % 64), 128 + (c % 64)>>

RECURSIVE Unescape(_)
Unescape(s) ==
  IF s = << >> THEN << >>
  ELSE IF s[1] # Backslash THEN <<s[1]>> \o Unescape(Tail(s))
  ELSE IF s[2] # 117
    THEN <<CASE s[2] = 110 -> NL [] s[2] = 114 -> 13 [] OTHER -> s[2]>>
           \o Unescape(SubSeq(s, 3, Len(s)))
    ELSE UTF8(FoldLeft(LAMBDA c, h : 16 * c + FromHex(h), 0, SubSeq(s, 3, 6)))
           \o Unescape(SubSeq(s, 7, Len(s)))

(* Where the string that begins the text t ends: at the first quote with   *)
(* an even number of backslashes before it.                                *)
Closing(t) ==
  LET Escaped(k) == \E a \in 2 .. (k - 1) : /\ \A b \in a .. (k - 1) : t[b] = Backslash
                                            /\ (a = 2 \/ t[a - 1] # Backslash)
                                            /\ (k - a) % 2 = 1
  IN CHOOSE k \in 2 .. Len(t) : /\ t[k] = Quote /\ ~ Escaped(k)
                                /\ \A j \in 2 .. (k - 1) : t[j] = Quote => Escaped(j)

(* Tokens: delimiters, and strings with their value and their place.       *)
RECURSIVE LexFrom(_, _)
LexFrom(t, k) ==
  IF k > Len(t) THEN << >>
  ELSE IF t[k] # Quote THEN <<[delim |-> t[k], str |-> << >>, at |-> k]>> \o LexFrom(t, k + 1)
  ELSE LET e == Closing(SubSeq(t, k, Len(t)))
       IN <<[delim |-> Quote, str |-> Unescape(SubSeq(t, k + 1, k + e - 2)), at |-> k]>>
            \o LexFrom(t, k + e)

Lex(t) == LexFrom(t, 1)

Depths(toks) ==
  FoldLeft(LAMBDA ds, x : Append(ds, Last(ds) + CASE x.delim \in {123, 91} -> 1
                                                   [] x.delim \in {125, 93} -> -1
                                                   [] OTHER -> 0), <<0>>, toks)

-----------------------------------------------------------------------------
(* Metadata.                                                               *)

RECURSIVE Less(_, _)
Less(a, b) == /\ b # << >>
              /\ \/ a = << >>
                 \/ a[1] < b[1]
                 \/ a[1] = b[1] /\ Less(Tail(a), Tail(b))

(* What sort.Sort may make of the metadata: it is not stable.              *)
Sorted(meta) ==
  {[k \in DOMAIN meta |-> meta[p[k]]] :
     p \in {q \in [DOMAIN meta -> DOMAIN meta] :
              /\ IsInjective(q)
              /\ \A k \in DOMAIN meta : k > 1 => ~ Less(meta[q[k]].name, meta[q[k - 1]].name)}}

(* MultiVal.MarshalAppend after the sort: values of one name form a list.  *)
MultiVal(meta) ==
  LET Same(k) == k > 1 /\ meta[k].name = meta[k - 1].name
      Item(k) == (IF Same(k) THEN <<Comma>>
                  ELSE (IF k = 1 THEN << >> ELSE <<93, Comma>>)
                         \o EscapeString(meta[k].name) \o <<Colon, 91>>)
                   \o EscapeString(meta[k].value)
  IN IF meta = << >> THEN <<123, 125>>
     ELSE <<123>> \o FlattenSeq([k \in DOMAIN meta |-> Item(k)]) \o <<93, 125>>

SingleVal(meta) ==
  LET Item(k) == EscapeString(meta[k].name) \o <<Colon>> \o EscapeString(meta[k].value)
                   \o (IF k < Len(meta) THEN <<Comma>> ELSE << >>)
  IN <<123>> \o FlattenSeq([k \in DOMAIN meta |-> Item(k)]) \o <<125>>

Strings(toks) == SelectSeq([k \in DOMAIN toks |-> k], LAMBDA k : toks[k].delim = Quote)

(* The strings of depth 2 are values of the key of depth 1 before them.    *)
UnmarshalMulti(toks) ==
  LET depth == Depths(toks)
      Step(acc, k) == IF depth[k] = 1 THEN [acc EXCEPT !.key = toks[k].str]
                      ELSE [acc EXCEPT !.buf = Append(@, [name |-> acc.key, value |-> toks[k].str])]
  IN FoldLeft(Step, [key |-> << >>, buf |-> << >>], Strings(toks)).buf

(* Keys and values in turn.                                                *)
UnmarshalSingle(toks) ==
  LET ks == Strings(toks)
  IN [k \in 1 .. Len(ks) \div 2 |-> [name |-> toks[ks[2 * k - 1]].str, value |-> toks[ks[2 * k]].str]]

-----------------------------------------------------------------------------
(* Requests.  The keys of a JSON request are shortened to their first byte.*)

LastOf(s, b) == LET at == {k \in DOMAIN s : s[k] = b}
                IN IF at = {} THEN 0 ELSE CHOOSE k \in at : \A j \in at : j <= k

MethodToJSON(m) ==
  LET s == IF m # << >> /\ m[1] = Slash THEN Tail(m) ELSE m
      k == LastOf(s, Slash)
  IN IF k = 0 THEN s ELSE [s EXCEPT ![k] = Dot]

(* Mutant of MethodFromJSON: the first dot becomes the slash.              *)
MethodFromJSONFirst(m) ==
  IF m = << >> \/ m[1] = Slash THEN m
  ELSE LET at == {k \in DOMAIN m : m[k] = Dot}
           k == IF at = {} THEN 0 ELSE CHOOSE k \in at : \A j \in at : k <= j
       IN <<Slash>> \o IF k = 0 THEN m ELSE [m EXCEPT ![k] = Slash]

(* Also reflection.NormalizeMethod.                                        *)
MethodFromJSON(m) ==
  IF m = << >> \/ m[1] = Slash THEN m
  ELSE LET k == LastOf(m, Dot) IN <<Slash>> \o IF k = 0 THEN m ELSE [m EXCEPT ![k] = Slash]

(* The methods of the store of descriptors.                                *)
Known == {MethodFromJSON(name) : name \in Names}

(* dynamic.Message: a message as a JSON object and back.                   *)
MessageJSON(m) == <<123>> \o EscapeString(<< >>) \o <<Colon>> \o EscapeString(m) \o <<125>>
MessageBytes(toks) == toks[Strings(toks)[2]].str

Key(b) == EscapeString(<<b>>) \o <<Colon>>

EncodeJSON(d, metadata) ==
  <<123>> \o Key(116) \o EscapeString(d.tag)
    \o <<Comma>> \o Key(99) \o EscapeString(MethodToJSON(d.method))
    \o <<Comma>> \o Key(109) \o metadata
    \o <<Comma>> \o Key(112) \o MessageJSON(d.message) \o <<125>>

(* The tokens of the value of a key of the object.                         *)
Value(toks, b) ==
  LET depth == Depths(toks)
      k == CHOOSE k \in DOMAIN toks :
             depth[k] = 1 /\ toks[k].str = <<b>> /\ toks[k + 1].delim = Colon
      e == CHOOSE e \in (k + 2) .. Len(toks) :
             /\ depth[e] = 1 /\ toks[e].delim \in {Comma, 125}
             /\ \A j \in (k + 2) .. (e - 1) : ~ (depth[j] = 1 /\ toks[j].delim \in {Comma, 125})
  IN SubSeq(toks, k + 2, e - 1)

DecodeJSON(text, single) ==
  LET toks == Lex(text)
      meta == Value(toks, 109)
  IN
  [tag |-> Value(toks, 116)[1].str, method |-> MethodFromJSON(Value(toks, 99)[1].str),
   metadata |-> IF single THEN UnmarshalSingle(meta) ELSE UnmarshalMulti(meta),
   message |-> MessageBytes(Value(toks, 112))]

EncodeBinary(d) ==
  d.tag \o <<NL>> \o d.method \o <<NL>> \o MultiVal(d.metadata) \o <<NL>> \o d.message

(* nextLine: the bytes before the first line end, and those after it.      *)
NextLine(in) ==
  LET at == {k \in DOMAIN in : in[k] = NL}
      k == CHOOSE k \in at : \A j \in at : k <= j
  IN IF at = {} THEN <<<< >>, << >>>>
     ELSE <<SubSeq(in, 1, k - 1), SubSeq(in, k + 1, Len(in))>>

DecodeBinary(b) ==
  LET tag == NextLine(b)
      method == NextLine(tag[2])
      meta == NextLine(method[2])
  IN [tag |-> tag[1], method |-> method[1], metadata |-> UnmarshalMulti(Lex(meta[1])),
      message |-> meta[2]]

(* What a request may be written as: MultiVal sorts, SingleVal does not.   *)
Encodings(format, d) ==
  CASE format = "pandora.json" -> {EncodeJSON(d, SingleVal(d.metadata))}
    [] format = "ozon.json" -> {EncodeJSON(d, MultiVal(meta)) : meta \in Sorted(d.metadata)}
    [] format = "ozon.binary" ->
         {EncodeBinary([d EXCEPT !.metadata = meta]) : meta \in Sorted(d.metadata)}

Decode(format, text) ==
  CASE format = "pandora.json" -> DecodeJSON(text, TRUE)
    [] format = "ozon.json" -> DecodeJSON(text, FALSE)
    [] format = "ozon.binary" -> DecodeBinary(text)

-----------------------------------------------------------------------------
(* utils/lru.  list is in order of use, items are the keys of the map.     *)

EmptyCache == [items |-> {}, list |-> << >>]

(* Mutant of GetOrAdd: a hit does not move to the front.                   *)
GetOrAddFIFO(c, key) ==
  LET full == Cardinality(c.items) >= CacheSize IN
  IF key \in c.items THEN c
  ELSE [items |-> (IF full THEN c.items \ {Last(c.list)} ELSE c.items) \cup {key},
        list |-> <<key>> \o (IF full THEN Front(c.list) ELSE c.list)]

GetOrAdd(c, key) ==
  LET full == Cardinality(c.items) >= CacheSize IN
  IF key \in c.items THEN [c EXCEPT !.list = <<key>> \o Remove(@, key)]
  ELSE [items |-> (IF full THEN c.items \ {Last(c.list)} ELSE c.items) \cup {key},
        list |-> <<key>> \o (IF full THEN Front(c.list) ELSE c.list)]

(* The strings the load command's decoder asks its caches for.  Names and  *)
(* values of metadata both go to kLRU.                                     *)
Asked(d) ==
  [tags |-> <<d.tag>>, methods |-> <<d.method>>,
   k |-> FlattenSeq([k \in DOMAIN d.metadata |->
           IF k > 1 /\ d.metadata[k].name = d.metadata[k - 1].name
             THEN <<d.metadata[k].value>> ELSE <<d.metadata[k].name, d.metadata[k].value>>])]

-----------------------------------------------------------------------------
(* The way of a file's requests.                                           *)

VARIABLES
  pc, conv, bufLen,    \* from and to of the conversion; the reader's buffer
  msgs, texts,         \* the requests of the file, and how they were written
  file, unprocessed,   \* what is left of a JSON file; read and not returned yet
  k, record, data, out, loaded,
  errors,              \* the requests reported to errWriter, by number
  caches, asked        \* the decoder's caches; history: what they were asked for

vars == <<pc, conv, bufLen, msgs, texts, file, unprocessed, k, record, data, out, loaded,
          errors, caches, asked>>

Caches == {"tags", "methods", "k"}

Lines == conv[1] # "ozon.binary"

(* A line of ozon.binary has no line end in it, and pandora.json one value *)
(* for each name.                                                          *)
Writable(d) ==
  /\ "ozon.binary" \in Range(conv) => ~ Contains(d.tag, NL)
  /\ conv[1] = "pandora.json" =>
       \A a, b \in DOMAIN d.metadata : d.metadata[a].name = d.metadata[b].name => a = b

Init ==
  /\ pc = "write" /\ conv \in Conversions /\ bufLen \in BufLens
  /\ msgs \in Files /\ \A d \in Range(msgs) : Writable(d)
  /\ texts = << >> /\ file = << >> /\ unprocessed = << >>
  /\ k = 0 /\ record = << >> /\ data = << >> /\ out = << >> /\ loaded = << >>
  /\ errors = << >>
  /\ caches = [c \in Caches |-> EmptyCache] /\ asked = [c \in Caches |-> << >>]

(* A file is written, by Writer.WriteNext or by hand.  Requests of         *)
(* ozon.binary carry their length; DataSource has that.                    *)
WriteNext ==
  /\ pc = "write" /\ Len(texts) < Len(msgs)
  /\ \E text \in Encodings(conv[1], msgs[Len(texts) + 1]) :
       /\ texts' = Append(texts, text)
       /\ file' = IF Lines THEN file \o text \o <<NL>> ELSE << >>
  /\ UNCHANGED <<pc, conv, bufLen, msgs, unprocessed, k, record, data, out, loaded, errors, caches, asked>>

(* The last line may lack its line end.                                    *)
EndFile ==
  /\ pc = "write" /\ Len(texts) = Len(msgs)
  /\ pc' = "read"
  /\ file' \in IF Lines THEN {file, Front(file)} ELSE {file}
  /\ UNCHANGED <<conv, bufLen, msgs, texts, unprocessed, k, record, data, out, loaded, errors, caches, asked>>

(* Reader.ReadNext of the JSON formats.                                    *)
RECURSIVE NextRecord(_, _, _)
NextRecord(u, f, p) ==
  IF u = << >>
    THEN IF f = << >> THEN [p |-> p, u |-> u, f |-> f, eof |-> p = << >>]
         ELSE LET n == IF bufLen < Len(f) THEN bufLen ELSE Len(f)
              IN NextRecord(SubSeq(f, 1, n), SubSeq(f, n + 1, Len(f)), p)
    ELSE IF Contains(u, NL) THEN [p |-> p \o NextLine(u)[1], u |-> NextLine(u)[2], f |-> f, eof |-> FALSE]
         ELSE NextRecord(<< >>, f, p \o u)

ReadNext ==
  /\ pc = "read"
  /\ LET r == IF Lines THEN NextRecord(unprocessed, file, << >>)
              ELSE [p |-> IF k < Len(texts) THEN texts[k + 1] ELSE << >>, u |-> << >>, f |-> << >>,
                    eof |-> k = Len(texts)]
     IN /\ unprocessed' = r.u /\ file' = r.f
        /\ IF r.eof THEN pc' = "end" /\ UNCHANGED <<k, record>>
                    ELSE pc' = "decode" /\ k' = k + 1 /\ record' = r.p
  /\ UNCHANGED <<conv, bufLen, msgs, texts, data, out, loaded, errors, caches, asked>>

(* A method without a descriptor is an error, from JSON in the decoder, to *)
(* JSON in the encoder.  The convert command leaves failOnConvertErrors    *)
(* unset: the error is written to errWriter, and the next request is read. *)
ReportError == pc' = "read" /\ errors' = Append(errors, k)

Unmarshal ==
  /\ pc = "decode"
  /\ data' = Decode(conv[1], record)
  /\ IF Lines /\ data'.method \notin Known THEN ReportError
                                          ELSE pc' = "encode" /\ UNCHANGED errors
  /\ UNCHANGED <<conv, bufLen, msgs, texts, file, unprocessed, k, record, out, loaded, caches, asked>>

Marshal ==
  /\ pc = "encode"
  /\ IF conv[2] = "ozon.json" /\ data.method \notin Known
       THEN ReportError /\ UNCHANGED out
       ELSE pc' = "load" /\ out' \in Encodings(conv[2], data) /\ UNCHANGED errors
  /\ UNCHANGED <<conv, bufLen, msgs, texts, file, unprocessed, k, record, data, loaded, caches, asked>>

(* The output is read: ozon.binary by the decoder of the load command.     *)
Load ==
  /\ pc = "load"
  /\ loaded' = Decode(conv[2], out)
  /\ IF conv[2] = "ozon.binary"
       THEN /\ asked' = [c \in Caches |-> asked[c] \o Asked(loaded')[c]]
            /\ caches' = [c \in Caches |-> FoldLeft(GetOrAdd, caches[c], Asked(loaded')[c])]
       ELSE UNCHANGED <<caches, asked>>
  /\ pc' = "read"
  /\ UNCHANGED <<conv, bufLen, msgs, texts, file, unprocessed, k, record, data, out, errors>>

Next == WriteNext \/ EndFile \/ ReadNext \/ Unmarshal \/ Marshal \/ Load

Spec == Init /\ [][Next]_vars

-----------------------------------------------------------------------------
(* Whatever strings a request has, and wherever the reader's buffer ends,  *)
(* the lines read from a JSON file are the lines written: EscapeString     *)
(* leaves no line end in them, and the last one needs none after it.       *)
LinesKept ==
  /\ pc = "decode" => record = texts[k]
  /\ pc = "end" => k = Len(texts)

RECURSIVE Repair(_)
Repair(s) ==
  IF s = << >> THEN << >>
  ELSE LET n == IF s[1] < 128 THEN 1 ELSE DecodeRune(s)
       IN (IF n = 1 /\ s[1] >= 128 THEN <<239, 191, 189>> ELSE SubSeq(s, 1, n))
            \o Repair(SubSeq(s, n + 1, Len(s)))

(* The values each name has, with their number.                            *)
Pairs(meta) ==
  LET fixed == [a \in DOMAIN meta |-> <<Repair(meta[a].name), Repair(meta[a].value)>>]
  IN [p \in Range(fixed) |-> Cardinality({a \in DOMAIN fixed : fixed[a] = p})]

(* A request that is converted and then read, by the load command or for   *)
(* another conversion, is the request that was written: tag and metadata   *)
(* up to bytes that are not UTF-8 and up to the order of the metadata.     *)
(* Those with a method that has no descriptor are reported, each once, and *)
(* do not end the conversion; no other one is.                             *)
RequestsKept ==
  /\ pc = "read" /\ k > 0 /\ msgs[k].method \in Known =>
       LET d == msgs[k] IN
       /\ loaded.tag = Repair(d.tag) /\ loaded.method = d.method /\ loaded.message = d.message
       /\ Pairs(loaded.metadata) = Pairs(d.metadata)
  /\ pc \in {"read", "end"} =>
       errors = SelectSeq([j \in 1 .. k |-> j], LAMBDA j : msgs[j].method \notin Known)
  /\ pc = "end" => k = Len(msgs)

(* The keys asked for, the last one first, each once.                      *)
Recent(s) == FoldLeft(LAMBDA r, x : <<x>> \o Remove(r, x), << >>, s)

(* A cache holds the strings asked for last, in order, and its map and its *)
(* list agree: no element outlives its key.                                *)
CachesRecent ==
  \A c \in Caches :
    /\ caches[c].items = Range(caches[c].list)
    /\ LET r == Recent(asked[c])
       IN caches[c].list = SubSeq(r, 1, IF Len(r) < CacheSize THEN Len(r) ELSE CacheSize)
=============================================================================
