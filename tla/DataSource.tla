----------------------------- MODULE DataSource -----------------------------
(***************************************************************************)
(* Where requests come from: FileDataSource, which reads the file in       *)
(* cycles while the load runs, and InmemDataSource, which reads it once    *)
(* before.  The load loops of all clients fetch from one source, and the   *)
(* sender of a client releases a request when its last byte is written.    *)
(* Request objects and buffers are recycled, and the message of a request  *)
(* is a part of its buffer.  The file is a sequence of bytes that the      *)
(* reader gets in chunks of any length.                                    *)
(***************************************************************************)
EXTENDS Integers, Sequences, FiniteSets, SequencesExt

CONSTANTS
  Clients,
  Sources,      \* of "file" and "inmem"
  Bodies,       \* the requests of the file, a sequence of sequences of bytes
  File, Offset, \* the bytes of the file, and where in them each request begins
  BufSize,      \* size of the reader's buffer (4096)
  MaxFetches,   \* bound on the calls of Fetch
  MaxInFlight   \* bound on the requests of a client that are not released

NL == 10        \* '\n'; the digits '0' to '9' are the bytes 0..9 here

ASSUME BodiesAssumption == Bodies \in Seq(Seq(Nat)) /\ Bodies # << >>
ASSUME BoundsAssumption ==
  {BufSize, MaxInFlight} \subseteq Nat \ {0} /\ MaxFetches \in Nat
(* The index of InmemDataSource is an int32: it is followed for as long as *)
(* it does not overflow, where it turns negative and Fetch panics.         *)
ASSUME IndexAssumption == MaxFetches <= 2147483647
ASSUME NamesAssumption == "none" \notin Clients /\ Sources \subseteq {"file", "inmem"}

(* strconv.AppendUint: s is n in decimal.  The values of the beginnings of *)
(* s are v; only 0 itself begins with a 0.                                 *)
IsDecimal(s, n) ==
  /\ s # << >> /\ s \in Seq(0 .. 9) /\ (s[1] = 0 => Len(s) = 1)
  /\ \E v \in [0 .. Len(s) -> 0 .. n] :
       /\ v[0] = 0 /\ v[Len(s)] = n
       /\ \A m \in 1 .. Len(s) : v[m] = 10 * v[m - 1] + s[m]

(* Writer.WriteNext writes for a request a text that has its length in     *)
(* decimal, of d digits, and the request, each on a line.                  *)
WriteNext(body, text) ==
  \E d \in 1 .. Len(text) :
    LET digits == SubSeq(text, 1, d)
    IN IsDecimal(digits, Len(body)) /\ text = digits \o <<NL>> \o body \o <<NL>>

(* The file is what WriteNext wrote for one request after the other.       *)
ASSUME FileAssumption ==
  /\ File \in Seq(Nat) /\ Offset \in [1 .. Len(Bodies) + 1 -> 0 .. Len(File)]
  /\ Offset[1] = 0 /\ Offset[Len(Bodies) + 1] = Len(File)
  /\ \A k \in DOMAIN Bodies :
       /\ Offset[k] <= Offset[k + 1]
       /\ WriteNext(Bodies[k], SubSeq(File, Offset[k] + 1, Offset[k + 1]))

VARIABLES
  source,
  pc, cur,                \* Fetch of each client: program counter, request object
  lock,                   \* FileDataSource.mu: client that holds it, or "none"
  phase, acc, buf,        \* ReadNext: where it is, the size read, the buffer it fills
  unprocessed, offset,    \* bytes in the reader's buffer, position in the file
  pool, bytesPool,        \* free request objects and free buffers, as stacks
  mem,                    \* contents of each buffer made
  bytes,                  \* buffer of each request object made
  i, datas,               \* InmemDataSource
  flight, releasing,      \* per client: requests not released, the one being released
  read, want, taken       \* history: number of requests read, what each object was fetched
                          \*   as, how often each request was fetched

readVars == <<phase, acc, buf, unprocessed, offset>>
poolVars == <<pool, bytesPool>>
vars == <<source, pc, cur, lock, readVars, poolVars, mem, bytes, i, datas, flight, releasing,
          read, want, taken>>

Objects == DOMAIN bytes
Buffers == DOMAIN mem

Init ==
  /\ source \in Sources
  /\ pc = [c \in Clients |-> IF source = "file" THEN "idle" ELSE "init"]
  /\ cur = [c \in Clients |-> 0] /\ lock = "none"
  /\ phase = (IF source = "file" THEN "none" ELSE "start") /\ acc = 0 /\ buf = 0
  /\ unprocessed = << >> /\ offset = 0
  /\ pool = << >> /\ bytesPool = << >> /\ mem = << >> /\ bytes = << >>
  /\ i = 0 /\ datas = << >>
  /\ flight = [c \in Clients |-> {}] /\ releasing = [c \in Clients |-> 0]
  /\ read = 0 /\ want = << >> /\ taken = [k \in DOMAIN Bodies |-> 0]

-----------------------------------------------------------------------------
(* Reader.ReadNext.                                                        *)

(* Mutant of Start: the buffer stays in the pool.                          *)
StartShared(ph) ==
  /\ phase' = ph /\ acc' = 0
  /\ IF bytesPool = << >>
     THEN buf' = Len(mem) + 1 /\ mem' = Append(mem, << >>)
     ELSE buf' = Last(bytesPool) /\ mem' = [mem EXCEPT ![buf'] = << >>]
  /\ UNCHANGED bytesPool

(* PooledReader.ReadNext takes a buffer.                                   *)
Start(ph) ==
  /\ phase' = ph /\ acc' = 0
  /\ IF bytesPool = << >>
     THEN buf' = Len(mem) + 1 /\ mem' = Append(mem, << >>) /\ UNCHANGED bytesPool
     ELSE /\ buf' = Last(bytesPool) /\ mem' = [mem EXCEPT ![buf'] = << >>]
          /\ bytesPool' = Front(bytesPool)

Reading == phase \in {"size", "body", "skip"}

(* Mutant of Rewind: the end of the file remains the end.                  *)
RewindNot == UNCHANGED <<phase, unprocessed, offset>>

(* CyclicReader.Read at the end of the file: rewind, no bytes.             *)
Rewind == offset' = 0 /\ UNCHANGED <<phase, unprocessed>>

(* fillUnprocessed.  At the end of the file ReadNext has read a request,   *)
(* or InmemDataSource.Init has read them all.                              *)
Fill ==
  /\ Reading /\ unprocessed = << >>
  /\ IF offset < Len(File)
     THEN \E n \in 1..BufSize :
            /\ offset + n <= Len(File)
            /\ unprocessed' = SubSeq(File, offset + 1, offset + n)
            /\ offset' = offset + n
            /\ UNCHANGED phase
     ELSE IF source = "file" THEN Rewind
     ELSE phase' = (IF phase = "skip" THEN "read" ELSE "eof") /\ UNCHANGED <<unprocessed, offset>>
  /\ UNCHANGED <<source, pc, cur, lock, acc, buf, poolVars, mem, bytes, i, datas, flight,
                 releasing, read, want, taken>>

(* Mutant of AddDigit: the digits before are forgotten.                    *)
AddDigitAnew(size, d) == d

AddDigit(size, d) == 10 * size + d

(* One turn of the loop of fillSize: a digit, or the end of the line.      *)
FillSize ==
  /\ phase = "size" /\ unprocessed # << >>
  /\ IF Head(unprocessed) = NL THEN phase' = "body" /\ UNCHANGED acc
                               ELSE acc' = AddDigit(acc, Head(unprocessed)) /\ UNCHANGED phase
  /\ unprocessed' = Tail(unprocessed)
  /\ UNCHANGED <<source, pc, cur, lock, buf, offset, poolVars, mem, bytes, i, datas, flight,
                 releasing, read, want, taken>>

(* Copy what there is of the request into the buffer.                      *)
CopyBody ==
  /\ phase = "body"
  /\ LET left == acc - Len(mem[buf])
         k == IF left < Len(unprocessed) THEN left ELSE Len(unprocessed)
     IN /\ left = 0 \/ unprocessed # << >>
        /\ mem' = [mem EXCEPT ![buf] = @ \o SubSeq(unprocessed, 1, k)]
        /\ unprocessed' = SubSeq(unprocessed, k + 1, Len(unprocessed))
        /\ phase' = IF left = k THEN "skip" ELSE "body"
  /\ UNCHANGED <<source, pc, cur, lock, acc, buf, offset, poolVars, bytes, i, datas, flight,
                 releasing, read, want, taken>>

(* Skip the ends of lines after the request.                               *)
SkipLines ==
  /\ phase = "skip" /\ unprocessed # << >>
  /\ IF Head(unprocessed) = NL THEN unprocessed' = Tail(unprocessed) /\ UNCHANGED phase
                               ELSE phase' = "read" /\ UNCHANGED unprocessed
  /\ UNCHANGED <<source, pc, cur, lock, acc, buf, offset, poolVars, mem, bytes, i, datas, flight,
                 releasing, read, want, taken>>

-----------------------------------------------------------------------------
(* InmemDataSource.Init.                                                   *)

InitReads ==
  /\ phase = "start" /\ Start("size")
  /\ UNCHANGED <<source, pc, cur, lock, unprocessed, offset, pool, bytes, i, datas, flight,
                 releasing, read, want, taken>>

InitAppends ==
  /\ source = "inmem" /\ phase = "read"
  /\ datas' = Append(datas, buf) /\ read' = read + 1
  /\ phase' = "start"
  /\ UNCHANGED <<source, pc, cur, lock, acc, buf, unprocessed, offset, poolVars, mem, bytes, i,
                 flight, releasing, want, taken>>

InitDone ==
  /\ phase = "eof"
  /\ phase' = "none" /\ pc' = [c \in Clients |-> "idle"]
  /\ UNCHANGED <<source, cur, lock, acc, buf, unprocessed, offset, poolVars, mem, bytes, i, datas,
                 flight, releasing, read, want, taken>>

-----------------------------------------------------------------------------
(* Fetch.                                                                  *)

Fetches == IF source = "file" THEN read + Cardinality({c \in Clients : pc[c] # "idle"})
           ELSE i + Cardinality({c \in Clients : pc[c] = "next"})

(* Take a request object from the pool or make one.                        *)
Acquire(c) ==
  /\ pc[c] = "idle" /\ Fetches < MaxFetches /\ Cardinality(flight[c]) < MaxInFlight
  /\ IF pool = << >>
     THEN /\ bytes' = Append(bytes, 0) /\ want' = Append(want, 0)
          /\ cur' = [cur EXCEPT ![c] = Len(bytes) + 1] /\ UNCHANGED pool
     ELSE /\ cur' = [cur EXCEPT ![c] = Last(pool)] /\ pool' = Front(pool)
          /\ UNCHANGED <<bytes, want>>
  /\ pc' = [pc EXCEPT ![c] = IF source = "file" THEN "lock" ELSE "next"]
  /\ UNCHANGED <<source, lock, readVars, bytesPool, mem, i, datas, flight, releasing, read,
                 taken>>

Lock(c) ==
  /\ pc[c] = "lock" /\ lock = "none"
  /\ lock' = c /\ pc' = [pc EXCEPT ![c] = "read"]
  /\ Start("size")
  /\ UNCHANGED <<source, cur, unprocessed, offset, pool, bytes, i, datas, flight,
                 releasing, read, want, taken>>

Fetched(c, b, k) ==
  /\ bytes' = [bytes EXCEPT ![cur[c]] = b] /\ want' = [want EXCEPT ![cur[c]] = k]
  /\ taken' = [taken EXCEPT ![k] = @ + 1]
  /\ flight' = [flight EXCEPT ![c] = @ \cup {cur[c]}] /\ cur' = [cur EXCEPT ![c] = 0]
  /\ pc' = [pc EXCEPT ![c] = "idle"]

(* ReadNext returns; unlock.  The request is decoded in place.             *)
Unlock(c) ==
  /\ pc[c] = "read" /\ lock = c /\ phase = "read"
  /\ lock' = "none" /\ phase' = "none"
  /\ read' = read + 1
  /\ Fetched(c, buf, (read % Len(Bodies)) + 1)
  /\ UNCHANGED <<source, acc, buf, unprocessed, offset, poolVars, mem, i, datas, releasing>>

(* InmemDataSource: the next request of all.  It starts with the second.   *)
NextData(c) ==
  /\ pc[c] = "next"
  /\ i' = i + 1
  /\ LET k == (i' % Len(datas)) + 1 IN Fetched(c, datas[k], k)
  /\ UNCHANGED <<source, lock, readVars, poolVars, mem, datas, releasing, read>>

-----------------------------------------------------------------------------
(* Release, by the sender of a client: the buffer, then the object.        *)

ReleaseBytes(c) ==
  /\ releasing[c] = 0
  /\ \E o \in flight[c] :
       /\ releasing' = [releasing EXCEPT ![c] = o]
       /\ bytesPool' = IF source = "file" THEN Append(bytesPool, bytes[o]) ELSE bytesPool
       /\ flight' = [flight EXCEPT ![c] = @ \ {o}]
  /\ UNCHANGED <<source, pc, cur, lock, readVars, pool, mem, bytes, i, datas,
                 read, want, taken>>

ReleaseObject(c) ==
  /\ releasing[c] # 0
  /\ pool' = Append(pool, releasing[c])
  /\ releasing' = [releasing EXCEPT ![c] = 0]
  /\ UNCHANGED <<source, pc, cur, lock, readVars, bytesPool, mem, bytes, i, datas, flight,
                 read, want, taken>>

-----------------------------------------------------------------------------
(* Mutant of Release: the object goes first, and with it the buffer it has *)
(* by then.                                                                *)
ReleaseSwapped(c) ==
  /\ \/ /\ releasing[c] = 0
        /\ \E o \in flight[c] : /\ releasing' = [releasing EXCEPT ![c] = o]
                                /\ flight' = [flight EXCEPT ![c] = @ \ {o}]
                                /\ pool' = Append(pool, o)
        /\ UNCHANGED bytesPool
     \/ /\ releasing[c] # 0
        /\ releasing' = [releasing EXCEPT ![c] = 0]
        /\ bytesPool' = Append(bytesPool, bytes[releasing[c]])
        /\ UNCHANGED <<flight, pool>>
  /\ UNCHANGED <<source, pc, cur, lock, readVars, mem, bytes, i, datas, read,
                 want, taken>>

ReadNext == Fill \/ FillSize \/ CopyBody \/ SkipLines
InmemInit == InitReads \/ InitAppends \/ InitDone
Fetch(c) == Acquire(c) \/ Lock(c) \/ Unlock(c) \/ NextData(c)
Release(c) == ReleaseBytes(c) \/ ReleaseObject(c)

Next == ReadNext \/ InmemInit \/ \E c \in Clients : Fetch(c) \/ Release(c)

Spec == Init /\ [][Next]_vars

(* Goroutines that can run do run.                                         *)
FairSpec ==
  Spec /\ WF_vars(ReadNext) /\ WF_vars(InmemInit)
       /\ \A c \in Clients : WF_vars(Fetch(c)) /\ WF_vars(Release(c))

-----------------------------------------------------------------------------
TypeOK ==
  /\ source \in Sources /\ pc \in [Clients -> {"init", "idle", "lock", "read", "next"}]
  /\ cur \in [Clients -> {0} \cup Objects] /\ lock \in {"none"} \cup Clients
  /\ phase \in {"none", "start", "size", "body", "skip", "read", "eof"}
  /\ acc \in Nat /\ buf \in {0} \cup Buffers
  /\ unprocessed \in Seq(Nat) /\ Len(unprocessed) <= BufSize /\ offset \in 0..Len(File)
  /\ pool \in Seq(Objects) /\ bytesPool \in Seq(Buffers)
  /\ mem \in Seq(Seq(Nat)) /\ bytes \in Seq({0} \cup Buffers) /\ datas \in Seq(Buffers)
  /\ want \in Seq({0} \cup DOMAIN Bodies) /\ Len(want) = Len(bytes)
  /\ taken \in [DOMAIN Bodies -> Nat]
  /\ flight \in [Clients -> SUBSET Objects] /\ releasing \in [Clients -> {0} \cup Objects]
  /\ i \in Nat /\ read \in Nat

(* However the file is cut into chunks, and whichever client reads, the    *)
(* requests that are read are those of the file, in its order, again and   *)
(* again: a request that has just been read is the next one.               *)
ReadInOrder == phase = "read" => mem[buf] = Bodies[(read % Len(Bodies)) + 1]

(* What is being sent stays as it was fetched until it is released: the    *)
(* buffer behind a message in flight is not filled with another request.   *)
RequestsIntact ==
  \A c \in Clients : \A o \in flight[c] : mem[bytes[o]] = Bodies[want[o]]

(* An object that a client fetches into, or that is in flight, belongs to  *)
(* that client alone, and is not in the pool; nor is any there twice.      *)
ObjectsOwned ==
  LET owned(c) == flight[c] \cup ({cur[c], releasing[c]} \ {0})
  IN /\ IsInjective(pool)
     /\ \A c \in Clients : /\ owned(c) \cap Range(pool) = {}
                           /\ \A d \in Clients \ {c} : owned(c) \cap owned(d) = {}

(* The load is spread evenly over the requests of the file, whoever        *)
(* fetches and from wherever: none is fetched two times more than another. *)
EvenlySpread == \A j, k \in DOMAIN Bodies : taken[j] <= taken[k] + 1

(* The state has its types, objects have one owner, and the load is even.  *)
Inv == TypeOK /\ ObjectsOwned /\ EvenlySpread

(* Fetch returns: the lock is handed on and the end of the file is not the *)
(* end of the requests.                                                    *)
FetchReturns == \A c \in Clients : pc[c] # "idle" ~> pc[c] = "idle"
=============================================================================
