# framer: a TLA+ verification project

framer is a gRPC load generator. It reads requests from a file, turns each into
HTTP/2 frames, sends them over a few connections as fast as the server and the
schedule allow, reads just enough of the answers to know how each request
ended, and writes reports. A second command converts request files between
formats. The program is written for speed: objects and buffers are pooled and
recycled, frames are gathered and written from two arrays used in turn, answers
are parsed in place from two receive buffers, and all of it is shared by
goroutines that block on channels, mutexes and condition variables. This is
where it can go wrong and where a unit test hardly gets; it is what the modules
here are about.

Contents: [inventory](#inventory), [modules](#modules-and-code),
[runs](#runs), [fairness](#fairness), [proofs](#proofs),
[what was found](#what-was-found), [what is not modelled](#what-is-not-modelled),
[plan](#plan).

To check: `tlc -config X.cfg M` for a run of `PROJECT.json`,
`tlapm M.tla` for the proofs, which are in the modules whose names end in
`Proofs`.

## Inventory

| Part (source) | State | Operations | Shared with | Hard about it | Correct means |
|---|---|---|---|---|---|
| Flow control window (`loader/flowcontrol`) | `n`, `ok`, waiters | Wait, Add, Reset, Disable | sender waits; receiver adds; pool resets | wake-ups, `uint32` arithmetic | no waiter sleeps on a sufficient window; the window is exact |
| Stream limiter (`loader/streams/limiter`) | `quota`, waiters | WaitAllow, Release | sender, receiver | the signal is sent after unlocking | no free slot is slept through |
| Timeout queue (`loader/timeout_queue.go`) | ids with deadlines, `done` | Add, Next, Close | a goroutine of each `Loader.Run` | the signal after unlocking, Close without the mutex | ids come in order, each once; no Add goes unheard |
| Connection setup (`setupHTTP2`, `newLoader`) | `loaderConfig` | preface, SETTINGS, ack | the adapter, the limiter, the pool take their limits from it | 0 stands for "not announced" | the client keeps to the limits of the server |
| Pool and store (`loader/streams/pool`, `store`) | free objects, `inUse`; sharded map id → stream | Acquire, End, WaitAllReleased; Set, Get, Delete, GetAndDelete, Each | sender, receiver, load loop, goaway visit | recycling while another goroutine still has the object | an object belongs to one live stream; `inUse` counts them |
| Sender (`loader/sender`, `send`) | `streamID`, the stream, the frames left | Send | pool, store, limiter, windows, `frameChan` | blocks in five places | DATA stays within the windows, streams within the limit |
| Frame processors, `sendLoop` (`loader/sender`) | two arrays with callbacks, timer | the select loop, doWrite, WriteTo, onRelease | `frameChan`, `priorityFrameChan`, `writeCmdChan` | exchange of the arrays, timer, Flush, failing writes | a FIFO: in order, written once, called back after the write, in time |
| Receiver (`loader/reciever`) | two buffers, the partial frame, per-type accumulators | read, Framer.Next, one processor per frame type | store, limiter, windows, priority channel | frames cut at any byte | each frame is handled as if it came whole; credit is returned |
| Loader and load command (`loader/loader.go`, `cmd/framer/cmd_load.go`) | contexts, error groups, deadline | Run, Flush, WaitResponses; the load loop | everything above, the reporters | ends and failures in any order | the command ends; nothing is reported after Close; every request is reported |
| Request adapter (`datasource/request.go`, middleware, HPACK wrapper) | frames, size, header buffer; the encoder's table | SetUp | one per request object, reused; one encoder per connection | lengths at the frame size; the table outlives the request and evicts | a server reads the fields and the message that were written |
| Data sources (`datasource`, `formats/.../binary/io`, pools) | file position, chunk, free lists, counter | Fetch, Release, Init | all clients; Release comes from `sendLoop` | chunks, rewinding, reuse of memory | requests come whole and in order, and stay intact until released |
| Reporters (`report/phout`, `supersimple`, `multi`) | pooled states, channel, counters | Acquire, OnHeader, RSTStream, ..., End, Run, Close | sender and receiver of every client | states are read after the stream ended; counters read one by one | each line is true of its stream; the reports agree and are complete |
| Converter (`formats/converter`, `convert_strategy.go`) | channels, turn, `closedChans`, read buffers | runRead, runConvert, runWrite | each other, the error group | order, blocking on failure, buffer reuse | output in the order of the input; no error means nothing is missing |
| Formats (`formats/grpc`, `formats/internal`, `cmd_convert.go`) | the reader's buffer | read, decode, encode, write, in three formats | converter | any byte in any string, buffers that end anywhere | what is read back is what was written |
| Request decoder, LRU (`datasource/decoder`, `utils/lru`) | caches: a map and a list each | Unmarshal, GetOrAdd | data sources | the limit of the cache | map and list agree; the strings used last are kept |

How a request travels: the load loop of a client fetches a request (data
source), asks the scheduler, and calls `DoRequest`. `send` takes a slot
(limiter) and a stream object (pool, which takes a state from the reporters and
resets the window), lets the request build its frames (adapter), puts the
stream in the store, and for each frame waits for the stream's and the
connection's window and queues it. The frame processor gathers frames and hands
arrays to `sendLoop`, which writes them and runs their callbacks; the last one
releases the request to the data source. The receiver parses the answers; the
frame that ends a stream reports it, recycles the object, deletes the store
entry and frees the slot. PING acks and WINDOW_UPDATEs go back through the
priority channel. After the last request the load loop flushes, waits until
`inUse` is zero or five seconds have passed, and the command cancels the
contexts and closes the reporters.

`PROJECT.json` lists under `hazards` what is hard to test here, line by line,
with the property that watches each.

## Modules and code

One module per part. `map` in `PROJECT.json` names the lines behind each
definition. Names are those of the source; a variable `pc`, `spc`, `rpc`, ...
is the place of a goroutine, and one step is one critical section, one channel
operation or one call of a shared object. Definitions whose comment begins with
"Mutant" are wrong versions of the definition after them; they occur in no
specification and serve to see that the properties notice.

* **Credit** is the abstract specification of a counter of credit: what is
  taken was granted before. **FlowControl** (a window: `Park` and `Return` are
  the two ways out of the loop in `Wait`, `Modulus` is the width of `uint32`)
  and **Limiter** (`Release` and the deferred `Signal` are two steps) both
  refine it, and **Streams** uses it in their place. **TimeoutQueue** is the
  third object goroutines sleep on: `LockQueue`, then under the mutex
  `TakeItem`, `QueueClosed` (which keeps the mutex, as the code does) or
  `QueueEmpty` and `SleepReader`; the signals of Add and Close are a step of
  their own. **Waiting** is the sum of the three for one run: a behaviour is one
  of a window, of a limiter or of a queue.
* **Streams** is the core: the life of the streams of a connection. Sender:
  `Send`, `WaitAllow`, `Acquire`, `SetUpError`, `StoreSet`, `WaitStreamWindow`,
  `WaitConnWindow`, `Enqueue`, then `Flush` and `WaitResponses`. Writer:
  `Write`, `Callback`. Receiver: `RecvHeaders`/`EndHeaders`/`Delete`/`Release`
  in the order of the headers processor, `RecvDataOrReset`/`GetAndDelete`/
  `EndTaken` in that of DATA and RST_STREAM (they differ in the code, too),
  `RecvWindowUpdate`, and `RecvGoAway`/`EachShard`/`EachVisit` for GOAWAY. The
  server is any server that keeps to HTTP/2. What may go wrong in an instance
  is the constant `Faults`. `MCStreams` gives requests for TLC.
* **FrameFIFO** is the abstract queue: handed over, written, called back, in
  this order. **SendPipeline** is the frame processor in both modes, `sendLoop`
  and the channels around them, with the two arrays as memory that is really
  shared, and the buffers in which the receiver builds priority frames.
* **Receiver** has the bytes of a few frames arrive in pieces (`ReadByte`,
  `ReadReturns`), the two buffers (`HandOver`), `Framer.Next`
  (`HeaderIncomplete`, `NextPiece`) and an operator per frame type. A byte is
  its place in what the server sends, so a buffer that is overwritten or a piece
  that is cut wrongly shows other places. A `uint32` is its `WordLen` bytes, and
  `Shift` moves bytes in at its low end and old ones out at its high end, which
  is what becomes of a left-over value. `Reference` says what a frame means
  when it comes whole. Acks and WINDOW_UPDATEs are sent on a channel (`Send`)
  whose other end, `TakeFrame`, may leave for good (`SenderLeaves`); the
  processor stops with an error at a type it does not support, at headers that
  cannot be decoded (`DecodingFails`), at SETTINGS that are no ack and at
  GOAWAY, and with a `Panic` at a type its array has no element for.
* **LoadCommand** puts the parts together at the grain of blocking and
  failing: the start (`StartReporter`, `CreateClient` for one client after the
  other, `StartClients`, and `StartFails` at any of these), load loops, frame
  processors, send loops, receivers, the watcher that sets the deadline, the
  reporter, and the main goroutine. Within the parts it counts frames and
  streams instead of following them. A load loop in `DoRequest` waits, never
  looking at a context, for a slot (`WaitAllow`), for the window
  (`WaitWindow`), for room in `frameChan` (`SendFrame`), and, when `SetUp`
  refuses the request, for room in the reporter's channel (`RequestError`).
  The limit and the window are what the server announced, one of `Settings`.
  The windows of stream and connection, waited for one after the other, are one
  window; a frame sent and not read is not told apart from one yet to be sent.
  `MCLoadCommand` gives the settings.
* **Setup** is the exchange of `setupHTTP2` and the limits `newLoader` takes from
  it: `Configure` is the loop over the settings, `Limit` what the sender keeps
  to, `ServerLimit` what the server holds it to. **RequestAdapter** extends it:
  it builds frames out of bytes that say what they are a byte of, with the
  encoder's table on one side and the server's on the other. Both tables have a
  size and evict; the encoder tells the decoder a size the server announced.
  `MCRequest` gives the SETTINGS.
* **DataSource** reads a file, which is a sequence of bytes, in chunks, with
  free lists of objects and buffers and memory that can be overwritten. The size
  line is read digit by digit, the message as far as a chunk goes. `File` and
  `Offset` are constants, and `FileAssumption` says that they are what
  `WriteNext`, the writer's side of the format, makes of the requests one after
  the other: TLC evaluates it, the proofs use it. `WriteNext` and `IsDecimal`
  say what is a right text for a request of any length, rather than compute it.
  `MCDataSource` gives the requests.
* **Reporters** has the objects of the phout and supersimple reporters that
  multi gives to each stream, the channel, and the counters. A line may fail to
  be written (`WriteFails`) and so may the rest in Flush: the phout reporter then
  returns and leaves its channel as it is.
* **Converter** has the three kinds of goroutines of `Process`, the channels,
  and the read buffers.
* **Formats** is what a conversion does to a request: a file is written
  (`WriteNext`), read line by line through a buffer (`NextRecord`), decoded
  (`DecodeJSON`, `DecodeBinary`), encoded (`EncodeJSON`, `EncodeBinary`), and
  the result read again, from ozon.binary by the decoder of the load command
  with its caches (`GetOrAdd`). A request that cannot be decoded or encoded,
  because its method has no descriptor, is reported and passed over
  (`ReportError`). Texts are sequences of bytes, because what can
  go wrong is which bytes are escaped; `Escape`, the sort and grouping of
  metadata and the two forms of a method's name are operators. The lexer of
  easyjson and protobuf's JSON are external. Keys of objects are shortened to a
  byte. `MCFormats` gives the files.

## Runs

| Run | Shows | Distinct states |
|---|---|---|
| `waiting` | window, limiter, timeout queue: no lost wake-up, an exact window, `Disable` reaches every waiter, no free slot is slept through, ids come in order; window and limiter refine Credit | 24,000 |
| `streams` | with requests longer than the windows, a limit of one and early answers: pool, store, slots and windows are consistent, streams end, the loop ends | 68,000 |
| `streams_faults` | with GOAWAY, cancellation, the timeout, refused requests, early answers and late resets in any combination: no stream is ended twice, `inUse` is exact, everything released was reported | 1,425,000 |
| `send` | the write side is a FIFO; arrays are not refilled while they are written; frames and priority frames are written in time | 155,000 |
| `receiver` | for any two frames cut anywhere, the pieces do not matter; credit is returned; `Run` returns unless it waits to send to a sender that has left | 1,283,000 |
| `request` | the limits are those the server announced; header blocks and messages of every length around the frame size are framed and encoded so that a server reads them | 95,000 |
| `request_long` | **violation**: a message longer than a frame is framed wrongly | – |
| `datasource` | requests whole and in order from chunks of any size, intact until released, for both sources; `Fetch` returns | 123,000 |
| `converter` | output in order, buffers not reused early, `Process` returns, and success is complete | 149,000 |
| `load` | nothing is reported after Close, every request is reported, the command ends unless a load loop or a receiver is stuck in one of the ways of `Stuck` | 1,151,000 |
| `reporters` | lines true of their streams, reports consistent, agreeing and complete; reporters return, unless the phout reporter failed and its channel is full | 2,039,000 |
| `formats` | lines stay lines, requests survive a conversion or are reported, the decoder's caches hold what was used last | 48,000 |

Each property is stated in a comment above its definition. Where a run checks an
`Inv`, it is the conjunction of the module's type invariant with the parts named
there. `LimiterServes`, `ProcessReturns` and `ReportersReturn` join what must
eventually happen with what must hold then (a slot taken and a credit counter, a
return and a complete result). `RequestIntact` joins how the header block is cut
(`HeaderBlockFramed`), what the server's decoder makes of it (`HeadersDecoded`)
and the DATA frames (`MessageFramed`); `SlotsSound` joins `SlotsExact` and
`ConcurrencyLimit`, what the limiter counts and what the server sees.

**Bounds, and why they are enough.** Two goroutines in `Wait` and three in
`WaitAllow` are what it takes for one to overtake another that was woken. Two
readers of the timeout queue are what Shutdown makes; three ids let one be taken
between the signal of another and the reader it wakes. The proofs remove these
bounds for the safety of all three. In `streams`, two requests let an
object be recycled while the receiver still has the first stream in hand (one
object, two streams, three goroutines), the stream window of 2 is less than a
long request, and the connection's window of 3 less than two of them; the
proofs remove these bounds for every invariant of the two runs.
Four shards keep the ids 3 and 5 in different shards, as most are. In `send`
arrays of two frames and three frames make an array overflow, two priority
frames of each kind make the buffers alternate; the proofs remove these bounds
for safety. In `receiver` buffers of four
bytes and headers of two let a chunk end inside the header, the payload and a
field, and let one chunk hold two frames; two frames in sequence show what is
left over from one to the next. In `request` literals of four bytes and frames
of eight make header blocks of less than, exactly, and more than a frame (also
two full ones), and messages that are empty, just fit, and do not; tables of one
or two entries for three fields evict within one request; the SETTINGS are
empty, partial, repeated, of value 0, and unknown. In `formats` strings are all
of up to two bytes out of twelve (delimiters, control bytes, parts of runes) and
runes of three and four bytes, whole, cut and surrogate; files have up to three
requests, buffers of one and seven bytes end at every place of a line, and
caches of two strings overflow. In
`datasource` the requests contain line ends and digits, one is empty, one has a
length of two digits, and chunks are of one or two bytes, so that every byte is
once the last of a chunk; the file is read more than once. `converter` has more
messages than goroutines. `load` has one client, because two with liveness take
too long, and two requests, with one slot and a window of one or with two of
each; in every way of `Stuck` but two this is enough to be stuck. The two are a
window that is never widened because the connection was cut before the frame was
written (which takes two slots and a window of one), and the wait to report to a
failed reporter (which takes three requests); both were run once: with these
bounds `CommandEnds` holds as well, and fails if its exception is taken out. The
proofs of the safety of `converter` and `load` are for any number of
goroutines, messages, clients and requests. `reporters` has three streams and a
channel of one: an object is recycled while another waits in the channel. For `receiver`, `datasource` and
`reporters` the proofs remove the bounds for every invariant.

Deadlock is not checked (`CHECK_DEADLOCK FALSE`) where the system really ends:
the load loop, a connection, a file or a conversion comes to its end, a timeout
queue is closed.

## Fairness

Weak fairness per goroutine, never per action: a goroutine that can go on
eventually does, which is what the Go scheduler gives, and nothing is said of
which case of a `select` it takes. The environment is fair only where the
property needs it and the protocol promises it: `Answer` and `GrantConn` in
`streams` (the server answers what it received and widens the connection's
window; it widens a stream's window only while it has not answered), the
connection and the context may break or be cancelled at any time but never have
to. In
`waiting` those who hold slots of the limiter give them back; nothing is said of
the goroutines of the timeout queue. In `load` the server need
not answer, the connection need not break: the deadline that the watcher sets,
and the five seconds of `WaitResponses`, are what makes the command end. It
sends finitely many PINGs: their acks go before all requests, so a server that
never stops can keep a request from being written. In
`receiver` the reader is fair, that is, the connection is eventually read,
closed or its deadline reached, and so is the sender, until it leaves. In `reporters` the streams are fair: each comes
to its end, as `streams` shows, and Close comes after.

## Proofs

Proved with TLAPS for every value of the constants that satisfies the named
assumptions. These say that bounds, capacities and prices are natural numbers
(some of them positive), that `Modulus` exceeds `MaxWindow`, that a request has
at least one frame, that the goroutines, readers and clients are finitely many,
that qualities and kinds of frames are the ones the module knows, that there is
at least one shard; of a file of requests, that it has one, and that the
file is what the writer makes of them, each with its length in decimal (that
every number has such digits is not proved; TLC finds them for the requests of
the run); of the fetches, that an int32 counts them, because the index of the
source in memory turns negative behind that and Fetch panics; of what a server
announces in LoadCommand, that it is two natural numbers; of the outcomes of a stream, that there
is one grpc-status at most; and of the frames a server sends, that RST_STREAM
and WINDOW_UPDATE carry one word and GOAWAY at least two, as HTTP/2 prescribes
(the accumulators of the code rely on it). Every inductive invariant was checked with TLC on a
small instance before it was proved.

| Module | Theorem | Of every behaviour |
|---|---|---|
| `WaitingProofs` | `WakeupSafe`, `WindowSafe` | no lost wake-up; the window is exactly what was granted less what was taken, and never wraps while it is open |
| | `Refinement` | FlowControl implements Credit |
| | `LimiterSafe` | no free slot is slept through, none is given twice |
| | `LimiterRefinement` | Limiter implements Credit |
| | `QueueSafe` | ids leave the timeout queue once and in order, no Add goes unheard |
| `StreamsProofs` | `TypeSafe`, `PoolSafe`, `CountSafe` | types; stream objects are recycled safely; `inUse` counts the live streams |
| | `ReportedSafe`, `AnswerSafe` | all released means all reported; every answer finds its stream |
| | `WindowsSafe` | the server gets no more than it granted |
| | `SlotsSafe` | the limiter is exact and the server sees no stream too many, without the two faults of `NoSlotLost` |
| `SendPipelineProofs` | `PipelineSafe`, `WireSafe` | callbacks once, in order; the wire has all frames in order and nothing else |
| | `PipelineRefinement` | SendPipeline implements FrameFIFO |
| `LoadCommandProofs` | `CommandSafe`, `ReportComplete` | no report after Close unless a load loop left streams behind; a clean run has reported every request |
| `ConverterProofs` | `ConverterSafe`, `OrderSafe`, `SuccessSafe` | no buffer has two owners; output in the order of the input; no error means nothing is missing |
| `ReceiverProofs` | `ReceiverSafe` | the reader keeps off the buffer that is being processed |
| | `PiecesSafe`, `CreditSafe` | each frame is handled as if it came whole; the receive window is given back |
| `DataSourceProofs` | `SourceSafe` | no request object has two owners; the load is spread evenly over the file |
| | `OrderSafe`, `IntactSafe` | requests are read whole and in the order of the file, and stay intact until released |
| `ReportersProofs` | `LinesSafe`, `ReportsSafe` | each line is true of its stream; counters, reports and lines agree |

**Window.** The inductive invariant is `TypeOK /\ NoLostWakeup /\ WindowExact`.
`NoLostWakeup` is not inductive alone: `Return` makes the window smaller without
waking anyone, which is right only because it cannot wrap, and that is
`WindowExact`.

**Limiter and queue.** `Release` unlocks before it signals. The invariant of the
limiter says that while someone sleeps there are at least as many goroutines
awake, or signals due, as free slots; it is inductive with
`quota + held = Quota`, which bounds the quota. The invariant of the queue says
the same of ids and readers. `MutexOwned` and `WaitIsEmpty` are about the place
between the test of the queue and `Wait`, where a signal would be missed: one
reader at most is there, and nothing is added meanwhile.

**Streams.** `IInv` of StreamsProofs adds to the properties what makes them
inductive. `Fresh`: ids are used once and in order, so an id that is opened has
no object yet. `Allocated`: objects are numbered as they are made, so a new one
is nobody's. `Ownership`: who may end a stream (the sender before `Set`, the
receiver with the frame in hand, the goaway visit) and that it is one of them at
a time. This is the heart of the argument: the headers processor ends the
stream *before* it deletes the entry, so that for a while the store has an entry
of a stream that is over, possibly with an object that is already another
stream's; what saves the program is that only the receiver looks at it, and that
the goaway visit is made by that same goroutine after its last frame. `Traced`:
a stream whose frames travel is stored, ended or being ended. `Locals`: what the
program counters imply about the locals. The proof has one lemma per part of the
invariant, with a step per action.

**Windows of Streams.** What the server granted and has not got yet is spread
over the client's window, the frames in `frameChan` and the WINDOW_UPDATEs under
way. `ConnLedger` says that these add up, `StreamLedger` that for a stream they
do not exceed what is left (what is granted to a stream that has ended is lost).
A sum over a queue is a function of partial sums (`SumIs`), so no recursion is
needed; three lemmas say what appending and taking the first do to it. The step
that could go wrong is `WidensItsOwn`: a WINDOW_UPDATE adds to the window of the
object it finds in the store, and that object may have been recycled. It is the
sender's only if the update is for the sender's stream, by `Ownership`,
`PoolSound` and `OwnObject`.

**Slots of Streams.** Two faults break `SlotsSound` and are excluded by
`NoSlotLost` (see below); early answers, GOAWAY, timeouts and cancellation are
not. `AnswerOnce`: until a GOAWAY a stream ends only by its one answer, so the
slot the DATA processor releases without looking is the slot of a stream that it
will find. `FrameOrder`: requests are complete at the server in the order of
their ids. `SlotsLeft` and `Room`: every unanswered stream holds a slot, and when
a stream was opened fewer than the limit were unanswered. The server counts a
stream that it answered early until the request is complete, though its slot
may be taken again; but that can only be the newest stream it has seen, and of
the older ones there are fewer than the limit.

**Send pipeline.** The frames handed in lie, newest first, in `frameChan`, in
the frame in hand, in the array being filled, in the array `sendLoop` has
taken, and on the wire; the invariant says which of them are where (`Queue`,
`Collected`, `Taken`, `Counted`) and the same of the priority frames
(`Priority`). `Taken` is what the two arrays are for: the one that is written is
not the one that is filled. FrameFIFO follows with the number of frames behind
each place as the refinement mapping.

**Load command.** `Counted` relates the streams in use of a client to the frames
at each stage of its pipeline, `Ending` says that the reporter is closed after
the last load loop and that the command waits for it, `Accounted` that the requests made are those reported, on
their way to the reporter, or still owed by some client. A refused request is in use and not in the store, so
a GOAWAY does not end it: that both the load loop and the receiver may be about
to release a stream, each its own, is a conjunct of `Counted`. The first attempt at
the proof failed with two clients: `NoReportAfterClose` excused a panic by the
*command's* error, but when one client's load loop leaves streams behind, the
error that is kept may be that of the other. The property now names the load
loops that returned with streams in use (`gaveUp`).

**Converter.** Messages under way are `wi + 1 .. i`; message n belongs to
goroutine `(n - 1) % NumThreads`. `InTurn` and `NoneLost` say that each
goroutine has its messages in order and none under way is missing, so the writer
gets the next message from the goroutine whose turn it is. A message's number
then tells who owns its buffer, and `BuffersOwned` follows. `SuccessSafe` needs
`NothingLeft`: a channel is closed, without error, only behind the last message.

**Receiver.** `InOrder` says that the bytes in the buffer being filled, and those
in the buffer being processed, are a run of what the server sent, the second run
just before the first. A run is stated by differences (`Behind`: the byte m
places on, if it is in the same frame or the first of the next), so no position
in the whole stream is needed and no sum over the frames. `FramerAt` and
`PieceAt` are the heart: what `Framer.Next` keeps between two calls, and what it
returns, is exactly the part of frame `Len(log) + 1` that has come, and the byte
it will look at is the one behind. `PartsAt` then says of each accumulator that
it is what was had of the current payload, or nothing; of the words that are
never reset, that their *last* bytes are, so whatever was left over is shifted
out when the payload is complete. `StoreAt` says which streams are still known.
`PiecesDoNotMatter` follows when a frame is logged. The credit is a count of the
bytes of the DATA frames in the log (`DataBytes`), a set to which each frame adds
`{f} \X 1 .. Len`.

**Data sources.** `Chunk` says that the reader's buffer holds the bytes of the
file before `offset`, so the place of the next byte is `offset` less what is
unprocessed; `Cursor` says for each phase of `ReadNext` how that place, the size
read so far and the buffer being filled belong to the request numbered by
`read`. `FileTurns` and `InmemTurns` say who may read: the holder of the lock, or
`Init` before anyone fetches. `Owned` and `BuffersOwned` make the places of an
object or buffer exclude each other; `RequestsIntact` needs both, because a
buffer that is filled must be no one's in flight. `Spread` counts whole turns of
the file and makes the evenness of the load inductive.

**Reporters.** A phout object is in the pool, with its stream, in the channel or
being written (`PhoutOwned`), and until its line is written it holds what
happened to the stream it is tagged with (`PhoutTrue`); a stream that still runs
has no line (`NoLineYet`), so none gets two. `SuperOwned` and `SuperTrue` are the
same for supersimple, whose object leaves the stream one step later. `Counters`
says that the three counters are the cardinalities of the sets of streams they
count and that a report in progress has read values they have had: both
reads come before that of `req`, which is why no report shows more streams ended
than started.

Only model-checked:

* liveness under fairness (the prover has no rules for it): `DisableReleases`,
  `RunCompletes`, the timely writing of frames, and that `Run`, `Fetch`,
  `Process`, the reporters and the command return;
* what folds and recursive definitions compute for every input (induction over
  data is out of the prover's reach): `Inv` and `RequestIntact` of
  RequestAdapter with Setup (`ServerLimit`, `Encode`, `Decode` and `Total` are
  folds over settings, fields, bytes and frames; `Written` and `HeaderBlock`
  select and flatten), and `LinesKept`, `RequestsKept` and `CachesRecent` of
  Formats, whose RECURSIVE operators the prover does not take at all.

## What was found

* **Long messages** (`request_long`, `src/datasource/request.go:203`). A message
  that does not fit in one DATA frame is cut wrongly: frames after the first
  repeat the five bytes of the gRPC prefix on the wire and do not count them in
  their length, so the server takes payload for a frame header. If the last
  frame is full, it lacks END_STREAM (`:191`). The test of `SetUp` states what a
  server must read (`request_test.go:136-139`) and has a short message.

The models show more that no run is kept for; each was seen with TLC by
checking the property named, which is still in the module, or by enabling the
fault named:

* A request that `SetUp` refuses keeps its slot of the limiter
  (`sender.go:271`; `SlotsExact` with the fault `setup_error`), against
  `types/stream.go:18-19`. Its fields also stay in the encoder's table, though
  the server never gets them: `HeadersDecoded` claims nothing after that.
* A setting of value 0 counts as not announced (`loader.go:112-131`,
  `limiter.go:10`): with HEADER_TABLE_SIZE 0 the encoder keeps a table the
  server does not have, and later header blocks cannot be decoded
  (`HeadersDecoded` without its exception); MAX_CONCURRENT_STREAMS 0 is no limit,
  INITIAL_WINDOW_SIZE 0 the default window (`SettingsObeyed` without its).
* Close of the timeout queue does not take the mutex: between the test of `done`
  and `Wait` of a reader its signal is lost; with two readers it wakes one; and
  the one that returns keeps the mutex, so that the other, and any Add, blocks
  (`timeout_queue.go:49`). That all readers return after Close does not hold;
  nothing adds to the queue today, and Close comes at the very end.
* RST_STREAM after an early END_STREAM releases the slot twice
  (`processor.go:250`; `ConcurrencyLimit` with `trailing_rst`), and the server
  sees more streams than it allows.
* Nothing calls `Disable`: the sender waits for ever for the window of a stream
  that was answered early (`sender.go:283`; `WaitReturnsOnEndedStream` with
  `early`), against `types/flow_control.go:4`.
* When an array overflows, the timer is disarmed after it was armed, and the
  frame appended next stays until something else arrives (`sender.go:217`;
  `EveryFrameWritten`). `TimelyWritten` is the property with this exception.
* Three PING acks, or WINDOW_UPDATEs, can be under way and there are two
  buffers (`processor.go:118`; `PriorityIntact` with `MaxPriority = 3`), against
  `processor_test.go:118`.
* The load loop waits for a slot (`sender.go:264`), for the windows (`:283`) and
  for room in `frameChan` (`:296`) without looking at the context. If the
  connection breaks meanwhile, or the server stops answering, the load command
  hangs; the duration of the run does not end it either. The same holds of the
  receiver on the priority channel (`processor.go:117`, `:164`), and of both on the
  phout channel once the file could not be written (`phout.go:38`, `:64`). These
  are the ways of `Stuck` in LoadCommand, `SendBlocked` in Receiver and `NoRoom`
  in Reporters; `CommandEnds`, `RunReturns` and `ReportersReturn` are the
  properties with these exceptions, and show that there are no others.
* If `WaitResponses` gives up, or `Fetch` fails, with streams in use, a stream
  that ends afterwards is reported to a closed channel and the program panics
  (`phout.go:64`; `NoReportAfterClose` has these clients in `gaveUp`).
* A frame of a type of 10 or more makes the program panic with an index out of
  range (`processor.go:79`; `Panic` in Receiver).
* `CountLimiter` lets one request less through than its limit
  (`scheduler.go:24`). A stream without a grpc-status is `http2_1` in the phout
  file and ok in the summary. `newDefaultMiddleware` ignores the middleware it
  is given (`meta_middleware.go:35`). The in-memory source starts with the
  second request, and its `int32` index becomes negative after 2^31 fetches.
* If the setup of a client fails, the reporter and the clients before it are left
  as they are (`cmd_load.go:162`; `StartFails`); the process ends.
* A tag or method with a line end cannot be written in ozon.binary, which has no
  escape for it: it is read back as other fields (`Writable` in Formats).
  Bytes that are not UTF-8 become U+FFFD. The values of a name may come back in
  another order, because `sort.Sort` is not stable (`jsonkv.go:31`). The decoder
  of JSON requests never looks at the error of its lexer (`decoder.go:81`), so a
  line that is not JSON after its fields is taken as it is. The decoder of the
  load command keeps metadata values in the cache of names; the one of values is
  not used (`jsonkv_safe.go:35`).
* Read from the code only: `simple` counts what succeeded as failed
  (`simple.go:70`) and does not reset two of its fields; no command uses it.

## What is not modelled

`Shutdown` as a whole (nothing calls it; its second `Run` and its Close of
the timeout queue are in TimeoutQueue); the schedules `Constant` and `Line`
(floating point and clocks); the fetching of descriptors (I/O through a
library); flags, signals and the opening of files; malformed request files (what
the lexer does with them is the library's business; Converter has messages that
cannot be decoded or encoded, Formats methods that are not known); the `simple` and `noop` reporters (unused);
benchmarks, examples, generated code. Within the modelled parts: byte counters
and times in reports; HPACK's static table and Huffman coding, and table sizes
in bytes rather than entries; the headers that were decoded before a malformed
one in the same piece; header blocks of more than one frame in SendPipeline
(a priority frame may come between HEADERS and CONTINUATION there); stream ids and lengths
of frames that a server may not send; the wrap of stream ids after 2^30
requests.

The parts are composed by abstraction rather than by conjunction: Streams
takes the windows and the limiter as the Credit they refine, its writer as the
FIFO that SendPipeline refines, and its receiver as one that gets whole frames,
which is `PiecesDoNotMatter`; LoadCommand takes streams and frames as counts.

## Plan

Done: the core (Credit, FlowControl, Limiter, Streams with their proofs), the
pipelines on both sides of it (SendPipeline, Receiver), what surrounds it
(Setup, LoadCommand, RequestAdapter, DataSource, Reporters, TimeoutQueue),
Converter, and the formats.

Proved: the safety of FlowControl, Limiter, TimeoutQueue, Streams, SendPipeline,
Receiver, LoadCommand, DataSource, Reporters and Converter, and the three
refinements: every invariant the runs check, but for those of RequestAdapter and
Formats.

Next, in this order:

1. Restate the folds of Setup and RequestAdapter as functions of partial
   results, as Streams has its sums (`SumIs`), and prove `SettingsObeyed`, then
   `HeaderBlockFramed` and `HeadersDecoded`.
2. Compose: header blocks of several frames in SendPipeline; two connections in
   Streams with the shared data source.
