# Verification of the tutorial's programs

This directory holds TLA+ specifications of the programs in this repository that
have behaviour of their own, the TLC runs that check them on small instances, and
theorems about them that TLAPS proves for every instance. `PROJECT.json` lists the
runs, the theorems, the hazards, and for every definition the lines of source it
models.

    tlc -config ChatRooms.cfg MCChatServer    # one run
    tlapm ChatServerProofs.tla                # one module of proofs

## 1. The system

The repository is a CMake tutorial with a few real programs. By far the most
intricate is the Boost.Asio chat; then come a Thrift service, eight small
applications on a service-discovery SDK, and a KNN experiment on OpenCV.

### Chat (`demo_boost_asio/`)

**chat_message** (`chat_message.h`). State: a buffer of 4 + 512 bytes and
`body_length_`. Operations: set the length (clamped at 512), encode the header
(the length as four characters, `"%4d"`), decode it (`strncat` + `atoi`, refused
above 512). Correct when every header that is written is accepted and read back as
the same number, at 0, at 512 and where the number gets a digit wider.

**chat_room** (`chat_server.cpp:34-65`). State: `participants_`, `recent_msgs_`
(at most 100). Operations: `join` (replays the recent messages), `leave`,
`deliver`. Correct when membership follows the life of the sessions, the replay
is the end of what was delivered, and replay and deliveries fit together.

**chat_session** (`chat_server.cpp:69-157`). State: `socket_`, `read_msg_`,
`write_msgs_`, and implicitly the operations it has pending. Operations: `start`,
`deliver`, and the handlers of `do_read_header`, `do_read_body`, `do_write`. A
session is two chains of asynchronous operations that end independently; it is
destroyed when neither the room nor a handler refers to it. Hard: the order of
completions, a failure of one chain while the other goes on, the one write at a
time over the front of a queue that grows meanwhile.

**chat_server** (`chat_server.cpp:160-192`). One acceptor and one room for each
port on the command line; all of them in one `io_service` and one thread.

**chat_client** (`chat_client.cpp`). Two threads: main reads lines and calls
`write` and `close`, which post to the `io_service`; the io thread runs it. State:
`socket_`, `read_msg_`, `write_msgs_`. Hard: the hand-over between the threads,
lines typed before the connection is made or after it is lost, aborting what is
pending, and that `t.join()` returns.

Client and server interact through one TCP connection per client: FIFO in each
direction, and cut into pieces of any size.

### Thrift search service (`thrift_example/`)

The generated code (`gen-cpp/`) has a client that calls and waits, a processor
that dispatches by method name, and a concurrent client in which several threads
share a connection and hand each other the answers that are not theirs. The
handler throws an exception the service does not declare when the id is below
1000, and the client program asks for id 1. State: a connection; for the
concurrent client who waits for which call, and the one header that was read for
somebody else. Hard: that pending answer and its wake-ups; where the stream stands
after a refusal or after fields that are not known. Correct when every call ends,
with its own answer or an exception, and leaves both streams at the start of a
message.

The two programs are a client that opens a connection, makes one call and closes
it, and a `TSimpleServer`, which serves one connection until that ends and only
then accepts the next. Hard: programs that wait for each other's connections to
end, a `close` that an exception passes over, programs gone before they are
answered, a server that is killed. Correct when a program prints what came of its
own call, and ends, unless one that stopped with its connection open keeps the
server.

### S2S applications (`s2s_example/`)

Eight programs (`demo1` to `demo8`) over the session object of an SDK of which
only the interface is here (`s2sClientIf.h`). Each subscribes, registers itself,
or both, in an order of its own, from libev callbacks: on start, on each
notification, on a timer. Hard: when a program counts as registered or as having
pulled all it subscribed, and what it does again on every notification.

### KNN experiment (`demo_knn/`)

Reads features and labels from files (`init_features`, `init_id_label`), clusters or
classifies with OpenCV, counts how many labels are wrong when clusters may have been
renamed (`maxIdx`, `getLabelsMap`, `calcErr`), fills tables with images of digits
(`test_opencv_knn_predict`), and has an FNV-1a hash in two versions. Hard: reused
buffers and matrix headers, lines that do not parse, images of another size, ties
and empty clusters, arithmetic modulo 2^32. Correct when every full line is a row of
its own, every label is known by the line that named it first, the renaming found is
the one with the fewest errors, each image is in the row of its own label, and a
hash is the one noted beside its call.

### Socket demo (`demo1/`)

`server_1` binds a port, prints it, listens for ten seconds and exits without
accepting; `server_1_client` connects to port 8888 and sleeps. Correct when the
client finds a server that says it listens.

### The rest

The Protobuf and Boost demos, the S2S metadata encoder and the one-function
programs of `demo1` (`main.cpp`), `demo3` to `demo12`, `demo_hard1` and
`proto_lib` are straight-line calls of a library, or of one function that prints;
their subject is the build. They have no state that a model could say more about
than the code.

## 2. The modules

| module | what it models |
|---|---|
| `Broadcast` | abstract: a totally ordered broadcast per topic, with a bounded replay for newcomers |
| `ChatServer` | `chat_server.cpp`, every handler |
| `ChatServerProofs` | the theorems about `ChatServer` and `ChatSystem` |
| `ChatMessage` | `chat_message.h` as functions on sequences of characters |
| `LineQueue` | abstract: what a direction of a connection is to its two ends, a queue |
| `ChatFraming` | lines into frames, frames over a byte stream, frames into messages: main of the client, and the two async_reads of either side |
| `ChatFramingProofs` | the theorems about headers and about `ChatFraming` |
| `ChatClient` | `chat_client.cpp`: both threads, the handlers, the io_service's queue, the socket's operations |
| `ChatClientProofs` | the theorems about it |
| `ChatSystem` | `ChatServer` composed with one client per session over FIFO connections, as the users see it |
| `SearchCalls` | abstract: threads that call and are answered, or fail once the connection is lost |
| `SearchRpc` | the handler, the processor and `SearchConcurrentClient` of the Thrift service |
| `SearchRpcProofs` | the theorems about it |
| `SearchClient` | the plain `SearchClient`, the processor and the structures, field by field |
| `SearchClientProofs` | the theorems about it |
| `SearchPrograms` | `thrift_client.cpp` and `thrift_server.cpp`: many clients, one server that serves one connection at a time |
| `SearchProgramsProofs` | the theorems about it |
| `S2SApp` | the eight S2S applications over a session of the SDK |
| `S2SAppProofs` | the theorems about it |
| `KnnFiles` | `test_knn` with `init_id_label` and `init_features`, line by line |
| `LabelsMap` | `generateData`'s labels, `maxIdx`, `getLabelsMap`, `calcErr` |
| `DigitImages` | `test_opencv_knn_predict`: which image ends up in which row |
| `Hash` | the FNV-1a hash, as `uint32_t` and as `int` |
| `KnnDemo` | one call of one of these four |
| `KnnProofs` | the theorems about it |
| `SocketDemo` | `server_1.cpp` and `server_1_client.cpp` |
| `MCChatServer`, `MCChatFraming`, `MCChatSystem`, `MCSearchRpc`, `MCSearchClient`, `MCSearchPrograms`, `MCKnnDemo` | instances for TLC |

Some operators are commented as mistakes (`StaysInRoom`, `NotPopped`,
`EnqueuedSecond`, ...). They are not used. Each is a plausible slip in the function
it stands before or is named after; with it in that function's place the property
that `PROJECT.json` pairs it with under "mutants" is violated, which shows that
the property depends on the code being as it is.

### ChatServer

The server runs every handler in the one thread that calls `io_service.run()`, so
a handler is one atomic action and what interleaves is the order of completions.
`participants_`, `recent_msgs_` and `write_msgs_` are the members of that name;
`reading[s]` is the read that session `s` has pending, `inflight[s]` the buffers
of its pending writes (a sequence, so that two at a time could be seen),
`failed` the sessions whose write reported an error. `log`, `wire` and `skipped`
are history: what the room delivered, what was written to each session, and where
in the log a session came in.

| action | code |
|---|---|
| `Accept` | `do_accept`'s handler, `start`, `join` with the replay |
| `ReadHeader`, `ReadBody` | the handlers of the two reads; `ReadBody` with `deliver` to every participant |
| `ReadFail` | either read failed, or the header was refused: `leave` |
| `WriteDone`, `WriteFail` | the two outcomes of a write |

A failed write takes the session out of the room but neither closes its socket nor
stops its reading: such a session goes on delivering what it receives to the
others, and the model has that too. `Unread` are the sessions whose peers may stop
reading while they stay connected. An accept error changes nothing, as
`do_accept` calls itself on both paths. Messages are model values: the code passes
them on without looking at them.

### ChatMessage and ChatFraming

`EncodedHeader` and `DecodedLength` work on sequences of characters, since the
widths and blanks are the point; `Atoi` is modelled for what `atoi` does with any
four characters, sign included. In `ChatFraming` the sender types lines, the stream
is cut into pieces, and the receiver's `async_read` takes header and body in turn,
both into `data_` of the one `read_msg_`. That starts `Unset` and is never cleared:
`Arrive` overwrites the places its bytes go to, and what a longer message has left
behind them stays, so that `BodyRead` is right only by delivering `body_length_`
bytes and no more. A line stops at its first NUL, as main uses `strlen`; one longer
than the buffer sets `failbit` and ends the input loop. `LineQueue` says what this
amounts to while the connection is up: `GetLine` is its `Send`, `BodyRead` its
`Deliver`.

### ChatClient

`ready` is the queue of handlers that `run()` will call, `pending` the operations
that have not completed. Boost.Asio is external and modelled by what the code
relies on: an operation on an open socket completes once, with success or error,
and queues its handler; on a closed one it fails at once; `close` aborts what is
pending and leaves handlers already queued as they are; `run` returns for good
when nothing is left. What the client prints is left out.

### ChatSystem

Each connection is `up` and `down`, two queues of messages; that the frames on a
byte stream amount to such a queue is `ChatFraming!IsQueue`, and that a client sends
what was typed in order is `ChatClient!NothingLost`. A screen is what the client has
printed. `before[m]` remembers what was on the author's screen when `m` was typed.

### SearchRpc

Threads share one `SearchConcurrentClient`. A thread's step is what it does
between two points at which another can come in: `pc[t]` says where it is.

| action | code |
|---|---|
| `Number`, `Write`, `WriteFails` | `send_searchName`: `generateSeqId`, the call written under the write mutex |
| `Lock` | the `TConcurrentRecvSentry` and the first `getPending` of `recv_searchName` |
| `ReadMessageBegin`, `ReadFails` | the header read from the socket, or an exception |
| `Mine`, `BodyFails` | the answer is this thread's: result or exception, `commit` |
| `NotMine`, `Wait`, `Wake` | `updatePending` and `waitForWork` |
| `WakeForNothing` | the wait at a monitor returns though nobody notified it |
| `Process` | `process_searchName` around `searchName`, under the number of the call |
| `Disconnect` | the connection is lost, with or without the answers on their way |

The sync info (`monitors`, `pending`, `wakeup`, `stop_`) belongs to the Thrift
library and is modelled by what the generated code relies on: one read mutex, one
pending header, a monitor for each call, a sentry that wakes the latest other call
when its thread leaves, and the client given up when a thread leaves without
`commit`. The program's `TSimpleServer` answers in order; the client is meant, as
the comment on its class says, for answers out of order, so `Process` takes any
call. Answers are told apart by the id they are about and by being a reply or an
exception: below 1000 the handler throws, the service does not declare that
exception, and the processor turns it into a `TApplicationException`. The server
here never sends an answer of another type or name, so those two branches of
`recv_searchName` are left out. `Wants[t]` is what thread `t` asks for. Calls are
bounded by `MaxCalls`, far below where the numbers of calls would wrap.

### SearchClient

One client, one connection, one call at a time; what is on its way are tokens: a
message header, a field with its type, number and value, or the end of a struct.
`stack[e]` holds the structs end `e` is in the middle of.

| action | code |
|---|---|
| `Send` | `send_searchName`, `Search_searchName_pargs::write` |
| `Receive`, `Return`, `Throw` | `recv_searchName`: the header, the end of the struct, the transport's exception |
| `ReadField` | one turn of the loop of `args::read`, `presult::read`, `Response::read`, or of `skip` |
| `Dispatch`, `ArgsRead`, `Process` | `dispatchCall` and `process_searchName`; an answer, or an exception for an unknown method or a refused id |
| `Disconnect` | the connection is lost with what was on its way, or the end of it |

`version` says what the other side does differently from this source: fields more,
the same numbers with other types, a struct where none is known, another method,
another type of result. The default branches of the readers are there for
that, and are never taken between programs built from the same source. The bytes
of `TBinaryProtocol` are left out, and so are the branches for an answer of
another type or name.

### SearchPrograms

`pc[p]` says where a run of `thrift_client` is in its `main`; `backlog`, `serving`
and `server` are the connections the server has not accepted, the one it serves,
and what it does with that. Each end of a connection is closed on its own:
`ProgramEnd` and `ServerEnd` say which are there.

| action | code |
|---|---|
| `Open`, `OpenFails` | `transport->open()` |
| `Call`, `Returns`, `CallFails` | `client.searchName(response, 1)` and its two catches |
| `Close`, `End` | `transport->close()`, and the end of `main`, where `~TSocket` closes what the exception left open |
| `Accept`, `Handle`, `AnswerCall`, `EndOfFile` | `server.serve()` around the processor and the handler |
| `Killed`, `ServerKilled`, `Listen` | the end of a process at any point; the server's start, for the first time or again |

`TSocket`, `TServerSocket` and `TSimpleServer` belong to the Thrift library. What
the two mains rely on is modelled: a connection is made once it is in the
backlog, whatever the server is doing; the server's loop reads the next call when
it has answered one, and accepts the next connection at the end of the stream; a
connection breaks with either process. Calls and answers are what `SearchClient`
models field by field; here they are one message each.

### S2SApp

`demo` says which program runs; `Demo1Starts` to `Demo8Starts` are what its
`init()` and `main` ask for before `ev_run`, and `Demo1Reads`, `OthersRead`,
`Demo4Reads`, `Demo8Reads`, `Demo5Adds` and `Demo6Changes` what its callbacks do.
libev calls one callback at a time, but the SDK works in a thread of its own, so
`onReadData` is two steps: `Poll` (`pollNotify`) and the rest, between which the
SDK may learn more. `Connected`, `Lost`, `Result`, `Change` and `Register` are the
SDK's; its header promises that `isPullAllSub` is false while the result of any
subscription is missing and true afterwards. The model assumes that every result,
an empty one too, makes the fd readable.

### KnnFiles, LabelsMap, DigitImages, Hash, KnnDemo

The functions of `knn_kdtree_demo.cpp` share nothing, so an execution of `KnnDemo`
is one call of one of them: `test_knn`, `calcErr`, `test_opencv_knn_predict` or a
hash. A turn of a loop is one action: `ReadLabel` and `ReadFeatures` a line,
`MapCluster` a cluster, `LoadImage` an image, `HashByte` a byte. `file` says which
of the three files `test_knn` is reading; `EndOfFile` goes on to the next, and
`FindNearest` is the rest of the function. `NoLabels` is the assertion `calcErr`
starts with. OpenCV's nearest neighbour is external: a row at the least distance,
any row if one of the numbers was never read.

A line is what `operator>>` makes of it: a number, a word that is none (which
stores 0), or no word, which leaves the variable as it was. `id` and `cls` are not
initialised, so that what they then hold is any value; `f_arr` starts as `Junk`.
An image is its size: `copyTo(tmp)` writes into the row that `tmp` refers to only
if the image has as many pixels as the row is wide, and allocates `tmp` anew
otherwise; an image that cannot be read has no pixels, and `reshape` throws.
`labels` may be a column or a row (`asRow`): the assertions of `calcErr` and
`getLabelsMap` admit both, but the loops of `calcErr` are over its rows, so of a row
they compare the first label only. `err` is the fraction it computes, and `ErrIsLeast`
speaks of columns, as `generateData` makes them.
`assert` and `CV_Assert` end a call as "asserted". Numbers of a line beyond
`FEATURE_DIM`, and labels below 0, which `count[lbl]` would be indexed with, are
undefined behaviour and left out. A `uint32_t` is a pair of 16-bit halves, as
TLC's integers are no wider than the code's.

### SocketDemo

Any number of runs of the two programs. The socket calls are the operating
system's: `bind` with port 0 takes a free port of `Ephemeral`, and `connect`
reaches whoever listens at the port. Each call may fail.

## 3. The runs

| run | question | instance |
|---|---|---|
| `chat_rooms` | is each room a broadcast of its own (refinement of `Broadcast`); is leaving final; is what is queued written, and a finished session released | 3 sessions in 2 rooms, one message at most twice in each, keeps 1, fair writes but to one peer that may stop reading; 29 k states |
| `framing` | are lines reassembled, however cut; is a header ever refused; do all arrive; is the connection a queue (refinement of `LineQueue`) | limit 512; two lines of 0, 9, 10, 99, 100, 511, 512, 513, or with a NUL inside; pieces of 1, 3, 200; 49 k states |
| `chat_client` | are lines lost or reordered between the threads; does the client end | 3 lines, every outcome of every operation; 17 k states |
| `chat_users` | membership, one write at a time, replay, what each session is sent; can somebody see an answer before what it answers; do all screens agree; is nobody's line missing in between | 3 users of a room who type two lines, one and none, a replay of 2 of 3, any connection may break; 1.1 M states |
| `search_threads` | does each thread get the answer to its own call (refinement of `SearchCalls`); is each answer in one place; does somebody always read; does every call end | 3 threads that ask for 1, 1000 and 1001, 5 calls, a disconnection at any point; 231 k states |
| `s2s_demos` | does each program end up registered and informed as its source says | all 8, at most 2 losses; 2 k states |
| `s2s_demo4` | does the comment quoted below hold (it does not) | one program, no losses |
| `search_client` | does every call end with its own answer or an exception, and both streams at the start of a message | 3 calls, ids 1, 1000, 1001; 20 versions of the other side, a disconnection at any point; 12 k states |
| `search_programs` | does a program print what came of its own call; does it end, and is its connection let go | 3 programs that ask for 1, 1 and 1000, one of which may stop; one connection may wait; the server may be killed and started again any number of times; 25 k states |
| `knn` | are rows and labels what was read, and the hashes of `hash_str_uint32` those noted; is the renaming of the clusters the best; when does `getLabelsMap` refuse; is each image in its own row | 2 lines of features, 2 of labels, one to classify; 2 ids, 2 classes, 2 numbers in a row; 9 choices of up to 3 clusters and 5 points, none among them, every labelling, as a column and as a row; 8 images of 2 digits, each missing or of one of two sizes; 7 strings; 502 k states |
| `knn_hash_int` | are the hashes of `hash_str_int` those noted (they are not) | the four strings noted and three more |
| `socket_demo` | is a server that says it listens at 8888 found there (it is not) | 2 servers, 2 clients, 3 ports the system may choose |

Bounds. `MaxLog` limits the messages of a room and `MaxLines`/`MaxTyped` those
typed; both are guards of the action that makes a new one. A log of three over a
replay of two lets the replay be short, full and trimmed, and lets a queue hold a
message behind the pending write while another comes in. Three sessions are an
author, a member and a newcomer (or one that leaves). `max_recent_msgs` is 100 in
the code; the theorems hold for any value. Symmetry is
not used, as it is not sound for liveness: the messages of `chat_rooms` are alike,
and `chat_users`, where each line is a message of its own, and the theorems tell them
apart; each thread of `search_threads` asks for an id of its own, one refused and
two answered with different names.
`CHECK_DEADLOCK FALSE` appears in every configuration because the
programs may really have nothing left to do: users stop typing, peers go away, a
client ends.

Three threads are one that reads, one whose answer it finds, and one that nothing is
for; with five calls two of them call again and so are later than others in the map
of monitors. Three programs at one server are one that is served, one that waits and
one that cannot even connect as `Backlog` is full; one that has stopped may be any
of them. Two losses of an S2S session let one come before registering and one after.
Three calls of `SearchClient` are a refused one, an answered one after it, and
another with a different answer. The sizes of the clusters include none, a single one,
empty ones and ties. Two lines of labels repeat an id, two of features leave a short
line after a full one, and `test_knn` prints 3 rows before it trains, which is
`Printed = 2` here. Two digits with two images each to learn from and two to predict
have a first and a last row in each table, and rows that meet at the border of two
digits. `Noted` in `KnnDemo` holds the four strings and values of the source; the
longest takes 36 rounds of the hash.

What they show. The properties of the passing runs hold. Some are worth a second
look:

- `FeedInOrder`: what a session is sent is one gap-free stretch of the room's
  log, from where its replay starts; while it is a member it reaches the end of
  the log. This needs that `join` puts the replay into the same queue
  before any later delivery.
- `MembersAreLive` and `LeaveIsFinal`: a session leaves through whichever chain
  fails first. The other chain may call `leave` again, or go on reading; neither
  disturbs the room or brings the session back.
- `AnswersFollow`: one log per room and FIFO connections give causal order.
- `AuthorsInOrder`: also for an author whose own messages come back through the
  room.
- `Exits`: even when the end of the input comes while the connection is being
  made: then `close` aborts the connect, or its success is already queued and the
  read that handler starts fails on the closed socket.
- `NobodyForgotten`: when a thread leaves, whoever it wakes will lock the mutex
  and read; a thread whose answer was found meanwhile sees it, as the header left
  over is part of the condition it waits on.
- `EveryCallEnds`: also when threads wake up though nobody notified them. One such
  thread may take a wake-up meant for another: it then reads in its place.
- `QueuedIsWritten`: a peer that stops reading delays nobody else's messages.
- `ProgramsEnd`: a refused program, which never closes its transport, lets the
  server go when it ends; what holds all others up for ever is only a program
  that has stopped after the server accepted it.
- `RowsAreDigits`: an image of another size than the first leaves its row as it
  was allocated, in either table, and nothing reports it: the checks are commented
  out. The call only throws if the last image that is learnt from differs, as the
  second table takes its width from it.
- `NothingLost`: what a client has typed and not sent is the end of what was
  typed, in the queues in order, also when the connection is lost.
- `Settles`: `demo4` registers on every notification from the first on; if the
  session is lost in between this is harmless, and what is held in the end is the
  same.
- `AnswerIsOwn`: also for a call after one that threw, and with fields on the way
  that carry a known number with another type, or inside a struct that is skipped.
- `NeverFalse`: the last check of `getLabelsMap` is never what fails; a label used
  twice is refused by the assertion before.
- `PerfectPasses`: a perfect clustering passes with no error, except into a single
  cluster, where the assertion that a count is below the total fails, and except
  without points, where the first assertion of `calcErr` does.
- `ErrIsLeast`: taking the most frequent label of each cluster, one after the other
  and without going back, gives the fewest errors, and as an injective map if one
  was asked for, as whatever is not is refused.

Three runs end in a violation, because the code does something else than a comment
in it says; all are listed under "findings".

- `s2s_demo4`: "the information on the services it depends on has been obtained,
  this node can serve and register" (`demo4.cpp:91`). `pollNotify` and
  `isPullAllSub` are called one after the other, and a result that comes in
  between counts for the second and not for the first: the program registers
  before it was told of the service.
- `socket_demo`: "listen client @port=8888" (`server_1.cpp:60`), and the client
  has 8888 as "the server's port number" (`server_1_client.cpp:14`). The server
  binds port 0, and the system chooses another; the line that would bind 8888 is
  commented out.
- `knn_hash_int`: "3582672807" and "3224705314" are noted beside the calls of
  `hash_str_int` for `hello world` and `hello world1` (`knn_kdtree_demo.cpp:606-608`).
  No int can hold them; the function takes the top bit off and returns 1435189159
  and 1077221666. They are the values of `hash_str_uint32`, beside whose calls they
  are noted too (597-600); `HashAsNoted` of the run `knn` shows that those are right.

## 4. Fairness

`ChatServer!FairSpec` is weak fairness of `WriteDone \/ WriteFail` for each session
outside `Unread`: a write that was started ends. `io_service` runs the handler of
every operation that has completed, and TCP either makes progress or reports an
error, unless the peer stays connected and never reads: such peers are `Unread`, and
nothing is assumed or promised for them. Nothing is assumed of reads: a peer may be
silent for ever.

`ChatClient!Spec` is weak fairness of the io thread and of main's `join`: the
operating system schedules both. The user, the network and the server are not
fair: an operation may stay pending for ever unless it is aborted.

`ChatFraming!Spec` is weak fairness of the receiver: TCP delivers what was sent
while the connection is up.

`SearchRpc!Spec` is weak fairness of each thread's next step and of the server:
the threads are scheduled, and the server answers or the connection is lost. The
read mutex needs no stronger assumption as calls are bounded and wake-ups for no
reason come to an end (`<>[]`): nobody can take it from a thread for ever. Without
the latter a thread that keeps waking up could, as a mutex need not be fair.

`SearchClient!Spec` is weak fairness of the client program and of the server. A
call need not be made, and the connection may be lost or not.

`SearchPrograms!Spec` is weak fairness of each program outside `Stopping` and of
the server: both are processes that run until they wait. Nobody need be killed,
and nothing starts a server that was killed.

`S2SApp!Spec` is weak fairness of the callbacks for the fd, of the SDK's
connecting and registering, and of the result of each subscription; and strong
fairness of the timer, which `ev_run` calls on its next turn once it has expired,
however much news there is. Losses are bounded: a session that is lost again and
again settles nowhere.

## 5. The proofs

`ChatServerProofs` proves for any set of sessions, rooms, messages and any
`MaxRecent` and `MaxLog`, from `RoomOfAssumption` (each session has one room) and
`BoundAssumption` (the bounds are natural numbers):

| theorem | |
|---|---|
| `TypeCorrect` | `Spec => []TypeOK` |
| `RoomMembership` | `Spec => []MembersAreLive` |
| `OneWritePending` | `Spec => []WriteChain` |
| `ReplayIsRecent` | `Spec => []RecentIsSuffix` |
| `FeedIsInOrder` | `Spec => []FeedInOrder` |
| `LeavingIsFinal` | `Spec => LeaveIsFinal` |
| `Refinement` | `Spec => RoomIsBroadcast` |

The inductive invariant is `Inv`, the five invariants above and `NewIsBlank`: a
session that has not been accepted has no queue, no write and no history. None is
inductive alone. The types need `RecentIsSuffix`, without which `Accept` could
subtract a longer replay from a shorter log, and `WriteChain`, without which
`WriteDone` could pop an empty queue. `MembersAreLive` needs `NewIsBlank` (a new
session has not failed). `FeedInOrder` needs `RecentIsSuffix` where a replay
becomes the start of a feed, and `WriteChain` where a completed write moves the
front of the queue to what was written. `FeedInOrder` is proved through
`Stretch`, the statement for one session, and lemmas about what an appended
delivery, a popped front and a replay do to it; those rest on a few facts about
stretches of sequences, which come first.

The refinement maps `due` to `skipped + Len(Feed)` and `status` to a function of
`reading` and `participants_`; each handler is shown to map to one abstract action
or to a stuttering step, under `Inv` before and after.

About `ChatSystem` the same module proves, for any number of users and however much
each of them types, from `LinesAreMessages` (the messages are the lines that the
users may type):

| theorem | |
|---|---|
| `ServerInSystem` | `SystemSpec => Spec` |
| `OneOrder` | `SystemSpec => []ScreensAgree` |
| `AnswersComeLater` | `SystemSpec => []AnswersFollow` |
| `NoLineIsMissing` | `SystemSpec => []AuthorsInOrder` |

By `ServerInSystem` all that is proved of the server alone, with peers that send
anything, holds in the system, and `SystemInv` is `Inv` with what the clients add to
it. A screen together with what is on its way to it is what was written
(`WireIsPrinted`), which `FeedInOrder` makes a stretch of the log. For `ScreensAgree`
and `AuthorsInOrder` it then has to be known what a log holds: the lines the server
has read (`LogIsRead`), all of them (`ReadIsLogged`), those of one user in the order
typed (`LogAscends`), while the rest is still on its way, in order (`UpIsTheRest`).
`AnswersFollow` rests on `BeforeComesFirst`: what was on the author's screen when a
line was typed precedes it in the log. To be inductive this says something about
lines that the server has not read, too: what comes before them is in the log
already.

`ChatFramingProofs` proves for any lines, any limit below 10000 and any pieces, from
`MaxBodyAssumption` and `LineAssumption` (lines are sequences of characters that a
line may have):

| theorem | |
|---|---|
| `HeaderRoundTrip` | every length up to the limit is encoded to a header that is accepted and decoded to it |
| `TypeCorrect` | `Spec => []TypeOK`; no run needs it, as this holds at every limit |
| `NoHeaderRefused` | `Spec => [](reading # "closed")` |
| `LinesComeThrough` | `Spec => []LinesArrive` |
| `ActsAsQueue` | `Spec => IsQueue`: the framing implements `LineQueue` |

The receiver does not know where a frame begins; that it always looks in the right
place is `FramesInTransit`: the bytes the pending read has in `data_` (`have`, in
which nothing is left from a message before, as `Overwrite` tells) and those on
their way can be cut, at some places `at`, into the frames of exactly the lines that
were not delivered, the first without its header while its body is read.
`LinesArrive` says nothing of these bytes, and does not follow from a step before.
`CutGrows` and `CutShrinks` are what a line typed and a read completed do to the
cut; by `HeaderRoundTrip` the header at its front gives the length of its line
(`BodyIsDue`), so that the next read takes the body and no more.

`ActsAsQueue` maps the queue to `Undelivered`, the texts of the lines after those
received, and needs the invariant at one step: when a body is read it is the text of
the first of them (`BodyIsNext`), so that `BodyRead` is the queue's `Deliver`. The
pieces, the header and the bytes in `data_` are invisible. What the queue leaves open
is whether everything is delivered; that is `AllArrive`, which needs fairness.

`ChatClientProofs` proves for any messages and any number of lines, from
`LinesAssumption` (that number is a natural one):

| theorem | |
|---|---|
| `TypeCorrect` | `Spec => []TypeOK`; `TypeOK` is stated there |
| `NoLineLost` | `Spec => []NothingLost` |
| `OneWriteAtATime` | `Spec => []WriteChain` |
| `AlwaysListening` | `Spec => []ReadChain` |

An operation is outstanding from when it is started until its handler has run, first
in `pending` and then in `ready`; `close` moves all of them from one to the other.
`OneEach` says that of reads and writes there is no more than one in both together,
`WriteIsDue` and `ReadIsDue` when there is one. `ConnectsOnce` is less obvious: the
handler of a connect that failed starts nothing, so it must never be the one
operation that is outstanding while the connection is up. `EachLineOnce` holds each
line typed in one of three places, in order: sent, in `write_msgs_` but for the one
whose write has succeeded, or in a posted handler, wherever in the queue that is.

`SearchRpcProofs` proves for any threads, any ids they ask for and any number of
calls, from `IdAssumption` (ids are integers, and each thread may ask for some of
them) and `CallsAssumption` (the number of calls is a natural one):

| theorem | |
|---|---|
| `TypeCorrect` | `Spec => []TypeOK` |
| `NoAnswerIsLost` | `Spec => []OneAnswerEach` |
| `SomebodyReads` | `Spec => []NobodyForgotten` |
| `Refinement` | `Spec => CallsAreAnswered` |

`OneAnswerEach` counts; the invariant behind it says where things are. A number that
was given out is in use by one thread (`OwnNumbers`); the call of that number or its
answer is at the server, on its way, left over or in a thread's hand, and only in
one of these (`InOnePlace`); while the connection is up it is somewhere, and nothing
is there for nobody (`NoneMissing`). This needs `OneReader`: the read mutex is what
keeps two threads from holding answers, and from leaving a second one over the
first. `ToThePoint` says that an answer with the number of a thread's call is to its
question, from which the refinement follows; `asked` is mapped to `question` and
`lost` to the connection being down. `Awake` is `NobodyForgotten` made inductive:
somebody in a call need not be woken, or whoever was woken will find the client
given up.

`SearchClientProofs` proves for any ids, any number of calls and any fields that
another version adds, from `ExtraAssumption`:

| theorem | |
|---|---|
| `StreamsAtBoundary` | `Spec => []AtBoundary` |
| `OwnAnswer` | `Spec => []AnswerIsOwn` |

The assumption says what fields are: a struct among them is closed again, and outside
of such structs none has both the number and the type of one that `args` or `Response`
knows. Inside of them anything may come, numbers and types that are known among it.
Both properties are about the moment between two calls; the invariant says what is
true within one. `Turns` is that a call is with one end at a time. Whichever has it
has taken some number `p` of the tokens of the one message there is (`ServerReads`,
`ClientReads`), and `p` tells what is on its stack and what it has stored by then
(`ArgsTaken`, `ResponseTaken`, `StringTaken`, `RefusalTaken`): over the structs that
it knows, as many that are skipped as are open among the other fields (`Over`). So the
last end of a struct is met with the last token and not before it. A lost connection
cuts the answer after any token, and `ClientReads` leaves room for that. `Skipping`
is what one token of another version does to a stack, and `ReplyIs`, `OtherReplyIs`,
`CallIs` and `RefusalIs` are the messages, token by token.

`SearchProgramsProofs` proves for any set of programs, any ids they ask for, any
backlog and any set of programs that may stop, from `IdAssumption` (ids are
integers) and `BacklogAssumption` (a positive number):

| theorem | |
|---|---|
| `TypeCorrect` | `Spec => []TypeOK` |
| `OutcomeIsOwn` | `Spec => []OutcomeHasCause` |
| `NoneIsDropped` | `Spec => []Excused` |

The inductive invariant adds four parts to these. `NotYet` says that a program has
nothing with the server before it begins; the types need it where a connection
enters the backlog, which must not hold it already. `HandledOnce` and
`AnswersRight` follow a call to the handler and its answer back, so that what a
program prints in the end was handled, once and for it. `Excused` is why another
error is never for what another program did: the server gives up a connection only
when its program is not in its call, or by being killed. `ServerEndNext` and
`CallNext` say once what any step may do to a connection and to a call.

`S2SAppProofs` proves for any of the programs and any number of losses:

| theorem | |
|---|---|
| `DependenciesFirst` | `Spec => []DependsFirst` |
| `NoHalt` | `Spec => []NothingLeftUndone` |

The inductive invariant has a part for each of the two programs that go on in steps.
`Demo4Waits`: what the service holds or will be told was set with nothing left to
pull, and nothing takes that back, as `demo4` subscribes no more. `Demo8Walks`: what
`demo8` has asked for is the names up to `subIndex`. In both somebody is about to
act when the next step is due (`Informed`), which neither property says of a state
before that.

`KnnProofs` proves for a call of any of the functions, with any files, clusters and
images, from `IdAssumption` and `DimAssumption` (numbers in the files and the
dimension are natural numbers), `SizesAssumption` (so are the sizes of the clusters)
and `ImagesAssumption` (and the pixels of an image):

| theorem | |
|---|---|
| `LinesAreKept` | `Spec => []RowsAreLines` |
| `FirstLineStays` | `Spec => []FirstLineCounts` |
| `LabelsAreUsedUp` | `Spec => []NeverFalse` |
| `LeastErrors` | `Spec => []ErrIsLeast` |
| `TidyLabelsPass` | `Spec => []PerfectPasses` |
| `DigitsInTheirRows` | `Spec => []RowsAreDigits` |

`RowsAreLines` needs to know that once a full line was read nothing in `f_arr` is
left unassigned (`ArrayIsClean`), and that the next file, which starts with a new
array, has no rows yet. `FirstLineCounts` needs the map to have an entry for each
label and no other, or `emplace` could keep an older one. `NeverFalse` is a matter
of counting: `checkClusterUniq` keeps as many labels in use as clusters are mapped,
so at the end all of them are; this takes `maxIdx` to be a cluster (`LargestCount`).

`ErrIsLeast` compares two counts of points over all clusters. The invariant behind
it, `MostVotes`, is about one cluster at a time: no label has more points of it than
the one the map holds. It needs the block that the loop counts to be the points of
that cluster (`CountIs`), so that `startIndex` is the sum of the sizes before, and
clusters to have no points in common (`OrigLabelIs`, by `SumGrows`).
`FewestMisnamed` adds the clusters up. `PerfectPasses` needs besides that with tidy
labels no assertion fails on the way (`TidyCounts`): all votes of a cluster are for
one label, which no other cluster has, and they are fewer than all points if there
is another cluster (`FewerThanTotal`). `NoLabels` came out of this proof: with no
points at all `calcErr` must have stopped before it counts. The sums are a recursive
function, which is a `CHOOSE` to the provers; that there is one, and what it is
(`SumIs`), is shown by induction over a set of numbers (`UpTo`, from `LeastElement`),
as a rule that takes an operator cannot be used here.

For `RowsAreDigits` the image that is read next is shown to belong in the row that
is written (`NextImage`), by division with remainder; while a call is loading,
`RowsHold` compares each image with the width of its own table, and only a call that
predicts finds both widths to be that of the first image. `KnnInv` is the three
invariants together: a call leaves the variables of the others as they are. `Hash`
has an exclusive or of its own, as `Bitwise` declares `RECURSIVE` operators, with
which nothing could be proved about `KnnDemo`.

Only model-checked: the liveness properties, which TLAPS does not prove here;
the three findings; `Atoi` on headers that no encoder wrote; and `HashAsNoted`,
which is arithmetic on four given strings.

## 6. What is not modelled

- The destruction of a session as an event; `Referenced` says when nothing refers
  to it any more, and `DoneIsReleased` that this comes.
- Memory: `write_msgs_` has no limit in the code, so none is checked.
- A Thrift server that fails to start as its port is taken, and failures of
  `accept`.
- The resolver in the client's `main`, and the parsing of command lines.
- `SearchMultiface` and the generated printing, swapping and writing that nobody
  calls, among them all of `InvalidId` but its throwing; the inner `catch` of
  `thrift_client.cpp`, which is never reached as `InvalidId` never crosses the
  connection; and the bytes of the protocol.
- The branches of `recv_searchName` for a message of another type or name
  (`Search.cpp:233-242`): after such a message was skipped the code goes on to
  read a result that is not there. No answer of this service leads to them.
- What protobuf does after `ShutdownProtobufLibrary()`
  (`demo_protobuf/main.cpp:184`), after which `main` goes on to use it: a library
  question, in a program with one path.
- What the S2S programs print, and the second session of `demo7`, which shares
  nothing with the first.
- What OpenCV computes, the numbers of `generateData`, and the functions of the KNN
  demo that try out streams, print, or call OpenCV and nothing else.
- The straight-line programs named at the end of section 1.

## 7. Plan

Done: what the table in section 2 lists, with a theorem for each invariant of the
passing runs but `HashAsNoted`. What could be next:

- The S2S metadata encoder, if its source came with the repository.
