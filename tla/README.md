# A verification development for CPyuZe

The repository collects several small servers and libraries: a reactor with an HTTP server in C
(`test_epoll/lib`), a MySQL connection pool (`connection/src`), a thread pool (`thread_pool`), asio and
epoll examples, and a set of C++ exercises. This directory models the parts with logic of their own in
TLA+, checks them with TLC and proves their main invariants with TLAPS.

## 1. Inventory

### The reactor (`test_epoll/lib`)

| part | state | operations | interacts with |
|---|---|---|---|
| event loop (`event_loop.c`) | `mutex`, `is_handle_pending`, the pending list, `channelMap`, `socketPair`, owner thread | run, add/remove/update a channel, handle the pending list, wake up, handle the wakeup, activate a channel | every thread that makes a request on it; its dispatcher; the callbacks of its channels |
| dispatchers (`poll_dispatcher.c`, `epoll_dispatcher.c`) | the interest set | add, del, update, dispatch | the kernel; call `channel_event_activate` |
| channel map (`channel_map.c`) | array from descriptor to channel | make space, clear | written by the loop's thread only |
| TCP server and acceptor (`tcp_server.c`, `acceptor.c`) | listening descriptor, callbacks | start, accept a connection, choose a loop for it | main loop, thread pool, TCP connections |
| thread pool and its threads (`thread_pool.c`, `event_loop_thread.c`) | `position`, per thread a mutex, a condition variable, `eventLoop` | start, get a loop | main thread and pool threads |
| TCP connection (`tcp_connection.c`) | channel, input and output buffer, `request`, `data` | create, read, send, close, shut down | its loop; the application's callbacks |
| buffer (`buffer.c`) | array, `readIndex`, `writeIndex`, `total_size` | append, read from a socket, take, find CRLF | connection and parser |
| HTTP server (`http_server.c`, `http_request.c`, `http_response.c`) | `current_state`, request line, headers | parse, answer, reset | TCP connection |

What is hard here: threads append to a list another thread walks; a wakeup byte races with the wait it is
to end; a remove must have taken effect before the callback that follows it; a descriptor number outlives
its connection; the connection's fields are filled in while its thread may already run; a TCP stream cuts
requests anywhere; a buffer wraps and grows at its boundaries. Correct means: nobody touches a list out of
turn, no assert fails, no request is stranded, one thread per connection, callbacks find what they
dereference, bytes come out as they went in, answers belong to requests.

### The connection pool (`connection/src`)

State: the queue of free connections, the counter of all, one mutex and one condition variable. Clients
take and give back (a `shared_ptr` deleter), one thread produces, one deletes idle connections. Hard:
notify and timeout against each other, a scanner that decides by the counter and acts on the queue, four
paths that change the counter. Correct means: a connection has one user, the counter is exact and bounded,
callers come back.

### The thread pool (`thread_pool/thread_pool.h`)

State: a task queue, `is_shutdown`, a mutex, a condition variable, shared by the pool object and detached
workers. Hard: a notification sent after the unlock, tasks that give tasks, shutdown with a full queue,
moved-from objects. Correct means: no idle worker while a task waits, tasks in order and once, a shutdown
that drains.

### The asio echo server and client, and the PROXY protocol

* `asio_server/server.h`: per session a buffer, a count of bytes, one outstanding operation (read or write),
  the client's address. Handlers run one at a time; each starts the next operation. What the first read
  brings is shown to the PROXY parser.
* `asio_client/client.h`: `talk_to_svr` logs in, then for ever writes a line, reads the answer up to its
  line break, sleeps.
* `asio_server/proxy_protocol.cpp`: creates and parses PROXY headers, versions 1 and 2, with TLVs, SSL
  sub-TLVs, a checksum and padding to an alignment. State: the `pp_info_t` its caller keeps, with a growing
  array of TLVs.

Hard: a handler that starts the wrong operation strands a peer or overwrites what is not sent; answers are
found by content, so one byte too few and all later ones are off; headers arrive in pieces; what one
function packs another unpacks; sizes meet at boundaries. Correct means: the echo is the stream, in step
with the client; a header comes back as it was given, a part or a corrupted one is never taken for one.

### The rest

* `test_epoll/include/base.cpp`: an edge-triggered server in several threads. State: per thread an epoll set
  with its ready list and the batch in hand; one listening socket and the process's descriptors in common.
  Hard: an edge is told once to each set, so a loop left too early strands data or clients. Correct means:
  nothing to tell without an event to come.
* `for_cpp_basis/include/t_blocking_queue.h`: a queue with a mutex and a condition variable. Correct means:
  no pop of an empty queue, elements once and in order, every `Get` returns.
* `for_cpp_basis`, the other exercises: lock order, copy on write, an expiring factory, futures.
* `log.c`, `utils.c`, `read.c`, `sock_ntop.c`, `tcp_client.c`, `TimerLog.h`: wrappers and logging.

## 2. Modules

| module | models | how it corresponds to the code |
|---|---|---|
| `EventLoop` | `event_loop.c`, both dispatchers, the reading and closing side of `tcp_connection.c` | a thread is named by its loop; `pc[t]` says where in `event_loop_run` or in a request it is. A step lies between two points where another thread could look: taking a mutex, releasing it, writing a wakeup byte, one callback, one list element |
| `ChannelRegistry` | abstract | per loop a queue of requests, applied in order, each in the end; no threads, locks or wakeups |
| `EventLoopInvariant` | - | the inductive invariant `IInv` |
| `TcpServer` | `tcp_server.c`, `thread_pool_get_loop`, the HTTP server's connection callbacks | extends `EventLoop`; three of its actions get the application's part conjoined |
| `EventLoopThread` | `event_loop_thread.c`, `thread_pool_start` | main thread and pool threads, one step per lock, unlock, wait, signal |
| `Buffer`, `ByteQueue` | `buffer.c`; abstract queue | one action per operation, indices and memory as in the struct |
| `ConnectionPool` | `connection_pool.cpp` | what a thread does between taking and releasing `_queue_mutex` is one action |
| `FixedThreadPool`, `Executor` | `thread_pool.h`; abstract executor | workers, callers of `execute`, the objects that share the data |
| `HttpConnection` | `http_server.c`, `http_request.c`, sending in `tcp_connection.c` | tokens for line texts and CRLFs; one action per round of the parser's loop |
| `EdgeTriggered` | `HandleEpollUsing` and `OnEpAccept` of `base.cpp` | one step per system call of a thread; the ready list of each epoll set and the peers beside it. Error returns of `accept`, `SetNonblocking` and `epoll_ctl` may happen at any time. Printing is left out, and with it that `fmt::print` throws on a text that is no format |
| `ProxyProtocol` | `proxy_protocol.cpp`, `.h` | pure operators: a `pp_info_t` is a record, its TLVs a sequence with the room the array has beside it, a v2 header the sequence of its bytes. The text of a v1 line is a record with the length the line has |
| `ProxyExchange` | how the library is meant to be used | a sender that fills in, adds, creates; a connection that delivers any part and may change one byte; a receiver that parses, asks for the values, clears and tries again |
| `EchoServer` | `server.h`, `main.cpp` of the server | one action per handler and outcome; a write goes out in parts. Pieces stand for bytes; the parser is `ProxyProtocol`'s |
| `TalkClient` | `client.h` | extends `EchoServer` with clients that run `talk_to_svr`; other peers send as they like |
| `BlockingQueue` | `t_blocking_queue.h`, the threads of its test | one step per lock, wait, notify and access to the queue |
| `MCEventLoop`, `MCTcpServer`, `MCHttpConnection` | - | instances for TLC |
| `MCThreads`, `MCLibraries` | - | instances for several parts that share nothing: a variable `subject`, chosen at the start, says which of them a behaviour is about, and the others stay as they began. Fairness and liveness are those of the subject |
| `*Proofs` | - | theorems and proofs |

Several modules hold operators marked "Mutant" beside a definition. Each is that definition with a
plausible bug (a dropped lock, an off-by-one, a missing reset). They are not part of any specification;
substituting one for its definition makes TLC refute the property listed with it in `PROJECT.json`, which
shows that the property depends on that piece of code.

Things worth knowing about the reactor's model:

* The wakeup descriptor is readable exactly when a byte is in the socket pair; peers are arbitrary, so any
  subset of the watched descriptors may be ready, and each of them may deliver data, its end, or (on epoll)
  a hang-up.
* `handle_connection_closed` asks for the removal and never closes the descriptor; `openFds` keeps it. Only
  the hang-up branch of `epoll_dispatch` closes one. This is why `OneLoopPerFd` holds on poll, and it
  is a descriptor leak at the same time.
* Every failing `assert`, NULL dereference and `error(1, ...)` sets `aborted`, after which nothing moves.
* A v2 header is put together byte by byte, since its lengths, the gap before the padding and the checksum are
  what its properties are about; the checksum is the CRC-32c of these bytes, tested against the value the
  literature gives for "123456789" (`CheckValue`).
* The copy loop of `make_room` is written as a simultaneous copy (`Moved`). That the loop, which copies within
  one array, does the same is an assumption TLC evaluates (`CopyLoopMoves` in `MCLibraries`).
* `handle_write` and the update request (type 3) are left out. `channel_write_event_enable` casts
  `channel->data`, a `tcp_connection`, to `event_loop`, so for a connection no update request ever reaches
  the connection's loop. `HttpConnection` models the call as the end of defined behaviour.

## 3. Runs

| run | instance | shows |
|---|---|---|
| `TcpServer_poll` | main loop, two pool threads, four connections on two descriptors, one of them `-1`; two wakeup bytes fit | the reactor under its server: no abort, no lost wakeup, one loop per descriptor, synchronous removal, additions take effect; round robin, one user per connection, no message callback without its request |
| `EventLoop_epoll` | three loops, a descriptor used twice, one failed accept, one wakeup byte fits | the same hazards with hang-ups and no timeout; `IInv`; every request is applied in order and eventually; every requesting call returns |
| `EventLoop_lost_add` | two loops on epoll, a descriptor used twice | *violation*: a connection that inherits a hung-up descriptor on the same loop is never watched |
| `TcpServer_early_message` | one pool thread | *violation*: a message callback may see `data` uninitialized |
| `Threads` | seven pool threads; two producers and two consumers of two elements each | start-up of the pool and the blocking queue, both with spurious wakeups: no missing loop is handed out, no empty queue popped, elements in order, everybody comes back |
| `Libraries` | a buffer of 2 to 5 bytes; some forty uses of the PROXY library; a talk client and a peer that may come through a proxy, windows and buffer of two pieces | every layout of the buffer agrees with the byte queue and stays inside it; headers come back as given, a part or a corrupted one is refused, padding is aligned, the array holds; the echo is conserved, the client stays in step, `client_ip_` is told by a header in the first read and never changed afterwards, answers come |
| `ConnectionPool` | three clients, three initial connections, at most five | exclusiveness, counter, and that the scanner is harmless, and calls return |
| `ConnectionPool_exhausted` | two clients, one connection | *violation*: a client's timeout is restarted for ever, by each wakeup after which it finds the queue empty, although the connection is free in every round |
| `FixedThreadPool` | two workers, two callers, three tasks, two objects | work conservation, order, clean and complete shutdown |
| `HttpConnection_split` | three requests of eight kinds, pipelined, cut at any token | answers match requests, the stream is kept, the process ends in the three named cases only |
| `HttpConnection_partial_read` | two requests in pieces | *violation*: the message callback never returns |
| `EdgeTriggered` | two threads, two peers, two descriptors, batches of two, two bytes unread, one read at a time | data, ends, resets and (but for failed accepts) clients are never left without an event to come; what arrives is read |

### Bounds, and why they are enough

* Reactor: the interesting conflicts are pairwise (acceptor and worker on one list, a removed descriptor
  and its next owner, two workers that might share one). Three loops and a descriptor used twice make all of
  them happen. `WakeCap` 1 makes a full socket pair reachable, 2 makes left-over bytes reachable.
  `PollSize` 2 makes a full poll set reachable but not exceeded; `AddTakesEffect` needs that room (below).
* Buffer: with two bytes initially and up to five in all, an append can fit, fit after moving, or need
  growth, and a read can spill by one or two bytes; `Junk` marks memory nobody wrote.
* Connection pool: connection objects are as many as `MaxSize`; the scanner removes any prefix of the
  queue, which stands for every choice of idle times. `Produce` may fail in any round.
* Thread pool: a task may be given again after it was taken, so runs are unbounded although there are three
  task names.
* Edge-triggered server: two threads on one listening socket meet at an emptied backlog; two peers use up
  the descriptors and, with the listening socket, overfill a batch of two; two bytes against reads of one make
  a read loop necessary. Peers come back after a close, so runs are unbounded.
* PROXY library: up to three calls of `pp_info_add_*` (`MaxAdds`) take the array over its first enlargement when
  one of them is `add_ssl` with its sub-TLVs; `UnixPath` is 4 instead of 108. A header is cut at 8, 16 and 28
  bytes, at its end, one byte before each of these, and two bytes behind the end (`Behind`): inside the signature,
  around the fixed part and the addresses. One byte is changed (by 1 or 128) at any place of a header with a
  checksum, since nothing else promises to notice, and with at most one added TLV.
* Echo server: buffer and windows of two pieces each (`BufSize`, `Window`) make partial writes, full windows and
  split lines and headers happen. Runs are unbounded.
* Blocking queue: two threads on each side with two rounds each (`Rounds`, ten in the code) let a consumer be
  overtaken between its notification and its lock, and a notification meet two elements.
* HTTP: a line is a text token and a CRLF token, so a segment boundary falls between lines or between a
  text and its CRLF. Splitting inside a text, or between CR and LF, behaves like the second: no CRLF is found.

### Fairness

* Reactor: a dispatch returns when its wakeup descriptor is readable, and on poll also after its timeout;
  nothing is assumed of peers. Threads run. A thread waiting for a mutex that is free again and again gets
  it (strong fairness on the two lock steps): the holder leaves it free for a whole dispatch in between.
* Event loop threads: threads run; the same for the new thread's lock, which main may take and release any number of times
  in spurious wakeups. Nothing forces a spurious wakeup.
* Connection pool: threads run, an unended wait times out, and `connect` succeeds again and again (strong
  fairness of `Produce`). A client need not give its connection back and nothing need become idle.
* Thread pool: threads run, `notify_one` and `notify_all` are reached, a task returns after finitely many
  calls of `execute`. Nobody need destroy the pool.
* Blocking queue: threads run and get the mutex, with strong fairness on the two lock steps, since spurious
  wakeups may take it for a moment any number of times.
* Echo server: `io_service` runs every handler that is due. Talk client: its loop goes on unless an exception
  ends it. A line that `write_some` took in part is excepted in `TalkGoesOn`: the rest is never sent.
* Edge-triggered server: each thread runs; nothing is assumed of peers, which is why `EverythingRead` excepts a
  read loop that one peer keeps going for ever.
* HTTP: the loop's thread runs and the network delivers; the client owes nothing.

## 4. Divergences found while modelling

Those with a run: `EventLoop_lost_add`, `TcpServer_early_message`, `ConnectionPool_exhausted`,
`HttpConnection_partial_read` (see `findings` in `PROJECT.json` for the lines they contradict). Further
ones are stated as definitions and refuted by TLC when the named module is run with the constants given:

| definition | module, constants | what happens |
|---|---|---|
| `AddTakesEffect` | `MCEventLoop`, poll, `PollSize = 1`, two descriptors | `poll_add` of a full set logs "just abort it" (`poll_dispatcher.c:85`) and aborts nothing: the connection is registered and never polled |
| `NoFrontOfEmpty` | `ConnectionPool`, more clients than `InitSize` | `scan_connection_task` calls `front()` on an empty queue (`connection_pool.cpp:119`) |
| `ProducerBlocksOnlyWhenFilled` | same | the scanner empties the queue without a notify; the producer stays blocked, contrary to the comment at `connection_pool.cpp:82` |
| `NullObjectsDestroyed` | `FixedThreadPool`, two objects | the destructor's notify dereferences a null `data_` (`thread_pool.h:55`) |
| `AllDataProcessed` | `MCHttpConnection`, `Pipelined` | a second request in the buffer waits for the next read, contrary to the comment at `http_server.c:101` |
| `DoneAtLastLine` | `MCHttpConnection`, `Requests <- TightOnes` | a header without `": "` ends the request, contrary to `http_server.c:76` |
| `EndedConnectionsClosed` | `EdgeTriggered` | `done` is set on every way out of the read loop, so "Close connection" (`base.cpp:214`) is never reached and descriptors run out |
| `RestIsTakenOver` | `MCHttpConnection`, `PartialWrites` | the rest of a partial write is never sent, contrary to `tcp_connection.c:115` |

Of the PROXY library and its users, met while modelling (source lines of `proxy_protocol.cpp`, `.h`):

* `pp_parse_hdr` of a v1 line returns positive error codes (1176, 1183, 1198, 1205) and `pp_create_hdr` sets
  `*error` to positive ones, where the header file says `< 0`; `pp_create_hdr` takes versions 1 and 2, the header
  file says 0 and 1; port 0 is refused (200-209), the comments at 1216 and 1238 say "[0..65535] inclusive".
* A final TLV of length zero is ignored (`> 3`, 938), also when an alignment was asked for but the header is aligned
  without a NOOP TLV behind it; an AF_UNIX header loses its TLVs and its checksum (926-930); `cert_in_session` is lost
  (310); `local` is ignored when a family is given.
* `add_ssl` counts sub-TLVs that are absent, so that trailing bytes of the TLV are what the allocation held;
  `pp_create_healthcheck_hdr` uses members it never set (727-735).
* An aligned header with an alignment asked for gets a padding TLV behind the announced length; with a checksum
  its own parser refuses it (701-712). The checksum's bytes are zeroed in the caller's buffer (969). The getters of
  US-ASCII values count the NUL.
* A Session parses its first read only, with `strlen`: a v2 header, or a v1 line in two reads, is never recognised.
  The client connects to 8080 while the server listens on 8090.

## 5. Proofs

All theorems hold for every value of the constants that meets the named assumptions of the modules; hypotheses
beyond these are named below.

**Event loops** (`EventLoopProofs`): `Typing`, `MutualExclusion`, `Safety`, `Wakefulness`, `Ownership`,
`SynchronousRemoval`, each a safety invariant of `EventLoop`. None of them is inductive alone. `IInv`
(module `EventLoopInvariant`) adds five parts: `LockInv` (the mutex is held exactly by the thread in the
critical section), `RequestInv` (what a thread's request may be at each point of its loop), `MapInv` (the
channel map covers what the dispatcher watches, a ready descriptor is still watched), `FlightInv` (a
descriptor on its way to a loop is open, watched by nobody and in one place only) and `RemoveInv` (a channel
whose removal is under way is registered, with no event waiting for it, and stays gone afterwards). Each action
preserves each part, which is `Invariance`; the assumptions used are those of the constants. Two more results
rest on it:

* `RequestsInOrder`: every step of the loops is one of `ChannelRegistry`, which knows two: a request is queued, and
  the oldest request of a loop is applied; every other step leaves both alone. The mapping takes the requests a loop
  has not applied yet, the one its thread has in hand first.
* `AdditionsTakeEffect`, under `Dispatcher = "poll"` and `Cardinality(Fds) <= PollSize`, which is the room the code's
  array of 1024 entries is assumed to have. The part added to `IInv`, `EntriesWatched`, says that a poll loop watches
  every descriptor its map holds a channel for (`MapInv` has the converse); then a full array would hold every
  descriptor, the new one with them, and that one is not in the map.

**Server** (`TcpServerProofs`): every behaviour of the server is one of the loops (`ServerRunsOnLoops`), so
the theorems above hold in it; `SrvTyping`; `SingleUser`, from an invariant that follows a channel from the
acceptor through the list to the map; `RequestsAttended` (no message callback without a request), from
the invariant that every channel asked for, queued or registered has its request until its own loop has
removed it; and `EvenDeal`: after any number of connections each loop has been dealt as many as any other, or one more,
because the loops before `position` have had one turn more than those behind it.

**Buffer** (`LibrariesProofs`): `Typing`, `NothingUnwritten`, `InBounds` (no append leaves the array when
`realloc` succeeds) and `Agreement` (each operation does to the readable bytes what the queue's operation
does, for every size, also when `realloc` may fail). `MemorySafety` joins the second and the third. The invariant
is that the indices are ordered and everything between them was written.

**Echo server and talk client** (`LibrariesProofs`): `Conservation` (what a client waits for is the way back, the
Session's buffer and the way there, in this order), by lemmas on how each handler moves pieces from one of these
sequences to the next; `AnswersInStep`, because a client that waits has read a part of its line and waits for the rest.
The second needs the first: what arrives is the head of what is waited for. `AddressSettled` looks through the
parser of the PROXY library: as long as a Session has not read, a header is at the front of its stream as it was
sent; a line that has not come whole gives no address, and a version 2 header, whose bytes the Session's read ends
at the first zero of, never gives one.

**PROXY library** (`LibrariesProofs`), for every `pp_info_t` its header file describes, any TLVs and any place where the
bytes are cut: `RoomForTlvs`, `Aligned` and `WholeHeaders`. The last two are about headers whose length is one a
`uint16_t` holds (`InAWord`); a longer one announces less than it has. `ExchangeInv` says what the header is at each
stage: what `Header2` or `Header1` makes of the sender's information, or, after one byte has changed, bytes of the same
number that arrive whole. The rest are lemmas about the operators, which do not mention the state:

* of the writer, `PaddedIs` (the padded length is a multiple of the alignment, with room for the NOOP TLV in the gap) and
  `Header2Is` (as many bytes as announced, whatever is written behind the end, and the announced length among them);
* of the parser, `NextTlvKeeps` and `TakeSubKeeps` (a round leaves room in the array, and the rest of the announced
  length inside the buffer), `AllTlvsKeep` and `SubTlvsKeep` (so does any number of rounds), and `Parse2Answers`: of
  any bytes, not only honest ones, the array has room, and a positive answer is the length of a header that is there.

`RoomForTlvs` needs the second for a changed byte: a changed length field may still not reach beyond what has arrived.

`RoundTrips` states `RoundTrip` for every sender, any TLVs in any number, either version. Its one hypothesis is that a
version 2 header is `InAWord`, as above. It needs an invariant of its own beside `ExchangeInv`, `GivenInv`: the TLVs
of the sender are what `given`, the list of what it was asked to add, makes of them, entry by entry and in order
(`Recorded`; an SSL TLV stands for five entries, `Packed`). It leaves out one case that `Lossy` names too, an SSL
TLV whose name is empty. From there the argument follows a header through the parser:

1. `Layout`: in the bytes of `Header2` the addresses, the TLVs in order, the NOOP TLV in the gap and the checksum stand
   at the places their lengths say; `FlatPlaces` says where in a flattened sequence each part is.
2. `TlvsRead`: the n-th round of the parser's loop finds the n-th TLV and keeps its type and value; an SSL TLV is taken
   apart by the inner loop, into the sub-TLVs it was packed from; the checksum, taken out and computed again, is the one
   that was written.
3. The getters: for each type the first TLV of the answer that has it holds the value `given` has first for this type
   (`GetsFirst`, `EntrySeen`), and the checksum is found if there is one (`SumFound`). `SenderHonest` gathers what the
   invariants say of the sender, among it that the last TLV is one the parser does not ignore (`LastValue`).
4. `RoundTrip1` does the same for a line: its fields are read at the places they were written to, and what a line cannot
   tell (`Lossy`) is what the theorem leaves out.

The proof made the property more precise: `Lossy` used to leave out a final empty TLV only without an alignment.

**Connection pool** (`ConnectionPoolProofs`): `Typing`, `NoSharing`, `Counting`, `FrontExists` and
`NobodyWaitsInVain`, the last two for at most `InitSize` clients. They rest on counting: free plus used
connections are the counter.

**Thread pool** (`FixedThreadPoolProofs`): `Typing`, `IdleWorkersAreWoken`, `CleanShutdown`, and
`StepsImplementExecutor`, the refinement `ImplementsExecutor`, which is one of safety. The invariant ties `is_shutdown` to the
object that holds the data, and a sleeping worker to the absence of a finished shutdown.

**Threads and queue** (`ThreadsProofs`): `PoolTyping`; `LoopsExist`, because every thread before the one main works
on has its loop; `SignalComes`: main sleeps only on a thread that has its signal still to send, which needs to know
who holds that thread's mutex at each point. `QueueSafety`, for any number of producers, consumers and rounds: the
invariant gives the mutex to the thread inside a call and a consumer that is about to pop an element to find, and
says that `got` followed by the queue is, for each producer, what it pushed, each element at one place.

**Edge-triggered server** (`EdgeProofs`): `EdgesSuffice` and `BacklogKnown`, for any number of threads, peers and
descriptors and any length of a batch. Neither is inductive: `EdgeInv` adds what a thread's place in the code says of
the batch in its hands (`BatchInv`), and separates data and ends, which a read loop takes away, from resets, which only
the branch for errors does (`DataHeard`, `ResetHeard`).

**HTTP connection** (`HttpProofs`): `Typing`, `AnswersBelong`, `CrashCauses` and `StreamIntact`, for any requests and
however the stream is cut into reads. The invariant lays out all that was sent in one stream, gives each request the
place where it ends, and says for each state of the parser where in that stream the buffer begins: behind the last
request answered, behind the lines parsed so far, or at the header without ": " that has stopped the parser. A
request line is then at the head of the buffer whenever one is looked for, unless such a header is. `CrashCauses`
names the ways in which the process may end: a request without a Connection header when the answer is written, what is
left of a request behind a header that has ended it too early, and an answer the socket does not take whole. The last
has two forms: a socket that is full (`PartialWrites`, which the run leaves out), and a client that has closed before its
last answer, so that a reset may have come. The write then raises SIGPIPE, which nothing ignores
(`signal(SIGPIPE, SIG_IGN)` is commented out at `acceptor.c:30`), or returns -1 as a `size_t`, which passes
`nwrited >= 0` so that the branch for EPIPE and ECONNRESET (`tcp_connection.c:107`) is never entered.
`StreamIntact` adds to the invariant the equation it states: each step moves bytes from one side of a boundary to the
other.

Four functions in these models are recursive: `Kept` (`EdgeTriggered`), `EncodeAll` (`HttpConnection`), `Loop`
(`ProxyProtocol`) and, in the community modules, `FlattenSeq`. The library's induction rules cannot be cited, since they
take an operator as a parameter, so `Induction` is derived from the well-foundedness of the naturals for sets: `Least`,
by `WFMin`, then `Induction`. With it one shows that a function with the recursive equation exists, that `CHOOSE`
therefore gives one, and what it computes.

**Model-checked only:**

* everything about liveness (`RequestsReturn`, `PoolComesUp`, `GetsReturn`, `GetConnectionReturns`, `WorkersEnd`,
  `EchoComesBack`, `TalkerGoesOn`, `EverythingRead`, the fairness half of `ImplementsRegistry`), since
  ENABLED and fairness are outside the prover's reach;
* of the PROXY library: `ChecksumHolds`. It is a fact about the headers of the run and not one about all of them. The
  polynomial detects any single changed byte of what it is computed over, but the parser looks for the checksum at
  a place the bytes tell: a changed length shifts the framing, and a TLV of four bytes whose type becomes that of the
  checksum is taken for one. What is compared then may be right by accident, which 32 bits cannot exclude.

## 6. Not modelled

* `handle_write` and update requests (unreachable in a defined way, see 2); the doubling of the array in
  `channel_map_make_space`; `http_response.c` (formatting); the size of the header array and the bytes inside an HTTP
  token; configuration and MySQL calls.
* `log.c`, `utils.c`, `sock_ntop.c`, `tcp_client.c` and timing helpers (wrappers); `read.c`, which nothing calls.
* In the PROXY library: failing allocations, and v2 headers of more than 65535 bytes, whose length wraps. Where the
  parser's 16-bit arithmetic wraps (942, 1007 and 1036: a TLV of 65533 bytes or more, an SSL TLV of fewer than five,
  sub-TLVs of more than 65535 bytes) the code reads behind the header or goes round for ever; the model
  stops there with `Undefined`, which is none of the library's answers. No header its own writer makes gets there,
  as `RoundTrips` shows for those that are `InAWord`.
* In the asio parts: half-closed connections. In `base.cpp`: `host_buf` and `port_buf` (line 106), static buffers two
  threads may write at once and that are only printed; a thread whose first `epoll_ctl` fails (151-155) and that
  ends before it has served anybody.
* `BlockingQueue::size`, a const function that locks a mutex that is not mutable: it would not compile if called.
* The other exercises. `CustomerData` (`t_shared_ptr.h`) has a private update that nothing calls and a query that
  reads `data` where the member is `_data`; `StockFactory::get` (`t_weak_ptr.h`) returns a null pointer whatever
  it is asked; the threads of `t_mutex.h` are commented out; the example in `t_thread.h` (13-45) takes two locks in
  opposite order on purpose and protects nothing; futures and `circular_reference_test` keep no state.

## 7. Plan

Done, in this order: reactor, server, start-up of the pool, buffer, connection pool, thread pool, HTTP,
the edge-triggered server, PROXY library, echo server with its client, blocking queue; the proofs of section 5.

Next, by importance:

1. A byte-level parser module below `HttpConnection`: the header array's limit and the tokens' terminators.
2. `ChannelMap`: growth of the array against the function `EventLoop` uses.
