# A verification project for SummerBreeze and FREEZE_NET

The repository holds two C++ server libraries that grew out of ZeroMQ:

* **SharedLib** (`src/SummerBreeze/SharedLib/Shared`): a Windows TCP server
  library. I/O threads accept and read sockets, unpack protocol objects and hand
  them to one logical thread that runs them. Built by the Visual Studio projects,
  so the poller is `select_t` and the Windows branches of `#if` are the ones
  meant below. It brings its copy of JsonCpp.
* **FREEZE_NET** (`src/workspace/Shared`): a later Linux rewrite. The same
  mailbox / poller / command machinery carries asynchronous MySQL queries
  between a client thread and a server thread. Beside it is `hello`, a small
  edge-triggered epoll server.

TLA+ modules here model the concurrent core of both, their byte formats and the
JSON library. TLC checks them on small instances, and TLAPS proves the central
results for every value of the constants.

## 1. Inventory

### SharedLib

| component | state | operations | hard behaviour | what makes it correct |
|---|---|---|---|---|
| `mailbox_t`, `signaler_t` | `cpipe`, `lock`, bytes in a socket pair | `send`, `recv` | senders and the reader interleave; the poller reads the socket without the lock; the socket pair can fill up | every command received once, in its sender's order, and one signal per command |
| `io_thread_t` | mailbox, poller, `engine_map`, serials | `in_event`, `process_stop`, `process_register_accept`, `process_new_connections` | stop is a command among others; in_event goes on after it | nothing received before the stop is lost |
| `logical_thread_t` | producer and consumer queue, `stopping` | `push`, `swap`, `loop`, `stop` | pushes race swaps and the stop | the two queues behave as one; a stop is a barrier |
| `select_t`, `poller_base_t` | fd list, three fd sets, `retired`, load, timers | `add_fd`, `rm_fd`, `set_*`, `loop`, `execute_timers` | a handler removes descriptors while the loop dispatches the same pass | no handler runs for a removed descriptor; load is the number of live entries |
| `zmq_engine_t`, `tcp_socket_t` | fd, handle, receive buffer | `plug`, `in_event`, `error`, `terminate` | packets arrive split and joined; an exception in a handler closes the engine | every complete packet is handled once, in order |
| `zmq_listener_t`, `tcp_listener_t`, `tcp_connecter_t` | listening or connecting fd | `set_address`, `in_event`, `open`, `connect`, `close` | no descriptor is left; `bind` or `connect` fails | a connection goes to exactly one I/O thread |
| `ctx_t`, `object_t` | slots, I/O threads, logical thread, `active_connect` | constructor, destructor, `choose_io_thread`, `connect_address`, `send_command` | three kinds of threads choose, send and stop at once; descriptors come back | every thread is told to stop and joined before what it uses is deleted |
| `protocol_binary_t`, routing | prototype map, `s_route_map` | `pack`, `unpack`, `find_and_clone`, `handle_mount`, `find_route`, `registered` | the map is written by the logical thread and read by I/O threads without a lock | only what was mounted is forwarded |
| `PackPacket`, `UnpackPacket` | bytes, read and write positions | `Append`, `Drain`, `Grow`, `>>`, `<<` | lengths at their bound; a cut stream | what is packed is unpacked |
| JsonCpp | a tree of values with comments; a reader's position | operations of `Value`, `Path`, three writers, `Reader` | arrays with holes, comments anywhere, bounds of integers | a document that was written is read as the value it was |
| `Guard`, `SpinLock`, `Singleton`, `thread_t`, `atomic_counter` | a lock word | `Lock`, `Unlock`, `Get` | | mutual exclusion |
| `MySQLConnection`, `RecordSet` (`MySQLdb`) | `mysql_`, reconnect counter | `Connect`, `Query`, `HandleMySQLErrno` | the server goes away during a query | older text of FREEZE_NET's |

### FREEZE_NET

| component | state | operations | hard behaviour | what makes it correct |
|---|---|---|---|---|
| `Mailbox`, `Signaler` | `cpipe_`, a mutex, bytes in a socket pair | `Send`, `Recv` | the signal is sent after the unlock and read before the lock | no command without a wake-up |
| `MySQLRPCClient`, `MySQLRPCServer` | `client_stubs_`, `msg_id_`, two mailboxes | `SendRPC`, `ProcessRPCMysqlRequest`, `ProcessRPCMysqlResponse`, `Stop` | the response may overtake the store of the stub; the map is shared without a lock; the stop command has no case | every request's callback runs at most once, with its strings alive |
| `MySQLConnection` (`Db`) | `mysql_`, reconnect counter | `Connect`, `Disconnect`, `Query`, `HandleMySQLErrno`, `CanTryReconnect` | the server goes away during a query | a query is retried until it succeeded or the limit is reached |
| `ResultSet` | a row and a column | `MoveNext`, `operator >>` | NULL fields, texts that are no numbers | columns stay in step |
| `Ctx`, `Object` | slots | constructor, destructor, `SendCommand`, `ChooseIOThread` | the destructor deletes nothing and stops nobody | |
| `IOThread`, `Epoll`, `PollerBase` | entries, `retired_`, load, timers | `AddFd`, `RmFd`, `Loop`, `ExecuteTimers`, `InEvent` | handlers change poller and timers while it dispatches | an event gets to its source or to nobody; a due timer runs |
| `ByteBuffer` | bytes, size, two positions | `Append`, `Read`, `Skip`, `Drain`, `Expand` | compaction and reallocation between reads and writes; a read that throws | what is written is read |
| `hello` | sockets in an edge-triggered epoll set | accept and read until EAGAIN | descriptors run out; the other end resets | no connection waits for an edge that never comes |

How they interact: an I/O thread is a poller, a mailbox and the engines of its
connections. The listener's thread accepts a socket, chooses the I/O thread with
the least load and sends it a command; every channel between threads is a
mailbox, except that I/O threads hand unpacked messages to the logical thread
through its double queue. The logical thread writes answers straight to the
session's descriptor. In FREEZE_NET, callers of `SendRPC` put requests into the
mailbox of the server's thread, which runs the query and answers through the
mailbox of the client's thread, which runs the callback. ByteBuffer, ResultSet
and JsonCpp are used by applications and share no state with the threads.

## 2. Plan

Done, in the order of importance:

1. `CommandQueue`: what every channel between threads promises (abstract).
2. `Mailbox`, `FreezeMailbox`, `LogicalThread`: the three channels as written, each
   shown to implement `CommandQueue` (`INSTANCE ... WITH queue <- ...`).
3. `ZmqEngine`: one connection from the byte stream to the logical thread.
4. `SelectPoller`: the poller of an I/O thread together with its handlers.
5. `RpcMysql`: client, server and callers, over two queues that promise what
   `CommandQueue` promises; `RpcMailboxes`: the same two threads over two `FreezeMailbox`es.
6. `MySQLConnection`: a query and its retries.
7. `NetServer`: the context with listener, connecter, I/O threads and logical thread,
   over the queues of 2: loads, the life of a descriptor, and the shutdown.
8. `Packets`: the stream of `ZmqEngine` in bytes, and the routes.
9. `ByteBuffer`, `ResultSet`, and JsonCpp as `JsonValue` <- `JsonWriter` <- `JsonReader`,
   `JsonValue` <- `JsonPath`, `JsonOrder` and `JsonEdit`, put together by `Json`.
10. `Epoll` and `HelloServer`: the two users of epoll.

Left:

* Proofs about what the writers, the reader, the paths and the comparison of JsonCpp
  do with whole values: a value is a tree of any depth, which no recursive function
  over a set that TLC can enumerate follows, and every such proof is an induction over
  trees. What the operations do to one value with its items is proved.

## 3. Modules and code

`PROJECT.json` ("map") gives the lines of every definition. In outline:

| module | code | state | actions |
|---|---|---|---|
| `Mailbox` | `mailbox_t`, `signaler_t`, `io_thread_t::in_event` | `cpipe`, `lock`; `signals` are the bytes in the socket pair; `reader` is where the I/O thread is | `Push` and `Signal` are the two halves of `send()` under its lock; `RecvSignal` and `RecvCommand` those of `recv()`, `RecvNothing` its EAGAIN; `Process` is `process_command()`; `TestStopping` is the poller's look at its flag, later and without the lock |
| `FreezeMailbox` | `Mailbox`, `Signaler`, `InEvent` | as above, without a lock: `signalling` are the senders between the unlock and the signal | `Push`, `Signal`; `RecvSignal` or `RecvInterrupted` (EINTR), then `RecvCommand` |
| `LogicalThread` | `logical_thread_t` | `producer`, `consumer`, `stopping`, place in `loop()` | `Push`, `Stop`, `TestStopping`, `Drain`, `Run`, `Swap` |
| `ZmqEngine` | `zmq_engine_t`, `tcp_socket_t::read`, the front of `PackPacket` | positions in the byte stream: sent (`packets`), `arrived`, `taken` by `read()`, `offset` of the buffer's first byte | `Wake`, then `ReadSome` (one turn of the loop in `in_event()`, packet included), `ReadNothing`, `ReadError`, `ForwardError`; `Answer` is the logical thread |
| `SelectPoller` | `select_t`, the handlers of `io_thread_t` and `zmq_engine_t` that change it | `fds` (retired entries included), the descriptor sets, `load`, the loop's index, `engine_map` | `Select`, `TestErr`, `TestIn`, `EndPass`, `LoopEnds`; handlers: `NewConnection` (plug), `EngineError`, `ProcessStop`, `InEventReturns` |
| `NetServer` | `ctx_t`, `object_t`, `zmq_listener_t`, `tcp_listener_t`, `tcp_connecter_t`, the commands of `io_thread_t`, `TestNetContext` as the user | per connection a stage, a descriptor and a thread; per thread whether it runs; mailboxes and the logical queue; what each caller of `choose_io_thread()` has found; how far the destructor is (`down`, an index into `TearDown`) | `Listen`, `Connect`, `ConnectFails`, `Accept`, `Choose` (one turn of the loop in `choose_io_thread()`), `SendNewConnections`, `MainReceives`, `IoReceives`, `TakePacket`, `EngineError`, `Answer`, `Leave`, `Destroy` (one step of `~ctx_t`). Of the assertions on the way it has three: no socket, no room for a signal (`SendCommand`), no room in the table of the `select_t` (`AddFd`) |
| `Packets` | `PackPacket`, `UnpackPacket`, `protocol_binary_t`, `protocol_test_t`, `protocol_mount_t` | the bytes in the stream and in `pack_packet`, the size of its memory, `routes`, `mounting` | `Send` (`pack()`), `Read` (a read of any length, `Grow`, `Drain`, `unpack()`, dispatch), `ForwardError`, `RunMessage`, `HandleMount` (one turn of its loop) |
| `RpcMysql` | `MySQLRPCClient`, `MySQLRPCServer`, `Object` | the mailboxes, `stubs` (`client_stubs_`), `strings`, `msgId` | `Enter`, `Send`, `BeginStore`, `EndStore` are `SendRPC()`; `ServerRecv`, `ServerRespond`; `ClientFinds`, `ClientMisses`, `ClientFindsHalf`, `CallbackReturn`; `Stop` and what it leads to; `broken` is the damage that two changes of the map at once may do |
| `RpcMailboxes` | the two mailboxes between `MySQLRPCClient` and `MySQLRPCServer` | those of two `FreezeMailbox`es: `requests` and `responses`, their signals and who is sending one, and where each of the two threads is | `SendRPC` (also from a callback) and `SignalRequest`; `ServerReads`, `Respond`, `SignalResponse`, `ServerReturns`; `ClientReads`, `ClientReturns` |
| `MySQLConnection` | `MySQLConnection` | `mysql` (undefined, null or open), `reConnectCount` | one action per outcome of `Query()`, `Connect()` and `HandleMySQLErrno()` |
| `ResultSet` | `ResultSet` | the row, the column (`index`), the value read last | `MoveNext`, `ReadField` for each type, `ReadNothing`, `ReadUnset` |
| `ByteBuffer` | `ByteBuffer` | memory, size and both positions, which are unsigned | `AppendBytes`, `AppendString`, `Extract`, `ExtractString`, `Drain`; `Align`, `Grow`, `Expand` are operators |
| `JsonValue`, `JsonOrder` | `Json::Value` | a value is a record: type, number, text, items, comments | operators: `SetElement`, `Resize`, `IsConvertibleTo`, `Converts`, ...; in `JsonOrder`, `Less` and `Equal` |
| `JsonEdit` | a program that makes a value | the value, its operations so far, whether `resize()` has aborted | `Operate`: an operation of `Json::Value` on the value or one of its items |
| `JsonWriter`, `JsonReader` | the three writers; `Reader` | a document is a sequence of tokens; a reader is a record | operators: `FastWrite`, `StyledWrite`, `StreamWrite`; `Parse` and one operator per function of the reader |
| `JsonPath` | `Json::Path` | arguments as indices and names | `MakePath`, `Resolve`, `ResolveOr`, `Make` |
| `Json` | a program that uses them | the value of `JsonEdit` and the document | `Edit`, `Write`, `GetToken`, `Lose`, `ReadInto` |
| `Epoll` | `Epoll`, `PollerBase`, `IOThread` | entries by address, the batch of events, timers in order, the clock | `StartPass`, `RunTimer`, `StartWait`, `Wait`, `Call`, `SkipRetired`, `ProcessCommand`, `UseFreed`, `DeleteRetired`; a handler makes one call of the interface, or none (`Handle`) |
| `HelloServer` | `hello.cpp` | connections, what is unread, edges that epoll has still to report | `Wait`, `HandleEvent` (`AcceptAll`, `Read`, `Ignore`); the peers |

The `MC` modules put modules that have no state in common side by side, so that one
run checks each of them: a behaviour of `MCChannels` is one of a mailbox or of the
logical thread; of `MCFreezeMailbox`, one of a single mailbox or of the pair; of
`MCPollers`, one of `select_t`, of `Epoll` or of the hello server (`Systems` says
which may run); of `MCSerializers`, one of ByteBuffer, of ResultSet, of Packets or of Json.
`MCBuffers` is the part of the last with ByteBuffer, ResultSet, Packets and `JsonEdit`, which reaches no
recursive operator, so that theorems can extend it. The modules with `Proofs` in
their names hold theorems only.

Choices worth knowing:

* Critical sections are atomic where nothing outside the lock can see their
  middle. In `Mailbox` the poller can, so push and signal are two steps; in
  `LogicalThread` nothing can, so `Push` and `Swap` are one step each. `NetServer`
  takes `send_command()` as one step, which the two refinements justify.
* The data race on `client_stubs_` is undefined behaviour. While one thread is
  inside its insertion, a lookup may find the stub, find it half stored, miss it or
  crash the process (`UseStubs`, `ClientFindsHalf`, `ClientMisses`); the history
  variable `raced` says that it happened. When two threads change the map at once
  (`ChangeStubs`), either insertion may be lost and the tree counts as `broken` from
  then on: every lookup may miss and every use may end the process. A thread that
  goes round in a damaged tree for ever counts as the end of the process, and a
  node that is half linked is taken to have its key. So `OnlyForeignRequestsLeak`
  says what the map holds only for runs in which no two threads have changed it at
  once; a lookup that meets an insertion is in it. The
  race on `s_route_map` is taken as far as an opcode with a set that is still
  empty (`HandleMount`); a map that is being rebalanced is not.
* `MySQLConnection` starts with a handle that is not initialised: `mysql_init()`
  may fail before `mysql_` is assigned, and using it may do anything.
* In `NetServer` the system gives the least restricted choice of a descriptor:
  any that is free. POSIX and Windows give particular ones of these. How many entries
  of a table are retired when an engine is plugged is left open too: none, or up to as
  many as connections have ended in that thread. Only those of the same pass can be.
* What the handlers of FREEZE_NET's `Epoll` do is not in the repository. In `Epoll` each makes
  one call of the poller, or none: `AddFd()` with the `SetPollin()` that belongs to it, `RmFd()`
  of any source, the two timer calls, `Stop()`, or a change of its own entry. Several calls
  in one handler, calls with the handle of another source but for `RmFd()`, and a handler that cancels
  the timer it is called for are left out. `Flags` are the events that handlers set
  and reset; the run has `"out"` only, `EventsDoNotStray` is proved for both.
* In `ByteBuffer` the length of a string is one cell, so `Values` stands for 2^16.
* In `JsonValue` an array is a map with holes, as in the code: an element that
  nobody has referred to is in no map, and a size is the greatest index and one.
* `Json` has references of its own: `Meaning` is what a value stands for without
  comments and holes, `MeaningsOf` what a sequence of tokens means as a JSON text,
  defined by cutting it at commas and not by reading it from the left.
* The first definitions of each module, under "Slips in this code", are
  mutations of the model. They are not part of a specification; they are there to
  show that the properties notice a plausible bug.
* `query_result` of a request is NULL, which `MySQLRPCServer.cpp:129` asserts and
  no code in `SendRPC()` sees to; the one program that calls it (`UnitTest/RPCMySQL`) does.
* `EveryRequestEnds` of `RpcMysql` is about mailboxes that have room. `AnsweredOrOverloaded`
  of `RpcMailboxes` says what full ones change.

## 4. Runs

Runs that pass:

| run | what it shows |
|---|---|
| `channels` | For two senders, a stop and a socket pair that can overflow: one signal per command and an abort only on overflow, commands once and in order; a reader that leaves has received what was there when it processed the stop, though not always what came later; the mailbox implements `CommandQueue`. The logical thread: the two queues are one queue; a stop is a barrier and ends the loop. |
| `freeze_mailbox` | Without a lock around the signal there are signals too many and too few for a time, and still everything is served, signals do not pile up, and the reader comes to rest. In a pair of such mailboxes, server and client send to each other from within `ProcessCommand()`: with both socket pairs full they wait for each other for ever; this needs about as many unread commands as the two hold signals, which is proved, and a request is left without an answer in no other way. |
| `engine` | Any cut of the stream, any mixture of packets, a peer that waits for answers or does not, a connection that breaks at any point: registered packets reach the logical thread once and in order, none is left behind in the buffer in the two cases that `NothingLeftBehind` names, and a peer that waits is answered. |
| `select_poller` | `MCPollers` with `select_t`: handlers add and remove entries while the loop is dispatching, socket numbers come back: the table matches the objects, a pass calls the living and leaves out nobody, a readable connection is served. |
| `net_server` | The destructor may run at any point and no command goes to a deleted thread; an answer or a message reaches its own connection as long as peers wait and sessions live; loads differ by one at most when connections come one by one. |
| `net_server_liveness` | A connection in the backlog is plugged; the destructor comes to its end and leaves nothing open, whenever it is called. |
| `rpc_mysql` | What the unlocked map of stubs leaves true: at most one callback, strings that outlive the query, no leak but the lost requests, requests from callbacks find their stub, every request ends. |
| `mysql_connection` | A connection that was given up stays so; a call of `Query()` returns unless it reconnects for ever. |
| `serializers` | ByteBuffer holds what was written until a read throws. Packets: what is passed on is what was packed, for any cut; what is forwarded was mounted. JsonCpp: the reader gives back what the three writers make of a value, for the styled ones unless a `//` comment without its end of line swallows something; every JSON text is read, comparison is a total order, conversions keep what `isConvertibleTo()` promises, an array is a list, `make()` and `resolve()` agree on paths. ResultSet: columns stay in step whatever their fields are. |
| `pollers` | `MCPollers` with the other two. Epoll: an event gets to the source that it was reported for or to nobody, and a timer that is due runs. hello: when no edge is to come, nothing waits, but for a backlog behind an `accept()` that failed, for want of descriptors or otherwise, and a descriptor of a connection that was reset. |

Runs in which the code does not do what the repository says of it. Each checks
that one property, and TLC shows how it fails:

| run | stated | what happens |
|---|---|---|
| `engine_forwarding` | `in_event()`: "We must read whatever data is available completely" | The loop that forwards a packet tests `packet_length`, which never changes, and ends only when a send fails. |
| `json_strict` | `features.h`: strict mode is "strictly compatible with the JSON specification" | `parse()` asks whether the root `isArray()`, which holds of null too, and does not look at what follows it: TLC finds a text that begins with `null` and goes on with the end of an array. The code also takes any token in `readArray()` for a comma (`badTokenType` asks for a token that is `,` and `]` at once) and skips comments in objects. |

More disagreements, which have no run of their own:

* `plug()` says "Flush all the data that may have been already received
  downstream." `in_event()` takes one packet per `read()`: with two packets in one
  read the second stays in the buffer until more data comes. `NothingLeftBehind`,
  which is proved, gives the two cases in which this does not happen.
* `SendRPC` stores the stub after the request has been sent; a fast answer finds
  none and is reported as "mysql rpc response mapped error !".
* `Stop()` is to "Ask underlying thread to stop." `ProcessCommand()` of FREEZE_NET
  has no case for STOP and asserts (`Abort` in `RpcMysql`, `ProcessCommand` in `Epoll`).
* `HandleMySQLErrno()`: "To prevent crazy recursive calls, sleep here." A reconnect
  that succeeds sets the counter to 0 and `Query()` calls itself, without a sleep: a
  query that costs the connection each time recurses for ever. This is the
  second alternative in `QueryReturnsOrReconnects`.
* `signaler.hpp:29` says "there can be at most one signal in the signaler at any
  given moment". `mailbox_t::send` signals on every command; `SignalerIsExact`,
  which is proved, says how many there are.
* `select.cpp:62` says that the assertion in `add_fd()` is there to "ensure we do
  not attempt to select () on more than FD_SETSIZE file descriptors". It counts
  the retired entries that wait for the end of the pass as well, so connections
  that break while they are plugged can end the process earlier. In
  `SelectPoller` this is the branch of `NewConnection` to `"aborted"`.
* `writer.h` offers styled writers that keep the comments. `setComment()` takes a `//` comment
  without its end of line, and the writers add none behind a value: the comment that stands
  before the next value follows on the same line and loses its `/*`, so one that spans
  lines leaves its rest behind as text. `StyledWriter::writeIndent()` takes a blank at the end
  of such a comment for the margin and writes the next element into the comment. `RoundTrip`
  excepts the values in which this can happen, and no others. Comments that the reader has
  collected bring their end of line, but for one that ends the document.
* `value.h:477` describes paths with `%` and `[%]`. Only the first argument is ever
  taken (`itInArg` is not advanced), and `resolve()` with a default has the test of an
  index inverted, so it gives the default for indices that are there.
* `isConvertibleTo(intValue)` holds of the unsigned number `maxInt`, which `asInt()`
  refuses (`<` for `<=`); `ConvertibleConverts` excepts this one number.
  `isConvertibleTo(stringValue)` holds of numbers, which `asString()` refuses.
* `ResultSet::operator >>` for `int8_t` and `uint8_t` reads a character, not a
  number: "5" is 53. `ReadsColumnByColumn` states it so.
* `TestNetClient` receives into `pack_packet_1` and decodes `pack_packet`, the
  packet that it has sent: it cannot notice a wrong answer.

### Bounds

* `channels`, the mailbox: two senders with two commands each and a stop; room for 3
  signals. The queue can be longer than the socket pair, so the overflow happens, and
  commands can be behind the stop. The logical thread: three messages each, enough for
  a message in the consumer queue, one in the producer queue and one pushed after the
  stop, repeatedly.
* `freeze_mailbox`: 3 commands each, room for 2 signals, so that senders wait; one
  interrupted read. These three channels are proved for all bounds; the runs are for
  the liveness and for finding mistakes first.
* `engine`: three packets of lengths 2 and 4, a read of at most 3 bytes, a header of
  2. A packet can be shorter than a read, longer, end with it, or be cut within
  its header; a read can hold the end of one packet and the whole of another's
  header. Real values (20, 1024) only change how many turns the same cases take,
  and the safety part is proved for all of them.
* `select_poller`: four connections on two socket numbers, so that numbers are used
  again, also within one pass; room for 4 entries, so that the assertion can fail. The
  safety part is proved for any number of each.
* `net_server`: two I/O threads, three connections on two descriptors, one of them
  possibly the user's session: a descriptor is used again by another connection
  while an answer or a name still points to it, and descriptors run out. Three
  connections are the least that two threads can share unevenly. Room for two signals
  and three entries, so that both assertions can fail; they need two commands waiting,
  or two engines and a retired entry, in one thread.
* `net_server_liveness`: the same with two connections, of which one can be a session.
  Both properties follow one connection or one thread through its queues; a second
  connection is enough to be before it in the backlog or the mailbox, or under way in
  the user's thread when the destructor is called.
* `rpc_mysql`: three requests of one thread and the callbacks, which are the two
  threads that a race needs; two requests are needed for it, a third to see its
  consequences. A third thread takes more than the time of a run; `AtMostOnce`,
  `StringsSurvive` and `LeaksAreForeign` are proved for any number of them.
* `freeze_mailbox`, the pair: one thread and the callbacks with three requests each, room for 2
  signals: both socket pairs can be full while the two threads send. TLC finds the
  circle as well with room for 1 and more requests.
* `mysql_connection`: limit 3 instead of 10 and six queries, so that the limit is
  exceeded by failed reconnects, by ordinary errors and by both. Two of the five
  errors of a lost connection stand for all: the code treats them alike.
* `serializers`, ByteBuffer: first size 2, least size 3, slack 1, limit 7 in place of
  512, 512, 2^14 and 2^28, writes of at most 2 bytes and at most 4 waiting, 3 values
  of a cell: compaction, each way to a new size, the limit and a string whose
  length is cut all happen.
* `serializers`, Packets: two messages of four kinds (text, text with a 0, mounts,
  options), memory of 16 bytes with slack 8 and limit 64, reads of at most 50 bytes
  that are cut at 1, 9, 24, 43 or not at all: a cut within the length field, within
  the header, behind it, within and across packets; memory that grows and throws.
* `serializers`, Json: `MaxInt` 31, arrays up to 2, documents of up to 4 tokens, 2
  operations on the value, and what the writers make of it with or without a
  token lost; a margin of 12 with 3 characters for a leaf, so that `StyledWriter`
  breaks some arrays and not others. An operation can make a hole in an array and
  the next one resize it. Comments with and without the end of their line, with a blank
  at their end, on one line and on two: both exceptions of `RoundTrip` happen.
* `serializers`, ResultSet: 2 rows of 3 columns with a NULL, an empty text, a negative
  number, one that does not fit and a text that is no number; `Half` is 16 for 2^(w-1).
* `pollers`: 2 sources and the mailbox at 3 addresses, 2 timers, a clock of 1, which is
  enough for a timer to be due and for another not to be: a source can be removed and
  another added at its address within one batch. hello: 2 connections, 1 descriptor, 2
  reads' worth of data. `NoEventStrays` and `NothingMissed` are proved for all of these.

Deadlock is not checked where the system may really stop: when nobody sends any
more, the thread has been told to stop, or the process has died. The configuration
files have `CHECK_DEADLOCK FALSE` for this reason; where something must go on, a
liveness property says so.

The type invariants (`TypeOK`) are proved where the table below lists a theorem with
`TypeCorrect` in its name; those of the other modules with concurrency were checked
with TLC under the configurations above, and so was every inductive invariant below
before it was proved.

### Fairness

Weak fairness of the threads' own steps: the scheduler runs a thread that can
run. A sender within `send()` goes on (`Signal`, `InSendRPC`), since it holds a lock or
is in the middle of a function. Nothing is assumed about the environment that
the code could not rely on: no thread need call `send()` or `SendRPC()`, nobody need stop,
a peer need not send, a connection need not break and a send to a dead route need
not fail. `ZmqEngine` assumes that TCP delivers what was sent as long as the
connection is up; `SelectPoller`, that `select()` returns when a descriptor is
readable and that handlers return; `RpcMysql`, that a query ends; `Epoll`, that the
thread runs and time passes. In `NetServer` the main thread, each I/O thread and
the logical thread run, a call that the user has begun goes on and so does a
destructor that has begun, but nobody makes the user listen, connect or destroy,
and no connection need break. The serializers and hello have safety properties only.

## 5. Proofs

Proved by TLAPS for all values of the constants, from the assumptions named in
each module (counts are natural numbers, capacities positive, the reader is not a
sender, addresses, connections and descriptors are finitely many, the marks for
"none" are none of the things they are marks for, and the like;
`ZmqEngineAssumption` has packets no shorter than the header):

| module | theorems | inductive invariant |
|---|---|---|
| `CommandQueueProofs` | `QueueIsFaithful`: the abstract queue serves every sender's commands once and in order | the property itself with the types, over the history `served \o queue`: a `Send` appends to it, a `Serve` does not change it |
| `ChannelProofs`, the mailbox | `MailboxTypeCorrect`, `SignalerExact`, `StopLosesNothingDue`, `MailboxRefinement`, `MailboxIsFaithful` | one signal per command needs to know that the reader is in the middle of `recv()` exactly if it has the lock (`LockDiscipline`); what was due at the stop is queued or served, and served from the empty `recv()` on (`StopDrains`) |
| `ChannelProofs`, the logical thread | `ThreadTypeCorrect`, `StopIsABarrier`, `ThreadRefinement`, `LogicalThreadIsFaithful` | no serial exceeds its sender's count; after the stop, nothing in the queue that is still going to be drained is later than the stop |
| `FreezeMailboxProofs` | `TypeCorrect`, `CommandsAreCovered`, `SignalsDoNotPileUp`, `WakeupsAreNotLost`, `Refinement`, `FreezeMailboxIsFaithful` | that no wake-up is lost is not inductive; `SignalCover` counts the signals that are read, unread and to come, and is; `SignalsFollow` is its converse: when the reader finds no signal, no more than one for each sender is on its way |
| `ZmqEngineProofs` | `TypeCorrect`, `BufferIsAligned`, `PushedFaithfully`, `PacketsAreNotHeldBack` | packets' ends increase by at least a header (`EndsIncrease`), so that the packet at the front is unique; then, how far a peer that waits can be ahead (`Ahead`) and that no complete packet is at the front between reads (`NothingComplete`) |
| `PollerProofs`, `select_t` | `SelectTypeCorrect`, `TableIsExact`, `PassServesTheLiving` | the entries that are not retired are those of the objects and each has one (`EntriesOf`, `OneEach`), from which the set and the load follow (`Counts`); that a pass leaves nobody out is not inductive, that what is reported and not served is still in front of the loop is (`Reported`): its entry lives, is in the set that the loop tests, and has not been passed |
| `PollerProofs`, `Epoll` | `EventsDoNotStray` | an event of the batch points to an entry that is still allocated, retired or not, and has the source it was reported for; while a batch is served entries are neither freed nor given another source (`EntriesStay`) |
| `PollerProofs`, hello | `EveryEdgeIsUsed` | an open connection is at rest, with nothing unread from a peer that is still there, or has been reset (`Settled`), or else has an edge to come or an event that is not yet handled (`Due`); the backlog likewise, unless `accept()` has `failed` the last time |
| `BufferProofs`, ByteBuffer and ResultSet | `BufferIsFaithful`, `ColumnsInOrder` | a buffer `Holds` a sequence: its positions are in order and the bytes between them are the sequence; each operator of the module is shown to keep or change what is held, and nothing is said of a buffer of which a read has thrown. Of a ResultSet: the index is the number of reads since `MoveNext()`, whatever they gave |
| `BufferProofs`, Packets | `UnpackBack`, `PacketsArriveAsPacked`, `ForwardedOnlyWhenMounted`, `PacketsTypeCorrect` | what was sent is in two parts (`Received`): the packets of `done` have been taken, those of `todo` are what buffer and stream hold, byte for byte; and the memory is no smaller than what the buffer holds (`MemoryInv`). A read moves a message from `todo` to `done` because the first packet's length is in its header (`PacketAtFront`) and `unpack()` undoes `pack()` (`UnpackBack`, field by field). Of the routes: what is being mounted, and the map's domain, are opcodes that a mount message which has run has named (`RoutesInv`), and a set of the map holds its own opcode or nothing (`RouteTypes`) |
| `BufferProofs`, JsonCpp | `ArraysAreLists`, `ConversionsAreKept`, `KeysAreOrdered` | the value and each of its items are values (`AreValues`): in particular the indices of an array have a greatest, which the size follows, through `operator []`, `append()` and a `resize()` that removes some of them. This is about the program of `JsonEdit`; the values that the reader makes are in `serializers`, where TLC finds that `AreValues` (the first conjunct of `ArrayIsAList`) holds of them too. `KeysAreOrdered` is about the keys of the map and not about whole values |
| `RpcMysqlProofs`, requests | `AtMostOnce`, `StringsSurvive`, `TypeCorrect`, `LeaksAreForeign` | follows a request by its id: it is in one place only (`Apart`), has had no callback and is not lost while it is there (`Unanswered`), and has its strings while it is on its way to the server (`HasStrings`). Nothing is needed about the map of stubs, which is why the race on it does no harm to the first two. `Leaks` adds to this what the map and the strings hold: what is under way, what is lost and what is being called back, the map without what is being stored, as long as no two threads have changed it at once (`Held`); that a lost request is not the callbacks' own needs that the client's thread calls `SendRPC()` from a callback only (`InCallback`) and that there was no race (`ForeignLost`) |
| `RpcMysqlProofs`, mailboxes | `PairIsFaithful`, `RestIsAnswered`, `BlockedByLoad` | each mailbox of `RpcMailboxes` is shown to implement `FreezeMailbox`, step by step, and inherits its theorems; of the two together, the server has answered all that it has read but at most one request, and who is inside `Send()` is inside `ProcessCommand()` (`Paced`). Both threads wait for commands only when every request is answered; if each waits for room in the other's socket pair they do so for ever, with the load that `Overloaded` names |
| `RpcMysqlProofs`, connection | `ErrorsAreBounded`, `ConnectionStaysGivenUp` | a call that is under way has counted fewer errors than the limit and the calls so far (`Counted`); who has given up has a null handle and is outside of a call or at its beginning (`GivenUp`) |
| `NetServerProofs` | `NothingSentToTheDead`, `AnswersReachTheirPeers`, `TypeCorrect`, `LoadsBalance` | a thread is deleted exactly when the destructor is past its deletion (`DeletedInOrder`), and whoever is choosing an I/O thread lives or the destructor has not begun (`ChoosersLive`); the lemma `TearDownOrder` says which step of the destructor is which for any number of threads. `Lives` follows a connection: open ones have descriptors of their own (`Descriptors`), one that is handed over is in one hand or in one command of the mailbox of its thread (`Hands`, `Mails`), and whose message is queued still has the descriptor that the answer will go to (`Patience`). `Balance`: one connection at a time is on its way, the loads that a caller has looked at have not changed since (`LeastSoFar`), and a connection in a mailbox is for a thread with the least load |

The order of the argument for the channels: `QueueIsFaithful` is proved once of the
abstract queue. Each channel is shown to implement it (`...Refinement`: initial states
map to initial states, every step to a step or a stutter) and inherits it (`...IsFaithful`).
`RpcMysql` and `NetServer` then take a mailbox as a sequence with `Append` and `Tail`, which is
what these refinements allow.

`PacketsArriveAsPacked` needs facts about sequences of any length (what the bytes of all
packets are, what a reader finds behind the bytes it has read), and so an induction.
The library's induction theorems take an operator and cannot be used; instead
`BufferProofs` takes the least number of a set (`LeastNat`, from `WellFoundedInduction`
with a set as its parameter) and derives that a set of numbers with 0 which is closed under
the successor has them all (`UpTo`).

Some definitions are as they are because of the proofs. `Packets` has no recursive
operator: the loops of `pack()` are `FlattenSeq` of what each turn writes, and those of `unpack()`
a function of the number of items taken, whose reader holds the bytes that are
not yet read. `JsonEdit` is apart from `Json`, and `JsonOrder` from `JsonValue`, so that
`JsonEdit` and `JsonValue` reach no recursive operator. `prompt` of `NetServer` is false
from the first engine that ends, those closed by a stopping I/O thread included:
the proof of `LoadsBalance` failed at `Close` as long as it was not. The end of a pass
of `select_t` is stated with the set of the entries that live and their order (`EndPass`),
and not with the recursive `SelectSeq`. `HelloServer` and `Epoll` name the assumptions on their
constants that `EveryEdgeIsUsed` and `EventsDoNotStray` need.

Model-checked only:

* all liveness, which is out of the prover's reach: `EventuallyServed`, `RunsUntilStopped`,
  `ComesToRest`, `AnsweredOrOverloaded`, `EveryRequestEnds`, `ConnectionsGetServed`, `DestructorCleansUp`,
  `DueTimersRun`, `ReadableIsServed`, `EveryPacketAnswered`;
* that a call of `Query()` returns or reconnects for ever (the rest of
  `QueryReturnsOrReconnects` is `ConnectionStaysGivenUp`);
* `RoundTrip`, `ReadsAllJson`, `OrderIsTotal` and `PathsLeadToWhatTheyMade`, which are about
  recursive operators on values.

## 6. Not modelled

* Of JsonCpp: the map, the array and the batch allocator of its own, which this
  build does not compile (`JSON_VALUE_USE_INTERNAL_MAP` is not defined); iterators;
  the characters of a token but for escapes and the amount of a number; the texts of
  errors and where they are.
* Wrappers of system calls, locks and threads, which the models take as atomic or
  as scheduling; logging.
* `epoll_t` of SharedLib: compiled only where the library does not build; `Epoll` is
  about its successor.
* `MySQLConnection` of SharedLib, the older text of the one modelled, and `RecordSet`.
* `tcp_socket_t::write` and the poller's output side: nobody uses them.
* Timers of `poller_base_t`: nobody adds one. Those of `PollerBase`, which are the
  same, are in `Epoll`.
* `tcp_socket_t::read` asserts on socket errors other than those it lists; `ZmqEngine`
  has the listed ones.
* `registered()` consults a set that is empty unless the application calls
  `add_registry`; `ZmqEngine` takes the kind of a packet as given, `Packets` starts with
  any set of opcodes.
* What `PackPacket::Drain` does by `memcpy()` on overlapping memory is taken as a move.
* The destructor of FREEZE_NET's `Ctx`, which is empty, and what its threads do to
  the context afterwards. `TcpListener`, which the rest does not use.
* The stubs of `RpcMysql` together with full socket pairs: `RpcMysql` has the former,
  `RpcMailboxes` the latter. Interrupted reads in `RpcMailboxes`.
* `Singleton`: no user, and its template does not compile when instantiated.
