# Verification project for wsh-webserver

TLA+ models of the HTTP server in `src/wsh-webserver`, the TLC runs that check them and
the theorems TLAPS proves about them. File and line references are to `src/wsh-webserver`.

## 1. The system

`main` (`app_entry.cpp`) constructs one `wsh_server` and calls `run()`. There is one
acceptor thread (the main thread) and `config.threadpool_capacity` (5) detached worker
threads. Nothing is persisted but a log file; the only state workers share is the pool,
the logger, the process environment and the table of inheritable handles.

| Component | Files | State | Operations |
|---|---|---|---|
| thread pool | `threadpool.*` | deque of tasks, mutex, condition variable, `isAllRunning`, vector of (detached) threads | constructor, `enqueue`, `dequeue`, `cancel_all`, destructor, worker loop |
| accept loop | `server.cpp:121-133` | acceptor, the connection being handed over | accept, enqueue |
| connection handler | `server.cpp:23-119` | socket, buffer, `ktimer`, `completed_session_counter`, request, response | loop: check, read, parse, dispatch, respond |
| keep-alive timer | `timer.h` | `m_expired`, a thread | `start`, `terminate`, `expired`, `join` |
| static files | `http_handler.cpp:5-95`, `file_utils.*` | the file system (shared, changes under the server) | 200/206/304/404/405/500, ETag, ranges |
| CGI and FastCGI gateway | `http_handler.cpp:97-361` | pipes, child process, process environment (shared by all workers) | create pipes, set environment, spawn, write body, read response |
| error pages | `http_handler.cpp:363-424` | - | `get_error_page` |
| HTTP codec | `http_parse.*`, `tools.cpp` | - | parse request, parse CGI response, write response, ranges, URL coding |
| logger | `logger.h` | one `ofstream` shared by all workers without a lock | `log` |
| FastCGI streams and protocol | `fcgiapp.c` | per request: a reader, two writers, parameters, the connection and the flags that decide whether it is kept | get, put, flush, close, formatted print, accept, finish |
| FastCGI operating system layer | `os_unix.c`, `os_win32.c` | table of asynchronous operations, descriptor table (Windows), accept lock or mutex, shutdown flag, listeners | asynchronous read/write, `OS_DoIo`, accept, close, listen, connect, spawn |
| FastCGI wrappers | `fcgi_stdio.c`, `fcgio.cpp` | the three standard files; the buffer of a C++ stream | `FCGI_Accept`, `FCGI_Finish`, stdio and streambuf operations |
| curl headers | `curl/` | - | third-party, unused |

**Interactions.** The acceptor hands sockets to workers through the pool. A worker runs
`handle_listener` until the connection ends: a connection occupies a worker for its whole
life. `handle_listener` calls the codec, then one of the three content handlers by file
extension, then the codec again. The gateways start child processes that inherit the
process environment and every inheritable handle of every worker. The FastCGI library is
that of the *applications*: it is not linked into the server (`wsh-webserver.vcxproj`) and
meets it only as the other end of a connection. Within it the wrappers call `fcgiapp.c`, which
reads, writes, accepts and closes through one of the two operating system layers.

**What is hard here.** Wake-ups and shutdown of the pool (a lock held across joins,
detached threads, a flag reset before anybody may see it); connections that keep workers
for ever; exceptions that leave a worker and end the process; sockets closed on some
paths explicitly and on others by the last `shared_ptr`; the request budget closing the
socket under a request in flight; one `read_some` taken for one request; files that
change between `stat`, `stat` and `read`; an environment block shared by concurrent CGI
requests; one pipe used for both directions with a FastCGI child. In the library: records
that arrive split anywhere, streams nested in one another while management records are
answered, writes that fail in the middle, a request structure reused with what an earlier
request left, callbacks that close what is being iterated over, several processes on one
socket, signals between a test and the call it protects, completions for handles that are
gone.

What makes each component correct:

* pool: mutual exclusion; each task executed at most once, in submission order; no lost
  wake-up; every queued task is eventually executed while tasks return; `cancel_all`
  returns; nothing starts once the destructor has begun.
* connections: every accepted socket has one owner and is closed in the end; no use after
  close; each request answered once; the server ends connections it announced to end.
* static files: status, headers and body describe one version of the file.
* gateway: a child sees the environment of its own request; all handles are released on
  every path; the response read is the child's.
* codec: while reads return whole requests, what is parsed is what was sent; replies keep
  their order and their ends.
* FastCGI streams: each record is followed whatever its split, a stream delivers its own
  content and all of it, the environment is complete, management records are answered; what
  is written arrives framed, once, in order, and a request is answered by one end.
* FastCGI request: a connection has one owner and is closed or kept as announced; the
  standard files never lead to streams of a finished request.
* operating system layer: an operation is posted once and called back; one process waits in
  accept and all paths give the lock back; an accepted connection is served or closed; a
  shutdown request ends the wait; a listener reaches the child it was created for.
* logger: every `log` call appends its line whole (it does not, see section 6).

## 2. Modules

Modules of the server:

| Module | Models | Extends / instantiates |
|---|---|---|
| `TaskExecutor` | what callers of the pool are promised (abstract) | - |
| `ThreadPool` | `threadpool.cpp`, one action per critical section | `TaskExecutor` (refinement) |
| `ThreadPoolProofs` | theorems | `ThreadPool`, `TLAPS` |
| `Server` | accept loop and `handle_listener`, composed with the pool | `ThreadPool` (shared variables) |
| `ServerProofs` | theorems | `Server`, `TLAPS` |
| `MimeResource` | `handle_mime` and what it calls, against a changing file | - |
| `MimeResourceProofs` | theorems | `MimeResource`, `TLAPS` |
| `RequestStream` | the bytes of a connection: reads, `http_req_parse`, `tools.cpp`, writes | - |
| `CgiGateway` | `handle_cgi` and `handle_fastcgi` in several workers, the programs they start | - |
| `CgiGatewayProofs` | theorems | `CgiGateway`, `TLAPS` |

Modules of the FastCGI library:

| Module | Models | Extends |
|---|---|---|
| `FcgiReader` | input streams, record handlers and parameters of `fcgiapp.c` | - |
| `FcgiWriter` | output streams of `fcgiapp.c`, as operators on a stream and the web server's view | - |
| `FcgiRequest` | `FCGX_Accept_r`, `FCGX_Finish_r`, `fcgi_stdio.c` | `FcgiWriter` |
| `FcgiRequestProofs` | theorems | `FcgiRequest`, `SequenceTheorems`, `WellFoundedInduction`, `TLAPS` |
| `FcgiPrintf` | `FCGX_VFPrintF` | - |
| `FcgiStreambuf` | `fcgio.cpp` | - |
| `FcgiStreamsProofs` | theorems | `FcgiStreambuf`, `FcgiPrintf`, `FcgiReader`, `SequenceTheorems`, `WellFoundedInduction`, `TLAPS` |
| `AsyncIo` | asynchronous input and output of `os_unix.c` | - |
| `UnixAccept` | `OS_Accept` of `os_unix.c` in several processes | - |
| `UnixIpc` | listeners, connections and children of `os_unix.c` | - |
| `UnixProofs` | theorems | `AsyncIo`, `UnixAccept`, `UnixIpc`, `TLAPS` |
| `Win32Table` | the descriptor table of `os_win32.c` | - |
| `Win32Async` | overlapped input and output, `OS_DoIo`, the standard input thread | `Win32Table` |
| `Win32Accept` | `OS_Accept`, `OS_IpcClose`, accept mutex and shutdown thread | `Win32Table` |
| `Win32Ipc` | listeners and children of `os_win32.c` | `Win32Table` |
| `Win32Proofs` | theorems | `Win32Accept`, `Win32Ipc`, `Win32Async`, `TLAPS` |

`MCThreadPool`, `MCServer`, `MCMimeResource`, `MCCgiGateway` and `MCFcgiReader` are
TLC instances of one module. `MCHttp` (`MimeResource`, `RequestStream`), `MCFcgi` (reader, print, stream buffer, requests),
`MCUnix` and `MCWin32` (three modules each) put components that share no state side by side: the variable
`part`, fixed at the start, says which of them a behaviour is about, and the others stand still.

### ThreadPool

| Code | Model |
|---|---|
| `task_queue` | `task_queue`, a sequence of task numbers; task n is what the n-th `enqueue` submitted |
| `mtx` | `mtx`: its owner or `None` |
| waiting on `cv` | `wpc[w] = "wait"`; `notify_one` moves one such worker to `"wake"`, `notify_all` all of them |
| `isAllRunning` | `isAllRunning` |
| `threads[i].joinable()` | `i \in joinable`; always empty, `detach()` precedes `emplace_back` (lines 8-9, 40-41) |
| `thread_in_pool` | `Lock`, `Wait`, `Return`, `Take`, `Finish` |
| `enqueue`, `dequeue` | `Enqueue`, `Dequeue`: one critical section, one step |
| `cancel_all`, destructor | `...Begin` and `...End`: `mtx` is held while the code waits for threads to join |

Undefined behaviour (`front()` of an empty deque, a worker touching the pool after its
destruction) sets `undefined` and the model claims nothing about what follows. The
destructor may leave detached workers behind: after `DestroyEnd` a worker may still take
its next step, or `UseAfterDestroy` may happen instead. `NoUndefined` says that until the destructor
has begun only a `dequeue()` of an empty pool, which the code does not refuse, is undefined.

`TaskExecutor` numbers tasks and forgets threads. It is `opened` until the destructor begins or a
`dequeue()` meets an empty deque (`Close`); from then on no task is accepted, started or thrown away, and no
waiting task is promised to leave.

### Server

The pool's variables are shared under their own names; the main thread is its only caller
and connection k is task k. A handler's program counter `hpc[k]` names the place in
`handle_listener`: `check` (line 33), `read` (39), `serve` (51-104), `reply` (105-114),
`exit` (116-118). `AcceptThrows`, `ServeThrows` and `ReplyThrows` are the uncaught exceptions of
`accept`, of the conversions and handlers, and of `remote_endpoint`/`write_some`; any of them ends the
process (`aborted`). A request of kind `"throwing"` is malformed (`stoi` of its length) or well formed and
given to a handler that throws: `urlDecode` of a path that does not decode, a negative size in
`readPartialFile`, an answer of a program without an empty line or with a Status that is no number,
`string_to_wstring`. `MimeResource`, `CgiGateway` and `RequestStream` show which requests these are.
`ka_timer` is the flag `expired[k]`: `terminate()` sets it; its thread is never started.

Reads: `ReadData` returns any number of requests, of which only the first is parsed, and on the
connections in `Splitting` also pieces of requests: what is parsed of a piece may be any request
(`Parsed`), and the rest is taken for one more. `inbox[k]` holds the requests that have begun to arrive,
`sending[k]` says that the end of the last one is still to come, `cut[k]` that the beginning of the
first one has been read. `whole[k]` records whether every read ended where a request ends.

Clients are external: they connect, send requests (at most `MaxOutstanding` without a
response) at once or in two pieces (`RequestRest`), shut down their side (`Fin`) or break the
connection (`Reset`) at any time.

### MimeResource

One handler, one file, and other programs that write (`Write`) or remove it between any two
system calls. `pc` names the next look at the file: `stat` (`getFileBytesCount`, ETag, validators,
lines 19-54), `sizing` (the second `stat`, in `readFileAndTimestamp`), `read` (`readPartialFile`: open, resize, seek,
read), `touch` (the last `stat`). A file is size, mtime in seconds and version. A response body is "so many
bytes of version v from offset o, padded with zero bytes". `Long` is the 64-to-32-bit conversion of offsets
(with `LongMax` = 7 for files of up to 3 bytes). A Range header is one of five forms; an unread delimiter
(`parse_range`, uninitialised) leads to the same `end` either way. A path that `urlDecode` has no text for (`decodes`) ends the
process at line 8, outside the `try`. `Read` may also fail for a file that is there: `is_open()` is false as well for a file another program holds open, for one that may not be read
and for a directory. `undisturbed`, `missed`, `emptied` and `refused` record
what happened to the file during the request; the code has no such state.

### CgiGateway

A request stands for its pipe and its program. `env` maps each variable to the request that set it:
`SetEnvironmentVariableW` is one step each, in the order of the code, because other workers run in between.
`handles[r]` is what the server has open; `inherited[r]` the programs that hold the write end of r's pipe, because
they were started while the server had it open. `AtEnd` follows from both. `handle_fastcgi` uses
one pipe for both directions: `ReadInput` (the program) and `ReadPipe` (the server) compete for the
body. Failing `CreatePipe`, `CreateProcess` and `WriteFile` return early with a response nobody filled in
(`"garbage"`) and whatever was open still open. `http_cgi_resp_parse` throws unless an empty line is found
(`Throws`), and so does `stoi` of the Status header; nobody catches either (`aborted`). Nor does anybody catch what
`urlDecode` and `string_to_wstring` throw: `Garbled` says which texts of a request (its path, a variable) may have no conversion.
`WriteFile` blocks while the pipe is full, and does not fail when the program has gone, because the server holds the read end
itself: a program that exits before it has read enough of a long body leaves its worker there for ever (`Stuck`).
User agent, host and content type are handled like the cookie and have no variables of their own.

### RequestStream

Text is a sequence of units: delimiters, words and numbers. `ReadSome(n)` is `read_some`: any
nonempty prefix of what has arrived, up to the buffer. `http_req_parse` is translated call for call on a
stream with the state of an `istringstream` (`getline`); the `\n` that `getline(..., '\r')` leaves is why the code
reads one byte more than Content-Length announces. `Understand` parses, decodes and chooses the handler; an uncaught
exception ends the process (there, or in the handler: `HandlerThrows`), a cut escape fails the assertion of `FromHex` or, without assertions, stands for any byte. `WriteSome(n)` hands any nonempty prefix of the reply to the client, which takes replies apart by
the length their head announces (`Frames`, external). `whole`, `short` and `patient` record what the network and the client did.

### FcgiReader, FcgiWriter, FcgiRequest

The connection is a sequence of records cut from units of header, content and padding. The reader's
pointers (`rdNext`, `stop`, `buffStop`) are positions in it, so that `FillBuffProc` and the handlers it calls are
actions on positions; `pc` tells the outer call from those nested in `ProcessHeader` (`eorStop`). A read returns any number of units
from one to the space left, zero at the end, or fails. The application reads, reads a line, ungets and asks for the end.

A writer is what its buffer holds. An operation (`FCGX_PutStr`, `FCGX_FFlush`, `FCGX_FClose`) is the set of its outcomes, since every `write` may
fail after any part; the web server (`Consume`) takes the records apart as they arrive. `FcgiRequest` composes both writers with
the request structure, the connection and the standard files: `OS_Accept`, `TryAgain`, `Begin` are the turns of the loop of
`FCGX_Accept_r`, reading the parameters is one step there (`FcgiReader` shows it in detail). `fastCGI.known` also says that the library is
initialized, because `FCGI_Accept` asks `FCGX_IsCGI` first.

### FcgiPrintf, FcgiStreambuf

A format is a sequence of texts and conversions, characters are counted, arguments are consumed in the order of the code's two
scans. `path` follows the fast path, the slow path and the writes. `Overrun` is the failing assertion of line 856. A stream buffer holds units numbered in the order of the attached stream; writes fail
after any part. `attach` and the destructor give up what is in the put area; `lost` records what it was and whether a `sync` had
succeeded since it was written.

### AsyncIo, UnixAccept, UnixIpc

`AsyncIo`: one entry per descriptor and direction, the sets of `select`, the posted sets and their counters, and the
loop of `OS_DoIo`, in whose callbacks the application starts and closes (`asyncPc`, `at`). `UnixAccept`: `pc[p]` follows
`OS_Accept` of one process through lock, test, accept, address check, release and the wait for first data;
`Interrupt` is a signal that ends a blocking call, `ShutdownPending` one that does not, `window` remembers that it came between the test
and the accept. `UnixIpc`: descriptor tables of processes that listen, connect, spawn, crash and start again, and the sockets behind paths.

### Win32Table, Win32Async, Win32Accept, Win32Ipc

A table maps entries to type, handle and instance; handles are small numbers that the system may give out again.
`Win32Async`: requests are pending, in a port, with the standard input thread, called back or lost. The field `instance` is never
changed by the code, so a completion finds whatever is in the entry; `stale` records the requests whose descriptor was closed first. `Win32Accept`: processes share a socket, have a pipe instance
each, or are given what `OS_Accept` does not know (`"other"`); the accept mutex is there, absent or an invalid handle (`WAIT_FAILED`). A process may be asked to shut down at any step;
`OS_LibShutdown` then resets all its sockets (`WSACleanup`), requests it still serves included (`CutOff`). `Win32Ipc`: the ways
`OS_CreateLocalIpcFd` can fail, what it leaves behind, and what `OS_SpawnChild` hands on.

## 3. Runs

A property named in a run is often a conjunction of named parts, defined beside it; the parts are given in brackets.

| Run | Instance | Properties |
|---|---|---|
| `pool_operations` | 2 of 4 threads, 2 callers, 3 tasks, all operations | `TypeOK`, `QueueDiscipline` [`MutexOwner`, `QueueOrder`, `NoLostWakeup`], `PoolNeverShrinks`, `NoUndefined`, `NoStartAfterDestroy`, `CancelReturns`, `ImplementsExecutor` with its liveness |
| `server_sockets` | 2 workers, 2 connections, budget 1, 2 requests ahead, requests that throw, pieces on one connection | `SocketSafe` [types, `SocketOwned`, `NoUseAfterClose`], `NoUnsolicitedResponse` |
| `server_keepalive` | 1 worker, 2 connections, budget 2, pieces on one connection | `RequestsNotDropped`, `AbortHasCause`, `Answered`, `ClosesWhenDone`, `EveryConnectionServed` |
| `mime_conditional` | files up to 3 bytes, 3 writes, 11 Range headers; 2 of 9 requests as bytes | `ResponseSound` [types, `UndisturbedBody`, `ResumeMatchesCopy`, `NotModifiedHonest`, `ErrorsForCause`], `PlainAbortsForCause`, `RequestSound` [types, `ParsedAsSent`, `DiesForCause`, `RepliesInOrder`] |
| `mime_length` | files up to 2 bytes | **violated**: `ContentLengthCorrect` |
| `cgi_scripts` | a CGI script and a FastCGI form, 2 workers, pipes of 2 units, a body of 3, all failures | `AnswerSound` [types, `AnswerComplete`, `AbortHasCause`], `EnvironmentFresh`, `HandlesReleased`, `Answered` |
| `cgi_client` | the same | **violated**: `EnvironmentOfClient` |
| `fcgi_library` | 14 connections in every split; formats of 1 and 3 items; a stream buffer of 2 units; 2 requests, buffers of 4 units, 1 failing write | `RecordsFollowed` [types, `InSync`, `RepliesMatch`], `ContentDelivered` [`OwnContent`, `EofHonest`, `UngetSound`], `EnvironmentComplete`, `PrintfSound` [types, `OutputAsMeant`, `BufferFits`, `RefusedForCause`], `StreambufSound` [types, `SentInOrder`, `NothingLost`, `OnlyBufferLost`, `ReadInOrder`], `ChannelSound` [types, `Framed`, `NothingAfterDamage`], `AnsweredInFull`, `NothingLeft` [`ConnectionOwned`, `FilesValid`] |
| `os_unix` | 3 descriptors; 2 accepting processes; 2 processes that listen, spawn, crash and start again | `DoIoSound` [types, `InReach`, `OneState`, `CountersExact`, `NeverBlocks`], `AcceptSound` [types, `LockDiscipline`, `Delivery`], `ListenersReached` [types, `DescriptorsOwned`, `ChildListens`, `InUseForCause`, `ReachedOnceCreated`], `Performed`, `ShutdownReturns`, `Taken` |
| `win32_io` | reused handles, 2 accepting processes on sockets or pipes | `CompletionsSound` [types, `EntryOfOne`, `OncePlaced`, `StdinInOrder`], `CycleSound` [types, `CycleExclusive`, `EntriesOwned`, `StopsForCause`], `ListenersSound` [types, `ListenTypeFits`, `LeftForCause`, `ChildOfListener`], `CalledBack`, `ShutdownStops` |
| `win32_shutdown` | the same | **violated**: `NoToastedRequests` |
| `win32_stale` | the same | **violated**: `NoStaleCallback` |

What the properties of `Server` leave open: `NoUnsolicitedResponse` is claimed of connections whose reads were whole, since the code answers
each piece of a request; that a client gets a response too many is a deviation (section 4), not excluded by any property. `AbortHasCause` is
checked with clients that send nothing that throws, so that there the only requests to throw are those made up of pieces.

**Bounds.** `Workers` bounds how many threads ever exist (hence the number of `cancel_all`
calls that create new ones; two batches of two are enough to have workers of an earlier and
of a later batch), `MaxTasks` the `enqueue` calls: with more tasks than workers the queue is
non-empty while all workers run, and with fewer some sleep. Four threads are enough for a
notified worker, one that just returned and takes its task, and one that sleeps. `MaxConnections`
exceeds the number of workers where queueing matters; two handlers interact only through the pool.
Pieces on one connection (`Splitting`) show what a second piece meets, beside a connection whose requests arrive whole; a request of three pieces is
two reads of a piece, as one of two is. A budget of 2 lets a keep-alive connection loop and end by budget. Three versions of a file are enough for
a client's copy, a version before the request and one during it; three bytes for an offset inside, at and
beyond the end. Two requests suffice in the gateway because its interactions (environment, inheritance) are
pairwise; the body of the form is one unit longer than the pipe, so that a write can block on a full pipe; the CGI request announces a shorter one.
`CHECK_DEADLOCK FALSE` where the process may end (`aborted`), the behaviour become undefined, or all
requests have been handled: there the model stops.
Of `RequestStream`, two requests in every order, split anywhere: the second shows what a cut or a short write of the first does. Units of
header, begin and end records are 2 rather than 8 bytes: enough to be split, and larger than some remainders of a buffer of 4 or 5. One
failing write per behaviour of `fcgi_library` leaves a second request to show what it damaged; `AsyncIo` needs three descriptors for one below, one at and one beyond
the place the loop has reached; two processes suffice for the accept lock since they only meet there (section 5 proves it for any number).

**Fairness.** Per-thread weak fairness: the operating system runs every runnable thread. It
is never assumed of `SpuriousWake`, of callers' decisions, of clients' requests or of a broken
connection. `TasksReturn` (in `ThreadPool!Spec`) is what users of the pool owe it; `Server` does
not use it: there a task returns when its handler does. `Submit` is strongly fair because
workers may wake spuriously for ever and the main thread competes with them for `mtx`.
`EveryConnectionServed` has the premise that each client eventually leaves; without it it is false, since
silent clients hold workers (see the findings). In `Server`, serving a request and writing a response are assumed to
end; `CgiGateway` examines the former: `Answered` has the premise that each program exits, and names the one way to hang if they do (`Stuck`). That premise
fails when the server takes the body of a form out of the pipe before the program reads it: then both wait for ever.
In the FastCGI library: a process that can take a step of `OS_DoIo` or `OS_Accept` takes it, and the application calls
them again, which is the loop every FastCGI program is; `select` finds a descriptor that stays ready (`AsyncFairness`,
`AcceptFairness`, `Win32AsyncFairness`, `Win32AcceptFairness`, all weak). On Windows no fairness is assumed of the system and the standard
input thread: `CalledBack` speaks of completions that are in the port. Nothing is assumed of signals, errors, web servers or closes.
`Performed`, `CalledBack`, `ShutdownReturns`, `ShutdownStops` and `Taken`
name the cases the code does not cover in their conclusions (see the deviations in section 4): an operation
whose descriptor is closed, a signal in the window before `accept`, a silent connection after a shutdown request.

## 4. Findings

* `mime_length`: the last byte of every file is missing. `readFileAndTimestamp` passes `size - 1` as an exclusive end
  (`file_utils.cpp:17`, 31), Content-Length is `size`; CR LF follows the body on the wire.
* `cgi_client`: the environment of the process is shared by all workers and never cleared. A program may be told
  the method of a concurrent request, and the cookie of an earlier one.
* `win32_shutdown`: the comment `os_win32.c:288-291` says that polling the shutdown flag on sockets "buys no toasted requests". A thread that sees the
  flag in `OS_Accept` calls `OS_LibShutdown`, whose `WSACleanup` (line 584) resets the sockets of requests that other threads accepted with `FCGX_Accept_r` and still answer.
* `win32_stale`: the `instance` of a request "won't match after a close" (`os_win32.c:111`), and a callback is made "if descriptor still valid" (line 1500). Nothing changes the
  instance, so that the completion of a closed descriptor is called back (line 1502).

Known deviations, which the models contain and properties exclude by an explicit premise where they matter:

* Server. `ka_timer::start()` is never called, so `keep_alive_timeout` has no effect and a silent connection holds its worker; as many silent
  connections as workers stop the server. ETags have seconds: a file replaced within the second by one of equal size keeps its ETag.
  CONTENT_LENGTH is the raw header while the body has been decoded and trimmed: the program may wait for the rest on a pipe whose write
  end it holds itself. A Range that starts beyond the file or ends before it starts, a file of 0 bytes, a path or header without a conversion, and a CGI program without
  output end the whole process by an uncaught exception. A program that exits before it has read enough of a body longer than its pipe leaves the worker in `WriteFile`. A file that is there but cannot be opened is answered like a missing one. `bytes=-n` (n > 1) is answered with zero bytes; If-Range with an old ETag answers 200 but reads from the
  offset of the range; a file that vanishes after the first `stat` is answered with 500 because line 77 of `http_handler.cpp` compares addresses.
* Codec. A request that arrives in pieces gets one reply per piece, and a piece that ends inside Content-Length or an escape may end the process. A body that is not
  in the packet of its headers is read as zero bytes. A request without headers is given one of no name, and never a body.
* Reader. A management record of unknown type that has content delivers the content to the client of the stream; skipping a record of no content leaves the reader
  skipping; `SetReaderType` forgets padding; an error between two parameters is taken for success (comment `fcgiapp.c:2259`); a kept connection drops what was
  buffered beyond the request; values are answered only when the next record is read (comment `fcgiapp.c:1723`).
* Writer and request. Writes are accepted after an error while the buffer has room; closing after a failed flush sends again, with the padding counted as
  content; `FCGX_ClearError` hides an error from the decision to close. The exit status is never reset, and setting it after both streams are closed has no effect; `detached` survives
  on a kept connection; after a failed `FCGI_Accept` the standard files point to freed streams (`fcgi_stdio.c:84`).
* Formatted print. `%ld` is always refused (a single `l` never sets the size); widths of 100 and more reach the assertion of line 856; `%5%` is refused; what precedes a refused conversion has been written.
* `fcgio.cpp`. `uflow` moves the pointer even at the end, later reads return what is behind it; the destructor ignores failures; `attach` discards what was not sent (`OnlyBufferLost`: never more than the buffer, never what a `sync` confirmed).
* `os_unix.c`. Closing a descriptor whose event is posted leaves the counter, and `OS_DoIo` never selects again (line 875). A silent UNIX connection with a shutdown request is closed and taken again for ever; a
  signal in the window before `accept` (line 1195) is not noticed until a connection comes. `OS_SpawnChild` closes descriptor 0 before it asks whether the listener is there (line 552), and reports
  success when `exec` fails. A second server takes the path of one that runs. Port 65536 is 0 as a `short` and makes a Unix path.
* `os_win32.c`. `instance` never changes, so stale completions call back; a failed flush leaves the entry in `OS_IpcClose`; `listenType` is set before the create that may fail; sockets and pipes stay open on
  the failures -5, -9 and -12; a pipe created by the process itself is not accepted on in it (`FD_PIPE_ASYNC`, which `OS_Accept` refuses), it serves the children; children are not told of the accept mutex.

## 5. Theorems

`ThreadPoolProofs`, for every finite set of threads, any set of callers and operations. The chain is: `TypeOK` is inductive;
with it `MutexOwner` and `QueueOrder` are inductive. `NoLostWakeup` and `PoolNeverShrinks` are not inductive
alone: a stopped pool could hold sleeping workers. `StopFlag` says when `isAllRunning` is false (exactly while
`cancel_all` holds `mtx`, and from the destructor on) and that then nobody sleeps; with it both
are inductive. `NoLostWakeup` counts: each step changes the number of queued tasks and
of awake workers by the amounts `FiniteSetTheorems` gives. `QueueDisciplineCorrectness` joins the three. `ExecutorRefinement` uses `QueueOrder` to show
that the task a worker takes is `taken + 1` of `TaskExecutor` and that running tasks are distinct, and `StopFlag` and `MutexOwner` to show that
neither a worker nor a caller touches the queue once the executor is closed.
Assumptions on constants: `WorkersAssumption`, `CallersAssumption` (`OperationsAssumption` is not used).

`UnixProofs` on `UnixAccept`, for any set of processes, any number of connections, signals and errors, with and without the lock (`AcceptAssumption`).
`LockDiscipline` is inductive with the types. `Delivery` is not: the invariant adds that the queue is always the last of the connections that
arrived (`InOrder`), that a descriptor is the socket of one process at most, *closed ones included* (`OneSocket`: after a shutdown request a process may take its closed
socket for an accepted one), and what the address check established (`Screened`). `AcceptCorrectness` states `AcceptSound`.

`UnixProofs` on `AsyncIo`, for any number of descriptors, operations and closes and any first size of the table (`AsyncAssumption`). `CountersExact` is not inductive: `select` sets the counters anew, and only
because nothing is posted then; so the invariant must know that what was forgotten is zero as well (`NothingPosted`). `NeverBlocks` needs that everything posted is ready, and `OneState` that an entry of the sets that
is not in use is a read that was shut down (`UnusedEntries`). That the table reaches the entry (`GrownFacts`) rests on a lemma that doubling exceeds any number, by a least counterexample.

`UnixProofs` on `UnixIpc`, for any processes and paths and a descriptor table of any size (`IpcAssumption`). `DescriptorsOwned` is inductive with the types; the other parts of `ListenersReached` are about single
steps: what the moves and closes of `OS_SpawnChild` come to (`ChildTableFacts`), that a path is free after `unlink`, and that nobody listens on a port on which `bind` succeeds, so that the new
socket is the only one a client can get to (`ReachedAfter`).

`ServerProofs`, for any number of workers and connections and any budget (`ConnectionsAssumption`). `SocketSafe` is not inductive. The invariant says where each connection is: the main
thread accepts in order and hands on in that order, so that the connections in the queue are the last ones it was given (`InLine`), and a handler is neither at its beginning nor at its end exactly while one worker
runs it (`Handling`); with that, what each place in the handler says of its socket (`Sockets`) is inductive. `NoUnsolicitedResponse` is inductive with the types; it counts the requests of a connection while its reads were whole. `AbortHasCause` is proved for requests in pieces on any set of connections. `RequestsNotDropped` has the hypothesis `MaxOutstanding = 1`, of clients that
wait for each answer, and needs that such a client is owed exactly what is in flight (`Exact`). `UsesPool`: every step of the server is a step of the pool or leaves it alone, so that the
pool's safety theorems hold in the server.

`CgiGatewayProofs`, for any requests, programs and number of workers (`RequestsAssumption`). `EnvironmentFresh` rests on `Fresh`: requests that set their variables at the same time have met, and a variable that is no longer
to be set has the value of somebody whom its request met. `HandlesReleased` and `AnswerComplete` need what is open in each place and that a running program holds the write end of its own pipe (`Holds`), so that the end the
server reads is that of every such program; `AbortHasCause` needs that a pipe carries the body once and one output at most (`Carried`).

`MimeResourceProofs`, for any files, times, ranges and any largest `long` not below the size of a file (`BoundsAssumption`, `NoneAssumption`). The properties compare the response with a file that others
change between five looks at it; the invariant says what each look has established and what it is worth now: which version was seen (`Witnessed`), that what the file is differs from what was seen only if
`undisturbed` is lost (`Remembered`), the span planned from the sizes seen (`Planned`), and the body made of it (`Bodied`). `ResourceCorrectness` has the hypothesis `~SameSecond`: with
two versions in a second ETags do not tell them apart (section 4); the other two theorems do without it.

`Win32Proofs`, for any processes and handles and a table of any size (`AcceptAssumption`, `TableAssumption`, `IpcHandlesAssumption`, `AsyncAssumption`). In `Win32Accept` connections leave the backlog in the order they came (`InOrder`); no
two descriptors share a handle, and no handle with a connection is without one (`Owned`); an instance of a pipe has one descriptor at most, and only while the connection of its client is still there (`Piped`); a call that will get -1 has its
cause before it stops the process (`Stops`). A shutdown takes all connections of a process at once, so that `Owned` speaks of processes that are not cut off (`Through`, `Cut`). In `Win32Ipc` `ListenTypeFits` is inductive, and a child's entry stays in use (`ChildEntry`).
In `Win32Async` the table is inductive once every entry in use leads to an open handle (`TableInv`), and `OncePlaced` with the types; `StdinInOrder` is not: wherever a read of the standard input is, what was asked for before
it must be ahead of it or called back, as long as the thread may still read (`StdinInTurn`, `TakenInTurn`, `PortInTurn`), and none of it pending or lost (`NoneLost`). The thread ends without a word when a read
fails (`os_win32.c:254`), and from then on the invariant speaks only of what is already in the port.

`FcgiStreamsProofs`, for memory and inputs of any size, any number of units, failures and streams (`StreambufAssumption`). An operation passes through states between its calls, and `Good` holds of each of them:
`NothingLost` and `OnlyBufferLost` are inductive (what is given up is at most what the buffer holds, and after a `sync` that succeeded it is empty), `SentInOrder` needs that an operation which failed has left the stream marked as broken. What one unit does (`SputcGood`) is proved of any such state, so that writing two or three of
them, the bound of the model, is that lemma repeated. The read side rests on `InPlace`: the get area holds the units just before the next one of the stream, and `gptr()` is past `egptr()` only
when the input has ended.

`FcgiStreamsProofs` on `FcgiPrintf`, for formats of any length, with any widths, precisions and values (`FormatAssumption`: `%c` prints one character and `%p` 20 at most). `PrintfSound` compares the stream with what
each item means; the invariant counts: on either path the arguments read before an item are those of the items before it (`Before`), so that a width, a precision and a value are those
meant (`SlowReads`). That a text fits its buffer is arithmetic from there (`UnpaddedFits`), with the exponent of a float in bits for its digits. What the
items before one amount to is a recursive function; that it exists and can be taken one item at a time is proved by a least counterexample (`Iterated`).

`FcgiStreamsProofs` on `FcgiReader`, for connections of any number of records of any size, buffers, headers and reads of any length (`ReaderAssumption`: what arrives are records, and request number 0 is that of the
management records). The invariant has two parts. `StreamInv` holds of every connection: types, the order of the pointers, which phase goes with which type of stream, and that the units between `stopUnget` and `rdNext` are
the last ones taken (`Window`). `Placed` holds while nothing has failed and no padding came where `SetReaderType` forgets it: there is a record k such that what was taken, what `contentLen` and `paddingLen` still count and
what was gathered of a header meet where record k + 1 starts (`Located`). So the next header is that of record k + 1 (`RecordNext`), which is `InSync`. With it goes what the records up to k have come to: the replies
are those they ask for (`Logged`), the vector has the pairs (`Counted`), and what was delivered is the content of the stream's records before k and of k up to `rdNext`, or of all up to k (`Delivered`). The end of a stream is
therefore reached at its own end record, and nothing after it is counted as content (`AllCarried`). `OwnContent` and `EofHonest` speak of a stream without an error. After one they would be false:
a filter whose read failed in the middle of a header is closed, `FCGX_StartFilterData` takes that for the end of standard input, and what is then read starts inside the record (the connection `Skewed`).
That a connection has places at all is a recursive function, which exists by the same least counterexample (`OffsetFacts`), as joining contents does (`JoinedFacts`).

`FcgiRequestProofs`, for buffers of any size and any number of accepts and failing writes (`RequestAssumption`, `WriterAssumption`). `NothingLeft` needs that connections are numbered as they come, so that a new one was never
shut down (`Connections`), that the streams exist exactly as long as the input stream does, and that `FCGI_Accept` has none while it goes on (`StdFiles`). What an operation on a writer does to its
buffer does not matter to it.

It does to `ChannelSound` and `AnsweredInFull`. The web server's automaton takes one unit after the other, and the lemmas say what a whole record leaves it with: a data record appends its content to its stream, an empty
one ends its stream, an END_REQUEST record the request (`DataSent`, `EofSent`, `EndSent`). That needs that a reception can be cut anywhere (`ReceivedConcat`), by a least counterexample (`Iterated`), and that the
padding of a full buffer still fits, because the header and the buffer are multiples of the alignment (`PaddingFacts`). `Clean` relates a stream to the web server while no write has failed: what has come, followed by
what is buffered, is what was written. Each operation keeps it or uses up a failure (`During`, `Became`); `WriteCloseRecords` may write early, in the middle of a record, when its buffer is full, so its invariant is that
what came and what is buffered are together the records of the close (`Writing`). For the request, `nWriters` must be the number of writers not yet closed (`Sound`), since the close that finds it 1 sends the end; and the
invariant `ChannelInv` remembers that a failure stays on record in its stream until it is cleared (`DamageInv`), and that a request that is over has both writers closed (`CleanInv`).

Only model-checked: liveness (`CancelReturns`, the fairness part of `ImplementsExecutor`, and the temporal properties of `Server`, `CgiGateway`, `os_unix` and `win32_io`), which the provers do not
support; and what `RequestStream` parses, by recursion over text (`RECURSIVE` operators are out of the provers' reach).

## 6. Not modelled, and the plan

* `logger.h`: alone it keeps no state; called by two workers it is a data race on one `ofstream`, whose outcomes cannot be enumerated.
* `ka_timer`'s thread, `start()` and `join()`: nothing calls them.
* FastCGI library: allocation failures; the functions of `fcgi_stdio.c` that choose between stdio and FCGX and forward; a second `OS_LibInit`, files opened by name and
  synchronous reads and writes of `os_win32.c`, calls of the system and nothing else.
* Texts of error pages and headers, UTF-8 and GB2312 beyond whether they convert, `urlEncode` (not called), `curl/` (third-party headers nothing includes), `strerror.c`, build files.

Next: a parser in `RequestStream` without `RECURSIVE` operators and an assumption on `Sendable` that says which texts are well-formed (now `sound` is given with each request of the instance), so that `RequestSound` can be proved.
