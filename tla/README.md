# Verification of the sylar runtime and the blog built on it

The repository holds *sylar*, a C++ framework of coroutines (fibers) with a
scheduler, an epoll reactor, timers and hooked system calls (`src/sylar`), a blog
server that runs on it (`src/blog/src`), and a Vue front end (`src/blog_front`).
These modules model what is hard to test in it: the runtime and what its threads
share, the pools of connections, HTTP from the text of a URL to the exchange of
messages in pieces, and concurrent requests of the blog, statement by statement.
Line numbers are those of the sources.

`PROJECT.json` lists the components, the runs, the lines each definition
stands for, the hazards and what covers each of them, the theorems and the findings.

## 1. Inventory

| Component | State | Operations | Meets the others through | Must be true of it |
|---|---|---|---|---|
| **Scheduler** `scheduler.{h,cc}` | `m_tasks`, `m_mutex`, `m_activeThreadCount`, `m_idleThreadCount`, `m_stopping`, threads, root fiber | `start`, `schedule`, `run`, `idle`, `stop`, `stopping`, `tickle` | fibers it resumes; `tickle`, `idle` and `stopping` are overridden by IOManager | no task lost, none run by two threads, `stop()` returns and leaves nothing behind |
| **Fiber** `fiber.{h,cc}` | `m_state`, context, stack | `resume`, `yield`, `MainFunc`, `reset` | the thread's scheduler fiber | resumed only when READY, on a stack nobody uses |
| **IOManager** `iomanager.{h,cc}` | `m_fdContexts`, `m_pendingEventCount`, pipe, epoll | `addEvent`, `delEvent`, `cancelEvent`, `cancelAll`, `triggerEvent`, `idle`, `tickle`, `stopping` | Scheduler (base class), TimerManager (base class), kernel | an event resumes its fiber once; nothing is forgotten at shutdown; a context is found by its number |
| **TimerManager** `timer.{h,cc}` | `m_timers`, `m_tickled`, `m_previouseTime` | `addTimer`, `addConditionTimer`, `cancel`, `refresh`, `reset`, `getNextTimer`, `listExpiredCb` | `idle()` polls it and schedules the callbacks | fires in time, once, not after `cancel`; somebody wakes for the first timer |
| **Hook** `hook.{h,cc}` | per call: timer, `timer_info` | `sleep`, `usleep`, `nanosleep`, `connect`, `accept`, `read` ... `sendmsg`, `close`, `fcntl`, `ioctl`, `setsockopt` | IOManager events and timers, FdManager | a call ends; its timeout is honoured and hits no other call |
| **FdManager** `fd_manager.{h,cc}` | table of `FdCtx` | `get`, `del`, timeouts | hook | one context per open socket, and the one of that socket |
| **MySQL pool** `db/mysql_connector.{h,cc}` | `m_idleConnections`, `m_activeConnections`, `m_running`, limits | `getConnection`, `returnConnection`, `closeAll`, `cleanupIdleConnections` | every DAO of the blog, IOManager timer | a connection has one user; the limits bound it; none leaks |
| **MySQL statements** same files | statement, result set | `execute`, `executeUpdate`, `executeQuery`, `getLastInsertId` | DAOs | a value says whether the statement was executed |
| **Redis pool** `db/redis_connector.{h,cc}` | same lists, `m_totalConnections` | same, with pings and a waiting loop | token blacklist | same; a caller gets an answer |
| **Redis commands** same files | context, `m_inTransaction` | some 40 commands, `multi`, `exec`, `discard`, `reconnect` | the server | answers mean what they say; a transaction is whole |
| **HTTP parser** `http/http-parser/http_parser.c`, `http_parser.cc` | state of the automaton, marks | `http_parser_execute`, `http_parser_parse_url`, callbacks | sessions, connections, URIs | the message read is the one sent, in whatever pieces it comes |
| **HTTP server and client** `http/http_server`, `http_session`, `http_connection`, `http.cc` | buffers, `m_conns`, `m_total` | `handleClient`, `recvRequest`, `sendResponse`, `doRequest`, `getConnection`, `ReleasePtr` | sockets, servlets; the client and its pool have no caller in the blog | a request is served once and as it was sent, and an answer is to its request |
| **TcpServer** `tcp_server.*`, `socket.cc` | sockets, `m_isStop` | `bind`, `start`, `startAccept`, `handleClient`, `stop` | hook, IOManager | `stop` ends the accept loops |
| **URIs, addresses, byte arrays, codings** `uri.cc`, `address.cc`, `bytearray.*`, `util.cpp` | fields; blocks and a position | `Create`, `toString`, `Lookup`, networks; reads and writes; URL and Base64 coding | HTTP, sockets, tokens | what is written is read back |
| **Config, logging** `config.*`, `log.*`, `env.cc`, `daemon.cc` | variables, listeners, times of files, loggers | `LoadFromConfDir`, `setValue`, `fromString`, the listener of `logs` | every part has settings | what was loaded is in force |
| **Blog users** `user_servlet.cc`, `user_service.cc`, `user_dao.cc` | table `users` | register, login, information, profile, password, status, removal | servlets call services, services call DAOs; a DAO has a connection from its constructor to its destructor | what a request checked still holds when it writes |
| **Blog posts** `blog_servlet.cc`, `blog_service.cc`, `blog_dao.cc` | table `blogs` | create, update, delete, publish, show, lists | same | only the author changes a post; no view is lost; a list shows everything |
| **Tokens** `jwt_util.cc`, `crypto_util.cc` | blacklist in Redis and MySQL | issue, verify, exchange | both pools | an exchanged token is refused |
| Threads and locks `thread.*`, `mutex.*` | | | operating system | taken as given: a step under a lock is one step |
| Vue front end, `build`, `bin`, `node_modules` | | | requests | not about this program's state |

The behaviours that are hard: threads that share a
queue and read several counters one after the other; a fiber that becomes visible
to other threads before it is off its stack; tickles that are lost; events and
timers that race for one fiber; `close()` from another fiber, and its number used again; a pool that gives
its lock up to connect; a value checked under a read lock and changed under a write
lock; a message that ends anywhere; requests whose check and whose write are two statements
without a transaction, each of which may fail or lose its answer. The hazards in
`PROJECT.json` name the line of each.

How the parts interact. A fiber that calls, say, `read` enters `do_io`; if the
system call would block it arms a timer, registers in the `FdContext` and yields.
A thread without a task runs the idle fiber, which waits in `epoll_wait` up to
the next timer. What it then finds, callbacks of timers and fibers of events, it
puts in the queue of the scheduler and yields to `run()`, which takes it out
again. Nobody resumes a fiber but `run()`. The server's fibers, one per connection, read requests
with the parser, give them to servlets, and these call services, whose DAOs hold a connection of the
MySQL pool; a statement waits in the hook, and then other requests go on.

The blog runs one worker thread (`main.cc:35` is `IOManager iom(1, false, ...)`). The library is written for
any number. Where the difference matters, a module has both as cases and its
properties say which of them they are about.

## 2. Modules

| Module | Models | Uses |
|---|---|---|
| `TaskPool` | what `Scheduler` promises: abstract specification | |
| `Scheduler` | `scheduler.*`, and the state changes of `fiber.cc` | `TaskPool` by `INSTANCE` |
| `IOManager` | `iomanager.*` with the timers, the sleeps and waits of fibers | `EXTENDS Scheduler`: its actions are those of the base class, with what the derived class adds |
| `IOManagerProofs` | theorems about the scheduler and about it | `IOManager`, `SequenceLemmas` |
| `Timers` | `timer.*` and the loop of `idle()` around it | |
| `Hook` | `do_io`, `connect_with_timeout`, `close` on one socket | |
| `HookProofs` | theorems about it | `Hook`, `SequenceLemmas` |
| `Descriptors` | `fd_manager.*`, the table of `FdContext`s, and the calls of `hook.cc` that make, change and close descriptors | |
| `Settings` | `config.*`, and the loggers that listen to it | |
| `RuntimeProofs` | theorems about timers, descriptors and settings | `Timers`, `Descriptors`, `Settings`, `SequenceLemmas` |
| `Leases` | what a pool promises: abstract specification | |
| `MySQLPool` | `MySQLConnectionPool` | `Leases` by `INSTANCE` |
| `MySQLPoolProofs` | theorems about it | `MySQLPool`, `SequenceLemmas` |
| `RedisPool` | `RedisConnectionPool` and the limits its manager gives it | `Leases` by `INSTANCE` |
| `RedisSession` | `RedisConnection`, `RedisReply`, and the server | |
| `RedisProofs` | theorems about the two | `RedisPool`, `RedisSession`, `SequenceLemmas` |
| `Statements` | what a MySQL statement lets its caller see | |
| `Posts` | `blog_servlet.cc`, `BlogService`, `BlogDao`: requests about posts | |
| `Accounts` | `user_servlet.cc`, `UserService`, `UserDao` | `Statements` |
| `Lists` | pages of the lists of posts | |
| `Tokens` | `jwt_util.cc` | `Statements` |
| `BlogProofs` | theorems about posts, users, lists and tokens | `Posts`, `Accounts`, `Lists`, `Tokens`, `SequenceLemmas` |
| `Urls` | `http_parser_parse_url`, `Uri::Create` and `toString` | |
| `Addresses` | `Address::Lookup`, IPv6 text, networks | `Urls` |
| `Codecs` | URL and Base64 coding, parameters and cookies | `Urls` |
| `UrlTexts` | every URL over an alphabet, and the round trips | `Addresses`, `Codecs` |
| `HttpParser` | `http_parser_execute` and the callbacks of `http_parser.cc` | `Urls` |
| `HttpExchange` | `HttpServer`, `HttpSession`, `HttpConnection` and its pool | `HttpParser` |
| `HttpProofs` | theorems about it, and about byte arrays | `HttpExchange`, `ByteArrays`, `SequenceLemmas` |
| `TcpServer` | `tcp_server.cc` over `socket.cc` | |
| `Bytes` | one sequence of bytes: abstract specification | |
| `ByteArray`, `ByteArrays` | the blocks of `ByteArray`; its calls | `Bytes` by `INSTANCE` |
| `SequenceLemmas` | lemmas: what removing, appending, joining and cutting do to the entries of a sequence and their places; lists of a whole set; sequences that go down | |
| `MCScheduler`, `MCIOManager`, `MCHook`, `MCMySQLPool`, `MCRedis`, `MCBlog`, `MCHttp`, `MCRuntime` | instances for TLC | |

Names of variables and actions are those of the source where there is one
(`m_tasks`, `m_idleThreadCount`, `Stopping`, `Tickle`, `ListExpired`, ...).
Definitions marked *Faulty* are mistakes the code could contain; no
action uses them. Each is what some property is known to detect.

`MCRedis`, `MCBlog`, `MCHttp` and `MCRuntime` are sums: a variable `part` says which of the modules
they extend moves in a behaviour, while the variables of the others keep their first values. The modules
share no state, so nothing is lost by it, and each is still a specification of its own
(`AccountsSpec`, `TimersSpec`, ...) that can be checked alone.

### Scheduler

A job is a coroutine; a callback is one too, because `run()` wraps it in
`cb_fiber`. `pc[t]` says where thread `t` is in `run()`:
`scan` (holds `m_mutex`, looks for the first entry it may take; one step),
`dispatch`, `exec` (the fiber runs), `yielding` then `swap` (the two halves of
`yield()`: `m_state = READY`, then `swapcontext`), `ret` (`--m_activeThreadCount`),
`empty`/`idle`/`unidle` around the idle fiber, `exited`. Between `MarkReady` and
`SwapOut` another thread may already take the fiber: that is the gap of
`fiber.cc:170`. A fiber may schedule itself before it yields, as
`src/tests/test_scheduler.cc:15` shows. The owner starts, submits, and stops, with its own thread as a
worker or not (`UseCaller`).

### IOManager

Extends the actions of `Scheduler` one by one: `IOScan` adds the tickle after a
scan, `IOStop` the tickles of `stop()`, and the body of `idle()` takes the place
of `Idle`. `io[t]` walks through `idle()`: `check` reads the timers, `pending` and
`stopping` read the other two parts of `stopping()`, one after
the other as the code does; `wait` is `epoll_wait`; `expire`, `post`, `events` what follows.
`owes[t]` counts `tickle()` calls a thread is committed to, since `tickle()` runs after
the lock is released. Time is abstract: a timer becomes due at some moment after
it was armed, and `epoll_wait` may return at any moment since it waits at most 5 s. One
socket, with read and write events, and hang-up.

### Timers

What `IOManager` leaves out of time: the ordered set `m_timers`, recurring timers, `refresh`, `reset`,
`m_tickled`, and a clock. A step under the lock is one step. The clock is read before it, by
`listExpiredCb()` and by the constructor of a `Timer`, and so `seen[p]` and `NewTimer` are apart from
`ListExpired` and `Insert`. Timers of one time are ordered by their addresses, as `Timer::Comparator` does.
The arithmetic of `detectClockRollover()` is modulo `Wrap`. `phase[p]` is where a thread is in
the loop of `idle()`: `asleep` until `seen[p]` in `epoll_wait`, then `list`, and `list and drain` if the
pipe woke it.

### Hook

One socket and the fibers that use it, each for its own event, as `FdContext`
has one fiber for each. `pc[f]` walks through a call: `try` (system call),
`arm`, `register`, `wait`, `woken`, `check`. A timer is named by the fiber, the
call and the attempt that armed it, so that a callback that runs
late is told from one that is meant; `Alive` is `winfo.lock()`. The callback is two steps: it sets
`cancelled`, then calls `cancelEvent()`. `close()` is three: `cancelAll`,
`FdManager::del`, system call. The scheduler is reduced to its queue and to the number of threads: a fiber,
a callback or a poll starts only when a thread is free; with one and with two threads.
Registering and yielding are one step: the time in between is
what `Scheduler` is about.

### Descriptors

What `Hook` leaves out of descriptors: their numbers, which the kernel (`file`) gives out again, lowest first.
`m_datas` is the table of `FdManager`, `contextsSize` the length of `m_fdContexts`. A caller goes through
`socket()` or `accept()` (`Socket`, `Get`, `Create`), `fcntl` and `ioctl` (`SetFlags`, `Ioctl`, then the system call), a call
that waits (`EnterIo`, `Try`, `ReadSize`, `ContextResize`, `Register`) and `close()` (`Close`, `CancelAll`, `Del`,
`CloseSystem`). `on` is the socket a fiber is registered for in epoll, which is the one the number was open
to at that moment, and `kept` whether its context is still in the table after a resize that made it smaller.
An outsider is a caller on a thread without the hook; it only opens and closes. Every wait may time out, as a socket may have a timeout:
`setsockopt` and `setTimeout` are not modelled further.

### Settings

`LoadFromConfDir` for one file, variable by variable: `CheckTime` under `s_mutex`, `LoadFile`, `NextVar`, the
listeners call by call under the read lock (`Notify`), the new value under the write lock (`WriteValue`). A value is a number, for the
timeout the hook keeps, or for `logs` a function from loggers to their definitions. The listener of `log.cpp` has two loops, over
the new value and over the old one; each round of them is a *turn*, in which it makes the calls on one logger (`SetUp`, `Shut`) or none
(`OnChange`), and between any two calls the other threads go on. Every other listener has one turn of one call. The values are handed over under the
read lock, so that no turn sees another value than the first. `Shown` is what a definition's appenders become: a daemon gets none for the terminal.
The file changes in the same second or later, and may name a variable twice. `main.cc` loads once at a time; that
several threads may is what the library's locks promise.

### MySQLPool and Leases

`getConnection()` is one step for each stretch between two changes of lock:
`CheckIdle` (read lock), `Pop` (write lock), `Validate` (no lock: reconnect),
`Count`, `Recheck`, `Connect` (no lock), `Push`. `Return`, `Sweep`, `CloseAll` hold the lock
all the time. `Drop` is external: the server ends a session. `Leases` says
only who has which connection; a caller has one from `Push` to `Return`, which is how
`BaseDao::acquireConnection` and `releaseConnection` use the pool. The idle limit and the
age of connections do not appear in the code's decisions, hence not here.

### RedisPool and RedisSession

`doing[f]` walks through `getConnection()` with its waiting loop, `returnConnection()` and the cleanup. `Find` keeps the iterator in `place`
while the lock is given up; `Erase` erases what it finds there, which is another connection if the deque has changed.
`stuck` are fibers that ask for the write lock and still hold the read lock. With one thread a fiber keeps it (`running`) until it waits.
The limits are those of `RedisManager::Init()`, swapped as it swaps them, and those a pool made directly has.

`RedisSession` is one connection: `Execute(c)` is `executeCommand()` with the server at the other end, and `Answer` is what
each command function makes of a reply. A call may be lost before or after it was executed. Commands that turn the same kind of reply into the
same kind of answer are one command here, and a field of a hash, a member of a set or an end of a list is a key.

### Statements, Posts, Accounts, Lists, Tokens

A request is a fiber that walks from statement to statement; statements of different
requests interleave, although the blog has one worker thread, because each waits for the socket of its
connection in the hook. Any statement may fail, and one that was executed may be reported as failed: what a caller sees of that
is in `Statements`, with the value -1 of `executeUpdate()` that only `== 0` is compared with.

In `Posts`, `rows` is the table `blogs`. `Check` is the `findById()` of `validateOwnership()` or of the detail servlet, `Find` the second
one of `updateBlog()`, and `seen[r]` its `existing_blog`. None of the statements
that write asks again whose the post is or whether it is deleted: they have only
`WHERE id = ?`. `publishBlog()` is included, although no servlet calls it yet.
Deletion is the soft one, the default of `remove()` and the only one the service uses.

In `Accounts`, `users` is the table, `copy[r]` the row `updateUser()` has read. The checks of `registerUser()` and its `INSERT` and
`LAST_INSERT_ID()` are four statements. `passwords` and `checked` are history. Operations of the service that no servlet calls
(passwords, status, removal) are included.

`Lists` turns pages by `LIMIT` and `OFFSET` while the table changes. Rows of one second may come in any order, and in another one next time.

`Tokens` is `verifyToken()` and `refreshToken()` against the two blacklists. Every access takes a connection of its pool and none
is given back, which is why `pools` only goes down. A signature is what it promises.

### Urls, Addresses, Codecs, UrlTexts

A text is a sequence of symbols, where a symbol is a character or a run of characters no code looks into.
`ParseUrl` is `http_parser_parse_url` with `parse_url_char`, state by state, and the second pass over the host. `Lookup` is
`Address::Lookup` up to `getaddrinfo`. `UrlTexts` has no program of its own: its variables run through every text and every
sequence of characters, and its invariants compare the algorithms with a grammar and with each other. Parameters and cookies whose name has
a `=` do not come back as they were written (finding 24); `ParamsRoundTrip` says what comes back of every name, and `NamesReturn` is what one would expect.

### HttpParser and HttpExchange

`Execute(parser, piece)` is `http_parser_execute` on what one read has brought, with the callbacks of `http_parser.cc`. A symbol
may be half a name, so that a read may end within one. `HttpExchange` puts a server (`spc`) and a client (`cpc`) at the ends of two channels, `up` and
`down`. Each side writes a whole message and reads pieces. Connections are kept, used again and dropped as the client's
pool does. Names of headers are compared in upper or lower case alike in the code, which is not modelled.

### TcpServer

`bind`, `start`, `stop`, the loops of `startAccept` and the queue of the thread that runs them. `stop()` sets `m_isStop` and leaves the closing
to a task (`CloseTask`). A loop that waits in `accept()` is woken by `cancelAll()`. As in the blog, one thread starts, stops and accepts. That
another listener is given the number of a closed one is in `Descriptors` only.

### ByteArray, ByteArrays and Bytes

`ByteArray` is the list of blocks, `m_cur`, the position, size and capacity, with the loops of `read`, `write`, `setPosition` and `addCapacity`;
`ByteArrays` are the calls on it; `Bytes` is one flat sequence. A number is written in groups, of which a byte holds one and the mark that another
follows; how many values a group has (`Half`, in the code 0x80), how many numbers there are (`Numbers`, 2^32 or 2^64), how many groups a reader takes at
most (`MaxGroups`, 5 or 10) and how many bytes a number of fixed size has (`FixedSize`) are constants. In the run a group has two values, so
that the 8 numbers need up to three bytes, and a block has two bytes. `ArraysAssumption` says that the groups a reader takes are enough for every
number, and that the length of a text fits the number it is written as. `crashed` says that a call did not return: `Crash` is what `read` does through a null
`m_cur`, and in `Bytes` only `TakeNothing` may do it (finding 23), so that `FlatSpec` says of every other call that it returns.

## 3. Runs

| Run | Instance | Shows |
|---|---|---|
| `scheduler` | 2 workers and the caller's thread, 2 jobs, 1 yield each | `stop()` returns only when quiescent; every job ends; `stop()` returns; the scheduler implements `TaskPool` |
| `scheduler_stack` | 2 workers | **violated** `OneStackUser`: two threads on one stack |
| `iomanager` | 1 thread, 2 fibers, one event and hang-up | fibers finish and `stop()` returns, although tickles are lost |
| `iomanager_threads` | 2 threads, 2 fibers, 2 events | one resumer for each suspended fiber; orderly shutdown is complete |
| `hook` | a fiber that reads twice, one that connects and is then done, both with timeouts; 1 and 2 threads; `close()` at any time | one waker; no late callback hits a later call; with one thread timeouts are certain and end a call whatever the peer does, and `connect()` tells the truth |
| `mysql_pool` | 4 callers, 4 connections, maximum 2, minimum 1 | a connection has one user; the pool implements `Leases` |
| `redis` | 2 clients and the cleanup, 3 connections, limits 2 and 1, straight and swapped, 1 and 2 threads; one connection, 1 key, transactions of 2 commands | a connection has one user even when the iterator is stale; with one thread a caller gets an answer; answers mean what they say; a transaction is whole |
| `blog` | 3 requests about 1 post by 2 users; 2 requests about users with 2 ids and 2 names; a list of 3 posts in 2 seconds; 2 callers with 2 tokens in 3 seconds | only the author changes a post; no view is lost; a name is free when it was looked up; a password stands; a token is for its user; what failed changed nothing; no post is skipped; an exchanged token is refused |
| `http` | 3 requests of 4 forms on kept and fresh connections, reads of any size that do not part a URL, a name or a value; URLs of up to 4 symbols behind 5 beginnings; texts of 4 symbols; arrays of 4 bytes in blocks of 2; 2 listeners started twice | a request is served once and as sent; an answer is to its request; `doRequest` returns; URLs are parsed by the grammar; what is encoded is read back, but for names with a `=`; blocks are not seen, but for one crash; `stop()` ends the loops |
| `http_split` | 1 request, reads that end anywhere | **violated** `ServedAsSent`: a value that came in two pieces is its last piece |
| `runtime` | 2 timers, 2 polling threads, 1 user, a clock of 2 readings after the first, the machine up for an hour; 3 callers, one without the hook, numbers 2 and 3, 2 sockets opened, 1 or more threads; 2 loaders, 3 loads, 1 change of the file | timers fire in time and `cancel()` tells; somebody wakes for the first timer; contexts are those of their sockets; who waits can be reached; what was loaded is in force |
| `timers_rollover` | the same timers on a machine just started | **violated** `OnTime`: a timer fires before its time |

Bounds. *Two threads* are the least that race; a third runner, the caller's thread, is
in `scheduler` because it is special there. *Two jobs or fibers* give one that
runs while another is queued, and one that submits the other. *MaxYields* caps
only the model's jobs. `Hook` needs two calls of one fiber for a late
callback to find a later call; `MaxAttempts`, a guard of `Check`, is larger than any call of the run reaches (an attempt needs an event,
a timeout or `close()` to end, and only so many happen in one call).
Four callers with a maximum of two is the smallest pool that exceeds its maximum by
more than one and still has a caller that waits for nothing; more connections than callers
never exist, which `OpenedOnDemand` says and the proofs show without bound. In `RedisPool` three connections let two
callers and the cleanup hold one each; one round of the waiting loop stands for ten.
In `Posts` no step relates two posts, so one suffices; three requests are
an update with its two reads and one more that deletes and one that views or publishes in between. `Accounts` relates a
request to at most one other. A list of three posts has two pages and a post that moves from one to the next.
A token lives for two seconds, so that it is exchanged, listed, expires and is asked for in each of them, and four connections are fewer than
two callers want. Two timers are one in front of the other; two polling threads may each rely on the other. A socket opened after another is closed gets its
number again, and two at once make the tables grow to the second number. Messages are some twenty symbols long, and what a read leaves behind is at most a message; three requests are a first one on a connection, one on
a used one, and one past `MaxRequest`. Four bytes in two blocks have every place an operation may end: in a block, at its end, at
the end of the array, and one beyond. Symmetry is used only in runs without liveness properties.

`CHECK_DEADLOCK FALSE` appears where the instance has a bounded number of calls, requests or clock readings and all may be over: in `hook`,
`redis` (a caller with both locks stays where it is), `blog`, `http`, `http_split`, `runtime` and `timers_rollover`. Elsewhere a state without successor
is an error. A scheduler or reactor that has stopped stutters explicitly; the MySQL pool goes on.

Fairness.

- `Scheduler`: weak for each thread in `run()` and for a `stop()` under way: operating system threads are scheduled, and a mutex
  that is free is eventually obtained. That a fiber ends is part of it, because code that loops for ever would
  hold its thread. `start`, `Submit` and the call of `stop` have none: nobody obliges the client.
- `IOManager` adds that the clock reaches a timer and that a peer that is waited for answers (without it a fiber waits
  for ever and so, by design, does `stop`). `Hook` does not assume the latter: `TimedCallsEnd` says that a call
  with a timeout ends whatever the peer does.
- `RedisPool`: strong for the steps of a call that has begun and of the cleanup: the queue of the scheduler is in order, so that a fiber that is
  ready again and again runs, and connects and PINGs end by their timeouts. Nobody has to give a connection back.
- `HttpExchange`: each side reads what has come (spelled out with `[]<>`, as the step is enabled whenever something has), a
  servlet ends, and a wait for a response is bounded by its timeout. The client has to send nothing.
- `TcpServer`: weak for the thread that accepts. Nobody has to connect.
- `Timers` states the clock, the threads and the users; its properties are safety properties and do not need it.

Some definitions state what a comment of the code says and are not true of it. They are kept in the modules with the run's instance that refutes
them: `ShutdownComplete` and `NoAssertionFailure` as an `INVARIANT` of `IOManagerThreads.cfg`, `PromptWakeup` of
`IOManager.cfg`, `TimeoutAlwaysCovers` of `Hook.cfg`, `MaxRespected` of `MySQLPool.cfg`, `NeverCrashes` and
`NamesReturn` of `Http.cfg`.

## 4. Theorems

All proofs are checked by TLAPS, without assumptions but the named ones on constants: `SchedulerAssumption`,
`IOManagerAssumption`, `HookAssumption`, `TimersAssumption`, `DescriptorsAssumption`, `PoolAssumption`, `RedisPoolAssumption`,
`PostsAssumption`, `AccountsAssumption`, `ListsAssumption`, `TokensAssumption`, `SettingsAssumption`, `ExchangeAssumption`, `ByteArrayAssumption` and `ArraysAssumption`. They say what kind of thing a constant is, that a value that
stands for nothing is none of the others, and, where the code has it so, a little more: the sets of addresses, numbers and
waiting fibers are finite, there is a thread (`TimersAssumption`) and a connection (`RedisPoolAssumption`), the descriptors 0 and 1 are
taken before the program starts, each fiber waits for an event of its own, a read that is not the last brings something, and a variable `logs` starts empty and each definition in a file is of a logger with a
name, once each, as it is read into a `std::set` (`SettingsAssumption`), a block has a byte, and the numbers are cut into bytes as
unsigned integers are (`ByteArrayAssumption`, `ArraysAssumption`). Some theorems have hypotheses of their own, because what they state is
false without: `TimersAreOnTime` (the machine has been up for an hour, and no thread stays that long
between reading the clock and taking the lock), `AnswersAreMeant` (the database a
connection begins with is the one the manager asks for, as a reconnect forgets it) and those about HTTP (the parser reads single
messages as they were written, see below). So they hold for any number of threads, jobs, fibers, callers,
connections, requests, users, posts and tokens, any loggers and files of settings, byte arrays with blocks of any size, and any limits. The bounds of the runs, such as `MaxYields`
or `MaxAttempts`, are constants there, of any size.

**IOManagerProofs**, of the scheduler. The inductive invariant `IInv` is the conjunction of
types; *CountInv*: the two unsigned counters are the numbers of threads between
their increment and decrement, so neither underflows; *ThreadInv*: a busy
thread has a job, threads are unborn before `start`; *TokenInv*: each job that is
submitted and READY has exactly one token, an entry of the queue or the
thread that took it, with the exact place given by its state (a fiber that scheduled itself may be
in the queue while it runs; this is the case the skip of RUNNING fibers
is for and the reason why a simpler invariant is not inductive);
*ControlInv*: where the owner is in `stop()` and that an idle fiber ends only
when the queue is empty and no thread busy. From it:
`TypeCorrect`, `StopQuiescence`, `TerminationFinality`, `ResumeAssertion`,
`ExecutorUniqueness`, and `SchedulerImplementsPool` by one lemma for each
kind of step.

Of the I/O manager, `OneResumer` counts the things that may resume a fiber: entries of the queue, an event, timers,
callbacks in a thread's list, callbacks that have become jobs, and a thread that has taken it. The proof does without counting until the
end: `TokensInv` says that a fiber or a callback is in exactly one of these places. Its parts are *EntriesInv* (a job is in the queue
once), *HeldInv* (one thread has it), *CtxInv* (a fiber waits for one event), *CbsInv* (a callback is in one thread's list),
*FibersInv* and *WakesInv* (the places have nothing in common, and together they have just the fibers that are submitted and not ended,
and of the callbacks no spent one). `FiberHasOneResumer` then computes the number for each of the places. `StopLeavesNothing` needs
*LeaveInv* (while there is a task not all threads are on their way out) and *QuietInv*: unless a thread took a
task after its idle fiber had ended, and so long as there is a timer or an event, one thread has not yet found in
`stopping()` that there is none. This is what the three reads of `stopping()` one after the other come down to, and why the property has its
exception. `IOTypeCorrect` has the counter of pending events: it is the number of registered ones.

**MySQLPoolProofs.** `IInv` says which calls have a connection at hand
and, position by position, that the idle list is without repetition, that two calls
never have the same connection, and that none in hand is idle. `OnePlaceAlways` and
`ImplementsLeases` follow. `OnDemandAlways` is proved by counting: each step that adds
a connection is made by a caller that found none idle. `ActiveAlways` uses that
`RemoveAt` removes the only occurrence.

**HookProofs.** The invariant follows a timer from `addConditionTimer()` to the end of its callback. *Registration*,
*Waiting* and *Queued* say that who waits is registered or in the queue and not both; this is `OneWaker`. *Armed* and *Lapsed*
say of which attempt a timer is that is armed, has come due, is in the queue or is being called: if it is of
the fiber's present call then that call's time has come. This is `TimeoutIsOwn`. With one thread there are also *Alone* (no
`close()` is under way while a fiber runs), *Cancellable* (who waits with a timeout has the timer before it, or in
the callback that is about to cancel the event) and *Reasons* (why a `connect()` was woken), from which
`TimeoutCovers` and `ConnectHonest` follow.

**RuntimeProofs.** Of the timers, *Counted* is `CancelTells` with the timers that are not inserted yet; *Fresh* and
*Inserted* say of what age a timer is, *Clock* which readings there may be. *Tickled*
is the meaning of `m_tickled`: while it is set somebody polls, is about to, or is being tickled. With
*FirstAwaited* (then, or else some thread sleeps no longer than to the first timer) this gives `SomeoneWakes`. Of the descriptors,
*Numbers* and *Owners* say that a number is given to one socket and that who opens or closes it is alone with it; *ContextOf*,
*Unfinished* and *Flags* relate the tables of `FdManager` and of the system, for the numbers between two steps of a call too. A
number closed without the hook may keep its context, which all of them except; this is finding 11.
`ContextsFit` follows for any number of threads. `WaitersReachable` needs one thread: *OneActive*, *Tables* (the table of contexts is not made smaller),
*OwnContext* and *Reached*. Of the settings, `LoadApplies` has two halves. For the one, *Listeners* says how far the listener of a variable has come that only one load
sets: of each logger, whether it has what the old definition says, what the new one says, or, in its turn, the first calls of the latter (*LoggersTold*,
*Half*), the others unchanged because names are told apart. Before the first call it follows the old value and after the last turn
the new one, which is all that a load needs that sets the value next. For the other, *Read* says that a load that is alone has set each variable
to what the entries it has passed say last, a text that is no value left aside; at the end of the file this is `AsInFile`. *Recorded*, with *Times* (no
time recorded is later than the file's), makes it hold too of a load that passes the file over. *Values* has what both need: a definition
that is in force or under way was written in a file. `LoadsApply` is the conjunction.

**RedisProofs.** For the pool the invariant is that of `MySQLPool` (*Control*, *Once*, *Apart*, *Sole*), with the two lists of the cleanup as further
places of a free connection. The active list is in none of it: the stale iterator may take
another connection out of it (finding 15), and `OneUser` holds although it does. `RedisImplementsLeases` is the
refinement of the same abstract specification as for `MySQLPool`. For one connection *QueuedAsIssued* says that the server has queued what was
called since `multi()`, unless it has refused a part, and that a connection that is not open has no session at the server; with `TransactionWhole` itself
this is inductive. The answers follow case by case from what the server does with a command.

**BlogProofs.** *Posts*: what makes the unconditional writes right is *Checked*: a request past its
check has a post that still exists and still has the author it had, because no statement
removes a row or writes its `author_id`. *Written* says
that whoever wrote a row has begun, so that what it was asked for does not change any more. Each writing step is an instance of
`WriteIInv`. The two action properties follow from `StepRows`: the only requests that change a
row are those that found it. *Users*: ids are not given out again and a row keeps its name; hence *Looked* (the rows a registration has
looked at still have other names), *Authors* (a row has the name its inserter asked for), *Copies* (what an update has read is of its row
still) and *Answered* (the row a token names). `NamesUnique` follows from the first two,
`TokenNamesItsUser` from the last; `PasswordStands` and `FailedChangesNothing` are inductive with them. *Tokens*: *Held* and *Exchanged* (what Redis
has taken in it keeps until the token expires), *Unseen* (a caller that goes on was not told: MySQL never says no, which is finding 28, and Redis does so
only when the key has expired). *Lists*: *Behind*: a post that was on the list all the time and was not
shown has as many newer ones in front of it as the pages turned hold. It needs where a post stands in any order the
database may choose (`Placed`): as far behind as there are newer ones, if no two share a second.

**HttpProofs.** What can go wrong between the two sides is one thing, and what can go wrong within a message another. The theorems are about
the first: over any number of sends, reads of any sizes, timeouts of either side, closed and reused connections. Of the second they
suppose `ReadAsWritten`: a parser that is given the text of one of the requests or responses, and may
stop where it is, comes by one more read to where a single read of all would have brought it, and it finishes at the end
and with what was written. It speaks of single messages only, so that TLC can evaluate it: `MessagesAssumption` of `MCHttp` has it of every message of the
run, and it is false when a read may end within a name, which is finding 3 (`http_split`). *At* says that a parser
is within the message meant for it and that the rest of this message, and nothing else, is on its way. *ServerInv* has it of the server until it
has answered, and after that a new parser and nothing on its way; *ClientInv* has it of a client that waits for what the server has
written, and says that a connection the client keeps is at rest at both ends: nothing is left on it, and the server has answered or is gone. That is what makes
reuse safe: a client that has given up on a response never keeps the connection. `RequestsAreServedAsSent` and `AnswersAreTheirOwn` follow.

Of the byte array, `ArraysAreFlat` says that it implements `Bytes`, for blocks, numbers and texts of any size. *ArrayOK* is what every
call finds and leaves: `m_cur` is the block of the position, the position is within what was written, and that within the blocks. Three things carry the proof. The
place at which a walk over blocks arrives is the one that division finds (`Spots`, `Indexed`): so a write lays its bytes over those at the
position and moves no other (`WrittenBytes`, `Received`), and a read fetches those ahead (`Fetched`). The marks make a number end where it was written to end, whatever
follows (`TakenText`), and its groups make up the number again (`VarintMarked`, `FixedRead`, `Zigzagged`): these are inductions over
numbers and positions, carried out on sets of numbers. A reader may see any byte where nobody wrote, but not where somebody
did (`SeenBytes`), and there it sees what was written, whole (`SeenWritten`). A null `m_cur` is met only by a
read that has no bytes to read, at the end of everything written (`NullAtEnd`). Each call is then a step of `Bytes`, and the crash of finding 23 is its
`TakeNothing`, which nothing else allows.

What follows from a stronger property of a run, or was never worth a run, is proved and not listed with one: the type invariants, `TerminationIsFinal`,
`ResumeOnlyReady`, `OneExecutor` of `Scheduler`, `IOTypeOK` of `IOManager`, `ActiveInUse` and `OpenedOnDemand` of `MySQLPool`, `LeasesSpec` of `RedisPool`,
`DeletedStays` and `UntimedByUpdate` of `Posts`, and the inductive invariants themselves.

**Only model-checked.** Liveness (`EveryJobFinishes`, `StopReturns`, `IOStopReturns`,
`EveryFiberFinishes`, `TimedCallsEnd`, `GetReturns`, `DoRequestReturns`, `StopEnds`): it rests on fairness, which the proof system
does not handle. What the parsers and codings compute: `FieldsAreParts` and `RoundTrip` of `UrlTexts`, and `ReadAsWritten`, which the theorems about HTTP suppose. These are
folds over their input, character by character, and the theorems about folds take an operator as a parameter, which no installed prover can instantiate.
Every other property of a passing run is proved.

## 5. Findings

Each is an entry of `PROJECT.json` with the lines that disagree. The first three have a run with the counterexample; the others were met
while a definition was translated, and the entry names the definition that has the code's behaviour.

Runtime

1. `fiber.cc:170`: READY before the context is saved; two threads on one stack.
2. `timer.cc:195`: in the first hour of the clock, and with two threads, the manager believes that the clock went round.
3. `http_parser.cc:172` (and 130, 161): a name, a value or a URL that comes in two pieces is its last piece.
4. `scheduler.cc:212`, `iomanager.cc:353`: an IOManager may end with a timer armed.
5. `iomanager.cc:428`: the assertion of `triggerEvent` can fail with two threads that poll.
6. `iomanager.cc:337`: a tickle is dropped while a thread is about to become idle.
7. `iomanager.cc:163`: the table of contexts may be made smaller by the second of two threads that enlarge it.
8. `iomanager.cc:385`: a timer far ahead makes `epoll_wait` wait without a limit.
9. `hook.cc:127`: with several threads a timeout may be lost.
10. `hook.cc:449`: `ioctl(FIONBIO, 0)` makes a hooked socket block its thread.
11. `hook.cc:335`: a number that was closed without the hook hands its context on.
12. `tcp_server.cc:72`: a `start()` between `stop()` and the closing leaves loops that accept on closed sockets.
13. `config.h:402`, `config.cc:90`, `config.cc:32`, `log.cpp:604`, `log.cpp:509`: the listeners and the value part; a change within a second is passed over; the names that are allowed lack the 9; appenders are compared with themselves; a logger walks its appenders without the lock.

Pools and connections

14. `mysql_connector.cc:687`: the maximum is not one.
15. `redis_connector.cc:802`: a stale iterator, and a read lock that is still held when the write lock is asked for.
16. `redis_connector.cc:971`: least and greatest size are swapped.
17. `redis_connector.cc:200`, `redis_connector.cc:658`: a reconnect forgets the database; the results of `exec()` point into a reply that was freed.
18. `base_dao.h:302`: a commit that failed is reported as done.
19. `http_connection.cc:293`, `http_connection.cc:297`: a connection the server has closed is handed out; the age is compared the wrong way round.
20. `http.cc:349`: a response without a body on a kept connection has no length, and the client waits for the timeout.

Texts and bytes

21. `uri.cc:113`, `address.cc:83`, `address.cc:431`: brackets and default port are lost; the service of a bare IPv6 address; the network of an IPv6 address.
22. `bytearray.cc:415`: `read(buf, size, position)` starts at the current block.
23. `bytearray.cc:386`: to read no bytes, or an empty text, where the last block ends dereferences a null `m_cur`.
24. `util.cpp:409`: `=` is not encoded, and a parameter or cookie whose name has one is cut at it.

Blog

25. `blog_service.cc:81`: the time of publication set here is not written by `BlogDao::update()`.
26. `blog_servlet.cc:125`: a creation that failed is answered as a success.
27. `user_dao.cc:225`: an update that failed is taken for done.
28. `jwt_util.cc:672`, `jwt_util.cc:583`: while the database answers every token is in the blacklist; the connections of the blacklist are never given back.

The blog runs one worker thread, which excludes 1, 2, 4, 5, 7 and 9.

## 6. Not modelled, and what is left

Not modelled:

- stacks and allocation of fibers; threads and locks themselves;
- of the runtime: `delEvent`, `sendmsg` and its kin beyond what `do_io` does with all of them, `setsockopt`, scatter buffers of byte arrays and their files, interfaces of `address.cc`;
- of HTTP: upgrade, the meaning of trailers, HTTP over TLS, the table of servlets, several callers of the client's pool;
- of the databases: transactions of the DAOs and the statement cache, which nothing calls, sentinels and clusters;
- of the blog: searches, counts and batch operations, which only read or have no caller; JSON, hashes and signatures, taken to be what they promise;
- of configuration and logging: formats, appenders, the daemon's fork, environment and files;
- the Vue front end.

Left to do: a composition of `TcpServer` with `HttpExchange` over several connections.
