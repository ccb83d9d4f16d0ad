# A TLA+ model of Mongrel2

Mongrel2 is a web server that speaks HTTP, JSON messages and Flash-socket
policy requests on one port, and passes what it receives to 0MQ handlers,
to directories or to upstream HTTP servers. This directory holds
TLA+ modules for the server and the libraries that it is built on, TLC
configurations that check them on small instances, and TLAPS proofs of what
holds for every instance. Source paths below are relative to the repository's
`src/` directory unless they begin with `docs/`.

## 1. Inventory of the system

The server is one process and one operating-system thread. Everything in it is
a *task*, a coroutine with a stack of its own (`task/`), that runs until it
waits. All concurrency is therefore interleaving of tasks at the points where
they wait for a descriptor, a 0MQ socket, a lock or a timer; signals alone
arrive in between.

| part | state it keeps | operations | correct when | modules |
|---|---|---|---|---|
| task scheduler (`task/task.c`) | run queue, running task | create, ready, switch, yield, exit | a task is queued at most once, and every ready task runs | `Task` |
| poll task (`task/fd.c`) | sleepers; the tasks that wait | fdwait, mqwait, taskdelay, tasknuke, the poll loop | a waiting task is woken once, when its I/O is possible | `FdTask` |
| wait lists (`superpoll.c`) | hot array for `zmq_poll`, idle slots behind epoll | add, compact, poll | no entry or slot is lost; the epoll descriptor stays armed | `SuperPoll` |
| locks (`task/qlock.c`, `task/rendez.c`) | owner, readers, queues of waiters | lock, unlock, sleep, wakeup | exclusion, no lost wakeup, no starvation | `Locks` |
| sockets (`task/net.c`) | sockets under way | announce, accept, dial, look up | every socket has an owner; the named host is dialled | `Net` |
| registry (`register.c`) | registration by descriptor, id to descriptor, id counter | connect, disconnect, ping, lookups | an id names the connection that got it | `Register` |
| state machine (`state.rl`, `state_machine.rl`, compiled to `state.c`) | current state | State_exec | every event has a transition | `State` |
| connection task (`connection.c`) | Connection, its Request, buffer, client and upstream descriptors | the `connection_*` callbacks | each request reaches the right backend, resources are released once, bytes stay in order | `Connection`, `Streams` |
| requests (`request.c`) | strings and headers of a request | the parser's callbacks, payload | a handler reads the request that was made | `Requests` |
| handlers (`handler.c`, `handler_parser.rl`) | two 0MQ sockets, running flag | deliver, receive loop, shutdown | a reply reaches the connection it names, in its framing | `Delivery`, `Parsers` |
| routing (`host.c`, `routing.c`, `pattern.c`, `adt/tst.c`) | a search tree per server, host and MIME table | add, match, collect, destroy | the longest matching route wins; every route and entry is freed once | `Routing` |
| directories (`dir.c`, `cache.c`) | cache of counted file records | serve, conditional requests, eviction | a cached record is the file that is on disk; it is freed by its last user | `Dir` |
| proxy streaming (`proxy.c`) | buffer positions | read, stream, scan chunks | every byte is forwarded once | `Streams` |
| control port (`control.rl`) | running flag | status, kill, time, stop | a command acts on the connection it names | `Parsers`, `Register` |
| configuration (`config/`, `server.c`, `setting.c`, `mime.c`) | servers, hosts, routes, settings, MIME types | load, reload, dismantle | what is served is what the database says | `Config` |
| m2sh (`tools/m2sh/`), another process | the tree of a file, a transaction | load, start, stop, reload, look | a file is in the database as a whole or not at all; a reported success has happened | `M2sh` |
| life cycle (`mongrel2.c`, `unixy.c`) | server list, RUNNING, RELOAD, MURDER, PID file | start, signals, reload, shutdown | nothing is freed that a task still uses; the PID file names the server | `Lifecycle`, `PidFile` |
| parsers (`http11/`) | machine state, marks into the buffer | execute | split reads do not matter; what is told is what was sent | `HttpParser`, `Parsers` |
| TLS (`ssl/`) | session cache, records, keys | handshake, read, write, alerts | data in order; both ends agree | `Tls`, `TlsLink` |
| large numbers (`crypto/`) | free list, moduli, window | arithmetic, RSA | exact, nothing leaks | `Bigint`, `Numbers` |
| containers (`adt/`), allocator (`mem/`) | links of nodes | every operation | structure intact, the reference's answer | `Dict`, `List`, `Hash`, `Routing`, `Halloc` |
| strings (`bstr/`) | block, length, capacity | every operation | the text is the reference's, ended by a NUL | `Bstr`, `BstrStream`, `Strings` |
| logging, platform code | — | — | not modelled, see section 7 | |

How the parts interact: the accept loop creates a connection task for each
descriptor; the connection task feeds the state machine, whose callbacks read
the client, register the connection and call a backend; a handler task looks an
id up in the registry and *writes to, or closes, another task's descriptor*; the
control port does the same. Descriptor numbers are reused by the kernel as soon
as they are closed. All of them wait through `_wait`, which uses the hot list
while it has room and epoll after that. A reload replaces the configuration under
the connections that use it. m2sh and mongrel2 meet in the database, which SQLite's locks guard,
in the PID file and by signals.

What is hard: two tasks may hold the same descriptor; a close in one task
silently removes the epoll entry another is waiting for; ids wrap at 16 bits;
one keep-alive connection moves between backends, each change with half the old
state still there; file records are shared between connections over their waits;
requests, replies and TLS records arrive in any split, while the parsers keep
offsets into the buffer; the database may change between two queries of one load; and every error path has to release the same resources in
the same order. `PROJECT.json` lists these hazards at their lines.

## 2. Modules

Three layers. *Components* model one source file, or a few that belong together.
*Operator modules* have no state of their own: they model a data structure or an
algorithm as operators on a value (`Dict`, `Bstr`, `Tls`, ...). *Compositions* put
components together: over one state where the components interact. Four MC modules
(`MCStructures`, `MCProtocols`, `MCServing`, `MCProcess`) put components that do not
interact side by side, so that one run checks all of them: a variable says which part
the behaviour is about, and the other parts' variables stay as they are.

| module | models | kind |
|---|---|---|
| `Register` | `register.c` and the kill and status commands' use of it | component |
| `State`, `Connection` | the compiled state machine; `Connection_task` and all callbacks of `connection.c` | component |
| `ConnectionLife` | what a connection promises to the rest of the server | abstract specification |
| `Task`, `SuperPoll`, `FdTask` | `task/task.c`, `superpoll.c` with epoll, `task/fd.c` over both | component |
| `Locks` | `task/qlock.c`, `task/rendez.c` over `Task` | component |
| `Net` | `task/net.c` | component |
| `Delivery` | `Handler_task`, the accept loop, kill, the descriptor table | composition over `Register` |
| `Streams` | the bytes of requests and of proxied replies through their buffers: `connection.c`, `io.h`, `proxy.c` | component |
| `Requests` | `request.c` | component |
| `Config` | `config/config.c`, `config/db.c`, `host.c`, `server.c`, `setting.c`, `mime.c` | component |
| `M2sh` | `tools/m2sh`: command line, loading a file, operations on servers, over `Config` | composition |
| `Dir` | `dir.c` over `cache.c` | component |
| `Lifecycle`, `PidFile` | `mongrel2.c`, `unixy.c` | components |
| `HttpParser` | the two generated HTTP parsers, of requests and of replies, and their actions | operators |
| `Parsers` | the handler and control parsers, and all four on inputs that arrive in pieces | component |
| `Tls`, `TlsLink` | `ssl/tls1*.c`: records, sessions and the handshake; two ends and the network | operators, component |
| `Bigint`, `Numbers` | `crypto/bigint.c`; `crypto/rsa.c` and calls on contexts | operators, component |
| `Dict`, `List`, `Hash`, `Containers` | `adt/dict.c`, `list.c`, `hash.c`; their operations in every order | operators, component |
| `Routing` | `pattern.c`; `adt/tst.c` and the tables of routes, hosts and MIME types | component |
| `Halloc` | `mem/halloc.c`, `mem/hlist.h` | component |
| `Bstr`, `BstrStream`, `Strings` | `bstr/bstrlib.c`, `bstraux.c` | operators, component |
| `MCStructures` | containers, routes, allocator, strings, numbers | side by side, TLC |
| `MCProtocols` | parsers, TLS | side by side, TLC |
| `MCServing` | configuration with m2sh, requests, streams, locks | side by side, TLC |
| `MCProcess` | life cycle, PID file, directories, sockets | side by side, TLC |
| `ConnectionProofs`, `DeliveryProofs` | — | theorems about the module of the name |
| `TrafficProofs` | — | theorems about `Register` and `Streams` |
| `TaskProofs` | — | theorems about `Locks` and `FdTask` |
| `ProcessProofs` | — | theorems about `PidFile`, `Net`, `Lifecycle` and `Dir` |
| `ConfigProofs` | — | theorems about `M2sh` and `Config` |
| `RequestsProofs` | — | theorems about `Requests` |
| `HallocProofs` | — | theorem about `Halloc` |
| `MCConnection`, `Null` | constants of the instance; the null value that modules share | TLC |

### Register

`REGISTRATIONS`, `REG_COUNT` and `REG_ID_TO_FD` are the arrays and the counter of
the code. The arrays are indexed by the descriptors and ids of the instance;
`MAX_REGISTERED_FDS`, 65536 in the code, is a constant and also the modulus of
the counter. `open` is the kernel's view of the descriptors, `fresh` the connection
tasks that have been created for a descriptor and have not registered it yet, and
`now` the clock. `age` and `overtaken` are history variables: they record how many
registrations have been made since a live one, and whether the counter has come
round to it. Each function of `register.c` that changes state is one action;
`Control_kill` closes a descriptor and leaves the registration, as the code does.

### State and Connection

`State!Table` is the transition table of `state_machine.rl` as Ragel compiled it:
an event runs zero, one or two callbacks (`calls`) and moves to a state. The
details that differ from a reading of the grammar are kept: `fhold` makes
`Closing` hand its CLOSE to `Idle`, a CLOSE that reaches the final state is also
the end of the input and runs `finish`, the start states have no error callback,
and an event in the error state falls into the first case of the switch.

`Connection` has one action per callback. `Connection_task_loop` runs State_exec
with the event of the last callback; when that is CLOSE, `Connection_task_close`
runs it once more and the task ends. What the peers do is the choice between the
disjuncts of a callback. A request is its kind, Host, path and Connection header.
`action`, `target_host` and `pattern` are the fields of the Request that survive
from one request to the next. `fdcloses`, `upstream`, `replies` and `announced`
count what the code does to its descriptors and to the client.

### Streams and Requests

`Streams` follows every byte by its place in what the peer sent, through the
buffer, its moves and its overruns. Its first half has a client that sends a
conversation of requests in any split, either waiting for answers or pipelining;
the task reads a head, then a body loop, an upload or the proxy's streaming.
`ssl_recv` hands out records that may be longer than what was asked for.
Its second half, the
proxy's side of a reply, reads a head, then streams a length, chunks or up to the close.
`Requests` works on texts of characters, because escaping is about characters; its
heap counts what is made and destroyed.

### Task, SuperPoll, FdTask, Locks and Net

The tasks of `FdTask` are arbitrary programs over the operations of `task.h`, so
that connections, handlers, the acceptor and the control port are all covered.
`Poll` is one turn of `fdtask`: it happens when nothing else can run, asks
`SuperPoll_poll` for hits, readies them in any order, then any of the sleepers
(alarm times are abstracted). The hot array is a set with its counter `nfd_hot`
kept separately. The kernel's epoll is a function from descriptors to
`<<slot, "r" or "w">>`; closing a descriptor removes its entry. `ready` holds the
I/O that is possible, with `"x"` for a condition that sets neither EPOLLIN nor
EPOLLOUT. `lost` is a ghost variable that names how a waiting task lost its
place: both lists full, its epoll entry replaced by a second wait, its descriptor
closed, or its event dropped. The return value of a wait is not modelled: what a
task does next is arbitrary anyway.

`Locks` runs tasks with arbitrary programs of lock, unlock, sleep and wakeup over
the same scheduler. `Net` follows the sockets of calls that wait in fdwait, each
ended as the kernel pleases. When fdwait finds no room it switches the task away before it
returns -1 (`task/fd.c:213`), and nobody readies that task: such a call is in `stuck` and keeps its
socket for ever, as `FdTask` counts its task as lost.

### Delivery

`Delivery` puts the registry between those who use it. `sock` is the kernel's table:
which client is connected to a descriptor number. Each client has a connection
task, reduced to what `ConnectionLife` shows of it (accepted, registered, ended)
and its `conn->fd`, which is a number and not a socket: after somebody else closed
it the task goes on with whatever the number means by then. `handler` is the loop
of `Handler_task`: the targets of the message that are left, and, while `fdsend`
waits for a slow client, the id and the number it holds. An action is what a task
does between two waits. `owner` and `killed` are history variables: the client whose request was
registered under an id, and the ids that the control port has killed since. `age` and
`overtaken` are the history of the counter, as in `Register`, which is instantiated with its
clock stopped; `Fresh` counts the tasks that it calls `fresh`.

### Config and M2sh

A database is a record of tables, and a table a function from the ids of its rows to the rows;
a query gives them in the order of their ids. A load takes one step for each row of each of its six
queries (`load` says where it is, `Config_load_route_cb` is inside `Config_load_host_cb`, which is
inside `Config_load_server_cb`), with the error path of each row that fails. Another process may
commit between two queries but not within one: a query holds SQLite's SHARED lock, and `DB_exec` fails
when it meets a writer that commits. `seen` records the database that each query saw, so that a
property can say which one is served. An object is named by its kind, its row and the load that
made it, so that a stale pointer shows.

`M2sh` is the other process: `Command_run` parses a line and begins a command, `Config_load` takes
one step for each element of the file's tree (`at` says in which walk it is) and inserts
rows into `tables`, the transaction's view of the database, and `Config_commit` makes that the
database, when nobody reads. The commands that operate on servers walk the rows that their options select,
and look at the PID file and at `up`, mongrel2's status. `Edit` is any other tool that changes the
database. `built` and `report` are history variables: the file that the database comes
from, and what the last operation has told its caller.

### Lifecycle, PidFile and Dir

`Lifecycle`
begins where a server serves: generations of servers and handlers, the descriptor
table, signals between any two steps. `PidFile` is about several processes that
share a port and a file: each starts, checks the file, may crash anywhere, serves
and stops. `Dir` has clients that stream records of files that are written, replaced and
removed meanwhile, over the cache: a table of slots with their ages.

### Parsers

The tables in `HttpParser` and `Parsers` are
the generated machines, state by state over sets of characters, with the actions
that each transition runs in their order; `Exec` of `HttpParser` runs them. `Parsers` renders
inputs from their parts, damages or cuts some of them, and feeds them in reads of every
split.

### Tls and TlsLink

An operator maps a world (an SSL object, the session table, the wire) to a world.
Cryptography is ideal: a key names what it is derived from, and a record opens only
with the key and the sequence number it was sealed with. `TlsLink` has two ends,
one after the other or at the same time on one session cache, reads that bring a
part of a record, dropped connections, and handlers whose replies go to the
socket without TLS, as `Connection_deliver_raw` sends them.

### Structures

`Dict`, `List`, `Hash`, the trees of `Routing` and `Halloc` keep the links between nodes as the C
code does, so that a wrong link is a state of the model; mirrored code is one
definition with a side. What a walk of the allocator along its links meets (`Reached`) is the least set of blocks that
it does not leave, so that no order of the walk is fixed. `Containers`, `Routing` and `Strings` hold the
abstract value next to the representation and compare them after every call.
`Bstr` has the cells of a block with the NUL behind the text, literals, aliased arguments,
and an allocator that gives all that is asked for, only the tightest block, or nothing.
`Bigint` has reference counts, the free list and components of a few bits, so
that sums, quotient digits and Karatsuba's split overflow on small numbers; the
memory of a new bigint is unwritten.

## 3. Runs

| run | checks | result |
|---|---|---|
| `register` | `TypeOK`, `IdMapSound`, `LiveIsReachable`, `NoIdTakenOver` | hold |
| `connection` | `TypeOK`, `NoInvalidEvent`, `ReleasedExactlyOnce`, `UpstreamIsProxyFd`, `NoUseAfterRelease`, `AnswersFitRequests`, `AnnouncedCloseIsKept`, `HangupEndsTask`, `ImplementsLife` | hold |
| `fdtask` | `TypeOK`, `OnePlaceEach`, `WaitListsIntact` | hold |
| `fdtask_live` | `PolledWaiterWakes` | holds |
| `delivery` | `TypeOK`, `NumbersIdentifyListeners`, `SocketHasItsTask`, `RegistrationHasTask`, `ImplementsRegister` | hold |
| `delivery_blocked` | `WholeMessageToOneListener` | violated: the rest of a message that had to wait goes to the next client on the number |
| `structures` | `ContainersFaithful`, `RoutesFaithful`, `FamiliesSound`, `StringsFaithful`, `NumbersFaithful` | hold |
| `longest_prefix` | `LongestPrefixWins` | violated: a path that ends inside a longer prefix finds nothing |
| `protocols` | `ParsersFaithful`, `TlsFaithful` | hold |
| `serving` | `ConfigurationFaithful`, `RequestsFaithful`, `StreamsFaithful`, `LocksSound`, `EveryoneFinishes` | hold |
| `process` | `ReloadIsSafe`, `SignalsAreObeyed`, `PidFileTellsTheServer`, `SocketsAccounted`, `RecordsAccounted`, `CopiesAreFresh` | hold |
| `settings_late` | `SettingsTakeEffect` | violated: a limit that loading itself uses is read before the settings are loaded |

Many of these are conjunctions of named parts, each stated in a comment of its own:

| property | its parts |
|---|---|
| `AnswersFitRequests` | `BackendFitsRequest`, `AtMostOneResponse` |
| `OnePlaceEach`; `WaitListsIntact` | `WokenOnce`, `NeverForgotten`; `EpollNamesItsSlot`, `HotListIntact`, `SlotsAccounted` |
| `ContainersFaithful` | `DictBalanced`, `DictInOrder`, `DictSearches`, `ListsIntact`, `SortSorts`, `HashFindsAll`, `ScanReturnsEach` |
| `RoutesFaithful` | `PrefixAnswer`, `SuffixAnswer`, `CollectIsComplete`, `CleanupFreesEachOnce`, `MatcherIsExact`, `BalanceIsShortest` |
| `FamiliesSound` | `FamiliesIntact`, `FreedWithFamily` |
| `StringsFaithful` | `HoldsText`, `Terminated`, `OverrunsOnlyTight`, `SearchesFind`, `ComparesAgree`, `SplitsJoin`, `CodecsInvert`, `StreamInOrder`, `WritesInOrder` |
| `NumbersFaithful` | `ArithmeticIsExact`, `DivisionIsExact`, `ResidueIsCongruent`, `PowerIsCongruent`, `BytesSurvive`, `BlocksComeBack`, `NoneLeaks`, `TrapsAreOnes` |
| `ParsersFaithful` | `StaysInBuffer`, `SplitsDoNotMatter`, `HttpFaithful`, `AcceptedLineByLine`, `ClientFaithful`, `HandlerTargets`, `ControlReplies` |
| `TlsFaithful` | `TlsDataInOrder`, `TlsFailsForAReason`, `BothEndsAgree`, `SessionsMatch`, `HandshakeNeverStalls` |
| `ConfigurationFaithful` | `ServesTheDatabase`, `SettingsFollowDatabase`, `RoutesLeadToLoaded`, `TargetsAccounted`, `DestroyedOnce`, `CommittedIsTheFile`, `OperationsReported` |
| `RequestsFaithful` | `PayloadTellsTheRequest`, `HostIsItsOwn`, `StringsAccounted` |
| `StreamsFaithful` | `BytesInOrder`, `HandlersGetTheContent`, `UpstreamGetsRequests`, `WaitsOnlyForMore`, `OverrunsOnlyThere`, `RelayedInOrder`, `RelayedCompletely`, `FailsForAReason` |
| `LocksSound` | `QLockExcludes`, `ReadersExcludeWriters`, `NobodyWaitsInVain` |
| `EveryoneFinishes` (liveness) | `EveryReplyEnds`, `EveryLockerGetsIt` |
| `ReloadIsSafe`; `SignalsAreObeyed` (liveness) | `ReceiversExitFirst`, `ListenerStaysOpen`, `ReloadClosesOnlyItsOwn`; `MurderEnds`, `ReloadFollows` |
| `PidFileTellsTheServer` | `PidFileNamesTheServer`, `CleanExitRemovesFile` |
| `SocketsAccounted` | `DescriptorsAccounted`, `DialsTheNamedHost` |
| `RecordsAccounted`; `CopiesAreFresh` (action properties) | `UsersAreHolders`, `OneRecordPerPath`, `BodyAsAnnounced`; `HeadersAreFresh`, `ConfirmedCopiesAreFresh`, `EvictsLeastRecent` |

What the central ones mean:

* `IdMapSound` is what keeps a handler's reply from reaching a stranger through the
  registry; it holds even after ids have collided. `NoInvalidEvent` shows that
  the "Tell ZED" branch of `Connection_task` is dead. `ImplementsLife` is the
  refinement: seen from outside a connection registers at most once, holds at most
  one upstream socket, releases its descriptor exactly once and then ends.
* `NumbersIdentifyListeners` is the same promise for the composition: whatever handlers,
  connection tasks and the control port close, and whoever gets the number next, an id leads to the
  client that was registered under it or to nobody, until that id itself is killed.
  After a kill the code does not keep it (section 5).
* `PrefixAnswer` compares the search for a route with `LongestRoute`. Where the text ends inside a longer
  key it lets the answer be that or nothing; `LongestPrefixWins`, which is what the manual says, lets
  it be nothing else than the longest route, and is violated.
* `TrapsAreOnes` says which numbers make a division or a modulus divide by zero: those whose top component is
  all ones, and no others. `BlocksComeBack`, that RSA inverts itself, is then about all other keys,
  estimates that were cut included.
* `OnePlaceEach` (`WokenOnce` and `NeverForgotten`) says that a live task has exactly one
  place from which it can be made ready, or is one of the recorded losses.
* `SplitsDoNotMatter` compares a parser that was fed in pieces with one that got all
  at once; `HttpFaithful`, `ClientFaithful` and `HandlerTargets` compare what the callbacks
  were told with the parts the input was rendered from.
* `BytesInOrder`, `UpstreamGetsRequests`, `RelayedInOrder` and `RelayedCompletely` are
  about the bytes themselves: none lost, repeated or out of order on the way.
* `TlsDataInOrder` is the end-to-end promise of the record layer, and
  `TlsFailsForAReason` its counterpart: a connection does not fail unless the peer or the
  network gave a reason.
* `ServesTheDatabase` says which server, which host under each pattern and which route under each
  path is served when rows repeat, of the database that the query for servers saw; `RoutesLeadToLoaded`
  says of a route's target that it is alive, of the last load, and what the database said when
  *its* query ran. The two databases may differ. `CommittedIsTheFile` says exactly which part of a file gets
  into the database when hosts and routes of it fail.
* `UsersAreHolders` is the counting argument that makes the cache safe;
  `ConfirmedCopiesAreFresh` follows a copy at a client over changes of the file.
* `EveryLockerGetsIt`, `EveryReplyEnds`, `ReloadFollows`, `MurderEnds`, `HangupEndsTask` and
  `PolledWaiterWakes` are liveness.

Several properties name in their own text the cases in which the code does not
keep the promise (`RelayedInOrder`: a read that ended inside a chunk's head;
`OverrunsOnlyTight`: an allocator that gives exactly what was asked for; `DivisionIsExact`:
an estimate that does not fit; `PayloadTellsTheRequest`: the path of a JSON message). Outside of these cases the property is checked in
full, so that a reader sees exactly where it ends; the cases are in section 5.

### Bounds

* `register`: three descriptors and **four** ids: fewer ids than descriptors plus
  one let the counter lap a live registration, which is the case of interest;
  `MaxTime` 2 tells an old ping from a new one. `MaxFresh` 1 allows one task that
  has not registered per descriptor, next to the one that has: the two that exist
  when a descriptor was killed and accepted again.
* `connection`: two configured hosts and one unknown name; on one host a path for
  each kind of backend, two for proxies (to change between them) and one with no
  route. The model has no counters; it is the complete state space of one
  connection with any number of requests.
* `fdtask`: three tasks, two descriptors, one 0MQ socket, one free place on the
  hot list and two idle slots: all three can wait, two of them on the same
  descriptor, and both lists can be full. `MaxBurst` (steps of tasks between two
  polls) is 2 and `MaxReady` (conditions at a time) is 2, enough for two events in
  one epoll batch. The view leaves out what no guard reads. `fdtask_live` has two
  tasks, one descriptor, one socket, and `MaxBurst` 1.
* `delivery`: four clients on two numbers and three ids: numbers are reused, and the counter
  laps ids that are still in use, while two handlers, with a message for one id each
  (`MaxTargets` 1), and the kill command are between a lookup, a wait and the rest of a message. The theorems
  are about messages with any number of targets. Clients and handlers are symmetric (no definition
  names one), and the view leaves out the history of ids that lead nowhere, which no guard reads. `delivery_blocked`: three clients, four ids and one handler are enough for its violation.
* `structures`: trees of six nodes with two pairs of equal keys reach every case of the
  repair after a deletion, and take in up to two nodes of another tree (`MaxMerge`);
  nine hash nodes let a table of two chains grow twice and shrink, and a scan starts
  with up to six of them (`MaxScan`); routes are added in every order, and looked up with every target of up to four
  letters (`longest_prefix` runs on this instance); patterns of up to two items, each with every repetition, on every
  string of up to four letters; four blocks of memory have grandchildren and
  siblings; two calls (`MaxCalls`) on strings below and at the size of the smallest block, which
  grow over it. A component has four bits, so that numbers of eight components fit in
  TLC's integers; Karatsuba's threshold is three, so that it recurses once; the keys
  have moduli of six or seven bytes, one of them with a top component of ones, as one of the `Moduli` has, and two blocks (`MaxBlocks`) show what a
  block leaves behind in the context.
* `protocols`: inputs that take every transition of interest, one damaged character in
  every place (`MCDamages`), reads of every split. Handler messages have up to one target
  more than fits (`MaxTargets` 3) and memory behind them that goes on plausibly. TLS:
  one connection with two writes, two short reads and one plain reply; or two
  connections over caches of one or two sessions, with expiry and a drop of the first. The plans
  (`MCPlans`) vary certificates, versions, ciphers and the SSLv2-style hello.
* `serving`: two loads (`MaxLoads`), the first and a reload, and one command of m2sh or change by another
  tool (`MaxCommands`), which may fall between any two queries of either; each of the ten databases fails,
  repeats or changes one thing, and so does each of the five files; one PID file names a process that lives and
  one a process that has ended. Three
  requests, one more than is needed to see a field survive; JSON messages with and without parameters and a query. A buffer of five bytes and
  heads of two, with contents that fit, fill, exceed it and are uploads
  (`MAX_CONTENT_LENGTH` 4); replies that exceed a buffer of ten. Three tasks are a
  holder and two waiters of different kinds.
* `process`: two connections, three descriptors, two generations, two signals: a
  reload and a stop in either order, or twice the same. Three processes: two that
  overlap and one that finds what they left. Two clients of two files and a directory
  over two cache slots; one file changes once (`MaxChanges`); `MaxEvents` 4 limits clock
  and evictions. Two tasks dial over three descriptors, and any wait may find no room.

`CHECK_DEADLOCK FALSE` is said where behaviours end: a parser has read its input, a process
has exited, the calls are used up.

### Fairness

`Connection!FairSpec` asks fairness only of `Prompt`, the steps that wait for
nobody (State_exec and the closing callbacks); a client, an upstream server or a
handler may be silent for ever. `FdTask!FairSpec` asks it of the scheduler, of
the running task and of the poll, which is what a live process guarantees.
`fdtask` polls only when no other task can run, so a task that yields or stays
busy for ever would starve it: the bound `MaxBurst` states that the server's
tasks go back to waiting. Nothing is assumed of arrivals.

`LocksFairness` asks that the scheduler runs and a running task yields (weak), and that
whoever holds a lock gives it back (strong, since it does so only when it
runs). `ReplyFairness` asks that a connection task goes on as long as fdrecv can
return, and that the upstream sends what it has or closes; it is what
`EveryReplyEnds` is about. In `MCProcess`, the main task goes on: poll reports, delays end,
and another client connects, without which `accept` does not return; RELOAD is only
looked at then, and the log message of the signal handler says so.

## 4. Proofs

A theorem is about a component's own specification (`Spec`, or `LocksSpec`, `PidSpec`,
`NetSpec`, `LifeSpec`, `DirSpec`, `M2shSpec`, `RequestsSpec`, `StreamsSpec` and `HallocSpec` where several components share a run) and holds for every value of the
constants that satisfies the named assumptions. Hardly any of the properties is inductive;
what follows names, for each module, the invariant that is, and why.

| module | proved | assumptions |
|---|---|---|
| `TrafficProofs` | `TypeOK`, `IdMapSound`, `LiveIsReachable`, `NoIdTakenOver` (action property) of `Register`; `StreamsFaithful` | `RegisterAssumption`, `ConversationsAssumption`, `RepliesAssumption` |
| `ConnectionProofs` | `TypeOK`, `NoInvalidEvent`, `ReleasedExactlyOnce`, `UpstreamIsProxyFd`, `NoUseAfterRelease`, `AnswersFitRequests`, `AnnouncedCloseIsKept` (action property), `ImplementsLife` (refinement) | `ConnectionAssumption` |
| `DeliveryProofs` | `TypeOK`, `NumbersIdentifyListeners`, `SocketHasItsTask`, `RegistrationHasTask`, `ImplementsRegister` (refinement) | `DeliveryAssumption`; the refinement also `ClientsAreFinite` |
| `TaskProofs` | `LocksSound`; `TypeOK`, `OnePlaceEach`, `WaitListsIntact` of `FdTask` | `TaskAssumption`, `FdTaskAssumption`, `SuperPollAssumption` |
| `ProcessProofs` | `PidFileTellsTheServer`, `SocketsAccounted`, `ReloadIsSafe`, `RecordsAccounted`, `CopiesAreFresh` (action properties) | `PidAssumption`, `NetAssumption`, `NetNullAssumption`, `LifecycleAssumption`, `CacheAssumption`, `DirAssumption`; `EvictsLeastRecent` also `2 * MaxEvents < INT_MAX` |
| `ConfigProofs` | `ConfigurationFaithful` | `ConfigAssumption`, `M2shAssumption`, `FilesAssumption` |
| `RequestsProofs` | `RequestsFaithful` | `RequestsAssumption` |
| `HallocProofs` | `FamiliesSound` | `HallocAssumption` |

The assumptions say that constants have their types, that the null value is none of the other
values, that sets which are counted are finite, and what the code asserts (`Register_connect`: every
descriptor is below `MAX_REGISTERED_FDS`). Bounds of the instances (`MaxBurst`, `MaxReady`,
`MaxTargets`, ...) are arbitrary numbers in the theorems. `ClientsAreFinite`
says that clients can be counted, because `Register` counts the tasks of a descriptor. One assumption is a bound, and
not a fact about the code, `2 * MaxEvents < INT_MAX`: a tag of the file cache
stays at 0 after `INT_MAX` operations without a use, two records whose tags are 0 have lost their
order, and a request is at most two operations. `HeadersAreFresh` and `ConfirmedCopiesAreFresh`
(`AnswersAreFresh`) do not need it.

**`TrafficProofs`.** `LiveIsReachable` is not inductive: whether the next Register_connect takes an
id that is in use depends on how far the counter is from the ids of the live connections.
`AgesTrackCounter` relates them: as long as a registration has not been overtaken its id plus
its age is the counter, modulo `MAX_REGISTERED_FDS`. `IndInv` adds it to the three invariants.

`StreamsFaithful` speaks about the bytes that were handed on. That the next piece continues them depends on what
the buffer holds and where the loop stands, so the invariants go by the place at which the task is.
For requests (`RequestInv`), `InOrder` and `Places` hold whatever the bytes are: what was received is the client's
bytes up to `pos`, and the counters of the loops add up. `Undisturbed` says what memory holds: the last `nread` bytes
that were received, beginning with the first byte of the request that the parser is in, the body behind its head, or
in the file what the loop does not count any more; it is false behind a pipelined request that the proxy cut. `Waiting`
is about a client that waits for each answer: the buffer never reaches behind the request that is not answered, so what
the upstream gets is whole requests (`Behind`, `Whole`). Each call of recv is summed up once (`Taking`: how far it moves,
and that its bytes are the next ones, in plain text or through `ssl_recv` with what that puts aside), each call of the
parser by `Understood` (it stops at the end of a head, or has seen all), and there is one lemma per action;
`NextRequest` covers the return to the parser, and `Delivered` what a handler gets. For replies (`ReplyInv`), `Responding`
and `Scanning` say that what was relayed is the reply up to `rpos` or up to where the buffer begins, and that
scan_chunks starts at the start of a chunk. That each chunk lies behind the ones before it, for a reply with any
number of chunks, follows by going up in their distance (`ChunksInOrder`).

**`ConnectionProofs`.** Every property depends on where in the state machine the task is.
`Positions` lists the pairs of state and event with which it can be at rest (`AtRest`) and the
pairs of state and pending callbacks (`InCall`, and `InClose` for the last State_exec): what
the table and the callbacks reach together, a small part of all pairs. `Releases`,
`Links`, `Registers` and `Requested` say what is held at each position: at
which the descriptor has been closed, at which an upstream socket may be open, from
which on the connection is registered, and at which there is a parsed request.
`LoopExec` and `CloseExec` take the transition table apart, `Sites` says from which
positions a callback is called, and there is one lemma per callback. The refinement follows case by
case: register_request is Register, http_to_proxy is Dial or a stutter, proxy_close
is Hangup or a stutter, close and error are Release, the return is End, and every
other step is a stutter.
`AnswersInv` does the same for the request. A position is before or after the answer
(`Unanswered`); from the routing to the backend it names a type that `req->action` must
have (`ForHandler`, `ForDirectory`, `ForProxy`, and `ProxyKept` while a proxied connection is
reused); and at the positions that lead to another read (`ReadsNext`) no close has been announced, or a
directory announced it. `AnswerExec` shows that a transition never asks for more than the
position before it gave, so only the callbacks that route, answer or read remain. The
exception for directories is needed: without it the step from `RESP_SENT` breaks `AnswersInv`.

**`DeliveryProofs`.** `Lookups` adds to `NumbersIdentifyListeners` that a looked-up descriptor is
registered under the id: a disconnect then clears the only entry that leads to the number it
closes. `StepCases` reduces every step to one of six effects on registry and sockets. Nothing bounds the number
of clients, so all of this covers a counter that laps, with kills in between. For the refinement
the history of the counter is kept as `Register` keeps it (`age`, `overtaken`) and needs no
mapping; what is left is to count the tasks that have yet to register (`Fresh`), for which each step moves at most
one client. A kill maps to the kill of `Register`, every send and every arrival of a message to a stutter.

**`TaskProofs`.** For the locks, `QLockPassedOn` and `RWLockPassedOn` describe the lock between the
unlock and the moment the task that was given it runs again: the owner is who holds the lock *or* who
still waits in the call but has left the queue, and `readers` counts both. Together with
`OnePlaceForEach` (a task is running, on the run queue or on one waiting list, once) and
`WaitingInTheCall` (on which list, by the call it is in) this is inductive. The lemmas about
`addtask` and `deltask` on sequences (`AppendedTask`, `TakenFirst`) carry both halves of the module.
For the poll task, `PlacesApart` divides the live tasks among six places: running, on the run
queue, asleep, on the hot list, behind epoll, and lost. The six are disjoint, and `HotOnce` and
`IdleOnce` say that a task has one entry in the lists. `OnePlaceEach` follows by counting
places, and `WaitListsIntact` is part of the invariant. The long step is `Poll`: which
hot entries it removes, which slots it frees, that the tasks it readies were on one of the
lists and are readied once in whatever order, and that an event without EPOLLIN or EPOLLOUT takes the
slot and loses the task.

**`ProcessProofs`.** `PidInv` adds to the promises about the file who has the port (`OneHasThePort`)
and that the file does not change to another process between the read and the unlink of a starting
one (`SeenIsTheFile`). `NetInv` gives every call its own open socket that is connecting to what the
name stands for, also a call that will never go on, and says that no open socket is without a call or an owner (`NoneIsLost`); `LookupIsFaithful` is about `parseip` itself, for names of every length.
`LifeInv` says that, until someone asks the server to stop, every number names what its holder thinks
(`NumbersAreTrue`), and that a handler is told to stop before the main task gives it the time to see it
(`StoppedHandlersExit`). `FilesInv` says that the count in a record is the number of its holders.
A look-up changes records and cache several times before the connection has its record, so
`Accounted` states that of any records, any cache and any number of uses, and there is a lemma for
each change: a record is reloaded (`ReloadedAccounted`), gets one use more or less (`UseAccounted`,
`DoneAccounted`), loses its slot (`VacateAccounted`) or enters one that another record leaves
(`AddAccounted`). `CheckAccounted` and `ResolveAccounted` put them together for every way through
`Dir_resolve_file`; that a cached record is found by its path, so that no second one is made, is
part of them. `FreeRecord` counts: the model's ids are enough for a cache and connections of
any size. `FreshInv` adds time: what a record tells has been at its path at the moment it was
loaded or later, so that it can be out of date only since, and no two paths share a file, so that
writing one changes no other. `TagInv` says that the tags of the cached records are in the order of
their last uses and away from 0. `ResolvedAges` is the step: a request takes one or two from every
other tag, and when a changed record has left its slot in the same request that slot, with
tag 0, is the one taken, so that no second record is given up.

**`ConfigProofs`.** A property of a configuration that is served says nothing of one that is being
loaded, so `ConfigInv` follows the load. `Serving` says, for each place in the nested callbacks, that the
server under construction is what its row makes of the hosts up to the one whose callback runs, and
that host what its row makes of the routes up to the current one (`ServerBuilt` and `HostBuilt` with the rows
that have been passed); `TypesLoaded` does the same for MIME types and settings, `NotYet` says what is
empty before its query. `Fine` says of every memory that it has exactly the live targets, that the routes of the
server lead to them, that its hosts are alive, and that each target is what its row said. `Snapshots` and
`Loading` tie this to the databases: the query that runs sees the committed one, since nobody commits meanwhile
(`writer = "exclusive"` only between queries). There is one lemma per callback (`ServerLoaded`, `HostMade`, `RouteLoaded`, `HostAdded`, ...) and
one per action; the step from a prefix of the rows to the next row is `NextRow`, and from all of them to the
query `AllRows`, so that nothing needs induction over rows.
`ToolInv` is the same argument for m2sh: the tables of the transaction are the part of the file's tree that
its walk has passed (`ToolServers`, `ToolHosts`, `ToolSettings`), where the host whose routes are
being walked has only the first of them (`Filling`). `RoutesApart`, that no two routes have one target
row, needs that `last` is above every id of its table (`ToolRows`). An insert disturbs one table only (`Inserted`,
`InsertedRow`, `Extends`). `WholeFile` shows that at the commit what has been passed is all that has
to be there. For the operations, `ToolOperates` says that the signalled servers are the selected rows up to
the current one, which `OperationEnds` compares with the answer. A step of one process has to preserve what the
other relies on: `CommitsApart` and `ToolThen`.

**`RequestsProofs`.** Whether a handler reads what the client sent depends on texts of any length. The two
replacements of the escaping and the JSON reader are recursive functions along a text; `ReplacedAppend` and
`ReadAppend` say what one more character does to them, and `EscapedReads` follows by going up to the
length of the text: the set of places at which a claim fails would have a least one (`LeastNumber`,
`Induction`), which needs no induction theorem with an operator as parameter. `EscapedReads` needs no
assumption; `PlainReads`, for the parts of the request line that are sent as they are, needs that they have neither
quote nor backslash. `RequestsAssumption` says of the grammar that it lets no quote into these parts and no
backslash into method and version; that it lets one into path and URI is why `PayloadTellsTheRequest` excludes
those (`Backslashed`). Of the state, `Owned` says that each string of the request is live, was made for the place
that it is at, and is at no other, so that Request_start and Request_destroy destroy each once, also in the middle of
a head; only paths may be at no place. `Filling` says that what the request has of the message, and what is among
the callbacks that are left, is the message: a part is there with its text or will be told, only paths
and headers may be told again, the path of a JSON message with another text (`PathsTold`; `WholeUnescaped` says that
this one needs no escaping either), and `done` comes last, which `CallbacksTell` derives from the grammar's order. At `done`
nothing is left to be told (`AllTold`), so the request is `Filled`, whatever it was before Request_start.

**`HallocProofs`.** `FamiliesIntact` is about whole lists, of which an operation sees three blocks. The
invariant (`Families`) says of each pointer what it points to and that the pointer back is there:
`Nexts`, `Firsts`, `Prevs` and `Roots`. This alone lets siblings form a ring that hangs on no parent; three orders
exclude it, one in which lists go on from their head (`Begins`), one in which they come to an end (`Ends`) and
one in which families go down (`Deep`). They are functions whose existence is the invariant, and nothing in the code
has them. That a walk meets all children, and nobody else, then follows from the child of least rank that it would miss
(`ChildrenListed`), and that the family of a block contains neither the block nor its parent from the member
of least depth (`FamilyIs`). hlist_del (`Detached`) keeps all three orders; hattach (`Attached`) moves the depth of a
family below that of its new parent, for which the assertion that the parent is not in the family is needed;
a move is a renaming (`RenamedSound`), which hlist_relink and hlist_relink_head complete (`MovedIs`), except for a block without
parent (`StepAlone`); freeing is hlist_del and the removal of a closed set (`FreedIs`). `Roots` has a detail that no
test shows: `halloc(ptr, len)` on a block without parent that stays where it is makes the block its own next, which
the next hlist_del undoes.

Only model-checked:

* the `...Faithful` invariants of parsers, containers, routes, strings, numbers and TLS:
  recursive algorithms against reference definitions, in modules with RECURSIVE
  operators or with folds, whose library facts are inductions that the provers cannot use;
* every liveness property (`HangupEndsTask`, `PolledWaiterWakes`, `EveryoneFinishes`, `SignalsAreObeyed`):
  they need fairness and ENABLED.

## 5. What the model found

Three places where the code does something else than its documentation says have a
violating run and are quoted in `PROJECT.json`: a descriptor number outlives its socket in
a send that waits (`delivery_blocked`); settings have no effect on the limits
that loading itself reads (`settings_late`); and the prefix search finds nothing for a path that is the
beginning of a longer prefix, where the manual promises the longest prefix that matches (`longest_prefix`,
`tst.c:146`). The others came up while the modules were
written, are part of the models, and have no run of their own.

*Connections and waits.* A status response of a directory announces a close that does not
happen; `AnnouncedCloseIsKept` is about all others. A later request of a proxied connection is routed with the
Host of the first (`connection.c:487`), and a handler or directory reached from it is
given the `pattern` of the proxy's route. Two idle waits on one descriptor: the first
sleeps for ever (`superpoll.c:400`); an event with neither EPOLLIN nor EPOLLOUT is dropped
(`superpoll.c:437`). An id that was killed leads to the next client on its number until
the task it belonged to has ended (`control.rl:92`); `kill` with the id MAX_REGISTERED_FDS
passes its check and fails an assertion (`control.rl:86`, `register.c:133`). After a lap
of the id counter and the disconnect of the newer holder, `status net` lists an id that
`kill` cannot resolve (`LiveIsReachable` says when). On the error paths (CLOSE in
Queueing, MSGRouting or between the events of Idle, FAILED in Receiving) the machine runs
`error` and never `finish`, so the descriptors are closed and the Connection itself is
not freed.

*Streams.* What `ssl_recv` puts aside is lost when another record arrives
(`connection.c:724`). The body loop counts from the whole content although a part came
with the head, and waits for bytes that never come. A pipelined request behind a
proxied one is dropped or cut (`connection.c:396`). A reply with more bytes than it
announced meets the assertion "Math screwed up" (`proxy.c:93`); a read that ends between
CR and LF of a chunk's head makes `scan_chunks` go round for ever. `upload_store` is freed
twice on one error path, and the descriptor that path closes may still be 0
(`connection.c:254`). A malformed request gets no 400, except after a proxied one.

*Requests and parsers.* The URI is not escaped in JSON; a JSON message with parameters or a query tells
its path twice, the second time up to the blank, parameters and query included (`http11_parser.rl:164`), and the
first string is lost: a handler is told that longer path. A request with more header fields than
`limits.header_count` fails an assertion (`dict.c:550`). A Content-Length or Transfer-Encoding whose
value stands on the next line is told with a stale length; a reply head that ends in an empty field
of these names is never finished.

*Configuration and life cycle.* A load is six queries in no transaction: when somebody commits between two of them a
mixture of two databases is served, if its routes find targets (`ServesTheDatabase` and `RouteLeads` say which row
is from which). While m2sh commits, a query fails at once, and a server that starts or reloads then ends; in turn m2sh's
commit fails while a query runs, after all its work. The results of the queries for handlers, proxies and
directories are ignored. m2sh ignores that a host, a route or a MIME type fails: after the first host that fails
those behind it are not loaded, and the load reports success (`config_file.c`). `m2sh help <command>` prints no help
on a command, since an argument without an option is refused first. Duplicate rows abort a build with assertions and replace
one another in the other. Two rows with one server uuid, or a failed load, make Server_destroy
close descriptor 0. Setting_add searches with the length of the value. The Server of the
load before is never destroyed. A failed reload shuts the server down although the log
says that it "will keep the old one" (`mongrel2.c:299`, `:305`). SIGHUP followed by SIGINT
loses the stop. `listen_fd` is closed up to three times on the way out. Connections that an
older generation accepted use its freed handlers. A chroot that fails at chdir goes on as
test mode inside the jail, and a reload forgets the path of the PID file in test mode.

*Sockets and directories.* A netdial whose fdwait finds no room never returns, and its socket stays open: the
error path of `_wait` switches away before it answers (`task/fd.c:213`), so the return at `net.c:192`
is not reached. Addresses of class C in two or three parts use bytes that nothing has set
(`net.c:88`). The cache of a directory is keyed by path alone. A stat that fails makes
`Dir_find_file` close descriptor 0. If-Unmodified-Since alone is answered with 500. A change
within the second that keeps the size is not noticed.

*Routes, strings, numbers, TLS.* The suffix search never looks at the first character
(`tst.c:101`). A block without a parent that `realloc`
moves is written to in its old place; mongrel2 never does that. In bstr, failed appends
and a read at the end of a stream leave no NUL, and `bsplitstrcb` skips a character.
`bi_divide` cuts an intermediate value to a component (`bigint.c:452`); it and `bi_set_mod` divide by zero
for a top component of all ones, since one is added to it in 32 bits (`bigint.c:407`, `:749`);
and Karatsuba is wrong when a number has less than half the components of the other. A
session table can hand an object to two handshakes; a hybrid hello must come in one read.
In this version the server creates no SSL context, so that TLS runs only as library code
(`server.c:82`).

## 6. Plan

What is next, in this order:

1. `Delivery`, continued: the framing of a reply when a connection changes its
   protocol after it was registered.
2. The compaction loop of `SuperPoll_poll` on sequences against the set model, and the order
   of the list of `taskdelay`.

## 7. Not modelled

* Logging, `mac_specific.c`, the context switch in assembler, socket options: output, or a few
  lines around a system call.
* Of `m2sh` the lexers and the grammar (a command line is its tokens, a file its tree), what the listing
  commands print, and its shell; SQLite, the Lemon parser generator and the examples: other programs.
* SQL: a table is its rows by their ids; of SQLite's locks, those that a query, a transaction and a commit take. 0MQ: a message arrives or is taken.
* Ciphers, digests, random numbers and ASN.1: TLS is modelled over ideal ones; the contents of a
  certificate are "good" or "bad".
* Of the containers the variants with memory of the caller; of the strings formatting beyond
  its result; of the responses their wording; of directories path normalization and the
  choice of a MIME type; of an upload the file beyond its size.
* Allocation that fails, except in the strings and in the growing hash table.
