# A verification project for adh-maki

`maki` attaches to the shared memory of a Reuters ADH through the RMC library,
watches the managed objects the ADH publishes there and serves them as SNMP
tables with Net-SNMP. This directory holds TLA+ models of the program, the TLC
configurations that check them, and proofs for TLAPS. Source paths are relative
to the repository; the program's own code is in `src/`, adapted Chromium code
in `src/chromium/`.

## 1. The system

| Component | Code | State it keeps | Operations |
|---|---|---|---|
| Agent session | `snmp_agent.cc` `snmp::agent_t` | `ref_count_` (static), `thread_`, `pipe_`, the Net-SNMP library | `run`, `clear`, destructor, the event pump thread |
| Process | `adh_maki.cc` `adh::maki_t`, `main.cc` | `agent_`, `pool_`, RMC's notifier | `run`, `mainLoop`, `clear`, `on_signal` |
| Agent configuration | `adh_agent.cc` `adh::agent_t` | `tables_`, `root_oid_` | `init_MIB`, `createSnmp*`, `addServerPool` |
| Table discovery | `snmp_table.cc`, `snmp_row.cc`, `snmp_variable.cc` | `rows_`, `root_map_`, `_pmoList`, per variable `object_id_`, `rmc_object_`, `rmc_variable_` | handlers for RMC server pool, server and object events |
| Query path | `snmp_table.cc` static callbacks, `snmp_variable.cc` `data`, `size` | `context_t::global_list`, one iterator per query | `get_first_data_point`, `get_next_data_point`, `free_loop_context`, `handler` |
| JSON reader | `chromium/json` | position, `stack_depth_`, error code | `JSONReader::Read` |
| JSON values | `chromium/values` | trees of values, each owned by its container | set, get, remove, merge, copy, swap |
| Singleton | `chromium/memory` | one word per type, `dead_` for static ones | `get`, `OnExit`, `Resurrect` |
| Locks | `chromium/synchronization` | mutex, in debug builds its owner | `Acquire`, `Try`, `Release` |
| Logging | `chromium/logging` | log file, destination and their lock | messages, `InitLogging` |
| Verbose logging | `chromium/vlog` | patterns with levels, the maximal level | `GetVlogLevel` |
| Command line | `chromium/command_line` | `argv_`, `switches_`, `begin_args_` | `InitFromArgv`, appending, copying, wrapping |
| Number and string conversions | `chromium/string_*` | none | to and from text, trimming, splitting |
| Statistics table and counters | `chromium/metrics/stats_*` | a grid in shared memory, a cache of its rows, a slot per thread | increments, reads; not in the build (`CMakeLists.txt:104`) |
| Histograms | `chromium/metrics/histogram` | the recorder's maps; per histogram its ranges and samples | the macros, `FactoryGet`, snapshots, graphs; not in the build |
| The rest | stack traces, symboliser, demangler, atomics, errno text | none, or set once at start-up | |

How they interact. `main()` makes a `maki_t` and calls `run()`. That constructs
an agent, opens the SNMP session (which reads the JSON configuration into
tables, registers them and starts the pump thread), subscribes every table to
the RMC server pool and enters RMC's event loop on the main thread. From then
on there are two threads: RMC callbacks on the main thread build rows, SNMP
requests on the pump thread read them. No lock is shared between the two. A
signal disables the notifier; the loop ends, `maki_t` drops the agent, and the
agent's destructor wakes and joins the pump.

What is hard here:

* the counter that is to keep the session single is incremented first and
  never taken back on failure, across objects that replace each other;
* thread start, wake-up, join, descriptor and library lifetimes, with failures
  at every step and signals that interrupt `select()`;
* events of a hierarchy of servers, roots and objects in any order, delivered
  to handlers that call each other recursively and subscribe as they go;
* a list and its rows read by one thread while another extends them;
* the lazy initialisation of what all threads share, without a lock (the log)
  or with a compare-and-swap (singletons), and its destruction;
* registries in which several threads, or processes, enter the same name;
* the text that the program is configured from: nesting, ends, overflow,
  wildcards, and values that are owned by exactly one container.

What makes each component correct: one pump at a time that ends when told to
and is never left without its pipe, its owner or its library (session,
process); one complete row for every connected application or object of the
class, each column bound to the object it names (discovery); every query ends,
passes over no row that was there, and leaves nothing behind (query path);
every thread gets the one finished instance, file or histogram (singleton,
logging, recorder); a text is read as what it means or refused where it stops
meaning anything (JSON, numbers, switches, patterns), into values that neither
leak nor are freed twice.

## 2. Modules

| Module | Models | Extends |
|---|---|---|
| `AgentSession` | `snmp::agent_t` and its pump thread under any client | |
| `Maki` | the process: `maki_t`, signals, destruction of an `adh::agent_t` | `AgentSession` |
| `MakiInv` | the inductive invariant of `Maki` | `Maki` |
| `MakiProofs` | the class under any client, the process, and that every step of it is one of `SnmpService` or a stutter | `MakiInv`, `MakiService`, `TLAPS` |
| `SnmpService` | what the process promises about SNMP, abstractly | |
| `MakiService` | the refinement mapping from `Maki` to `SnmpService` | `MakiInv` |
| `MibColumns` | one table's columns, from the configuration to a request | |
| `LogFile` | the log file, its lock and the threads that log | |
| `TableDiscovery` | one SNMP table filled from RMC events | |
| `TableDiscoveryProofs` | types, the nesting of the handlers, and what a step may do to the rows | `TableDiscovery`, `TLAPS` |
| `TableColumnsProofs` | which object and variable a column ends up with | `TableDiscoveryProofs`, `LoopTheorems` |
| `TableService` | the same table queried by the SNMP thread | `TableDiscovery` |
| `TableRowsProofs` | one row for every application and `root_map_`; one row for every object of a class; what a query has been through when it ends | `TableColumnsProofs`, `TableService` |
| `Singleton` | `Singleton<Type>::get()` with two of its traits | |
| `Lock` | the debug build's lock and its scopes | |
| `ThreadProofs` | the theorems of `Singleton`, `Lock` and `LogFile` | these three, `TLAPS` |
| `JsonText` | what a JSON text means, by recursion over it | |
| `JsonReader` | `JSONReader`, token by token | `JsonText` |
| `ValueTree` | what value containers promise: trees without objects | |
| `Values` | dictionaries and lists as objects with owners; refines `ValueTree` | |
| `StringNumbers` | conversions between numbers of a fixed width and text | |
| `CommandLine` | `argv_`, the map of the switches and the divider | |
| `ConfigurationProofs` | the theorems of `MibColumns`, of `CommandLine` and of `StringNumbers` | these three, `LoopTheorems` |
| `VlogLevels` | the switch `vmodule`, its split and its patterns | |
| `StatisticsRecorder` | registration, sharing and dumping of histograms | |
| `StatsTable` | the shared table of counters | |
| `HistogramBuckets` | one histogram: ranges, samples, snapshots, graph | |
| `MetricsProofs` | the theorems of the recorder, of the table of counters and of one histogram | these three, `LoopTheorems` |
| `LoopTheorems` | loops: what a recursive function of the turns is, and induction over the turns | `TLAPS` |
| `MCMaki`, `MCTableDiscovery`, `MCTableService`, `MCLogFile` | small instances for TLC | |
| `MCThreads`, `MCConfiguration`, `MCMetrics` | several small modules side by side | |

Modules that share nothing are checked side by side: in the initial states of
`MCThreads`, `MCConfiguration` and `MCMetrics` one part is chosen, which then
runs while the others rest in an initial state. The state space is the sum of
the parts, not their product, and a counterexample names its part.

Operators introduced by a comment that starts with "Fault:" are wrong versions
of a definition next to them. No specification uses them; they stand for a
plausible bug (a missing wake-up, a dropped lookup) and each makes some property
of the project fail, which shows that the property depends on that line.

### AgentSession

`phase` and `self` are the caller's position inside `run()` (`initAgent`,
`initMib`, `initMaster`, `openPipe`, `spawn`) or `clear()` (`join`, `close`,
`shutdown`). Each step of `run()` has a failing twin, which returns with the
counter left as it is. `pump[a]` is the thread of `thread_`: in `select()`,
serving, exited (joinable), or none; when the destructor ends with a joinable
thread, Boost detaches it and `pump[a]` describes a thread without an owner.
`pipe[a]` is closed, empty or holds the wake-up byte; the build does not define
`HAVE_EVENTFD`, so it is the pipe path. `lib` is the library between
`init_agent()` and `snmp_shutdown()`. A `select()` that fails leaves the
descriptor set as given, so `PumpInterrupted` ends the loop.

`SessionSpec` is the class alone under a client that may call any public method
in any order. That class is used from one thread, as the program does.

### Maki

`main` is what the main thread does in `maki_t`; `agent` is `agent_`; `old` the
agent that an assignment has displaced. `make_shared<agent_t>` runs before the
old agent is destroyed (`Run`, then `FreeTables`, `DestroySession`, the steps of
`clear()`, `Replaced`). `main()` calls `run()` once; the model lets the client
call `run()` and `clear()` repeatedly, which the class allows. `OnSignal` may
happen at any time between the installation of the handlers and their removal;
it runs on the main thread or interrupts a pump.

### SnmpService and MakiService

`SnmpService` knows agents that serve, those told to stop, those spent, and
the library. Agents serve one at a time and each at most once; the library is
up for as long as one serves; one that is told to stop does. `MakiService` maps
`serving` to the agents whose pump runs, `told` to those of them with a byte in
the pipe, `spent` to agents that have or had a thread, are being given up, or
are dead. What the mapping forgets, the counter, the failures, signals and the
order of the main thread's steps, is what the implementation adds.

### MibColumns

`CreateSnmpObject` reads the next declaration and does what `addObject()` does:
`resize()` and an assignment by oid, so a later declaration of the same oid wins
and oids that are left out leave null pointers. `RegisterSnmpTable` includes
`addIndexes()`. `AddVariable` is the loop of `addRow()`, which skips null
pointers; the position of a variable in `variables_` is therefore the column
only where nothing was skipped. `Request` is a packet from Net-SNMP; the
`Handle*` actions are the iterations of the loop in `handler()`. A column beyond
the end of `variables_` is read from whatever memory is there, which may look
like a null pointer or like anything (`undefined`). The CHECKs on the JSON
values are not modelled; a declaration is assumed to have a positive oid.

### LogFile

A thread's `pc` is its place in `~LogMessage()` or, for the main thread, in
`InitLogging()`; both go through `LoggingLock::Init()`, whose four assignments
are steps of their own because no lock protects them. `lockMode` is read when
the lock is taken and when it is released, as in the code. Accesses to these
globals are single steps. The client keeps to the comments of the code: the
first `InitLogging()` returns before any thread logs, or there is none and the
first message initialises; a later one comes when the lock is initialised.
In the program, `main()` calls it once and installs a handler that takes every
message, so the file is opened only by a program that uses the logging library
otherwise.

### Singleton and Lock

`instance` is `instance_`: 0, the marker 1, or an object. `New` and `Build`
are the two halves of `Traits::New()`, so that a marked instance can be seen
while its constructor runs. With `traits = "static"` a dead instance is not
revived until `Resurrect`; `get()` then returns null. `OnExit` and `Resurrect`
happen when no thread is inside `get()`, as their comments require.

`Lock` keeps the mutex (`os_lock`) and the debug owner (`owning`) apart:
`CheckUnheldAndMark` comes after the mutex is taken and `CheckHeldAndUnmark`
before it is released. A scope is an `AutoLock`, perhaps with an `AutoUnlock`
inside, or a successful `Try()`.

### JsonText and JsonReader

A text is a sequence of lexemes; a key, a string with a `\u` escape, a number, an
escape that does not exist, a number no double can hold, a comment without an end and a zero byte
are lexemes of their own. `Meaning` says recursively what a text stands for:
split at the commas outside of brackets. `JsonReader` does what the code does:
`calls` are the activations of `BuildValue()`, `reading` what the innermost
looks for, each step looks at one token. `Write` adds lexemes when the reader
gets to the end, so that one run reads every text. What the two have in common
is only the alphabet. `Meaning` gives a string with a `\u` escape the meaning
RFC 4627 does, which the reader refuses: `ReadsDocuments` says nothing about a
refusal at such a string, and `StringsAreRead`, which says that there is none, fails.

### Values and ValueTree

`heap` holds the allocated values; freed identities are used again, as an
allocator would. `Set` deletes what it replaces before it stores the new value,
`Delete` follows ownership down. The calls are those of an owner that keeps one
container and at most one more value, so that a removed value can be taken,
stored somewhere else, merged, compared or deleted. `ValueTree` has no heap:
`Put`, `Drop`, `Merge` and `Prune` replace a whole tree. `ImplementsTree` maps
the heap to trees by `TreeOf`.

### StringNumbers, CommandLine, VlogLevels

`Digit` is a turn of the loop of the conversion with `CheckBounds` before each
digit but the first, and with a `value_type` that wraps at `Nibbles` hexadecimal
digits, two in the run. The loops over the digits of a text and of a number are
recursive functions (`ReadUpTo`, `TextsBefore`), and so is what the digits stand for
in the specification (`Number`); a loop that passes characters is the length of the
longest prefix of them (`Leading`). `BestEffort` is about every
text but two kinds, where the code does otherwise: a negative number as unsigned,
whose first digit has no bound and wraps, and a hexadecimal one of more
digits than an int has, which `CheckBounds` compares after it has wrapped. `CommandLine` keeps an argument as its prefix, name and value, so
that splitting at `=` is not modelled, and the white space around it, which
`AppendSwitchesAndArguments()` trims and `AppendArg()` does not; `begin_args_` and
`argv_` are as in the code. The names that callers give to switches have no white
space. A wrapper is the words `SplitString()` finds in it: all of them go in
front, and the divider moves by their number. They may be switches or arguments, as in
`gdb --args`, so what is read back is what stands from the program on, and
`wrapped`, a history variable, says where that is. Its loops over an argv and over the names to copy are functions of the
number of turns (`TakenUpTo`, `CopiedUpTo`), and a switch that is appended has a
name, since every caller gives one. `VlogLevels` is made of characters, because its properties are about
them: `SplitString`, `TrimWhitespace` and `SplitStringIntoKeyValues` are those
of `string_split.cc`, `MatchVlogPattern` backtracks over stars, and `GetModule`
removes the directory, the extension and `-inl`.

### StatisticsRecorder, StatsTable, HistogramBuckets

`caller[t]` is where a thread is in the block every histogram macro expands to:
load the static pointer, find, construct, register, store, add; registering
and finding are under the recorder's lock and therefore one step each.
`StopHistograms` and `StopRanges` are the two locked sections of the destructor.
A pointer carries the recorder (`epoch`) under which it was found, a history
variable: a histogram registered while there is none belongs to its maker.

`StatsTable` has a process's cache of rows, the thread's slot and the grid;
`Locate` loads the cell and `StoreIncrement` stores it, with anything in
between. `added` and `low` record what was counted. A process uses its table
until it destroys it; creation of the shared memory, which tests the version
and clears it without the lock, happens before.

`HistogramBuckets` computes exactly what the code computes with logarithms: the
largest start not above the rounded next power. `history` is the list of values
added. `WriteAscii` gives the lines of the graph with their counts, without
their layout.

### TableDiscovery

One table, with or without a class filter. An RMC event is an action that
changes the library's state and puts the handlers it triggers on `stack`; the
handlers' own steps (`TableServerAdded`, `TableServerSync`, `TableWalk`,
`RowColumn`, `VariableSync`, `VariableKids`) execute the innermost call up to
its next call or iteration, so that recursion is explicit and a concurrent
reader sees every intermediate state. Clients of one object are called in any
order. `rows[n].object` is `rmc_object_` of each column, `rows[n].variable` the
object whose variable `rmc_variable_` is. `hidden` and `missed` are children that
appear late; `syncs` counts Sync events, so a second one is possible.

`Below` is `RTRObjectId::isDescendant`. What is above an object is defined as the
least set with the object and the parents of what is in it, which a proof can
use for a tree of any depth. The tree is a constant, with four assumptions: a
child occurs once among the children of its parent, no object has two parents,
a root has none (children are found by their names, and a root by its server), and
no object is beneath its own child (`PathsAssumption`: an object id is a path).

Rows' own subscriptions (`row_t`) lead to handlers that only log, and are left
out. Handlers that only log (Error, Deleted, ChildAdded, ChildRemoved and the
state changes) are one action each where the event itself matters, else omitted.

### TableService

The Net-SNMP table iterator, which is external, asks for the first data point,
then for the next, frees the loop context and calls the handler. `it` is the
iterator of `context_t` (a list iterator: rows appended behind it are met, and
`end()` stays `end()`). `HasData` stands for the dereference in `data()` and `size()`. The
`crashed` state is the null pointer or a torn vector; it is terminal.

## 3. Runs

| Run | Question | Result |
|---|---|---|
| `maki` | three successive agents with failures and signals: one session, library up, every destruction ends; the abstract service, its liveness included | holds |
| `maki_tables` | are the tables freed after the thread that serves from them? | violated |
| `table_plain` | one application with a root on each of two servers, pool and subscription in any order: bindings, columns, a row for every application and one each, `root_map_`, handlers that return | holds |
| `table_class` | nested objects of a class, a late child, an error child, repeated Syncs | holds |
| `table_class_erase` | does a removed root have an entry in a class-filtered table? | violated |
| `table_service` | queries against growing tables: complete, finite, contexts freed | holds |
| `table_service_race` | are the threads exclusive, as the comment says? | violated |
| `threads` | two agents under any order of `run()`, `clear()` and destruction; three threads that log with two `InitLogging()` calls; that race for a singleton; that open scopes of a lock: descriptors, wake-up bytes, one open file, one instance, true debug marks, and everybody returns | holds |
| `configuration` | all configurations of up to three columns, JSON texts of up to six lexemes, values through up to four calls, texts of up to four characters as numbers, command lines, switches for verbose logging | holds |
| `metrics` | two threads, three sites and two recorders; three threads of two processes in a table of one row and two columns; every small histogram with up to two samples | holds |
| `log_redirect` | does a file exist when `InitializeLogFileHandle()` says so? | violated |
| `json_number` | does `Read()` return for a number that no double can hold? | violated |

The violated runs are the findings of `PROJECT.json`: each quotes the comment
or assertion the code does not live up to.

* `maki_tables`: the pump is serving a request when `agent_.reset()` starts;
  `tables_` is destroyed first, the thread joined afterwards.
* `table_class_erase`: `root_map_` is only filled without a class filter,
  `erase(find(..))` runs with one as well.
* `table_service_race`: the iterator reads what the main thread is changing.
* `log_redirect`: a message finds the destination to be a file, waits for the
  lock while the main thread redirects the log to `LOG_NONE` and closes the file,
  and then writes through a null `FILE*`: `InitializeLogFileHandle()` returns true
  when there is nothing to open.
* `json_number`: `DecodeNumber()` promises NULL on overflow; `StringToDouble()`
  was changed from `strtod()` to `std::stod()`, which throws for `1e999`.

More divergences between the code and what it says, without a run of their own:

* A `run()` that fails keeps its reference, so the next `run()` of the same
  object says "Instance already running." (`snmp_agent.cc:98`) with no thread; in
  the program no object is run twice (theorem `RunOpens`). `mainLoop()` ignores
  the result of `run()` (`adh_maki.cc:133`) and goes on without SNMP.
* "capture terminate signals" (`adh_maki.cc:113`) comes before the session is
  opened. A signal that interrupts the pump's `select()` before
  `RTRSelectNotifier::run()` is entered ends the pump without a wake-up byte, since
  the descriptor set is as it was given (`snmp_agent.cc:55`); the notifier that
  the handler disabled is enabled when `run()` begins, and the process monitors
  on without SNMP. `Maki` states what one would expect (`SnmpWhileMonitoring`),
  and it fails after ten states. It rests on one choice the model leaves to the RMC
  library, that `run()` may enable the notifier; if it does not, the process ends
  as it should.
* `addObject()` validates nothing in spite of its comment (`snmp_table.cc:245`),
  so a configuration with a gap answers a column with its neighbour;
  `AnswersOwnColumn` is about configurations without gaps, and the shipped one
  (`adh_agent.cc`) has none.
* A root of the table's class takes the path of unfiltered tables
  (`snmp_table.cc:663`). A FATAL message does not terminate the program
  (`logging.hh:82`).
* `setIndexedValues()` reads an index variable that may not be in sync
  (`snmp_table.cc:345`), which `data()` asserts (`snmp_variable.cc:140`);
  `TableService` defines the property (`DataInSync`), and it fails.
* `DecodeString()` "should always succeed" (`json_reader.hh:188`), but its case of
  `\u`, which `ParseStringToken()` accepts, is commented out
  (`json_reader.cc:499`): the text is refused as a syntax error, with such a string
  as a value or as a key. `JsonReader` states the promise (`StringsAreRead`), and
  it fails for a text of two lexemes.
* A bad escape in a key is reported as an unquoted key, a zero byte ends the
  input and a block comment needs no end (`json_reader.cc`). `JsonReader` has all
  of these, and `ReadsDocuments` is stated for what the reader does with them.
* A histogram without samples whose buckets all have descriptions but the last
  plots the last one with a scale of zero (`histogram.cc:209`). `GraphComplete`
  leaves that plot out of what it says about empty graphs.
* `HexStringToInt()` compares the value so far with its bound as an int, so a
  value that eight digits made negative takes more of them
  (`string_number_conversions.cc:244`); `StringToUint()` of a negative number
  wraps, since the first digit is never tested (`string_number_conversions.cc:228`).
  `ConversionsExact` leaves these out.
* `InitFromArgv()` keeps the switches of an earlier argv, and no program name is
  ever stored.
* "The same value will be stored in all cases" (`histogram.hh:96`) is false while
  no recorder is active: every thread then has a histogram of its own.
  `RegisteredReturned` is about pointers of the recorder that is up.
* In the statistics table, `GetRowValue()` of one process looks at the thread
  before the one it sums (`stats_table.cc:388`); a thread without a slot that
  shares a `StatsCounter` object would write before its row; `Private::New()`
  clears the memory without the lock. The model has counters on the stack, as
  the macro makes them, and reads of all processes.
* `Singleton::get()` never registers `OnExit()` (`singleton.hh:146`).

`AppsHaveRows`, `OneRowPerApp`, `OneRowPerObject` and `ClassObjectsHaveRows`
are exact about the code's limits: a row is repeated after the table was told
of a lost root, or after a second Sync of something above the object; a child
behind one in error, or added after its parent's Sync, has none.

### Bounds

* Agents: two for the class alone (the counter is shared, the rest per object),
  three for the process (replaced, cleared, destroyed). `MaxRefs` bounds the
  counter at 2 either way; the interesting values are 0, 1 and "not those".
* Tables: one table, since tables share nothing. `table_plain` has two servers
  with a root each, both of one application, one root added late, so that
  `root_map_` gets its second entry and the pool can be in any of its orders;
  `table_class` has two roots, objects in a tree of depth three (the nested walk),
  a second Sync for one of them and an object in error. Two columns give a row
  under construction.
* Queries: one at a time; there is one pump thread.
* Configuration: at most three declarations over columns 1 to 3, with gaps,
  repetitions and any order, and packets of two requests. Two columns swapped
  around a third is the smallest case in which a vector index and a column
  number differ in both directions. Texts of six lexemes reach an object in an
  array, an array in an object, a trailing comma, and nesting beyond the limit of
  three. Seven allocated values and four calls reach a merge of
  a nested dictionary into a nested one and a copy of a list with an item. Four
  characters over digits next to the bounds (of an 8-bit int: 127, -128, 255)
  overflow every type. The switch of verbose logging grows by three letters from
  five beginnings, among them `*a*` and `*=`: that reaches two stars with a letter
  between and a level (`*a*=1`), superfluous delimiters with one (`*==1`), and a second
  delimiter in what is read as the level (`*=a=1`). Argument lists have up to two
  arguments behind the program, with and without white space around them, wrappers
  up to two words (`w --v` is like `gdb --args`), and two edits follow each other.
* Threads: three, the first of which is the main one and calls `InitLogging()`
  twice; two messages and two log handles; two calls of `get()` each and one
  `OnExit()`, so that an instance is created again; two scopes each.
* Metrics: two threads, two macros or dumps each, over three sites whose names
  share a shape or a checksum, and a recorder that is started twice; one row for
  two counter names and two columns for three threads, so that both run out;
  all histograms with bounds up to 8, proper ones that are adjusted included.
* `threads`, `metrics` and `json_number` stop when their bounds are used up and do
  not check for deadlock; in `threads`, liveness would find a thread that hangs.

### Fairness

`Maki` assumes that the main thread keeps running inside its own code (it waits
only in `join()`, which is a guard, and in the notifier, whose wake-up is a
disjunct without an obligation) and that a pump whose pipe is readable, or that
is done with its request, goes on. It does not assume that requests or signals
come. `TableDiscovery` assumes that a handler runs to its end: nothing in it
waits. `TableService` assumes the same of the iterator, and that both threads
get their turns. `LogFile` assumes that a thread which can take its next step
takes it (weak fairness for each thread). That is not fairness of the mutex: with
an endless stream of messages a thread could be overtaken forever, and a program
that logs a bounded number of messages, as here, cannot do that.
`Singleton` assumes that a thread inside `get()` is scheduled again, so that the
one that is creating finishes and the spinning ones see it. The other modules
have safety properties only.

### Assumptions about what is external

RMC delivers its events on the thread that runs the notifier, one at a time;
`addClient` does not replay servers, roots or a Sync that came before (which is
why the code asks `inSync()`); `isDescendant` is reflexive; `RTRSelectNotifier::run`
may or may not enable a notifier that was disabled. Net-SNMP follows its
table-iterator protocol. A boost::thread destructor detaches. Linux leaves the
descriptor set alone when `select()` fails. Exceptions of allocation or thread
creation, a SIGINT outside the window of the handlers (which kills the
process), and the lifetime of `pool_` and `context_` are not modelled.

## 4. Proofs

Eight modules hold proofs. They need no bound but those that are constants of
the specifications, and those are arbitrary.

`MakiProofs` proves, for every set of agents, every split into master agents
and subagents, and every value of `NoAgent` outside that set (the named
assumptions of `AgentSession` and `Maki`):

| Theorem | Statement |
|---|---|
| `Inductive` | `Spec => []IInv` |
| `TypeCorrect` | `Spec => []TypeOK`, with `ref_count_` in {0, 1} |
| `OneSession` | `Spec => []SingleSession` |
| `RunOpens` | `Spec => []RunOpensSession` |
| `NoDetachedPump` | `Spec => []PumpOwned` |
| `ServedByLibrary` | `Spec => []LibraryUpWhileServing` |

None of these is inductive by itself. That two pumps never run depends on the
counter, which agents that failed keep at 1 on purpose or not, and the counter
only means something relative to where the main thread is. `IInv` says that:
`Counted` (the counter is 1 exactly while there is an agent that was run and is
not yet given up), `PumpCounted` (only that agent has a thread, and the library
is up under it), `InMethod` (which method the main thread can be in, for which
object), `Displaced` and `AgentAlive` (which of `agent` and `old` is alive).
From `Counted`, `run()` of a new agent always finds 0, so its early return is
never taken, and the destructor of an agent that was run always finds 1, so it
always joins. There is a lemma per action or group of actions, with the
conjuncts it disturbs as steps; `StepInv` puts them together and PTL lifts them.

It also proves `Implements`, `Spec => Service!Safety`: under the
mapping of `MakiService` every step of the process is a step of the abstract
service or a stutter. It rests on `Inductive`, since it is the invariant that
rules out a second pump or a library that is shut down under a session. The
abstract liveness, which `ImplementsService` adds, is checked by the run `maki`.

Its first part is about the class alone, whose client may call anything in any
order, so the counter means nothing there and two pumps may run:

| Theorem | Statement |
|---|---|
| `SessionInductive` | `SessionSpec => []SessionInv` |
| `PumpsKeepPipes` | `SessionSpec => []PumpHasPipe` |
| `BytesAreFresh` | `SessionSpec => []NoStaleByte` |

`PumpHasPipe` is not inductive: closing a pipe keeps it only if the thread of that
pipe was joined before. `SessionInv` adds what is true of the pipe and the thread
of the calling object at each place of `run()` and `clear()` (`PositionInv`) and
that a thread nobody joined has a pipe even after it left its loop (`PipesInv`).

Four modules are about the table, for every set of servers and objects, every
tree of objects, any applications, classes and columns, and any number of events.

| Theorem | Statement | Module |
|---|---|---|
| `TableTyped` | `Spec => []TypeOK` | `TableDiscoveryProofs` |
| `RowsOneByOne` | `Spec => []OnlyLastRowPartial` | |
| `RowsKept` | `Spec => RowsOnlyGrow`, an action property | |
| `ColumnsInductive` | `Spec => [](TableInv /\ ColumnsInv)` | `TableColumnsProofs` |
| `ColumnsBound` | `Spec => []BoundToTarget` | |
| `ColumnsFind` | `Spec => []ColumnsResolve` | |
| `PlainInductive` | `~ClassFilter => (Spec => [](TableInv /\ PlainInv))` | `TableRowsProofs` |
| `OneRowEach` | `Spec => []OneRowPerApp` | |
| `AppsAlwaysHaveRows` | `Spec => []AppsHaveRows` | |
| `EraseFindsEntry` | `~ClassFilter => (Spec => RootRemovedFindsEntry)` | |
| `ClassInductive` | `ClassFilter => (Spec => [](TableInv /\ ClassInv))` | |
| `OneRowPerObjectAlways` | `Spec => []OneRowPerObject` | |
| `ClassObjectsAlwaysHaveRows` | `Spec => []ClassObjectsHaveRows` | |
| `ServiceInductive` | `ServiceSpec => [](TableInv /\ QueryInv)` | |
| `QueriesComplete` | `Index # {} => (ServiceSpec => []QueryComplete)` | |
| `ContextsAlwaysBalanced` | `ServiceSpec => []ContextsBalanced` | |

`TableDiscoveryProofs` has the shape of the stack. The handlers call each other
in ways that are hard to see through in the code: a walk of a class-filtered table
adds rows, a row's columns call handlers of variables, and those go down the tree
again. `Nested` says that above `addRow()` there are only handlers of variables,
and that the row it builds is the last one, so a row under construction is never
left behind by another. Its lemmas say per step which frames it puts on the stack
(`Calls`), what it does to `rows_` (`Grows`) and that it leaves the variables'
handlers alone (`Settled`); the other modules use those and not the actions.

The first part of `TableRowsProofs` is about unfiltered tables. The link is between
two pieces of state that different handlers change: `Recorded` and `EntriesHaveRows`, an
application has a row exactly if it has an entry in `root_map_`, unless one of
its roots was erased; and `Counted`, the entry counts at least the connected
roots that the loops over the servers' roots have come to, which is why `find()`
finds something when one of them goes away. For a class-filtered table
`OneRowPerApp` and `AppsHaveRows` are vacuous, and `EraseFindsEntry` is false,
which the run `table_class_erase` shows; the premise is exactly that.

Its second part is about class-filtered tables, which have a row per object of the
class. Such a table becomes a client of a root and then goes down the tree from each
object that syncs; a row is added whenever it comes to one of the class, without a look
whether the object has a row already. Why there is one row all the same: the table comes to an
object from its parent, which is in sync then, or from its server (`FromParent`,
`FromServer`), and a loop on the stack has before it only objects that the table
has not come to (`FrameReady`). That survives because no two loops are over
the children of the same object: the walks on the stack lie on one path of the
tree, each beneath those that wait for it (`Apart`). An object above that syncs
twice breaks `FrameReady` for what is beneath it, which is the exception in the
property. Why there is a row at all: what a table should have come to, it has, or
a loop that will is on the stack (`ComesInv`). When the stack is empty, the objects
on a path down from a root that it has not come to include, with each of them,
its parent (`PathComes`), so there is none.

`TableColumnsProofs` follows a variable. It becomes a client of its row's
object and goes down the tree one object at a time, as they sync, until it finds
its own. `OnTheWay` says what that amounts to in every state: what a variable is a
client of is a path from the row's object towards its own, all of it in sync but
the last. With `FrameOK` and `SearchOK`, which say the same of the handlers on the
stack, no variable can be bound to another object's (`ColumnsBound`). The
exception in the property, an object above that syncs twice, is what the code does.
For `ColumnsFind`, `SearchedFrom` says that a variable which waits at an object
in sync is a client of the next one on the way already, or a handler is on the
stack that has not come to that child; `HasRead` says the same of the variable
of an object found. When the stack is empty there are no such handlers, so the
objects on the way that the variable has not come to include, with each of
them, its parent: there is none.

The third part of `TableRowsProofs` lets the queries of the SNMP thread happen at any step of
that, on `rows_` while it grows. `Visited` is about the rows the query owes, those
complete when it began: the ones before its iterator are seen. An iteration ends
early only at a row without its index, and that is the last one, which is where
`RowsOneByOne` and `RowsKept` come in. `QueriesComplete` needs an index column:
without one the iterator returns null at once.

`ThreadProofs` proves three small classes safe for any number of threads. The first
is `OneInstanceAlways`, `SingletonSpec => []OneInstance`, for
any number of threads, calls and exits. The invariant says who may be creating
(the marker is there exactly while one thread is between its swap and its
store), which object that thread holds, and that no object is alive besides the
instance or that one.

The second is `MarksAlwaysHold`, `LockSpec => []MarksHold`, for any number of
threads and scopes, from an invariant that ties the owner of the mutex and the
mark to the places between taking one and setting the other.

The first part of `ConfigurationProofs` proves, for configurations of any length, any columns and
packets of any size:

| Theorem | Statement |
|---|---|
| `ColumnsInductive` | `Spec => []ColumnsInv` |
| `ColumnsTyped` | `Spec => []TypeOK` |
| `OwnColumn` | `Spec => []AnswersOwnColumn`, for configurations without a gap |
| `AllAnswered` | `Spec => []EveryRequestAnswered` |
| `IndexesAlwaysFit` | `Spec => []IndexesFit` |

`ColumnsInv` adds to the two properties what they rest on: `Placed` (an entry of
`objects_` is the last declaration so far of its column), `Covered` (every
declared column has an entry, and the last entry is a declared column),
`Progress` (what is finished in each phase) and `Filled` (without a gap,
`variables_` of a row is a copy of `objects_`, which is why a column number may
index it).
`Indexed` is what `IndexesFit` needs besides: the types of the indexes of the
row so far are those of the objects it has been through. The types are picked by a
loop, which is a recursive function of the position here, and `TypesAppend` says
what one more object adds to them.

Its second part proves `CommandReadsBack`, `CommandSpec => []ArgvReadsBack`, for any
names, values, argument lists and wrappers, switches among their words or not, and any
number of edits. `LineInv` takes the place of the program, which is behind all
words that wrappers put in front. From there on `Layout` is the shape of `argv_`,
switches up to the divider, and `MapAgrees` is about all names at once: the map
says what the last switch of a name before the divider says. `Behind` is why the
arguments survive: what is behind the divider is a list in which a switch can only be
behind a terminator, unless `AppendArg()` was given one, so the child's loop, which
stops taking switches there, takes none of them. The child's own command line is
what its loop makes of the parent's `argv_` from the program on; `ReadSame` says
after each turn that what has been read is where it was, trimmed, with the divider
behind the last switch. Trimming makes a terminator of an argument that was none
before only if it has a prefix, and the premise about `AppendArg()` rules that out.

The third part of `ThreadProofs` is the log, for any threads, files and number of
messages:

| Theorem | Statement |
|---|---|
| `LogInductive` | `Spec => []LogInv` |
| `LockExclusive` | `Spec => []LockHeld` |
| `NoHandleLeaks` | `Spec => []OneFile` |
| `LoggingSafe` | `Spec => []NothingCrashes`, if the second `InitLogging()` names a file |

`LogInv` says why a lock that is made without a lock is there when needed. Until
it is initialised, either only the first `InitLogging()` has begun, or only
messages have, which all ask for the same kind of lock (`FirstAlone`);
afterwards nobody changes the kind (`Settled`), and nobody uses the lock or
redirects the log before (`Begun`). `Bound` keeps the destination of a message a
file between its look at it and its write. The premise of
`LoggingSafe` is exactly what `log_redirect` takes away.

`MetricsProofs` proves, for any number of threads, processes, names, shapes,
rows, columns and calls:

| Theorem | Statement |
|---|---|
| `RecorderInductive` | `RecorderSpec => []RecorderInv` |
| `DanglingNever` | `RecorderSpec => []NothingDangles` |
| `RegisteredAlways` | `RecorderSpec => []RegisteredReturned` |
| `StatsInductive` | `StatsSpec => []StatsInv` |
| `PartitionAlways` | `StatsSpec => []TablePartitioned` |
| `CountsAlwaysKept` | `StatsSpec => []CountsKept` |

Registering a histogram may delete it, or its ranges, in favour of one that is
there already. Why nobody is left with a pointer to it: until a thread has
registered what it constructed, nobody else knows it (`Private`). And why a
thread's pointer is that of its name: each carries the recorder it was found in,
and is that recorder's histogram of the name, or the recorder is gone
(`GoodPointer`). `ListsGood` has the lists of ranges, in which a shape occurs once.

A counter of the shared table is incremented by a load and a store without a lock.
No increment is lost since a cell has one writer: a thread writes only its own
column (`ColumnsOwned`), a name has one row (`RowsNamed`), and what the thread has
loaded is therefore still there (`UserGood`). A reader sums along the row while
others write. `ReaderGood` bounds what it has: no more than there is up to where it
has come, and no less than there was when it began, less what is still
before it. The sums are those of the code's loop, a recursive function of the
column, and two lemmas say what one more in a cell does to them.

The third part of `MetricsProofs` is one histogram, for any factory arguments,
custom ranges, descriptions and samples:

| Theorem | Statement |
|---|---|
| `HistogramSorts` | `HistogramSpec => []SamplesSorted` |
| `GraphAccounts` | `HistogramSpec => []GraphComplete` |

`HistogramInv` has two parts. `Sound` is about the factories: whatever they are asked
for, the starts of the buckets increase from 0 and end below `SampleMax`. For
the exponential class that is a property of a loop: before turn i there is room for the
starts that are still to come (`StartsLoop`), which rests on the rounded next start
being at most the maximum (`GrownBounds`, from inequalities between powers); for the
linear one, of a division whose quotients grow by at least one (`QuotientGrows`);
for the custom one, of taking the least value that is left (`InOrderLoop`). `Describes` says
that a sample set counts what fell into each bucket. It needs the binary search to
end at the one bucket that holds the value: `Searching` keeps the value between its
two ends, which come closer at every turn. Sample sets are then added and
subtracted as sums over the buckets, and each value adds one to exactly one of
them (`OneFalls`).

`Writing` is what holds of the loop of `WriteAscii()` after t turns: the lines so far are in
order and end before the next bucket, `past` and `remaining` add up to the
total, every bucket with samples that it has passed is plotted, and while there are
no samples nothing is, but the last one if all before it have descriptions
(`Bare`).

The third part of `ConfigurationProofs` proves `ConversionsAlwaysExact`,
`StringSpec => []ConversionsExact`, for an int of any width from two hexadecimal digits,
and texts of any length. `BestEffort` looks at one text, so that what is inductive
is not about steps but about digits: `Reading` says that after k of them the output is
their number, as the type holds it, or the bound that this number is beyond, and
then so is the number of any more digits. A turn keeps it because of
`BoundsExact`: `CheckBounds()`, which compares with the quotient and the remainder of
the bound, says yes exactly when the number with one more digit fits. A
hexadecimal int has no check that can fail as long as its digits are no more than its
width (`NumberSpan`). The way back is `TextMeans`, the digits that
`IntToString` writes stand for the number, also for the least int, whose negation
wraps to itself; `RoundTrip` and `HexRoundTrip` put the two together.

`LoopTheorems` holds what these and the proofs about command lines and tables share. A loop
is a recursive function of the number of turns; the provers know nothing of
such a function but that it is chosen. `TurnsExist` says that there is one with the
right value after each turn, `TurnsAgree` that there is only one, and `UpTo` carries what
a turn keeps to the end. All three come down to a nonempty set of naturals having a
least element (`LeastNat`).

Two things are beyond the prover and stay with TLC. Liveness: `JoinReturns`,
`DestroyEnds`, `HandlersReturn`, `QueryEnds`, `LoggingReturns`, `GetReturns`, the
abstract service's. Properties that compare with a definition by recursion over
data, a text or a tree, that no number of turns describes: `ReadsDocuments`,
`ValuesSound`, `ImplementsTree`, `FirstPatternDecides`. The provers cannot use
a module that declares such an operator, nor a theorem that takes a formula as its
parameter, which is how induction is stated; where an induction was needed
above, it is over the turns of a loop, over a concrete set of numbers that has
a least element, or over a set of objects closed under parents.

The type invariants and some of the inductive invariants (`TypeOK`, `IInv`,
`LogInv`, `SessionTypeOK`) are proved for every instance where there is a proof
module, and are not repeated in the runs.

## 5. Not modelled, and what is left

Not modelled: the stack trace printers, the symboliser and the demangler, the
Windows variants, the MIB text and the build files, which keep no state that
anything else depends on; the layout of text, logs and graphs; the shared memory
itself and its creation; binary values, the iterators of values, and the pickling
of histograms; the checks `init_MIB()` makes of its JSON values.

Left, in this order:

1. `init_MIB()` over a JSON value, between `Values` and `MibColumns`.
2. A `StatsCounter` that threads share, and a table that a process opens again.
