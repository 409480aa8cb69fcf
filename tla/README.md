# TLA+ models of bkk_api

`bkk_uds_server` answers "what leaves from this stop?" over a UNIX-domain
socket. It fetches the answer from the BKK web service and keeps it in a cache.
This directory holds TLA+ modules of the server and the client that talks to
it, the TLC configurations that check them, and proofs checked by TLAPS.

## 1. Inventory of the system

| Part | Source | State it keeps | Operations |
|---|---|---|---|
| Accept loop | `bkk_uds_server/main.cpp:83-108` | listening socket, epoll | `accept`, `submit` |
| Life cycle | `main.cpp:33-81, 89-93, 123-179` | socket path, curl's global state, objects of `main` | start, bind, exit on epoll failure |
| Thread pool | `bkk_thread_pool.{hpp,cpp}` | `task_queue`, `queue_mutex`, `cv`, `stop`, workers | constructor, `submit`, `thread_function`, destructor |
| Request handling | `bkk_thread_pool.cpp:59-157` | a worker's locals, one descriptor | `handle_client`, `fresh_fetch_and_update_cache`, detached refresh threads |
| Cache | `bkk_cache.{hpp,cpp}` | map stop id -> arrivals and timestamp, mutex | `put_element`, `get_element`, `remove_stale_entries` |
| Fetching | `bkk_api.{hpp,cpp}` | none | `get_arrivals_for_station`, `make_request` |
| Response parser | `bkk_response_parser.{hpp,cpp}` | `localtime`'s and cJSON's static data | `parse_arrivals_response` |
| Argument parser | `bkk_arg_parser.{hpp,cpp}` | getopt's | `parse_arguments` |
| Client library | `bkk_uds_client/bkk_uds_client.c` | one descriptor | `send_bkk_uds_query` |
| Protocol | `bkk_uds/*.h` | - | request, response, status codes |
| Stop utilities | `bkk_uds/bkk_stop_utils.c`, `bkk_stop_list.h` | none; a table of stops | searches, key file |
| Test client, stress test | `test/` | - | one query; load |

How they interact. `main` accepts a connection and pushes its descriptor on the
pool's queue. A worker pops it, receives one request and looks the stop up. A
fresh entry is the answer. A stale entry is the answer too, and a *detached*
thread is started that fetches and stores a new one. On a miss the worker
fetches and stores by itself. Then it sends one response and closes. Workers
and refresh threads share the cache (one mutex), the C library's static buffers,
and the process: an exception in one thread ends all of them. Clients share the
service's answers through the cache, whatever key they sent.

What is hard to test, and what makes each part correct:

* **Pool.** Wakeups lost between the test and the wait; a destructor that joins
  sleeping workers; tasks queued when `stop` is set. Correct: every task begins
  once and in order, also during destruction; a sleeping worker never leaves a
  task without another worker on its way to it.
* **Cache.** `put_element` is two critical sections and its timestamp is older
  than both; entries expire between any two steps. Correct: lookups answer as
  if each stop had a register that expires by itself; garbage is bounded.
* **Request handling.** Three threads may be involved in one connection, and
  descriptors are reused as soon as they are closed. Correct: one owner per
  descriptor, one answer per connection, about the stop it asked for; no silent
  close; failures are neither cached nor answered Ok.
* **Fetch and parse.** Shared static buffers, partial documents. Correct:
  status and arrivals agree.
* **Life cycle.** Objects are destroyed while threads that use them run; two
  instances share a socket path; a start may fail half way. Correct: a start is
  reachable until the next one, a leftover blocks none but those that may not
  remove it, an exit spoils nothing but what was unfinished.
* **Argument parser.** Order and repetition of options. Correct: the result is
  the whole line's, and an ok means windows that the cache can work with.
* **Stop utilities.** Two passes that must agree, a file that changes while it
  is read. Correct: nothing is written past the allocation, every match is
  found, the key is the trimmed file.
* **Test client.** One response for many queries, each of which may fail in
  four places. Correct: what is printed for a stop was received for it.

`PROJECT.json` lists each hazard at its line, with the properties that cover it.

## 2. Modules

| Module | Models | Composes |
|---|---|---|
| `CacheOps` | data of the cache: `Lookup`, `Assign`, `Swept`, the windows | - |
| `TtlCache` | abstract: one self-expiring register per stop | `CacheOps` |
| `UdsCache` | the cache under its mutex, any number of calling threads | `CacheOps`, implements `TtlCache` |
| `TaskPool` | abstract: FIFO pool without locks or sleep | - |
| `ThreadPool` | mutex, condition variable, `thread_function`, `submit`, destructor | implements `TaskPool` |
| `FetchOps` | abstract: what `get_arrivals_for_station` promises its caller | - |
| `UdsServer` | clients, accept loop, workers, refresh threads, cache, service | `CacheOps`, `FetchOps`, implements `TtlCache` |
| `ResponseParser` | `parse_arrivals_response`, step by step | - |
| `BkkApi` | one call of `get_arrivals_for_station`: curl, then the parser | `ResponseParser`, keeps the promise of `FetchOps` |
| `ParseRace` | concurrent parsers and the static objects they share | - |
| `ArgParser` | `parse_arguments` | - |
| `SocketPath` | `init_server` of any number of starts on one path | - |
| `ServerExit` | the order in which a failing `main` takes its objects down | - |
| `ServerMain` | `main` from its command line to its end, among other starts | `ArgParser`, `SocketPath`, `ServerExit` |
| `StopOps` | the table of stops and the searches for one stop | - |
| `StopSearch` | `find_stops_by_name_substring`, both passes | `StopOps` |
| `KeyFile` | `read_api_key_from_file`, with a writer | - |
| `UdsClient` | `main` of the test client with every query it makes | `KeyFile`, `StopSearch`, `StopOps` |
| `MC*` | values and symmetry for TLC | the module named |
| `*Proofs` | TLAPS proofs | the module named; `CacheOpsProofs` holds the lemmas `UdsCacheProofs` and `UdsServerProofs` share; `ServerMainProofs` includes `SocketPath`, `UdsClientProofs` the search and the key file, `BkkApiProofs` the parser |

Three seams hold the modules together. `UdsServer` takes each fetch from
`FetchOps`, and `BkkApi` shows that the code's fetches are those
(`OutcomeIsExpected`). `CacheOps` assumes sensible windows, and `ArgParser`
shows that only such a configuration gets past `parse_arguments`
(`OkMeansWindows`). `UdsClient` takes a server's answers to be about the stop
asked for and of the right shape, which `UdsServer` shows (`AnswerIsForRequest`,
`AnswerShape`).

### UdsCache

One action is one critical section of `cache_mutex`. The clock is read inside
it, as in the code, except for the entry's timestamp, which
`fresh_fetch_and_update_cache` reads before calling `put_element`
(`StampEntry`). `call[t]` is where thread `t` is in `put_element`: nowhere,
before the assignment (with the entry it brings), or between the assignment and
`remove_stale_entries`. `lookup[t]` is what its last `get_element` returned,
`Miss` included, and `NoLookup` when the caller has no more use for it.
`sweptAt` is a history variable. Arrival lists are model values.
`MaxCacheSize` occurs in no action, because `max_cache_size` is read nowhere.

### ThreadPool

`worker[w]` follows `thread_function`: `lock` (constructing the
`unique_lock`), `test` (the predicate of `cv.wait`, mutex held), `block`
(found nothing; releases the mutex as it falls asleep), `asleep`, `take`
(the predicate held: `Take` is front, pop, unlock; `Exit` is the return on
`stop && empty`), `handle`, `exited`. `sleeping` is the condition variable's
wait set; `WakeSpuriously` removes a worker for no reason. `main` follows the
owner: `Push` / `NotifyOne` are the two halves of `submit`, `SetStop` /
`NotifyAll` / `JoinAll` those of the destructor. A locked region without
observable interior (`Push`, `SetStop`) is one action guarded by a free mutex.
`handle_client` is one task that ends.

### UdsServer

`link[c]` is a connection: the request and the response sent over it and the
state of its two ends. `conn[f]` says which connection is behind descriptor
`f`; `accept` takes the lowest free number, so a closed number is reused at
once. `queue` holds descriptors (the pool of `ThreadPool`, by its abstraction
`TaskPool`). `job[t]` is a thread's program counter and the locals that are
live there:

```
workers:  wait -> recv -> lookup -+-> send -> close -> wait
            (RecvFails: -> wait)  +-> fetch -> assign -> sweep -> send
                                         (FetchFails: -> send)
refresh:  none -> fetch -> assign -> sweep -> none
```

A stop is a record `[prefixed, id]`, because two spellings of a stop are two
cache keys and one stop for the service; a list of arrivals is the stop it is
about and its length. `FetchResults` gives what `get_arrivals_for_station` can
return for a key and a stop: the early return without a key, status 401 for a
rejected one, any of the failures, or a non-empty list (an empty list is
`EmptyStopTimes` in the parser, hence `ArrivalsParseFailed`).

`RecvFails` and `ResponseFails` may happen whether the client is there or not:
the code closes after any `recv` that returns something else than a request's
size, be it the end of the stream, an error or a packet of another length, and
goes on to `close` after any failed `send`. `failed` in a link is a history
field: such a call has failed while the client's end was open. No fairness is
assumed of these failures (`Works`), so that the liveness properties do not
rest on them.

The process ends (`Terminate`) when a refresh thread cannot be created
(`std::system_error` out of `handle_client`) or, with `BrokenPipeKills`, when
`send` to a vanished client raises SIGPIPE (nothing in the server blocks it;
whether a sequenced-packet socket raises it depends on the system, hence a
constant: TRUE in `server` and `server_keys`, FALSE in `server_storm`).
`Restart` is `main` once more, with an empty cache.

What a thread goes by from its `get_element` to its answer is `LookupOf`: a
hit's arrivals, or `Miss` from the fetch to the `send` of what was fetched. The
refinement of `TtlCache` is about both. `TtlCache` allows a store of any stamp
that is not in the future and the loss of all entries with the process, so that
neither an entry replaced by an older one nor a death would violate it; the
latter is the subject of `DeathHasCause`.

### FetchOps, BkkApi and ResponseParser

A response body is the tree cJSON makes of it: objects with fields, arrays,
strings, numbers, `missing`. Texts are symbols, times whole numbers.
`ResponseParser` walks it as the code does: `Verdict` is the chain of checks on
the frame, `SkipStopTime` / `PushArrival` one turn of the loop, `Finish` the
choice among three statuses, `Throw` a `std::bad_alloc` that leaves the cJSON
tree undeleted. `ArrivalOf` makes the arrival, with the fallbacks for missing
references, the vehicle type and the rounded minutes. `departure_time` is in
`ParseRace`. `ArrivalsFitStopTimes` says what an arrival must be from the side
of the response, without these operators: `RouteIdsFor`, `RoutesFor` and
`NamesFor` are what the references tell of a stop time by way of its own trip,
and another route's name is not among it. `BkkApi` puts the request around it;
its `handle` is the curl easy handle, its `asked` the stop id in the URL.

`FetchOps!FetchResults` is the promise. It says that `Ok` comes with arrivals
of the stop asked for, that a call without a key never gets to the service, and
which failures there are.

### ParseRace

`tm` is the object behind `std::localtime`'s pointer, `error` the position
behind `cJSON_GetErrorPtr`. Each conversion writes `tm` at once (glibc does it
under a lock), and `put_time` reads hour and minute later, one by one.
`tmSince[t]` and `errorSince[t]` are history variables: what other threads wrote
after `t` did.

### ArgParser, SocketPath, ServerExit and ServerMain

`ArgParser` takes one element of `argv` per step, as getopt finds it: an option
with its argument, an operand, `--`. An argument is what `strtol` tells of it:
whether it begins with digits, whether anything follows, the number. `-k` is
`Unknown`, because the option string lacks it.

`SocketPath` has one action per call of `init_server`: `Unlink`, `Bind`,
`Listen`, `Poll`. `path` holds the instance whose socket is at
`BKK_UDS_SOCKET_PATH`, if there is one. `main.cpp:124` does not look at the
result of `unlink`, so that `Unlink` is a step whatever comes of it; what may not
be removed (`Removable`: another user's socket in the sticky `/tmp`) stays, and
`Bind` has to wait for it, that is, fails. `End` is any end of a process, and
leaves the path alone: nothing in the code unlinks at the end. `since[s]` remembers who touched the
path after `s`.

`ServerExit` sees a request by what it uses, curl or the cache. `Fail` is
`cleanup_and_return`; then the cache is destroyed, then the pool, whose
destructor waits for the workers and for no refresh thread. `spoiled` collects
the requests that used an object too late, `unfinished` those under way when
`main` began to leave. A use after the end of an object is undefined, so that
`Crash` is possible then (as it is by a signal at any time).

`ServerMain` is `main`: the parser must say ok before `init_server` begins
(`InitServer`), a failure of a call after the unlink leaves by
`ServerExit`'s way out (`FailInit`), `accept` is a step of the path's backlog
and of the pool's queue together. `Rival` is another start of the same program.

### StopOps, StopSearch, KeyFile and UdsClient

`StopOps` is the table as a constant, and three searches as functions of it.
`StopSearch` is the search that allocates: `Count`, `Malloc`, `Collect`, with
no bound on the second pass, as in the code. In `KeyFile` the size is asked for
in one step, the contents are read in a later one, and `Write` may come between.

`UdsClient` is `main` of `test_main.c`: the key file (`ReadKey`), the search
(`SearchStops`), and the loop with one `response` that all queries share
(`AskForFound` has its `continue` for an index that is not in the table). Each
call of `send_bkk_uds_query` may fail, and has its own way out. `stop` is
declared in the loop without a value: with `-i` the model gives it any.

## 3. Runs

| Run | Shows | Bounds |
|---|---|---|
| `cache` | types; `GarbageIsInFlight`; `UdsCache` implements `TtlCache` | 3 threads, 2 stops, windows 1 and 2 s, clock to 4 |
| `pool` | `FrontExists`, `NoLostWakeup`, `NobodySleepsThroughStop`, `DrainedWhenDestroyed`, `DestructorReturns`; `ThreadPool` implements `TaskPool` with its fairness | 3 workers, 3 tasks |
| `server` | `FdOwnership`, `NoSilentClose`, `DeathHasCause`, `NothingAfterClose`, `EveryQueryReturns`, `EveryDescriptorCloses` | 1 client of 3 queries that overlap because it may give up, 2 workers, 2 descriptors, 1 refresh thread, backlog 2, `recv` and `send` that may fail, fatal SIGPIPE, clock to 2 |
| `server_keys` | `AnswerIsForRequest`, `NoFailedFetchCached`, `AnswerShape`, the server's cache implements `TtlCache` | 2 clients of 1 query, 3 kinds of keys, 3 spellings of 2 stops, 1 or 2 arrivals with room for 1, fatal SIGPIPE, clock to 3 |
| `api` | `OutcomeIsExpected`, `NothingLeftBehind`, `EveryTimedStopTimeOnce`, `StatusTellsArrivals`, `ArrivalsFitStopTimes`, `CallReturns` | 3 kinds of keys, 6 HTTP codes, every broken frame, up to 3 stop times of 5 kinds, 3 states of the references, with and without `currentTime` |
| `lifecycle` | `ResultIsForWholeLine`, `OkMeansWindows`, `ReachableUntilNextStart`, `OnlyForeignLeftoverBlocks`, `OnlyUnfinishedIsSpoiled` | about 30 command lines, 3 starts, two of one user and one of another, 2 clients, a pool of 0 or 1 workers |
| `client` | `PrintsOwnArrivals`, `EveryStopReportedOnce`, `KeyIsTrimmedFile`, `WithinAllocation`, `FoundAreTheMatches` | 3 stops, two of one name, an id that is in no table, key files of up to 3 characters, rewritten once |
| `cache_size` | violated: the cache outgrows `max_cache_size` | maximum 1, 2 stops |
| `server_storm` | violated: threads grow beyond the clients connected | 1 client of 3 queries, 2 refresh threads |
| `race_time` | violated: an arrival shows another one's departure time | 2 threads, 2 hours, 2 minutes |
| `client_log` | violated: the log shows a status that was not received | as `client` |
| `args_key` | violated: a documented command line, with `-k`, is an error | as `lifecycle` |

Each passing run but `server_keys` checks its module's type invariant too; that
of `UdsServer` is checked in `server`.

Why the bounds suffice for the questions asked. With windows of 1 and 2 seconds
an entry is fresh, stale and expired at ages 0, 1 and 2; a clock to 2 lets an
entry expire, one to 3 or 4 lets its successor do so. A client that gives up
and asks again while a worker still has its first connection is, to the server,
a second client; with three queries and two descriptors a number is reused while
the other is in use. Two clients, with different keys and spellings, are in
`server_keys`, where a backlog of 1 makes the second connect wait. One refresh
thread makes the second creation fail. Three workers let one run, one wake and
one sleep. The safety properties of these runs are proved for any constants
(section 4); the liveness properties of `server` are known for its bounds only.

The parser's loop carries over from one turn to the next a counter and the
list; three stop times put an unusable one before, between and after usable
ones. The five kinds are: no object; no time; a time; a predicted and an
unusable time, without a headsign; both times without a trip, half a minute
from the next minute. The HTTP codes are the edges of 200..299, 401 and
another. The command lines hold each edge of `parse_positive_int`
(`INT_MAX` is 100 and `LONG_MAX` 200 here: the code only compares with them),
repeated options, windows that become consistent or inconsistent by a later
option, and every way a line may end the parser. Three starts let a second
displace a first and a third come between the second's unlink and bind; the
third is another user's, and neither may remove the other's socket. One
worker and two requests leave one queued while the other is in hand, and both
may have a refresh. A table with two stops of one name, of which a search finds
both, tells rows from names; three characters allow a letter between two
blanks, and a file that shrinks or grows between `ftell` and `fread`.

`CHECK_DEADLOCK FALSE`: the server's runs end when the clients have used up
their queries, the pool's when the pool is destroyed, a call, a program or the
client's `main` when it returns. In the cache every call can be made again at
any time, and deadlock is checked; so it is in `ParseRace`.

Symmetry is used only in runs without liveness properties, and not in `pool`:
clients, workers and refresh threads in `server_keys` and `server_storm`, the
stops and answers of `cache`, the clients of `lifecycle` and the threads of
`race_time` are interchangeable.

Each property of a passing run has a mutant in `PROJECT.json`: a plausible
mistake in the code (an early return without `close`, a notification without
the lock, `break` for `continue`, ...) under which TLC finds the property
violated. Operators whose comment begins with "Mutant of" exist for that alone.

### Fairness

* `ThreadPool`: each worker is scheduled, a mutex that keeps becoming free is
  granted in the end to each that wants it (strong fairness of `Lock`; the C++
  standard does not promise it, Linux's scheduler makes it so in practice), and
  a task ends. The owner of the pool need not submit or destroy, but completes
  what it has begun. Spurious wakeups are possible and never assumed.
* `UdsServer`: threads are scheduled, a transfer ends (`CURLOPT_TIMEOUT` is 10,
  `bkk_api.cpp:63`), a client that is connected sends its request or goes away
  (`send_bkk_uds_query` sends right after `connect`), and one that awaits an
  answer reads it when it is there. No fairness is assumed of giving up while
  waiting, of new queries, of the clock or of a restart, nor of a `recv` or
  `send` that fails without need (`Works`). The assumption on connected clients
  is needed: `recv` in `handle_client` has no time limit.
* `BkkApi`: the thread that calls is scheduled and the transfer ends, that is
  `WF_vars(Next)` of a program without a loop that could go round for ever.
  `CallReturns` is what the fairness of `UdsServer`'s fetches rests on.

### Findings

* `max_cache_size` is parsed, documented and stored, and has no effect
  (`bkk_cache.cpp:15-24`; server README line 10). Said of states without a put
  under way, so that eviction at the end of a put would do.
* Each stale hit starts a thread, with no record of refreshes under way
  (`bkk_thread_pool.cpp:85`). `test/stress_test.sh:233-234` fails a server whose
  threads grow by more than the number of clients connected at a time.
* `std::localtime` returns an object that all threads share
  (`bkk_response_parser.cpp:223`), and `put_time` reads it later. The time shown
  can be another arrival's, or the hour of one and the minute of another; line
  221 says "Format departure time as HH:MM".
* `response.status` is read after a query that failed
  (`test/test_main.c:135`): what is logged as the query's status is an earlier
  query's, or what the stack held.
* The server's README, lines 7-25, documents `-k`, and
  `test/stress_test.sh:63` tells its reader to start the server with it;
  `bkk_arg_parser.cpp:38` has no `k` in its option string, so that such a line
  ends in the usage text (`args_key`). `ResultIsForWholeLine` sets lines with
  `-k` aside.

Disagreements met while modelling, for which no run is needed:

* Line 32 of the server's README says that the server exits without a key; no
  key is asked for at the start, each request brings its own.
* Without `currentTime` in a response the minutes count from 1970
  (`bkk_response_parser.cpp:157`, `217`), which no document denies;
  `ArrivalsFitStopTimes` counts from there too.
* When a query made with `-i` fails, `test_main.c:162` prints `stop.stop_id`,
  which nothing has assigned (`test_main.c:117`).
* `test/stress_test.sh:72` removes every blank and newline from the key
  file, `read_api_key_from_file` those at the ends: a key with a blank inside is
  two different keys.

## 4. Proofs

All for arbitrary constants, under the named assumptions of the modules only.

**`UdsCacheProofs`** (threads, stops, answers and windows arbitrary;
`WindowAssumption`: positive windows, freshness <= staleness, which
`parse_arguments` guarantees).
`TypeCorrect` is inductive as it stands, because the type invariant says that no
timestamp, stored or in flight, lies in the future. `GarbageBounded` is
inductive with it. `Refinement` maps the abstract register to
`Swept(cache, now)`. The lemmas about that operator are in `CacheOpsProofs`:
`SweptLater` (what has expired stays expired) makes the clean-up a stutter and
the clock's step an abstract one, `SweptAssign` makes the first half of a put
an abstract store, `LookupSwept` makes lookups blind to garbage.

**`ThreadPoolProofs`** (workers any non-empty finite set). `PoolInv` strengthens
the type invariant, which includes who holds the mutex, by three facts: what a
worker's test found stays true while it holds the mutex (`SeenInv`), only
workers at the wait are in the wait set (`SleepInv`), and `stop`, the owner's
progress and the exits agree (`StopInv`). `FrontExists`,
`NobodySleepsThroughStop` and `DrainedWhenDestroyed` follow.
`WakeupsSuffice` needs one more invariant, `CountInv`: between push and
`notify_one` the notification that is still owed stands for one worker.
`SafeRefinement` proves the safety part of "implements `TaskPool`".

**`UdsServerProofs`** (clients, stops, keys, workers, refresh threads,
descriptors and failures arbitrary; `ServerAssumption`, `NoneAssumption`,
`AnswerAssumption`, `WindowAssumption`; for `DeathHasCause` also
`FiniteAssumption`, that clients and refresh threads are finitely many). Five
invariants, each resting on those before it.

1. `ServerInv`. Neither the types nor the ownership of descriptors is inductive
   alone. A step of `handle_client` keeps the types only if a connection is
   behind its descriptor, which `FdOwnership` says; a `Restart` keeps the
   ownership only if a server that is down holds nothing, which `DownInv` says.
   A descriptor moves from free (`AcceptOwnership`) to queued to one worker
   (`TakeOwnership`) to free (`CloseOwnership`), and every other step keeps each
   worker's hold (`HoldKept`).
2. `AnswerInv`. A client writes a connection's request once (`NotYetAsked`), a
   worker's copy of it is its connection's (`HandlesRequest`), an entry on its
   way into the cache is about the stop of its key (`CarriesEntry`), and an
   answer about to be sent is about the stop asked for (`HoldsAnswer`). That a
   worker's connection stays behind its descriptor while others close theirs and
   `accept` reuses them is `OthersConn`, from `FdOwnership`. The theorems on
   answers and on what is cached follow.
3. `EndInv`. `NoSilentClose` speaks of connections, `FdOwnership` of
   descriptors; `PlacesInv` links them: a connection waits in the backlog once
   or is behind one open descriptor, never both. A queued descriptor's
   connection has no answer yet, and a worker reaches `close` only with an
   answer sent, a client gone or a failed call on that very connection
   (`AnsweredInv`); so nobody is hung up on for what became of the fetch, the
   cache or others, and what is answered or closed stays as it is
   (`NothingAfterClose`).
4. `CountInv`: the refresh threads that run are at most as many as the requests
   that have got past their look-up. It is what makes `DeathHasCause` more than
   a list of the actions that terminate: when a thread cannot be created all
   that the system allows are running, each for another request, and the one in
   hand has not been counted yet; so there were more requests than threads. On
   the other branch the client whose request was in hand has gone without an
   answer, which `EndInv` knows. A restart keeps both, because nobody's
   connection is forgotten (`LinksGrow`, `EndsKept`).
5. `StampInv`: no entry in flight is stamped in the future. With it every step
   is a step of `TtlCache` or none. A request finds what the register has, or
   misses when it has nothing, a put of a worker and of a refresh thread alike
   is one store, the clean-up and everything around sockets are stutters, and
   the end of the process loses all entries. This is the theorem `Refinement`,
   for the whole server rather than for the cache alone.

**`ServerMainProofs`** (`ArgAssumption`, `SelfAssumption`,
`ConcurrencyAssumption`: `hardware_concurrency()` is a natural number, 0
included). For `parse_arguments` by itself, `LineInv` says what the loop knows
at `optind`: no option before it stops the parser (`NoneStops`), the locals are
the last values before it (`LocalsAreLast`), and after a return the place where
it was left shows the reason (`LeftAt`); the output is written with an ok only
(`ConfigAlways`). Then `MainImplements`: every step of `main`, its threads and
its rivals is a step of the parser or none, and a step of `SocketPath` or none;
the theorems of both become theorems of `main`. For its end, `ExitInv` says that
objects live while the loop runs, and that what is under way later was under way
when `main` left. `ThreadStep` says what a worker's or a refresh thread's step
can do to that. The two properties of `SocketPath` (theorems `Path...`) are
inductive with its types: a start that touches the path enters `since` of all
others (`Touched`), and `Progress` says that no step but its own moves an
instance, so that `path` is another's implies that somebody came after.
`PathLeftover` holds for any `Removable`: the socket that keeps a start from
binding is one it may not remove, or one that was bound after its own unlink.
`MainTypeCorrect` needs that the requests under way are finitely many
(`CountInv`), so that their number is one, and that `main` is in its loop only
with a running server (`AtPath`).

**`ParseRaceProofs`** (no assumptions). What goes wrong in `race_time` is bounded:
the object `tm` holds the thread's own time or one converted since
(`TimeInv`), so that a wrong text is made of such times (`ShownTimeExplained`),
and a thread whose parse is not disturbed shows and reports its own. These two
properties have no run of their own.

**`UdsClientProofs`** (`ClientAssumption`; `StopListAssumption`: ids are
distinct and the table is not empty, as that of `bkk_stop_list.h` is).
`ClientInv` has a part for each thing the client does.

* The search: `Below(m)`, the matches before row `m`, is what both passes have
  dealt with at row `m`. The first has counted it, the second holds it in order
  (`PassInv`). At the end both are all matches, hence the allocation suffices
  and what is found is complete; `Least` and `Greatest` give the CHOOSE of the
  look-ups its meaning.
* The key file: while nobody writes, what the reader holds is what it saw
  (`KeyInv`), and the two loops of the trimming end at the first and the last
  letter (`Edges`).
* The loop over the stops: `i` reports have been made, of the first `i` stops
  wanted, and the request under way is for the next (`LoopInv`); a run that
  exits before the loop has reported nothing, one that exits after it has
  reported all (`EveryStopReportedOnce`).
* `PrintsOwnArrivals` is inductive with these, although `response` is never
  cleared: a query that fails leaves it, and also leaves a status that keeps it
  from being printed.

**`BkkApiProofs`** (`BodiesAssumption`: what cJSON and the service vouch for,
that is, items of the declared shape, and times on either side of
`currentTime` that are numbers; `ResultsAssumption`: `FetchOps` reckons with
every number of arrivals and every failure; `RequestsAssumption`: the three
kinds of key). `ParserInv` says that `arrivals` has, in order, what the stop
times before `i` give, no more and no less. That is a statement about places:
`Place(S, n)` is the number of members of `S` up to `n`, and the arrival of
stop time `n` stands at its place among those that tell a time. The lemmas
`PlaceNext` and `PlaceRange` make the step of the loop an append at the next
place. `RoundedMinutes` is the arithmetic of the minutes, halves away from zero.
`RouteIdFound` and `RouteFound` relate the two sides of `ArrivalsFitStopTimes`:
what the code finds by two look-ups is all that the references have for the stop
time's own trip, and it finds something if they have it. `CallInv` follows
the call: where the handle exists, which key has reached which point, and that
the parser has not begun before the transfer is over. `OutcomeIsExpected`, the
promise on which `UdsServer` rests through `FetchOps`, needs both.

The order of arrivals was first stated with `SelectSeq`, a recursive definition
about which nothing can be proved here; it is stated by counting places instead.

Every safety property that a passing run checks is proved, and so are both
refinements of `TtlCache` and the safety part of that of `TaskPool`. Only
model-checked is liveness (`DestructorReturns`, `EveryQueryReturns`,
`EveryDescriptorCloses`, `CallReturns`, the fairness in `ImplementsTaskPool`):
fairness speaks of ENABLED, which is out of the prover's reach. The runs that
expect a violation have nothing to prove but the bounds of `ParseRaceProofs`.

## 5. Not modelled, and the plan

Not modelled:

* The table of stops: 6164 of the 7754 lines of the implementation are the
  initialisers of `bkk_stop_list.h`. Of its contents the model assumes what the
  code relies on (`StopListAssumption`: each id once, not empty; the table has 6137 rows
  and 2563 names). Whatever else is modelled, about a fifth of the lines is all
  that can be.
* The cutting of texts by `strncpy`, their lengths and the byte layout of the
  messages; logging and the display functions, which change nothing.
* The text of the URL. Stop id and key go into it as they are, unescaped
  (`bkk_api.cpp:46`, `53`), and the model takes it that the service is asked for
  the stop meant; it says nothing of ids or keys with a `&` or a blank.
* An exception out of curl's `WriteCallback`; the overflow of minutes that do
  not fit an `int` (only with times far from the service's clock).
* The early return of `main` on `curl_global_init`, before anything exists;
  `get_env_var`, which nothing calls; `client_InvalidArguments`, which no
  caller provokes.
* Build files, the example response, the script of the stress test but for its
  criterion on threads.

What is left to prove: what the code does promise where a run shows that it
misses a bound. For the cache `GarbageIsInFlight` says it (beyond what had not
expired at the last clean-up, only what is being put), for `race_time` those of
`ParseRaceProofs`, for `server_storm` `CountInv`: the threads grow with the
requests made, where the stress test expects the clients connected.
