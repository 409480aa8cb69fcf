----------------------------- MODULE UdsServer -----------------------------
(***************************************************************************)
(* One request from connect() to close(): the clients of bkk_uds_client.c, *)
(* the accept loop of main.cpp, the workers of bkk_thread_pool.cpp that    *)
(* run handle_client, the detached threads that refresh a stale entry, the *)
(* cache they share and the BKK service they query.                        *)
(*                                                                         *)
(* The pool's mutex and condition variable are abstracted to a FIFO queue; *)
(* the kernel's sockets to one record per connection.  Server-side file    *)
(* descriptors are explicit, because close() makes a number available to   *)
(* the next accept().                                                      *)
(***************************************************************************)
EXTENDS CacheOps, FetchOps, Sequences, FiniteSets

CONSTANTS
    Clients,        \* client processes
    MaxQueries,     \* bound: queries per client
    Stops,          \* stop ids as typed: [prefixed |-> with "BKK_"?, id |-> ...]
    Keys,           \* API keys in use, of {"valid", "rejected", "empty"}
    Workers,        \* pool threads, hardware_concurrency() of them
    Refreshers,     \* bound: detached threads the system lets the server create
    MaxFd,          \* bound: connections the descriptor limit leaves room for
    Backlog,        \* the 32 of listen()
    MaxArrivals,    \* BKK_UDS_MAX_ARRIVALS
    MaxTime,        \* bound on the clock
    BrokenPipeKills \* does send() on a dead SEQPACKET peer raise SIGPIPE?

ASSUME ServerAssumption ==
    /\ MaxQueries \in Nat \ {0}
    /\ \A s \in Stops : s.prefixed \in BOOLEAN
    /\ Keys \subseteq {"valid", "rejected", "empty"}
    /\ Workers \cap Refreshers = {}
    /\ MaxFd \in Nat \ {0}
    /\ Backlog \in Nat \ {0}
    /\ Counts \subseteq Nat \ {0}
    /\ MaxArrivals \in Nat \ {0}
    /\ MaxTime \in Nat
    /\ BrokenPipeKills \in BOOLEAN
    /\ Failures \subseteq {"CurlInitFailed", "CurlPerformFailed", "HttpError",
                           "ArrivalsParseFailed", "UnexpectedException"}

VARIABLES
    now,        \* steady_clock
    cache,      \* UdsCache::cache
    up,         \* the server process exists
    backlog,    \* connections waiting for accept()
    conn,       \* fd -> the accepted connection behind it
    queue,      \* ThreadPool::task_queue, of descriptors
    job,        \* thread -> its program counter and locals
    link,       \* connection -> both ends of it and what was sent over it
    client      \* client -> its program counter and number of queries

vars == <<now, cache, up, backlog, conn, queue, job, link, client>>

Threads == Workers \cup Refreshers
Fds == 1..MaxFd
Conns == Clients \X (1..MaxQueries)
Requests == [stop : Stops, key : Keys]

(* There are as many clients and threads as the system has room for. *)
ASSUME FiniteAssumption == IsFiniteSet(Clients) /\ IsFiniteSet(Refreshers)

ASSUME NoneAssumption == None \notin Conns /\ None \notin Requests

NoFd == 0

(* Mutant of Response: without std::min, number_of_arrivals exceeds the     *)
(* array.                                                                  *)
ResponseUncapped(status, arrivals) ==
    [status |-> status, stop |-> arrivals.stop, count |-> arrivals.count]

(* bkk_uds_response_t as handle_client fills it. *)
Response(status, arrivals) ==
    [status |-> status,
     stop   |-> arrivals.stop,
     count  |-> IF arrivals.count < MaxArrivals THEN arrivals.count ELSE MaxArrivals]

-----------------------------------------------------------------------------
(* Initial values and the effect of losing the process.                    *)

NoJob == [pc |-> "none"]
Waiting == [pc |-> "wait"]

ClosedLink ==
    [req |-> None, resp |-> None, client |-> "none", server |-> "none", failed |-> FALSE]

AtStart == [t \in Threads |-> IF t \in Workers THEN Waiting ELSE NoJob]

Init ==
    /\ now = 0
    /\ cache = EmptyCache
    /\ up = TRUE
    /\ backlog = <<>>
    /\ conn = [f \in Fds |-> None]
    /\ queue = <<>>
    /\ job = AtStart
    /\ link = [c \in Conns |-> ClosedLink]
    /\ client = [c \in Clients |-> [pc |-> "idle", k |-> 0]]

(* The process dies of std::terminate or of a signal: nothing of it        *)
(* survives, and the kernel resets its connections, accepted or not.       *)
Terminate ==
    /\ up' = FALSE
    /\ cache' = EmptyCache
    /\ backlog' = <<>>
    /\ conn' = [f \in Fds |-> None]
    /\ queue' = <<>>
    /\ job' = [t \in Threads |-> NoJob]
    /\ link' = [c \in Conns |->
                    IF link[c].client # "none" /\ link[c].server \in {"none", "open"}
                    THEN [link[c] EXCEPT !.server = "reset"]
                    ELSE link[c]]
    /\ UNCHANGED <<now, client>>

(* main once more: init_server unlinks the old socket, binds and listens.  *)
Restart ==
    /\ ~up
    /\ up' = TRUE
    /\ job' = AtStart
    /\ UNCHANGED <<now, cache, backlog, conn, queue, link, client>>

Tick ==
    /\ now < MaxTime
    /\ now' = now + 1
    /\ UNCHANGED <<cache, up, backlog, conn, queue, job, link, client>>

-----------------------------------------------------------------------------
(* send_bkk_uds_query.  Every step of c is on its k-th connection.         *)

ConnOf(c) == <<c, client[c].k>>

Goes(c, pc) == client' = [client EXCEPT ![c].pc = pc]

HangUp(c) == link' = [link EXCEPT ![ConnOf(c)].client = "closed"]

(* connect() waits while the backlog is full. *)
Connect(c) ==
    /\ client[c].pc = "idle"
    /\ client[c].k < MaxQueries
    /\ up
    /\ Len(backlog) < Backlog
    /\ LET k == client[c].k + 1 IN
        /\ client' = [client EXCEPT ![c] = [pc |-> "connected", k |-> k]]
        /\ backlog' = Append(backlog, <<c, k>>)
        /\ link' = [link EXCEPT ![<<c, k>>].client = "open"]
    /\ UNCHANGED <<now, cache, up, conn, queue, job>>

(* client_ConnectionFailed: the query is over before it had a connection. *)
ConnectFails(c) ==
    /\ client[c].pc = "idle"
    /\ client[c].k < MaxQueries
    /\ ~up
    /\ client' = [client EXCEPT ![c].k = @ + 1]
    /\ UNCHANGED <<now, cache, up, backlog, conn, queue, job, link>>

SendRequest(c, req) ==
    /\ client[c].pc = "connected"
    /\ link[ConnOf(c)].server \in {"none", "open"}
    /\ link' = [link EXCEPT ![ConnOf(c)].req = req]
    /\ Goes(c, "awaiting")
    /\ UNCHANGED <<now, cache, up, backlog, conn, queue, job>>

(* client_SendFailed *)
SendFails(c) ==
    /\ client[c].pc = "connected"
    /\ link[ConnOf(c)].server \in {"closed", "reset"}
    /\ HangUp(c)
    /\ Goes(c, "idle")
    /\ UNCHANGED <<now, cache, up, backlog, conn, queue, job>>

(* recv() returns the response (client_OK), or nothing because the other   *)
(* end is gone (client_ReceiveFailed); the socket is closed either way.    *)
Receive(c) ==
    /\ client[c].pc = "awaiting"
    /\ \/ link[ConnOf(c)].resp # None
       \/ link[ConnOf(c)].server \in {"closed", "reset"}
    /\ HangUp(c)
    /\ Goes(c, "idle")
    /\ UNCHANGED <<now, cache, up, backlog, conn, queue, job>>

(* The client gives up or is killed, before or after it sent its request. *)
GiveUp(c) ==
    /\ client[c].pc \in {"connected", "awaiting"}
    /\ HangUp(c)
    /\ Goes(c, "idle")
    /\ UNCHANGED <<now, cache, up, backlog, conn, queue, job>>

-----------------------------------------------------------------------------
(* The loop of main: epoll_wait reports the listening socket, accept()     *)
(* takes the oldest connection on the lowest free descriptor, submit()     *)
(* queues it.  Without a free descriptor accept() fails and the loop goes  *)
(* round again, which changes nothing.                                     *)
FreeFds == {f \in Fds : conn[f] = None}

AcceptAndSubmit ==
    /\ up
    /\ backlog # <<>>
    /\ \E fd \in FreeFds :
        /\ \A g \in FreeFds : fd <= g
        /\ conn' = [conn EXCEPT ![fd] = Head(backlog)]
        /\ queue' = Append(queue, fd)
    /\ backlog' = Tail(backlog)
    /\ link' = [link EXCEPT ![Head(backlog)].server = "open"]
    /\ UNCHANGED <<now, cache, up, job, client>>

-----------------------------------------------------------------------------
(* handle_client.  A worker's locals live from recv to close.              *)

LinkOf(w) == link[conn[job[w].fd]]

(* close() of the descriptor; failed tells whether a failing call has led   *)
(* to it while the client was there.                                       *)
CloseFd(w, failed) ==
    /\ conn' = [conn EXCEPT ![job[w].fd] = None]
    /\ link' = [link EXCEPT ![conn[job[w].fd]] =
                    [@ EXCEPT !.server = "closed", !.failed = failed]]
    /\ job' = [job EXCEPT ![w] = Waiting]

TakeTask(w) ==
    /\ job[w].pc = "wait"
    /\ queue # <<>>
    /\ job' = [job EXCEPT ![w] = [pc |-> "recv", fd |-> Head(queue)]]
    /\ queue' = Tail(queue)
    /\ UNCHANGED <<now, cache, up, backlog, conn, link, client>>

(* recv() blocks until the request is there. *)
RecvRequest(w) ==
    /\ job[w].pc = "recv"
    /\ LinkOf(w).req # None
    /\ job' = [job EXCEPT ![w] = [pc  |-> "lookup",
                                  fd  |-> job[w].fd,
                                  req |-> LinkOf(w).req]]
    /\ UNCHANGED <<now, cache, up, backlog, conn, queue, link, client>>

(* Mutants of RecvFails: return without close, close without return, and   *)
(* an exception for it.                                                    *)
RecvFailsLeaks(w) ==
    /\ job[w].pc = "recv"
    /\ job' = [job EXCEPT ![w] = Waiting]
    /\ UNCHANGED <<now, cache, up, backlog, conn, queue, link, client>>

RecvFailsGoesOn(w) ==
    /\ job[w].pc = "recv"
    /\ conn' = [conn EXCEPT ![job[w].fd] = None]
    /\ link' = [link EXCEPT ![conn[job[w].fd]].server = "closed"]
    /\ job' = [job EXCEPT ![w].pc = "close"]
    /\ UNCHANGED <<now, cache, up, backlog, queue, client>>

RecvFailsThrows(w) == job[w].pc = "recv" /\ Terminate

(* recv() returns anything else than the size of a request: close and      *)
(* return.  It is 0 when the client has gone, but errors and packets of    *)
(* another size are possible at any time.                                  *)
RecvFails(w) ==
    /\ job[w].pc = "recv"
    /\ CloseFd(w, LinkOf(w).client # "closed")
    /\ UNCHANGED <<now, cache, up, backlog, queue, client>>

Found(w) == Lookup(cache, job[w].req.stop, now)

Answering(w, state, status, arrivals) ==
    [pc |-> "send", fd |-> job[w].fd,
     cacheState |-> state, status |-> status, arrivals |-> arrivals]

LookupFresh(w) ==
    /\ job[w].pc = "lookup"
    /\ Found(w).state = "CACHE_HIT_FRESH"
    /\ job' = [job EXCEPT ![w] = Answering(w, Found(w).state, "Ok", Found(w).arrivals)]
    /\ UNCHANGED <<now, cache, up, backlog, conn, queue, link, client>>

IdleRefreshers == {r \in Refreshers : job[r].pc = "none"}

(* A stale hit starts a detached thread with a copy of the request, key    *)
(* included, and answers from the entry it found.                          *)
LookupStale(w) ==
    /\ job[w].pc = "lookup"
    /\ Found(w).state = "CACHE_HIT_STALE"
    /\ \E r \in IdleRefreshers :
        job' = [job EXCEPT ![w] = Answering(w, Found(w).state, "Ok", Found(w).arrivals),
                           ![r] = [pc |-> "fetch", fd |-> NoFd, req |-> job[w].req]]
    /\ UNCHANGED <<now, cache, up, backlog, conn, queue, link, client>>

(* The thread cannot be created: std::system_error leaves handle_client    *)
(* and with it the worker's start function.                                *)
RefreshThreadFails(w) ==
    /\ job[w].pc = "lookup"
    /\ Found(w).state = "CACHE_HIT_STALE"
    /\ IdleRefreshers = {}
    /\ Terminate

LookupMiss(w) ==
    /\ job[w].pc = "lookup"
    /\ Found(w).state = "CACHE_MISS"
    /\ job' = [job EXCEPT ![w].pc = "fetch"]
    /\ UNCHANGED <<now, cache, up, backlog, conn, queue, link, client>>

(* Mutant of SendResponse: the connection is served again. *)
SendResponseAndServeAgain(w) ==
    /\ job[w].pc = "send"
    /\ LinkOf(w).client = "open"
    /\ link' = [link EXCEPT ![conn[job[w].fd]].resp =
                    Response(job[w].status, job[w].arrivals)]
    /\ job' = [job EXCEPT ![w] = [pc |-> "recv", fd |-> job[w].fd]]
    /\ UNCHANGED <<now, cache, up, backlog, conn, queue, client>>

SendResponse(w) ==
    /\ job[w].pc = "send"
    /\ LinkOf(w).client = "open"
    /\ link' = [link EXCEPT ![conn[job[w].fd]].resp =
                    Response(job[w].status, job[w].arrivals)]
    /\ job' = [job EXCEPT ![w] = [pc |-> "close", fd |-> job[w].fd]]
    /\ UNCHANGED <<now, cache, up, backlog, conn, queue, client>>

(* send() fails, because the client has gone or for any other reason; this *)
(* is logged ...                                                           *)
ResponseFails(w) ==
    /\ job[w].pc = "send"
    /\ link' = [link EXCEPT ![conn[job[w].fd]].failed = (LinkOf(w).client # "closed")]
    /\ job' = [job EXCEPT ![w] = [pc |-> "close", fd |-> job[w].fd]]
    /\ UNCHANGED <<now, cache, up, backlog, conn, queue, client>>

(* ... unless the client has gone and the system raises SIGPIPE, which     *)
(* nothing in the server blocks or handles (no MSG_NOSIGNAL, no signal     *)
(* disposition).                                                           *)
ResponseKills(w) ==
    /\ job[w].pc = "send"
    /\ LinkOf(w).client = "closed"
    /\ BrokenPipeKills
    /\ Terminate

CloseClient(w) ==
    /\ job[w].pc = "close"
    /\ CloseFd(w, LinkOf(w).failed)
    /\ UNCHANGED <<now, cache, up, backlog, queue, client>>

-----------------------------------------------------------------------------
(* fresh_fetch_and_update_cache, run by a worker on a miss and by a        *)
(* refresh thread.  A worker goes on to answer, a refresh thread ends.     *)

(* Mutant of Return: the refresh thread answers, too. *)
ReturnAlways(t, status, arrivals) == Answering(t, "CACHE_MISS", status, arrivals)

Return(t, status, arrivals) ==
    IF t \in Workers THEN Answering(t, "CACHE_MISS", status, arrivals) ELSE NoJob

(* Mutants of FetchFails: an early return of handle_client that closes     *)
(* without an answer, and one that does not even close.                    *)
FetchFailsSilently(t) ==
    /\ job[t].pc = "fetch"
    /\ \E res \in FetchResults(job[t].req) : res.status # "Ok"
    /\ job' = [job EXCEPT ![t] = IF t \in Workers
                                 THEN [pc |-> "close", fd |-> job[t].fd]
                                 ELSE NoJob]
    /\ UNCHANGED <<now, cache, up, backlog, conn, queue, link, client>>

FetchFailsLeaks(t) ==
    /\ job[t].pc = "fetch"
    /\ \E res \in FetchResults(job[t].req) : res.status # "Ok"
    /\ job' = [job EXCEPT ![t] = IF t \in Workers THEN Waiting ELSE NoJob]
    /\ UNCHANGED <<now, cache, up, backlog, conn, queue, link, client>>

FetchFails(t) ==
    /\ job[t].pc = "fetch"
    /\ \E res \in FetchResults(job[t].req) :
        /\ res.status # "Ok"
        /\ job' = [job EXCEPT ![t] = Return(t, res.status, NothingFetched)]
    /\ UNCHANGED <<now, cache, up, backlog, conn, queue, link, client>>

(* Mutant of FetchSucceeds: failed fetches are cached as well. *)
FetchCachesFailures(t) ==
    /\ job[t].pc = "fetch"
    /\ \E res \in FetchResults(job[t].req) :
        job' = [job EXCEPT ![t] = [pc    |-> "assign",
                                   fd    |-> job[t].fd,
                                   req   |-> job[t].req,
                                   entry |-> [arrivals  |-> res.arrivals,
                                              timestamp |-> now]]]
    /\ UNCHANGED <<now, cache, up, backlog, conn, queue, link, client>>

(* The entry is stamped after the transfer and before the lock is taken. *)
FetchSucceeds(t) ==
    /\ job[t].pc = "fetch"
    /\ \E res \in FetchResults(job[t].req) :
        /\ res.status = "Ok"
        /\ job' = [job EXCEPT ![t] = [pc    |-> "assign",
                                      fd    |-> job[t].fd,
                                      req   |-> job[t].req,
                                      entry |-> [arrivals  |-> res.arrivals,
                                                 timestamp |-> now]]]
    /\ UNCHANGED <<now, cache, up, backlog, conn, queue, link, client>>

(* Mutant of PutAssign: the refresh thread has a reference to the request, *)
(* and by now the worker serves another one.                               *)
PutAssignByReference(t) ==
    /\ job[t].pc = "assign"
    /\ \E u \in Threads :
        /\ "req" \in DOMAIN job[u]
        /\ cache' = Assign(cache, job[u].req.stop, job[t].entry)
    /\ job' = [job EXCEPT ![t].pc = "sweep"]
    /\ UNCHANGED <<now, up, backlog, conn, queue, link, client>>

PutAssign(t) ==
    /\ job[t].pc = "assign"
    /\ cache' = Assign(cache, job[t].req.stop, job[t].entry)
    /\ job' = [job EXCEPT ![t].pc = "sweep"]
    /\ UNCHANGED <<now, up, backlog, conn, queue, link, client>>

(* Mutant of RemoveStaleEntries: the wrong window. *)
RemoveNotFreshEntries(t) ==
    /\ job[t].pc = "sweep"
    /\ cache' = Restrict(cache, {s \in DOMAIN cache :
                                    now - cache[s].timestamp < FreshnessSeconds})
    /\ job' = [job EXCEPT ![t] = Return(t, "Ok", job[t].entry.arrivals)]
    /\ UNCHANGED <<now, up, backlog, conn, queue, link, client>>

RemoveStaleEntries(t) ==
    /\ job[t].pc = "sweep"
    /\ cache' = Swept(cache, now)
    /\ job' = [job EXCEPT ![t] = Return(t, "Ok", job[t].entry.arrivals)]
    /\ UNCHANGED <<now, up, backlog, conn, queue, link, client>>

Fetch(t) ==
    \/ FetchFails(t)
    \/ FetchSucceeds(t)
    \/ PutAssign(t)
    \/ RemoveStaleEntries(t)

HandleClient(w) ==
    \/ TakeTask(w)
    \/ RecvRequest(w)
    \/ RecvFails(w)
    \/ LookupFresh(w)
    \/ LookupStale(w)
    \/ RefreshThreadFails(w)
    \/ LookupMiss(w)
    \/ SendResponse(w)
    \/ ResponseFails(w)
    \/ ResponseKills(w)
    \/ CloseClient(w)

Query(c) ==
    \/ Connect(c)
    \/ ConnectFails(c)
    \/ \E req \in Requests : SendRequest(c, req)
    \/ SendFails(c)
    \/ Receive(c)
    \/ GiveUp(c)

Next ==
    \/ Tick
    \/ Restart
    \/ AcceptAndSubmit
    \/ \E c \in Clients : Query(c)
    \/ \E w \in Workers : HandleClient(w)
    \/ \E t \in Threads : Fetch(t)

Spec == Init /\ [][Next]_vars

(* What a connected client does sooner or later: send, or go away. *)
Speak(c) ==
    /\ client[c].pc = "connected"
    /\ \/ \E req \in Requests : SendRequest(c, req)
       \/ SendFails(c)
       \/ GiveUp(c)

(* No call fails that need not. *)
Works(w) == HandleClient(w) /\ \A c \in Conns : link'[c].failed = link[c].failed

(* What the liveness properties assume: threads are scheduled, a transfer  *)
(* ends (curl gives up after 10 s), and a client that has connected either *)
(* sends its request or goes away, and reads the answer when there is one. *)
Fairness ==
    /\ WF_vars(AcceptAndSubmit)
    /\ \A w \in Workers : WF_vars(Works(w))
    /\ \A t \in Threads : WF_vars(Fetch(t))
    /\ \A c \in Clients :
        /\ WF_vars(Receive(c))
        /\ WF_vars(Speak(c))

FairSpec == Spec /\ Fairness

-----------------------------------------------------------------------------
(* Types, and which program counters and locals belong to which thread.    *)

Statuses == {"Ok", "MissingApiKey", "InvalidApiKey", "CurlInitFailed",
             "CurlPerformFailed", "HttpError", "ArrivalsParseFailed",
             "UnexpectedException"}

UpstreamStops == {UpstreamStop(s) : s \in Stops}

Answers == [stop : UpstreamStops, count : Counts]

Entries == [arrivals : Answers, timestamp : 0..MaxTime]

FetchJobs(F) ==
    [pc : {"fetch"}, fd : F, req : Requests]
    \cup [pc : {"assign", "sweep"}, fd : F, req : Requests, entry : Entries]

WorkerJobs ==
    {NoJob, Waiting}
    \cup [pc : {"recv", "close"}, fd : Fds]
    \cup [pc : {"lookup"}, fd : Fds, req : Requests]
    \cup FetchJobs(Fds)
    \cup [pc : {"send"}, fd : Fds, cacheState : CacheStates, status : Statuses,
          arrivals : Answers \cup {NothingFetched}]

RefreshJobs == {NoJob} \cup FetchJobs({NoFd})

Responses == [status : Statuses,
              stop   : UpstreamStops \cup {None},
              count  : 0..MaxArrivals]

ASSUME AnswerAssumption == None \notin Responses

Links == [req    : Requests \cup {None},
          resp   : Responses \cup {None},
          client : {"none", "open", "closed"},
          server : {"none", "open", "closed", "reset"},
          failed : BOOLEAN]     \* history: recv() or send() failed, the client being there

(* The state is made of the values the declarations announce; only workers *)
(* serve descriptors.                                                      *)
TypeOK ==
    /\ now \in 0..MaxTime
    /\ DOMAIN cache \subseteq Stops
    /\ cache \in [DOMAIN cache -> Entries]
    /\ up \in BOOLEAN
    /\ backlog \in Seq(Conns)
    /\ conn \in [Fds -> Conns \cup {None}]
    /\ queue \in Seq(Fds)
    /\ job \in [Threads -> WorkerJobs \cup RefreshJobs]
    /\ \A w \in Workers : job[w] \in WorkerJobs
    /\ \A r \in Refreshers : job[r] \in RefreshJobs
    /\ link \in [Conns -> Links]
    /\ client \in [Clients -> [pc : {"idle", "connected", "awaiting"}, k : 0..MaxQueries]]

-----------------------------------------------------------------------------
Serves(w, f) == job[w].pc \notin {"none", "wait"} /\ job[w].fd = f

Queued(f) == \E i \in 1..Len(queue) : queue[i] = f

(* Every open descriptor is in exactly one place: once in the task queue,  *)
(* or with one worker between its take and its close.  So no connection is *)
(* leaked by an early return of handle_client, and no worker uses or       *)
(* closes a number that accept() has meanwhile given to another client.    *)
FdOwnership ==
    /\ \A i, j \in 1..Len(queue) : queue[i] = queue[j] => i = j
    /\ \A f \in Fds : conn[f] # None <=> Queued(f) \/ \E w \in Workers : Serves(w, f)
    /\ \A w \in Workers, f \in Fds : Serves(w, f) =>
        /\ ~Queued(f)
        /\ \A v \in Workers : Serves(v, f) => v = w

(* An answer with arrivals is about the stop its connection asked for,     *)
(* whatever was cached, refreshed or reused in between.                    *)
AnswerIsForRequest ==
    \A c \in Conns :
        /\ link[c].resp # None
        /\ link[c].resp.status = "Ok"
        => /\ link[c].req # None
           /\ link[c].resp.stop = UpstreamStop(link[c].req.stop)

(* The two comments "no failed fetch entry gets into the cache"            *)
(* (bkk_thread_pool.cpp:80 and 95), on which handle_client relies when it  *)
(* answers Ok from the cache without a status: an entry is never empty and *)
(* holds the arrivals of its key's stop.                                   *)
NoFailedFetchCached ==
    \A s \in DOMAIN cache :
        /\ cache[s].arrivals.count > 0
        /\ cache[s].arrivals.stop = UpstreamStop(s)

(* A client may trust number_of_arrivals: it never exceeds the array, Ok   *)
(* comes with at least one arrival and a failure with none.                *)
AnswerShape ==
    \A c \in Conns :
        link[c].resp # None =>
            /\ link[c].resp.count <= MaxArrivals
            /\ link[c].resp.status = "Ok" <=> link[c].resp.count > 0

(* A connection is closed without an answer only if its client has left or *)
(* a recv() or send() of its own has failed: never for what became of the  *)
(* fetch, of the cache or of another connection.                           *)
NoSilentClose ==
    \A c \in Conns :
        link[c].server = "closed" /\ link[c].resp = None =>
            link[c].client = "closed" \/ link[c].failed

(* The process dies, and takes every connection with it, for two causes    *)
(* only.  A client that had asked went away unanswered, where send() then  *)
(* raises SIGPIPE; or a refresh thread too many was asked for, which needs *)
(* more requests than the system has threads to give.                      *)
DeathHasCause ==
    \A c \in Conns : link[c].server = "reset" =>
        \/ /\ BrokenPipeKills
           /\ \E d \in Conns : /\ link[d].client = "closed"
                                /\ link[d].server = "reset"
                                /\ link[d].req # None
                                /\ link[d].resp = None
        \/ Cardinality({d \in Conns : link[d].req # None}) > Cardinality(Refreshers)

(* A connection gets one answer, and nothing happens to it on the server's *)
(* side after close(), although its descriptor is in use again.            *)
NothingAfterClose ==
    [][\A c \in Conns :
        /\ link[c].resp # None => link'[c].resp = link[c].resp
        /\ link[c].server \in {"closed", "reset"} =>
            link'[c].server = link[c].server /\ link'[c].resp = link[c].resp]_vars

(* test/stress_test.sh, lines 233-234: the test fails the server ("server  *)
(* is not bounding thread creation") when its threads outnumber those it   *)
(* started with by more than the clients connected at a time.  Said here   *)
(* of clients that, like the test's, wait for their answers.               *)
ThreadGrowthWithinConcurrency ==
    (\A c \in Conns : link[c].client = "closed" => link[c].resp # None)
    => Cardinality({r \in Refreshers : job[r].pc # "none"}) <= Cardinality(Clients)

(* send_bkk_uds_query does not block for ever in recv(): the server        *)
(* answers, or its end of the connection goes away.                        *)
EveryQueryReturns ==
    \A c \in Clients : client[c].pc = "awaiting" ~> client[c].pc = "idle"

(* Every accepted descriptor is closed again, on every path through        *)
(* handle_client.                                                          *)
EveryDescriptorCloses ==
    \A f \in Fds : conn[f] # None ~> conn[f] = None

(* What t goes by from its get_element to its answer: a worker that        *)
(* fetches, and one that answers with what it fetched, has had a miss.     *)
LookupOf(t) ==
    IF job[t].pc = "send" /\ job[t].cacheState # "CACHE_MISS"
    THEN [state |-> job[t].cacheState, arrivals |-> job[t].arrivals]
    ELSE IF \/ job[t].pc = "send"
            \/ t \in Workers /\ job[t].pc \in {"fetch", "assign", "sweep"}
    THEN Miss
    ELSE NoLookup

Abs == INSTANCE TtlCache WITH live <- Swept(cache, now),
                              lookup <- [t \in Threads |-> LookupOf(t)]

(* Around the cache too, the two critical sections of put_element, late    *)
(* timestamps and a restart are invisible: what handle_client finds, the   *)
(* misses it fetches for included, is what TtlCache would have said.       *)
ImplementsTtlCache == Abs!Spec
=============================================================================
