----------------------------- MODULE ServerExit -----------------------------
(***************************************************************************)
(* How main ends: curl_global_cleanup, then the destructors of its locals  *)
(* in reverse order, cache before pool, whose destructor lets the workers  *)
(* finish; detached refresh threads are not waited for.  A request is seen *)
(* here by what it uses: the cache, then on a miss curl and the cache      *)
(* again; a stale entry's refresh the last two, on its own.                *)
(***************************************************************************)
EXTENDS Naturals, FiniteSets

CONSTANTS
    Requests,       \* bound: connections accepted
    Concurrency     \* hardware_concurrency() where it is known

VARIABLES
    main,           \* where main is
    curl, cache,    \* can they be used?
    poolSize,       \* workers the pool was given
    request,        \* request -> what is next for it
    refresh,        \* request -> what is next for the refresh it has started
    spoiled,        \* history: requests that used curl or the cache too late
    unfinished      \* history: requests under way when main began to end

vars == <<main, curl, cache, poolSize, request, refresh, spoiled, unfinished>>

Ended == main \in {"exited", "crashed"}

(* hardware_concurrency() may return 0, and the pool has no workers. *)
Init ==
    /\ main = "init"
    /\ curl = TRUE
    /\ cache = FALSE
    /\ poolSize \in {0, Concurrency}
    /\ request = [r \in Requests |-> "none"]
    /\ refresh = [r \in Requests |-> "none"]
    /\ spoiled = {}
    /\ unfinished = {}

UnderWay == {r \in Requests :
                request[r] \notin {"none", "answered"} \/ refresh[r] \notin {"none", "done"}}

Queued == {r \in Requests : request[r] = "queued"}
Busy == {r \in Requests : request[r] \in {"lookup", "fetch", "put"}}

-----------------------------------------------------------------------------
(* main *)

EnterLoop ==
    /\ main = "init"
    /\ main' = "loop"
    /\ cache' = TRUE
    /\ UNCHANGED <<curl, poolSize, request, refresh, spoiled, unfinished>>

Accept(r) ==
    /\ main = "loop"
    /\ request[r] = "none"
    /\ request' = [request EXCEPT ![r] = "queued"]
    /\ UNCHANGED <<main, curl, cache, poolSize, refresh, spoiled, unfinished>>

(* Mutant of Fail: the status is not returned. *)
FailAndGoOn ==
    /\ main \in {"init", "loop"}
    /\ main' = "loop"
    /\ cache' = TRUE
    /\ curl' = FALSE
    /\ unfinished' = UnderWay
    /\ UNCHANGED <<poolSize, request, refresh, spoiled>>

(* init_server or epoll_wait fails: cleanup_and_return. *)
Fail ==
    /\ main \in {"init", "loop"}
    /\ main' = IF main = "init" THEN "joining" ELSE "leaving"
    /\ curl' = FALSE
    /\ unfinished' = UnderWay
    /\ UNCHANGED <<cache, poolSize, request, refresh, spoiled>>

DestroyCache ==
    /\ main = "leaving"
    /\ main' = "joining"
    /\ cache' = FALSE
    /\ UNCHANGED <<curl, poolSize, request, refresh, spoiled, unfinished>>

(* ~ThreadPool: the workers, if any, return when the queue is empty; the   *)
(* process ends, its refresh threads with it.                              *)
Exit ==
    /\ main = "joining"
    /\ Busy = {}
    /\ Queued = {} \/ poolSize = 0
    /\ main' = "exited"
    /\ UNCHANGED <<curl, cache, poolSize, request, refresh, spoiled, unfinished>>

(* A signal ends the process, the only way out of a loop that no call      *)
(* fails in; or what the use of a destroyed object has come to.            *)
Crash ==
    /\ ~Ended
    /\ main' = "crashed"
    /\ UNCHANGED <<curl, cache, poolSize, request, refresh, spoiled, unfinished>>

-----------------------------------------------------------------------------
(* Workers and refresh threads. *)

Uses(r, object) ==
    /\ spoiled' = IF object THEN spoiled ELSE spoiled \cup {r}
    /\ UNCHANGED <<main, curl, cache, poolSize, unfinished>>

(* Mutant of Take: a thread per request. *)
TakeUnbounded(r) ==
    /\ ~Ended
    /\ request[r] = "queued"
    /\ request' = [request EXCEPT ![r] = "lookup"]
    /\ UNCHANGED <<main, curl, cache, poolSize, refresh, spoiled, unfinished>>

Take(r) ==
    /\ ~Ended
    /\ request[r] = "queued"
    /\ Cardinality(Busy) < poolSize
    /\ request' = [request EXCEPT ![r] = "lookup"]
    /\ UNCHANGED <<main, curl, cache, poolSize, refresh, spoiled, unfinished>>

Lookup(r) ==
    /\ ~Ended
    /\ request[r] = "lookup"
    /\ \/ /\ request' = [request EXCEPT ![r] = "answered"]
          /\ \/ refresh' = refresh
             \/ refresh' = [refresh EXCEPT ![r] = "fetch"]
       \/ request' = [request EXCEPT ![r] = "fetch"] /\ refresh' = refresh
    /\ Uses(r, cache)

Fetch(r) ==
    /\ ~Ended
    /\ request[r] = "fetch"
    /\ request' \in {[request EXCEPT ![r] = next] : next \in {"put", "answered"}}
    /\ refresh' = refresh
    /\ Uses(r, curl)

Put(r) ==
    /\ ~Ended
    /\ request[r] = "put"
    /\ request' = [request EXCEPT ![r] = "answered"]
    /\ refresh' = refresh
    /\ Uses(r, cache)

RefreshFetch(r) ==
    /\ ~Ended
    /\ refresh[r] = "fetch"
    /\ refresh' \in {[refresh EXCEPT ![r] = next] : next \in {"put", "done"}}
    /\ request' = request
    /\ Uses(r, curl)

RefreshPut(r) ==
    /\ ~Ended
    /\ refresh[r] = "put"
    /\ refresh' = [refresh EXCEPT ![r] = "done"]
    /\ request' = request
    /\ Uses(r, cache)

HandleClient(r) == Take(r) \/ Lookup(r) \/ Fetch(r) \/ Put(r)
Refresh(r) == RefreshFetch(r) \/ RefreshPut(r)

Next ==
    \/ EnterLoop \/ Fail \/ DestroyCache \/ Exit \/ Crash
    \/ \E r \in Requests : Accept(r) \/ HandleClient(r) \/ Refresh(r)

Spec == Init /\ [][Next]_vars

-----------------------------------------------------------------------------
(* Types, and never more requests in hand than workers. *)
TypeOK ==
    /\ main \in {"init", "loop", "leaving", "joining", "exited", "crashed"}
    /\ curl \in BOOLEAN /\ cache \in BOOLEAN
    /\ poolSize \in Nat
    /\ request \in [Requests -> {"none", "queued", "lookup", "fetch", "put", "answered"}]
    /\ refresh \in [Requests -> {"none", "fetch", "put", "done"}]
    /\ spoiled \subseteq Requests /\ unfinished \subseteq Requests
    /\ Cardinality(Busy) <= poolSize

(* curl and the cache are used after their end only for requests that had  *)
(* been accepted and not finished, refresh included, when main began to    *)
(* leave: a server that fails while idle, or in init_server, goes down     *)
(* cleanly.                                                                *)
OnlyUnfinishedIsSpoiled == spoiled \subseteq unfinished
=============================================================================
