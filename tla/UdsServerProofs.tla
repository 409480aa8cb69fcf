-------------------------- MODULE UdsServerProofs --------------------------
(***************************************************************************)
(* Proofs about UdsServer for any clients, stops, workers, refresh threads *)
(* and descriptors, in five parts, each an inductive invariant and what    *)
(* follows from it:                                                        *)
(*   - types and the ownership of descriptors (ServerInv);                 *)
(*   - answers and the entries they come from are about the stop that was  *)
(*     asked for (AnswerInv);                                              *)
(*   - nobody is hung up on unanswered while every recv() and send()       *)
(*     works, and what is answered or closed stays so (EndInv);            *)
(*   - the process dies of a broken pipe or of too many refreshes, and not  *)
(*     of fewer than the requests made can start (CountInv);               *)
(*   - what is found in the cache is what TtlCache says (StampInv).        *)
(***************************************************************************)
EXTENDS UdsServer, CacheOpsProofs, FiniteSetTheorems

-----------------------------------------------------------------------------
(* Which values the parts of the state can have.  TypeOK is split into the *)
(* part about the threads and the rest.                                    *)
JobsOK ==
    /\ job \in [Threads -> WorkerJobs \cup RefreshJobs]
    /\ \A w \in Workers : job[w] \in WorkerJobs
    /\ \A r \in Refreshers : job[r] \in RefreshJobs

LEMMA TypeHasJobs == TypeOK => JobsOK
  BY DEF TypeOK, JobsOK

LEMMA ThreadKinds ==
    /\ Workers \subseteq Threads /\ Refreshers \subseteq Threads
    /\ \A t \in Threads : t \in Workers \/ t \in Refreshers
    /\ \A w \in Workers : w \notin Refreshers
  BY ServerAssumption DEF Threads

(* One worker's, or one refresh thread's, next job. *)
LEMMA WorkerGoes ==
    ASSUME JobsOK, NEW w \in Workers, NEW k \in WorkerJobs,
           job' = [job EXCEPT ![w] = k]
    PROVE  JobsOK'
  BY ThreadKinds DEF JobsOK

LEMMA RefresherGoes ==
    ASSUME JobsOK, NEW r \in Refreshers, NEW k \in RefreshJobs,
           job' = [job EXCEPT ![r] = k]
    PROVE  JobsOK'
  BY ThreadKinds DEF JobsOK

(* The locals that go with each program counter. *)
LEMMA WorkerShape ==
    ASSUME NEW k \in WorkerJobs
    PROVE  /\ k.pc \in {"recv", "close"} => k \in [pc : {"recv", "close"}, fd : Fds]
           /\ k.pc = "lookup" => k \in [pc : {"lookup"}, fd : Fds, req : Requests]
           /\ k.pc = "fetch" => k \in [pc : {"fetch"}, fd : Fds, req : Requests]
           /\ k.pc \in {"assign", "sweep"} =>
                k \in [pc : {"assign", "sweep"}, fd : Fds, req : Requests, entry : Entries]
           /\ k.pc = "send" =>
                k \in [pc : {"send"}, fd : Fds, cacheState : CacheStates,
                       status : Statuses, arrivals : Answers \cup {NothingFetched}]
  BY DEF WorkerJobs, NoJob, Waiting, FetchJobs

LEMMA RefreshShape ==
    ASSUME NEW k \in RefreshJobs
    PROVE  /\ k.pc \in {"none", "fetch", "assign", "sweep"}
           /\ k.pc = "fetch" => k \in [pc : {"fetch"}, fd : {NoFd}, req : Requests]
           /\ k.pc \in {"assign", "sweep"} =>
                k \in [pc : {"assign", "sweep"}, fd : {NoFd}, req : Requests, entry : Entries]
  BY DEF RefreshJobs, NoJob, FetchJobs

LEMMA ServingFd ==
    ASSUME NEW k \in WorkerJobs, k.pc \notin {"none", "wait"}
    PROVE  k.fd \in Fds
  BY DEF WorkerJobs, NoJob, Waiting, FetchJobs

-----------------------------------------------------------------------------
LEMMA FetchResultTypes ==
    ASSUME NEW req \in Requests, NEW res \in FetchResults(req)
    PROVE  /\ res.status \in Statuses
           /\ res.status = "Ok" => /\ res.arrivals \in Answers
                                   /\ res.arrivals.stop = UpstreamStop(req.stop)
           /\ res.status # "Ok" => res.arrivals = NothingFetched
<1>1. req.stop \in Stops /\ req.key \in Keys /\ UpstreamStop(req.stop) \in UpstreamStops
  BY DEF Requests, UpstreamStops
<1>2. CASE req.key = "empty"
  BY <1>1, <1>2 DEF FetchResults, Statuses
<1>3. CASE req.key = "rejected"
  BY <1>1, <1>3, ServerAssumption DEF FetchResults, Statuses
<1>4. CASE req.key = "valid"
  BY <1>1, <1>4, ServerAssumption DEF FetchResults, Statuses, Answers
<1>5. QED
  BY <1>1, <1>2, <1>3, <1>4, ServerAssumption

LEMMA LookupTypes ==
    ASSUME TypeOK, NEW s \in Stops
    PROVE  /\ Lookup(cache, s, now).state \in CacheStates
           /\ Lookup(cache, s, now).state # "CACHE_MISS" =>
                /\ s \in DOMAIN cache
                /\ Lookup(cache, s, now).arrivals = cache[s].arrivals
                /\ Lookup(cache, s, now).arrivals \in Answers
<1>1. \A r \in DOMAIN cache : cache[r] \in Entries
  BY DEF TypeOK
<1>2. \A r \in DOMAIN cache : cache[r].arrivals \in Answers
  BY <1>1 DEF Entries
<1>3. CASE s \in Usable(cache, now)
  <2>1. s \in DOMAIN cache
    BY <1>3 DEF Usable
  <2>2. QED
    BY <1>2, <1>3, <2>1 DEF Lookup, CacheStates
<1>4. CASE s \notin Usable(cache, now)
  BY <1>4 DEF Lookup, Miss, CacheStates
<1>5. QED
  BY <1>3, <1>4

LEMMA AnsweringType ==
    ASSUME NEW w \in Workers, job[w].fd \in Fds, NEW cs \in CacheStates,
           NEW st \in Statuses, NEW a \in Answers \cup {NothingFetched}
    PROVE  Answering(w, cs, st, a) \in WorkerJobs
  BY DEF Answering, WorkerJobs

LEMMA ResponseType ==
    ASSUME NEW st \in Statuses, NEW a \in Answers \cup {NothingFetched}
    PROVE  Response(st, a) \in Responses
<1>1. a.stop \in UpstreamStops \cup {None} /\ a.count \in Nat
  <2>1. CASE a \in Answers
    BY <2>1, ServerAssumption DEF Answers
  <2>2. CASE a = NothingFetched
    BY <2>2 DEF NothingFetched
  <2>3. QED
    BY <2>1, <2>2
<1>2. QED
  BY <1>1, ServerAssumption DEF Response, Responses

-----------------------------------------------------------------------------
(* The parts of TypeOK other than JobsOK, and that they are all of it.     *)
StoreOK ==
    /\ now \in 0..MaxTime
    /\ DOMAIN cache \subseteq Stops
    /\ cache \in [DOMAIN cache -> Entries]
    /\ up \in BOOLEAN

SocketsOK ==
    /\ backlog \in Seq(Conns)
    /\ conn \in [Fds -> Conns \cup {None}]
    /\ queue \in Seq(Fds)
    /\ link \in [Conns -> Links]

ClientsOK ==
    client \in [Clients -> [pc : {"idle", "connected", "awaiting"}, k : 0..MaxQueries]]

LEMMA TypeParts == TypeOK <=> StoreOK /\ SocketsOK /\ ClientsOK /\ JobsOK
  BY DEF TypeOK, StoreOK, SocketsOK, ClientsOK, JobsOK

LEMMA TypePartsNext == TypeOK' <=> StoreOK' /\ SocketsOK' /\ ClientsOK' /\ JobsOK'
  BY DEF TypeOK, StoreOK, SocketsOK, ClientsOK, JobsOK

LEMMA StartTypes == AtStart \in [Threads -> WorkerJobs \cup RefreshJobs]
                    /\ (\A w \in Workers : AtStart[w] = Waiting)
                    /\ (\A r \in Refreshers : AtStart[r] = NoJob)
  BY ThreadKinds DEF AtStart, WorkerJobs, RefreshJobs

LEMMA IdleJobs == NoJob \in WorkerJobs /\ Waiting \in WorkerJobs /\ NoJob \in RefreshJobs
  BY DEF WorkerJobs, RefreshJobs

LEMMA InitTypeOK == Init => TypeOK
<1> SUFFICES ASSUME Init PROVE TypeOK
  OBVIOUS
<1>1. StoreOK
  BY ServerAssumption DEF Init, StoreOK, EmptyCache
<1>2. SocketsOK
  <2>1. ClosedLink \in Links
    BY DEF ClosedLink, Links
  <2>2. backlog \in Seq(Conns) /\ queue \in Seq(Fds)
    BY DEF Init
  <2>3. conn \in [Fds -> Conns \cup {None}] /\ link \in [Conns -> Links]
    BY <2>1 DEF Init
  <2>4. QED
    BY <2>2, <2>3 DEF SocketsOK
<1>3. ClientsOK
  BY ServerAssumption DEF Init, ClientsOK
<1>4. JobsOK
  BY StartTypes, IdleJobs DEF Init, JobsOK
<1>5. QED
  BY <1>1, <1>2, <1>3, <1>4, TypeParts

LEMMA TerminateTypeOK ==
    ASSUME TypeOK, Terminate
    PROVE  TypeOK'
<1>1. StoreOK'
  BY DEF TypeOK, Terminate, StoreOK, EmptyCache
<1>2. SocketsOK'
  <2>1. \A c \in Conns : link[c] \in Links /\ [link[c] EXCEPT !.server = "reset"] \in Links
    <3>1. \A c \in Conns : link[c] \in Links
      BY DEF TypeOK
    <3>2. \A l \in Links : [l EXCEPT !.server = "reset"] \in Links
      BY DEF Links
    <3>3. QED
      BY <3>1, <3>2
  <2>2. link' \in [Conns -> Links]
    BY <2>1 DEF Terminate
  <2>3. conn' \in [Fds -> Conns \cup {None}]
    BY DEF Terminate
  <2>4. backlog' \in Seq(Conns) /\ queue' \in Seq(Fds)
    BY DEF Terminate
  <2>5. QED
    BY <2>2, <2>3, <2>4 DEF SocketsOK
<1>3. ClientsOK'
  BY DEF TypeOK, Terminate, ClientsOK
<1>4. JobsOK'
  BY IdleJobs, ThreadKinds DEF Terminate, JobsOK
<1>5. QED
  BY <1>1, <1>2, <1>3, <1>4, TypePartsNext

LEMMA LinkFields ==
    ASSUME NEW l \in Links
    PROVE  /\ \A r \in Requests : [l EXCEPT !.req = r] \in Links
           /\ \A r \in Responses : [l EXCEPT !.resp = r] \in Links
           /\ \A e \in {"open", "closed"} :
                [l EXCEPT !.client = e] \in Links /\ [l EXCEPT !.server = e] \in Links
           /\ \A b \in BOOLEAN : /\ [l EXCEPT !.failed = b] \in Links
                                  /\ [l EXCEPT !.server = "closed", !.failed = b] \in Links
  BY DEF Links

(* A client's own connection is one of Conns while it has one. *)
LEMMA QueryTypeOK ==
    ASSUME TypeOK, NEW c \in Clients, Query(c)
    PROVE  TypeOK'
<1>1. StoreOK' /\ JobsOK'
  BY DEF Query, Connect, ConnectFails, SendRequest, SendFails, Receive, GiveUp,
         TypeOK, StoreOK, JobsOK
<1>2. client[c] \in [pc : {"idle", "connected", "awaiting"}, k : 0..MaxQueries]
  BY DEF TypeOK
<1>3. CASE Connect(c)
  <2> DEFINE k == client[c].k + 1
  <2>1. k \in 1..MaxQueries /\ <<c, k>> \in Conns
    BY <1>2, <1>3, ServerAssumption DEF Connect, Conns
  <2>2. ClientsOK'
    BY <1>3, <2>1, ServerAssumption DEF Connect, TypeOK, ClientsOK
  <2>3. backlog' \in Seq(Conns)
    BY <1>3, <2>1 DEF Connect, TypeOK
  <2>4. link' \in [Conns -> Links]
    <3>1. link[<<c, k>>] \in Links
      BY <2>1 DEF TypeOK
    <3>2. [link[<<c, k>>] EXCEPT !.client = "open"] \in Links
      BY <3>1, LinkFields
    <3>3. link' = [link EXCEPT ![<<c, k>>] = [link[<<c, k>>] EXCEPT !.client = "open"]]
      BY <1>3 DEF Connect
    <3>4. QED
      BY <2>1, <3>2, <3>3 DEF TypeOK
  <2>5. QED
    BY <1>1, <1>3, <2>2, <2>3, <2>4, TypePartsNext DEF Connect, TypeOK, SocketsOK
<1>4. CASE ConnectFails(c)
  <2>1. ClientsOK'
    <3>1. client[c].k + 1 \in 0..MaxQueries
      BY <1>2, <1>4, ServerAssumption DEF ConnectFails
    <3>2. [client[c] EXCEPT !.k = client[c].k + 1]
            \in [pc : {"idle", "connected", "awaiting"}, k : 0..MaxQueries]
      BY <1>2, <3>1
    <3>3. client' = [client EXCEPT ![c] = [client[c] EXCEPT !.k = client[c].k + 1]]
      BY <1>4 DEF ConnectFails
    <3>4. QED
      BY <3>2, <3>3 DEF TypeOK, ClientsOK
  <2>2. QED
    BY <1>1, <1>4, <2>1, TypePartsNext DEF ConnectFails, TypeOK, SocketsOK
<1>5. ASSUME \/ \E req \in Requests : SendRequest(c, req)
             \/ SendFails(c) \/ Receive(c) \/ GiveUp(c)
      PROVE  TypeOK'
  <2>1. ClientsOK'
    <3>1. \A p \in {"idle", "awaiting"} :
            [client[c] EXCEPT !.pc = p] \in [pc : {"idle", "connected", "awaiting"}, k : 0..MaxQueries]
      BY <1>2
    <3>2. PICK p \in {"idle", "awaiting"} : client' = [client EXCEPT ![c] = [client[c] EXCEPT !.pc = p]]
      BY <1>5 DEF SendRequest, SendFails, Receive, GiveUp, Goes
    <3>3. QED
      BY <3>1, <3>2 DEF TypeOK, ClientsOK
  <2>2. link' \in [Conns -> Links]
    <3>1. link \in [Conns -> Links]
      BY DEF TypeOK
    <3>2. CASE link' = [link EXCEPT ![ConnOf(c)].client = "closed"]
      BY <3>1, <3>2, LinkFields
    <3>3. ASSUME NEW r \in Requests, link' = [link EXCEPT ![ConnOf(c)].req = r]
          PROVE  link' \in [Conns -> Links]
      BY <3>1, <3>3, LinkFields
    <3>4. QED
      BY <1>5, <3>2, <3>3 DEF SendRequest, SendFails, Receive, GiveUp, HangUp
  <2>3. SocketsOK'
    BY <1>5, <2>2 DEF SendRequest, SendFails, Receive, GiveUp, TypeOK, SocketsOK
  <2>4. QED
    BY <1>1, <2>1, <2>3, TypePartsNext
<1>6. QED
  BY <1>3, <1>4, <1>5 DEF Query

LEMMA MainTypeOK ==
    ASSUME TypeOK, Tick \/ Restart \/ AcceptAndSubmit
    PROVE  TypeOK'
<1>1. CASE Tick
  <2>1. now' \in 0..MaxTime
    BY <1>1, ServerAssumption DEF Tick, TypeOK
  <2>2. QED
    BY <1>1, <2>1 DEF Tick, TypeOK
<1>2. CASE Restart
  <2>1. JobsOK'
    BY <1>2, StartTypes, IdleJobs DEF Restart, JobsOK
  <2>2. StoreOK' /\ SocketsOK' /\ ClientsOK'
    BY <1>2 DEF Restart, TypeOK, StoreOK, SocketsOK, ClientsOK
  <2>3. QED
    BY <2>1, <2>2, TypePartsNext
<1>3. CASE AcceptAndSubmit
  <2>1. Head(backlog) \in Conns /\ Tail(backlog) \in Seq(Conns)
    BY <1>3 DEF AcceptAndSubmit, TypeOK
  <2>2. PICK fd \in FreeFds : /\ conn' = [conn EXCEPT ![fd] = Head(backlog)]
                              /\ queue' = Append(queue, fd)
    BY <1>3 DEF AcceptAndSubmit
  <2>3. fd \in Fds
    BY <2>2 DEF FreeFds
  <2>4. conn' \in [Fds -> Conns \cup {None}] /\ queue' \in Seq(Fds)
    BY <2>1, <2>2, <2>3 DEF TypeOK
  <2>5. link' \in [Conns -> Links]
    <3>1. link \in [Conns -> Links] /\ link[Head(backlog)] \in Links
      BY <2>1 DEF TypeOK
    <3>2. link' = [link EXCEPT ![Head(backlog)].server = "open"]
      BY <1>3 DEF AcceptAndSubmit
    <3>3. QED
      BY <2>1, <3>1, <3>2, LinkFields
  <2>6. SocketsOK'
    BY <1>3, <2>1, <2>4, <2>5 DEF AcceptAndSubmit, SocketsOK
  <2>7. StoreOK' /\ ClientsOK' /\ JobsOK'
    BY <1>3 DEF AcceptAndSubmit, TypeOK, StoreOK, ClientsOK, JobsOK
  <2>8. QED
    BY <2>6, <2>7, TypePartsNext
<1>4. QED
  BY <1>1, <1>2, <1>3

-----------------------------------------------------------------------------
(* Steps of handle_client.  What they need of the descriptor they serve is *)
(* that a connection is behind it, which FdOwnership says.                 *)
LEMMA CloseFdTypes ==
    ASSUME TypeOK, NEW w \in Workers, job[w].fd \in Fds,
           conn[job[w].fd] \in Conns, NEW b \in BOOLEAN, CloseFd(w, b)
    PROVE  /\ JobsOK'
           /\ conn' \in [Fds -> Conns \cup {None}]
           /\ link' \in [Conns -> Links]
<1>1. JobsOK'
  BY TypeHasJobs, IdleJobs, WorkerGoes DEF CloseFd
<1>2. conn' \in [Fds -> Conns \cup {None}]
  BY DEF CloseFd, TypeOK
<1>3. link' \in [Conns -> Links]
  <2>1. link \in [Conns -> Links]
    BY DEF TypeOK
  <2> DEFINE x == conn[job[w].fd]
             l == [link[x] EXCEPT !.server = "closed", !.failed = b]
  <2>2. link' = [link EXCEPT ![x] = l]
    BY DEF CloseFd
  <2>3. l \in Links
    BY <2>1, LinkFields
  <2>4. QED
    BY <2>1, <2>2, <2>3
<1>4. QED
  BY <1>1, <1>2, <1>3

LEMMA HandleTypeOK ==
    ASSUME TypeOK, FdOwnership, NEW w \in Workers, HandleClient(w)
    PROVE  TypeOK'
<1>0. JobsOK /\ job[w] \in WorkerJobs /\ w \in Threads
  BY TypeHasJobs, ThreadKinds DEF JobsOK
<1>1. job[w].pc \notin {"none", "wait"} => job[w].fd \in Fds /\ conn[job[w].fd] \in Conns
  <2>1. SUFFICES ASSUME job[w].pc \notin {"none", "wait"}
                 PROVE  job[w].fd \in Fds /\ conn[job[w].fd] \in Conns
    OBVIOUS
  <2>2. job[w].fd \in Fds
    BY <1>0, <2>1, ServingFd
  <2>3. Serves(w, job[w].fd)
    BY <2>1 DEF Serves
  <2>4. conn[job[w].fd] # None
    BY <2>2, <2>3 DEF FdOwnership
  <2>5. QED
    BY <2>2, <2>4 DEF TypeOK
<1>2. CASE TakeTask(w)
  <2>1. Head(queue) \in Fds /\ Tail(queue) \in Seq(Fds)
    BY <1>2 DEF TakeTask, TypeOK
  <2>2. [pc |-> "recv", fd |-> Head(queue)] \in WorkerJobs
    BY <2>1 DEF WorkerJobs
  <2>3. JobsOK'
    BY <1>0, <1>2, <2>2, WorkerGoes DEF TakeTask
  <2>4. StoreOK' /\ SocketsOK' /\ ClientsOK'
    BY <1>2, <2>1 DEF TakeTask, TypeOK, StoreOK, SocketsOK, ClientsOK
  <2>5. QED
    BY <2>3, <2>4, TypePartsNext
<1>3. CASE RecvRequest(w)
  <2>1. job[w].fd \in Fds /\ conn[job[w].fd] \in Conns
    BY <1>1, <1>3 DEF RecvRequest
  <2>2. LinkOf(w) \in Links
    BY <2>1 DEF LinkOf, TypeOK
  <2>3. LinkOf(w).req \in Requests
    BY <1>3, <2>2 DEF RecvRequest, Links
  <2>4. [pc |-> "lookup", fd |-> job[w].fd, req |-> LinkOf(w).req] \in WorkerJobs
    BY <2>1, <2>3 DEF WorkerJobs
  <2>5. JobsOK'
    BY <1>0, <1>3, <2>4, WorkerGoes DEF RecvRequest
  <2>6. StoreOK' /\ SocketsOK' /\ ClientsOK'
    BY <1>3 DEF RecvRequest, TypeOK, StoreOK, SocketsOK, ClientsOK
  <2>7. QED
    BY <2>5, <2>6, TypePartsNext
<1>4. CASE RecvFails(w) \/ CloseClient(w)
  <2>0. job[w].fd \in Fds /\ conn[job[w].fd] \in Conns /\ LinkOf(w) \in Links
    BY <1>1, <1>4 DEF RecvFails, CloseClient, LinkOf, TypeOK
  <2>1. PICK b \in BOOLEAN : CloseFd(w, b)
    BY <1>4, <2>0 DEF RecvFails, CloseClient, Links
  <2>2. JobsOK' /\ conn' \in [Fds -> Conns \cup {None}] /\ link' \in [Conns -> Links]
    BY <2>0, <2>1, CloseFdTypes
  <2>3. StoreOK' /\ SocketsOK' /\ ClientsOK'
    BY <1>4, <2>2
    DEF RecvFails, CloseClient, TypeOK, StoreOK, SocketsOK, ClientsOK
  <2>4. QED
    BY <2>2, <2>3, TypePartsNext
<1>5. CASE LookupFresh(w) \/ LookupStale(w) \/ LookupMiss(w)
  <2>1. job[w].pc = "lookup" /\ job[w].fd \in Fds
        /\ job[w] \in [pc : {"lookup"}, fd : Fds, req : Requests]
    BY <1>0, <1>1, <1>5, WorkerShape DEF LookupFresh, LookupStale, LookupMiss
  <2>2. job[w].req \in Requests /\ job[w].req.stop \in Stops
    BY <2>1 DEF Requests
  <2>3. /\ Found(w).state \in CacheStates
        /\ Found(w).state # "CACHE_MISS" => Found(w).arrivals \in Answers
    BY <2>2, LookupTypes DEF Found
  <2>4. Found(w).state # "CACHE_MISS" =>
          Answering(w, Found(w).state, "Ok", Found(w).arrivals) \in WorkerJobs
    BY <2>1, <2>3, AnsweringType DEF Statuses
  <2>5. JobsOK'
    <3>1. CASE LookupFresh(w)
      BY <1>0, <2>4, <3>1, WorkerGoes DEF LookupFresh
    <3>2. CASE LookupMiss(w)
      <4>1. [job[w] EXCEPT !.pc = "fetch"] \in WorkerJobs
        BY <2>1 DEF WorkerJobs, FetchJobs
      <4>2. job' = [job EXCEPT ![w] = [job[w] EXCEPT !.pc = "fetch"]]
        BY <3>2 DEF LookupMiss
      <4>3. QED
        BY <1>0, <4>1, <4>2, WorkerGoes
    <3>3. CASE LookupStale(w)
      <4> DEFINE a == Answering(w, Found(w).state, "Ok", Found(w).arrivals)
                 k == [pc |-> "fetch", fd |-> NoFd, req |-> job[w].req]
      <4>1. PICK r \in IdleRefreshers : job' = [job EXCEPT ![w] = a, ![r] = k]
        BY <3>3 DEF LookupStale
      <4>2. r \in Refreshers /\ r # w /\ r \in Threads
        BY <4>1, ThreadKinds DEF IdleRefreshers
      <4>3. a \in WorkerJobs
        BY <2>4, <3>3 DEF LookupStale
      <4>4. k \in RefreshJobs
        BY <2>2 DEF RefreshJobs, FetchJobs
      <4>5. QED
        BY <1>0, <4>1, <4>2, <4>3, <4>4, ThreadKinds DEF JobsOK
    <3>4. QED
      BY <1>5, <3>1, <3>2, <3>3
  <2>6. StoreOK' /\ SocketsOK' /\ ClientsOK'
    BY <1>5 DEF LookupFresh, LookupStale, LookupMiss, TypeOK, StoreOK, SocketsOK, ClientsOK
  <2>7. QED
    BY <2>5, <2>6, TypePartsNext
<1>6. CASE SendResponse(w) \/ ResponseFails(w)
  <2>1. job[w].pc = "send" /\ job[w].fd \in Fds /\ conn[job[w].fd] \in Conns
    BY <1>1, <1>6 DEF SendResponse, ResponseFails
  <2>2. job[w] \in [pc : {"send"}, fd : Fds, cacheState : CacheStates,
                    status : Statuses, arrivals : Answers \cup {NothingFetched}]
    BY <1>0, <2>1, WorkerShape
  <2>3. Response(job[w].status, job[w].arrivals) \in Responses
    BY <2>2, ResponseType
  <2>4. [pc |-> "close", fd |-> job[w].fd] \in WorkerJobs
    BY <2>1 DEF WorkerJobs
  <2>5. JobsOK'
    BY <1>0, <1>6, <2>4, WorkerGoes DEF SendResponse, ResponseFails
  <2>6. link' \in [Conns -> Links]
    <3>1. link \in [Conns -> Links]
      BY DEF TypeOK
    <3>2. CASE link' = [link EXCEPT ![conn[job[w].fd]].resp =
                                        Response(job[w].status, job[w].arrivals)]
      BY <2>1, <2>3, <3>1, <3>2, LinkFields
    <3>3. CASE link' = [link EXCEPT ![conn[job[w].fd]].failed = (LinkOf(w).client # "closed")]
      BY <2>1, <3>1, <3>3, LinkFields
    <3>4. QED
      BY <1>6, <3>2, <3>3 DEF SendResponse, ResponseFails
  <2>7. StoreOK' /\ SocketsOK' /\ ClientsOK'
    BY <1>6, <2>6
    DEF SendResponse, ResponseFails, TypeOK, StoreOK, SocketsOK, ClientsOK
  <2>8. QED
    BY <2>5, <2>7, TypePartsNext
<1>7. CASE RefreshThreadFails(w) \/ ResponseKills(w)
  BY <1>7, TerminateTypeOK DEF RefreshThreadFails, ResponseKills
<1>8. QED
  BY <1>2, <1>3, <1>4, <1>5, <1>6, <1>7 DEF HandleClient

(* The fetch is run by both kinds of threads.  F is where their            *)
(* descriptors are from.                                                   *)
LEMMA ThreadGoes ==
    ASSUME JobsOK, NEW t \in Threads, NEW k,
           t \in Workers => k \in WorkerJobs,
           t \in Refreshers => k \in RefreshJobs,
           job' = [job EXCEPT ![t] = k]
    PROVE  JobsOK'
  BY ThreadKinds, WorkerGoes, RefresherGoes

LEMMA FetchShape ==
    ASSUME JobsOK, NEW t \in Threads, job[t].pc \in {"fetch", "assign", "sweep"}
    PROVE  /\ t \in Workers => job[t].fd \in Fds
           /\ t \in Refreshers => job[t].fd = NoFd
           /\ job[t].req \in Requests /\ job[t].req.stop \in Stops
           /\ job[t].pc = "fetch" =>
                job[t] = [pc |-> job[t].pc, fd |-> job[t].fd, req |-> job[t].req]
           /\ job[t].pc # "fetch" =>
                /\ job[t].entry \in Entries
                /\ job[t] = [pc |-> job[t].pc, fd |-> job[t].fd, req |-> job[t].req,
                             entry |-> job[t].entry]
<1>1. CASE t \in Workers
  <2>1. job[t] \in WorkerJobs /\ t \notin Refreshers
    BY <1>1, ThreadKinds DEF JobsOK
  <2>2. CASE job[t].pc = "fetch"
    BY <2>1, <2>2, <1>1, WorkerShape DEF Requests
  <2>3. CASE job[t].pc \in {"assign", "sweep"}
    BY <2>1, <2>3, <1>1, WorkerShape DEF Requests
  <2>4. QED
    BY <2>2, <2>3
<1>2. CASE t \in Refreshers
  <2>1. job[t] \in RefreshJobs /\ t \notin Workers
    BY <1>2, ThreadKinds DEF JobsOK
  <2>2. CASE job[t].pc = "fetch"
    BY <2>1, <2>2, <1>2, RefreshShape DEF Requests
  <2>3. CASE job[t].pc \in {"assign", "sweep"}
    BY <2>1, <2>3, <1>2, RefreshShape DEF Requests
  <2>4. QED
    BY <2>2, <2>3
<1>3. QED
  BY <1>1, <1>2, ThreadKinds

LEMMA ReturnType ==
    ASSUME JobsOK, NEW t \in Threads, job[t].pc \in {"fetch", "sweep"},
           NEW st \in Statuses, NEW a \in Answers \cup {NothingFetched},
           job' = [job EXCEPT ![t] = Return(t, st, a)]
    PROVE  JobsOK'
<1>1. t \in Workers => Return(t, st, a) \in WorkerJobs
  <2>1. t \in Workers => job[t].fd \in Fds
    BY FetchShape
  <2>2. QED
    BY <2>1, AnsweringType DEF Return, CacheStates
<1>2. t \in Refreshers => Return(t, st, a) \in RefreshJobs
  BY ThreadKinds, IdleJobs DEF Return
<1>3. QED
  BY <1>1, <1>2, ThreadGoes

LEMMA FetchTypeOK ==
    ASSUME TypeOK, NEW t \in Threads, Fetch(t)
    PROVE  TypeOK'
<1>0. JobsOK /\ job[t].pc \in {"fetch", "assign", "sweep"}
  BY TypeHasJobs DEF Fetch, FetchFails, FetchSucceeds, PutAssign, RemoveStaleEntries
<1>1. CASE FetchFails(t)
  <2>1. PICK res \in FetchResults(job[t].req) :
            res.status # "Ok" /\ job' = [job EXCEPT ![t] = Return(t, res.status, NothingFetched)]
    BY <1>1 DEF FetchFails
  <2>2. res.status \in Statuses
    BY <1>0, <2>1, FetchShape, FetchResultTypes
  <2>3. JobsOK'
    BY <1>0, <1>1, <2>1, <2>2, ReturnType DEF FetchFails
  <2>4. StoreOK' /\ SocketsOK' /\ ClientsOK'
    BY <1>1 DEF FetchFails, TypeOK, StoreOK, SocketsOK, ClientsOK
  <2>5. QED
    BY <2>3, <2>4, TypePartsNext
<1>2. CASE FetchSucceeds(t)
  <2> DEFINE e(res) == [arrivals |-> res.arrivals, timestamp |-> now]
             k(res) == [pc |-> "assign", fd |-> job[t].fd, req |-> job[t].req,
                        entry |-> e(res)]
  <2>1. PICK res \in FetchResults(job[t].req) :
            res.status = "Ok" /\ job' = [job EXCEPT ![t] = k(res)]
    BY <1>2 DEF FetchSucceeds
  <2>2. res.arrivals \in Answers
    BY <1>0, <2>1, FetchShape, FetchResultTypes
  <2>3. e(res) \in Entries
    BY <2>2 DEF Entries, TypeOK
  <2>4. /\ t \in Workers => k(res) \in WorkerJobs
        /\ t \in Refreshers => k(res) \in RefreshJobs
    <3>1. job[t].req \in Requests /\ (t \in Workers => job[t].fd \in Fds)
          /\ (t \in Refreshers => job[t].fd = NoFd)
      BY <1>0, FetchShape
    <3>2. QED
      BY <2>3, <3>1 DEF WorkerJobs, RefreshJobs, FetchJobs
  <2>5. JobsOK'
    BY <1>0, <2>1, <2>4, ThreadGoes
  <2>6. StoreOK' /\ SocketsOK' /\ ClientsOK'
    BY <1>2 DEF FetchSucceeds, TypeOK, StoreOK, SocketsOK, ClientsOK
  <2>7. QED
    BY <2>5, <2>6, TypePartsNext
<1>3. CASE PutAssign(t)
  <2> DEFINE k == [pc |-> "sweep", fd |-> job[t].fd, req |-> job[t].req,
                   entry |-> job[t].entry]
  <2>1. /\ job[t].pc = "assign" /\ job[t].req \in Requests /\ job[t].req.stop \in Stops
        /\ job[t].entry \in Entries
        /\ t \in Workers => job[t].fd \in Fds
        /\ t \in Refreshers => job[t].fd = NoFd
        /\ job[t] = [pc |-> "assign", fd |-> job[t].fd, req |-> job[t].req,
                     entry |-> job[t].entry]
    BY <1>0, <1>3, FetchShape DEF PutAssign
  <2>2. job' = [job EXCEPT ![t] = k]
    <3>1. [job[t] EXCEPT !.pc = "sweep"] = k
      BY <2>1
    <3>2. QED
      BY <1>3, <3>1 DEF PutAssign
  <2>3. /\ t \in Workers => k \in WorkerJobs
        /\ t \in Refreshers => k \in RefreshJobs
    BY <2>1 DEF WorkerJobs, RefreshJobs, FetchJobs
  <2>4. JobsOK'
    BY <1>0, <2>2, <2>3, ThreadGoes
  <2>5. StoreOK'
    BY <1>3, <2>1 DEF PutAssign, Assign, TypeOK, StoreOK
  <2>6. SocketsOK' /\ ClientsOK'
    BY <1>3 DEF PutAssign, TypeOK, SocketsOK, ClientsOK
  <2>7. QED
    BY <2>4, <2>5, <2>6, TypePartsNext
<1>4. CASE RemoveStaleEntries(t)
  <2>1. job[t].pc = "sweep" /\ job[t].entry \in Entries
    BY <1>0, <1>4, FetchShape DEF RemoveStaleEntries
  <2>2. job[t].entry.arrivals \in Answers
    BY <2>1 DEF Entries
  <2>3. JobsOK'
    BY <1>0, <1>4, <2>1, <2>2, ReturnType DEF RemoveStaleEntries, Statuses
  <2>4. StoreOK'
    BY <1>4 DEF RemoveStaleEntries, Swept, Usable, Restrict, TypeOK, StoreOK
  <2>5. SocketsOK' /\ ClientsOK'
    BY <1>4 DEF RemoveStaleEntries, TypeOK, SocketsOK, ClientsOK
  <2>6. QED
    BY <2>3, <2>4, <2>5, TypePartsNext
<1>5. QED
  BY <1>1, <1>2, <1>3, <1>4 DEF Fetch

-----------------------------------------------------------------------------
(* Who owns a descriptor.                                                  *)

(* Steps that leave descriptors, the queue and the workers' hold alone. *)
LEMMA OwnershipKept ==
    ASSUME FdOwnership, queue' = queue, conn' = conn,
           \A w \in Workers, f \in Fds : Serves(w, f)' <=> Serves(w, f)
    PROVE  FdOwnership'
<1>1. \A f \in Fds : Queued(f)' <=> Queued(f)
  BY DEF Queued
<1>2. QED
  BY <1>1 DEF FdOwnership

(* A worker with a descriptor goes on with it. *)
LEMMA HoldKept ==
    ASSUME NEW t, job[t].pc \notin {"none", "wait"},
           t \in Workers => job'[t].pc \notin {"none", "wait"} /\ job'[t].fd = job[t].fd,
           \A w \in Workers : w # t => job'[w] = job[w]
    PROVE  \A w \in Workers, f \in Fds : Serves(w, f)' <=> Serves(w, f)
  BY DEF Serves

(* Among the elements of a duplicate-free queue, Tail drops just the head. *)
LEMMA TailQueued ==
    ASSUME queue \in Seq(Fds), queue # <<>>,
           \A i, j \in 1..Len(queue) : queue[i] = queue[j] => i = j,
           queue' = Tail(queue)
    PROVE  /\ \A i, j \in 1..Len(queue') : queue'[i] = queue'[j] => i = j
           /\ \A f \in Fds : Queued(f)' <=> Queued(f) /\ f # Head(queue)
           /\ Queued(Head(queue))
<1>1. /\ Len(queue') = Len(queue) - 1 /\ Len(queue) \in Nat \ {0}
      /\ \A i \in 1..Len(queue') : queue'[i] = queue[i + 1]
      /\ Head(queue) = queue[1]
  OBVIOUS
<1>2. \A i, j \in 1..Len(queue') : queue'[i] = queue'[j] => i = j
  BY <1>1
<1>3. ASSUME NEW f \in Fds, Queued(f)'
      PROVE  Queued(f) /\ f # Head(queue)
  <2>1. PICK i \in 1..Len(queue') : queue'[i] = f
    BY <1>3 DEF Queued
  <2>2. queue[i + 1] = f /\ i + 1 \in 1..Len(queue) /\ i + 1 # 1 /\ 1 \in 1..Len(queue)
    BY <1>1, <2>1
  <2>3. QED
    BY <1>1, <2>2 DEF Queued
<1>4. ASSUME NEW f \in Fds, Queued(f), f # Head(queue)
      PROVE  Queued(f)'
  <2>1. PICK i \in 1..Len(queue) : queue[i] = f
    BY <1>4 DEF Queued
  <2>2. i # 1
    BY <1>1, <1>4, <2>1
  <2>3. i - 1 \in 1..Len(queue') /\ queue'[i - 1] = queue[(i - 1) + 1] /\ (i - 1) + 1 = i
    BY <1>1, <2>2
  <2>4. QED
    BY <2>1, <2>3 DEF Queued
<1>5. Queued(Head(queue))
  BY <1>1 DEF Queued
<1>6. QED
  BY <1>2, <1>3, <1>4, <1>5

LEMMA AppendQueued ==
    ASSUME queue \in Seq(Fds), NEW fd \in Fds, ~Queued(fd),
           \A i, j \in 1..Len(queue) : queue[i] = queue[j] => i = j,
           queue' = Append(queue, fd)
    PROVE  /\ \A i, j \in 1..Len(queue') : queue'[i] = queue'[j] => i = j
           /\ \A f \in Fds : Queued(f)' <=> Queued(f) \/ f = fd
<1>1. /\ Len(queue') = Len(queue) + 1 /\ Len(queue) \in Nat
      /\ \A i \in 1..Len(queue) : queue'[i] = queue[i]
      /\ queue'[Len(queue) + 1] = fd
  OBVIOUS
<1>2. \A i \in 1..Len(queue) : queue[i] # fd
  BY DEF Queued
<1>3. \A i, j \in 1..Len(queue') : queue'[i] = queue'[j] => i = j
  BY <1>1, <1>2
<1>4. \A f \in Fds : Queued(f)' <=> Queued(f) \/ f = fd
  BY <1>1 DEF Queued
<1>5. QED
  BY <1>3, <1>4

(* The process is gone, and with it what it held. *)
NothingHeld ==
    /\ queue = <<>>
    /\ \A f \in Fds : conn[f] = None
    /\ \A w \in Workers : job[w].pc \in {"none", "wait"}

DownInv == ~up => queue = <<>> /\ \A f \in Fds : conn[f] = None

LEMMA NothingHeldOwned == NothingHeld => FdOwnership
  BY DEF NothingHeld, FdOwnership, Queued, Serves

LEMMA NothingHeldOwnedNext == NothingHeld' => FdOwnership'
  BY DEF NothingHeld, FdOwnership, Queued, Serves

LEMMA InitOwnership == Init => FdOwnership /\ DownInv
<1> SUFFICES ASSUME Init PROVE FdOwnership /\ DownInv
  OBVIOUS
<1>1. NothingHeld
  BY StartTypes DEF Init, NothingHeld, Waiting
<1>2. QED
  BY <1>1, NothingHeldOwned DEF Init, DownInv

LEMMA TerminateOwnership == Terminate => FdOwnership' /\ DownInv'
<1> SUFFICES ASSUME Terminate PROVE FdOwnership' /\ DownInv'
  OBVIOUS
<1>1. NothingHeld'
  BY ThreadKinds DEF Terminate, NothingHeld, NoJob
<1>2. QED
  BY <1>1, NothingHeldOwnedNext DEF NothingHeld, DownInv

LEMMA RestartOwnership ==
    ASSUME DownInv, Restart
    PROVE  FdOwnership' /\ DownInv'
<1>1. NothingHeld'
  BY StartTypes DEF Restart, DownInv, NothingHeld, Waiting
<1>2. QED
  BY <1>1, NothingHeldOwnedNext DEF NothingHeld, DownInv

(* accept() hands out a number nobody has. *)
LEMMA AcceptOwnership ==
    ASSUME TypeOK, FdOwnership, AcceptAndSubmit
    PROVE  FdOwnership'
<1>1. PICK fd \in FreeFds : /\ conn' = [conn EXCEPT ![fd] = Head(backlog)]
                            /\ queue' = Append(queue, fd)
  BY DEF AcceptAndSubmit
<1>2. fd \in Fds /\ conn[fd] = None
  BY <1>1 DEF FreeFds
<1>3. ~Queued(fd) /\ \A w \in Workers : ~Serves(w, fd)
  BY <1>2 DEF FdOwnership
<1>4. /\ \A i, j \in 1..Len(queue') : queue'[i] = queue'[j] => i = j
      /\ \A f \in Fds : Queued(f)' <=> Queued(f) \/ f = fd
  <2>1. queue \in Seq(Fds) /\ \A i, j \in 1..Len(queue) : queue[i] = queue[j] => i = j
    BY DEF TypeOK, FdOwnership
  <2>2. QED
    BY <1>1, <1>2, <1>3, <2>1, AppendQueued
<1>5. \A f \in Fds : conn'[f] # None <=> conn[f] # None \/ f = fd
  <2>1. Head(backlog) \in Conns
    BY DEF AcceptAndSubmit, TypeOK
  <2>2. QED
    BY <1>1, <1>2, <2>1, NoneAssumption DEF TypeOK
<1>6. \A w \in Workers, f \in Fds : Serves(w, f)' <=> Serves(w, f)
  BY DEF AcceptAndSubmit, Serves
<1>7. QED
  BY <1>3, <1>4, <1>5, <1>6 DEF FdOwnership

(* A descriptor moves from the queue to the worker that takes it. *)
LEMMA TakeOwnership ==
    ASSUME TypeOK, FdOwnership, NEW w \in Workers, TakeTask(w)
    PROVE  FdOwnership'
<1> DEFINE fd == Head(queue)
<1>1. fd \in Fds /\ job \in [Threads -> WorkerJobs \cup RefreshJobs] /\ w \in Threads
  BY ThreadKinds DEF TakeTask, TypeOK
<1>2. /\ \A i, j \in 1..Len(queue') : queue'[i] = queue'[j] => i = j
      /\ \A f \in Fds : Queued(f)' <=> Queued(f) /\ f # fd
      /\ Queued(fd)
  <2>1. /\ queue \in Seq(Fds) /\ queue # <<>> /\ queue' = Tail(queue)
        /\ \A i, j \in 1..Len(queue) : queue[i] = queue[j] => i = j
    BY DEF TakeTask, TypeOK, FdOwnership
  <2>2. QED
    BY <2>1, TailQueued
<1>3. \A f \in Fds : Serves(w, f)' <=> f = fd
  BY <1>1 DEF TakeTask, Serves
<1>4. \A v \in Workers, f \in Fds : v # w => (Serves(v, f)' <=> Serves(v, f))
  BY <1>1, ThreadKinds DEF TakeTask, Serves
<1>5. \A f \in Fds : ~Serves(w, f)
  BY DEF TakeTask, Serves
<1>6. \A v \in Workers : ~Serves(v, fd)
  BY <1>1, <1>2 DEF FdOwnership
<1>7. conn' = conn
  BY DEF TakeTask
<1>8. \A f \in Fds : conn'[f] # None
                     <=> Queued(f)' \/ \E v \in Workers : Serves(v, f)'
  BY <1>2, <1>3, <1>4, <1>5, <1>7 DEF FdOwnership
<1>9. \A v \in Workers, f \in Fds : Serves(v, f)' =>
          ~Queued(f)' /\ \A u \in Workers : Serves(u, f)' => u = v
  BY <1>2, <1>3, <1>4, <1>6 DEF FdOwnership
<1>10. QED
  BY <1>2, <1>8, <1>9 DEF FdOwnership

(* close() frees a number only its own worker has. *)
LEMMA CloseOwnership ==
    ASSUME TypeOK, FdOwnership, NEW w \in Workers, job[w].fd \in Fds,
           Serves(w, job[w].fd), NEW b, CloseFd(w, b), queue' = queue
    PROVE  FdOwnership'
<1> DEFINE fd == job[w].fd
<1>1. job \in [Threads -> WorkerJobs \cup RefreshJobs] /\ w \in Threads
  BY ThreadKinds DEF TypeOK
<1>2. \A f \in Fds : Queued(f)' <=> Queued(f)
  BY DEF Queued
<1>3. \A f \in Fds : ~Serves(w, f)'
  BY <1>1 DEF CloseFd, Serves, Waiting
<1>4. \A v \in Workers, f \in Fds : v # w => (Serves(v, f)' <=> Serves(v, f))
  BY <1>1, ThreadKinds DEF CloseFd, Serves
<1>5. \A f \in Fds : Serves(w, f) <=> f = fd
  BY DEF Serves
<1>6. ~Queued(fd) /\ \A v \in Workers : Serves(v, fd) => v = w
  BY DEF FdOwnership
<1>7. \A f \in Fds : conn'[f] = IF f = fd THEN None ELSE conn[f]
  BY DEF CloseFd, TypeOK
<1>8. \A f \in Fds : conn'[f] # None
                     <=> Queued(f)' \/ \E v \in Workers : Serves(v, f)'
  BY <1>2, <1>3, <1>4, <1>5, <1>6, <1>7 DEF FdOwnership
<1>9. \A v \in Workers, f \in Fds : Serves(v, f)' =>
          ~Queued(f)' /\ \A u \in Workers : Serves(u, f)' => u = v
  BY <1>2, <1>3, <1>4 DEF FdOwnership
<1>10. QED
  BY <1>2, <1>8, <1>9 DEF FdOwnership

LEMMA HandleOwnership ==
    ASSUME TypeOK, FdOwnership, NEW w \in Workers, HandleClient(w)
    PROVE  FdOwnership'
<1>0. JobsOK /\ w \in Threads /\ job \in [Threads -> WorkerJobs \cup RefreshJobs]
  BY TypeHasJobs, ThreadKinds DEF JobsOK
<1>1. job[w].pc \notin {"none", "wait"} => job[w].fd \in Fds /\ Serves(w, job[w].fd)
  BY <1>0, ServingFd DEF JobsOK, Serves
<1>2. CASE TakeTask(w)
  BY <1>2, TakeOwnership
<1>3. CASE RecvFails(w) \/ CloseClient(w)
  <2>1. /\ \E b \in BOOLEAN \cup {LinkOf(w).failed} : CloseFd(w, b)
        /\ queue' = queue /\ job[w].pc \notin {"none", "wait"}
    BY <1>3 DEF RecvFails, CloseClient
  <2>2. QED
    BY <1>1, <2>1, CloseOwnership
<1>4. CASE RefreshThreadFails(w) \/ ResponseKills(w)
  BY <1>4, TerminateOwnership DEF RefreshThreadFails, ResponseKills
<1>5. CASE LookupStale(w)
  <2> DEFINE a == Answering(w, Found(w).state, "Ok", Found(w).arrivals)
             k == [pc |-> "fetch", fd |-> NoFd, req |-> job[w].req]
  <2>1. PICK r \in IdleRefreshers : job' = [job EXCEPT ![w] = a, ![r] = k]
    BY <1>5 DEF LookupStale
  <2>2. r \in Refreshers
    BY <2>1 DEF IdleRefreshers
  <2>3. \A v \in Workers : v # w => job'[v] = job[v]
    BY <1>0, <2>1, <2>2, ThreadKinds
  <2>4. job'[w] = a /\ a.pc = "send" /\ a.fd = job[w].fd
    BY <1>0, <2>1, <2>2, ThreadKinds DEF Answering
  <2>5. \A v \in Workers, f \in Fds : Serves(v, f)' <=> Serves(v, f)
    BY <1>5, <2>3, <2>4 DEF LookupStale, Serves
  <2>6. QED
    BY <1>5, <2>5, OwnershipKept DEF LookupStale
<1>6. CASE \/ RecvRequest(w) \/ LookupFresh(w) \/ LookupMiss(w)
           \/ SendResponse(w) \/ ResponseFails(w)
  <2>1. /\ queue' = queue /\ conn' = conn
        /\ job[w].pc \notin {"none", "wait"}
    BY <1>6 DEF RecvRequest, LookupFresh, LookupMiss, SendResponse, ResponseFails
  <2>2. \A v \in Workers : v # w => job'[v] = job[v]
    BY <1>0, <1>6, ThreadKinds
    DEF RecvRequest, LookupFresh, LookupMiss, SendResponse, ResponseFails
  <2>3. job'[w].pc \notin {"none", "wait"} /\ job'[w].fd = job[w].fd
    <3>1. CASE RecvRequest(w) \/ LookupFresh(w) \/ SendResponse(w) \/ ResponseFails(w)
      BY <1>0, <3>1 DEF RecvRequest, LookupFresh, Answering, SendResponse, ResponseFails
    <3>2. CASE LookupMiss(w)
      <4>1. job[w] \in [pc : {"lookup"}, fd : Fds, req : Requests]
        BY <1>0, <3>2, WorkerShape DEF LookupMiss, JobsOK
      <4>2. job'[w] = [job[w] EXCEPT !.pc = "fetch"]
        BY <1>0, <3>2 DEF LookupMiss
      <4>3. QED
        BY <4>1, <4>2
    <3>3. QED
      BY <1>6, <3>1, <3>2
  <2>4. \A v \in Workers, f \in Fds : Serves(v, f)' <=> Serves(v, f)
    BY <2>1, <2>2, <2>3 DEF Serves
  <2>5. QED
    BY <2>1, <2>4, OwnershipKept
<1>7. QED
  BY <1>2, <1>3, <1>4, <1>5, <1>6 DEF HandleClient

LEMMA FetchOwnership ==
    ASSUME TypeOK, FdOwnership, NEW t \in Threads, Fetch(t)
    PROVE  FdOwnership'
<1>0. /\ JobsOK /\ job[t].pc \in {"fetch", "assign", "sweep"}
      /\ queue' = queue /\ conn' = conn
  BY TypeHasJobs DEF Fetch, FetchFails, FetchSucceeds, PutAssign, RemoveStaleEntries
<1>1. /\ \A w \in Workers : w # t => job'[w] = job[w]
      /\ t \in Workers => job'[t].pc \notin {"none", "wait"} /\ job'[t].fd = job[t].fd
  <2>1. job \in [Threads -> WorkerJobs \cup RefreshJobs] /\ Workers \subseteq Threads
    BY <1>0, ThreadKinds DEF JobsOK
  <2>2. CASE FetchFails(t) \/ FetchSucceeds(t) \/ RemoveStaleEntries(t)
    BY <2>1, <2>2
    DEF FetchFails, FetchSucceeds, RemoveStaleEntries, Return, Answering
  <2>3. CASE PutAssign(t)
    <3>1. job[t] = [pc |-> job[t].pc, fd |-> job[t].fd, req |-> job[t].req,
                    entry |-> job[t].entry]
      BY <1>0, <2>3, FetchShape DEF PutAssign
    <3>2. job' = [job EXCEPT ![t] = [job[t] EXCEPT !.pc = "sweep"]]
      BY <2>3 DEF PutAssign
    <3>3. QED
      BY <2>1, <3>1, <3>2
  <2>4. QED
    BY <2>2, <2>3 DEF Fetch
<1>2. \A w \in Workers, f \in Fds : Serves(w, f)' <=> Serves(w, f)
  BY <1>0, <1>1, HoldKept
<1>3. QED
  BY <1>0, <1>2, OwnershipKept

(* A server that is down cannot make a step but Restart: a worker that is  *)
(* not waiting has a descriptor with a connection behind it.               *)
LEMMA DownKept ==
    ASSUME TypeOK, FdOwnership, DownInv,
           \/ Tick \/ AcceptAndSubmit \/ \E c \in Clients : Query(c)
           \/ \E w \in Workers : HandleClient(w)
           \/ \E t \in Threads : Fetch(t)
    PROVE  DownInv'
<1>1. CASE Tick \/ AcceptAndSubmit
  BY <1>1 DEF Tick, AcceptAndSubmit, DownInv
<1>2. ASSUME NEW c \in Clients, Query(c) PROVE DownInv'
  <2>1. UNCHANGED <<up, queue, conn>>
    BY <1>2 DEF Query, Connect, ConnectFails, SendRequest, SendFails, Receive, GiveUp
  <2>2. QED
    BY <2>1 DEF DownInv
<1>3. CASE \E t \in Threads : Fetch(t)
  BY <1>3 DEF Fetch, FetchFails, FetchSucceeds, PutAssign, RemoveStaleEntries, DownInv
<1>4. ASSUME NEW w \in Workers, HandleClient(w) PROVE DownInv'
  <2>1. CASE Terminate
    BY <2>1, TerminateOwnership
  <2>2. CASE TakeTask(w)
    BY <2>2 DEF TakeTask, DownInv
  <2>3. CASE RecvFails(w) \/ CloseClient(w)
    <3>1. job[w] \in WorkerJobs /\ job[w].pc \notin {"none", "wait"}
      BY <2>3 DEF RecvFails, CloseClient, TypeOK
    <3>2. job[w].fd \in Fds /\ Serves(w, job[w].fd)
      BY <3>1, ServingFd DEF Serves
    <3>3. conn[job[w].fd] # None
      BY <3>2 DEF FdOwnership
    <3>4. up' = up
      BY <2>3 DEF RecvFails, CloseClient
    <3>5. QED
      BY <3>2, <3>3, <3>4 DEF DownInv
  <2>4. CASE UNCHANGED <<up, queue, conn>>
    BY <2>4 DEF DownInv
  <2>5. QED
    BY <1>4, <2>1, <2>2, <2>3, <2>4
    DEF HandleClient, RecvRequest, LookupFresh, LookupStale, LookupMiss, SendResponse,
        ResponseFails, ResponseKills, RefreshThreadFails
<1>5. QED
  BY <1>1, <1>2, <1>3, <1>4

-----------------------------------------------------------------------------
(* The three together are inductive: a step of handle_client keeps the     *)
(* types because its descriptor has a connection behind it, and a restart  *)
(* keeps the ownership because a server that is down holds nothing.        *)
ServerInv == TypeOK /\ FdOwnership /\ DownInv

LEMMA NextServerInv == ServerInv /\ [Next]_vars => ServerInv'
<1> SUFFICES ASSUME ServerInv, [Next]_vars PROVE ServerInv'
  OBVIOUS
<1>0. TypeOK /\ FdOwnership /\ DownInv
  BY DEF ServerInv
<1>1. CASE Tick
  <2>1. FdOwnership'
    <3>1. \A w \in Workers, f \in Fds : Serves(w, f)' <=> Serves(w, f)
      BY <1>1 DEF Tick, Serves
    <3>2. QED
      BY <1>0, <1>1, <3>1, OwnershipKept DEF Tick
  <2>2. TypeOK'
    BY <1>0, <1>1, MainTypeOK
  <2>3. DownInv'
    BY <1>0, <1>1, DownKept
  <2>4. QED
    BY <2>1, <2>2, <2>3 DEF ServerInv
<1>2. CASE Restart
  <2>1. TypeOK'
    BY <1>0, <1>2, MainTypeOK
  <2>2. QED
    BY <1>0, <1>2, <2>1, RestartOwnership DEF ServerInv
<1>3. CASE AcceptAndSubmit
  <2>1. TypeOK'
    BY <1>0, <1>3, MainTypeOK
  <2>2. FdOwnership'
    BY <1>0, <1>3, AcceptOwnership
  <2>3. DownInv'
    BY <1>0, <1>3, DownKept
  <2>4. QED
    BY <2>1, <2>2, <2>3 DEF ServerInv
<1>4. ASSUME NEW c \in Clients, Query(c) PROVE ServerInv'
  <2>1. FdOwnership'
    <3>1. queue' = queue /\ conn' = conn /\ job' = job
      BY <1>4 DEF Query, Connect, ConnectFails, SendRequest, SendFails, Receive, GiveUp
    <3>2. \A w \in Workers, f \in Fds : Serves(w, f)' <=> Serves(w, f)
      BY <3>1 DEF Serves
    <3>3. QED
      BY <1>0, <3>1, <3>2, OwnershipKept
  <2>2. TypeOK'
    BY <1>0, <1>4, QueryTypeOK
  <2>3. DownInv'
    BY <1>0, <1>4, DownKept
  <2>4. QED
    BY <2>1, <2>2, <2>3 DEF ServerInv
<1>5. ASSUME NEW w \in Workers, HandleClient(w) PROVE ServerInv'
  <2>1. TypeOK'
    BY <1>0, <1>5, HandleTypeOK
  <2>2. FdOwnership'
    BY <1>0, <1>5, HandleOwnership
  <2>3. DownInv'
    BY <1>0, <1>5, DownKept
  <2>4. QED
    BY <2>1, <2>2, <2>3 DEF ServerInv
<1>6. ASSUME NEW t \in Threads, Fetch(t) PROVE ServerInv'
  <2>1. TypeOK'
    BY <1>0, <1>6, FetchTypeOK
  <2>2. FdOwnership'
    BY <1>0, <1>6, FetchOwnership
  <2>3. DownInv'
    BY <1>0, <1>6, DownKept
  <2>4. QED
    BY <2>1, <2>2, <2>3 DEF ServerInv
<1>7. CASE UNCHANGED vars
  BY <1>0, <1>7 DEF vars, ServerInv, TypeOK, FdOwnership, Queued, Serves, DownInv
<1>8. QED
  BY <1>1, <1>2, <1>3, <1>4, <1>5, <1>6, <1>7 DEF Next

THEOREM ServerInvariant == Spec => []ServerInv
<1>1. Init => ServerInv
  BY InitTypeOK, InitOwnership DEF ServerInv
<1>2. QED
  BY <1>1, NextServerInv, PTL DEF Spec

(* The state has the declared shape at all times.                          *)
THEOREM TypeCorrect == Spec => []TypeOK
<1>1. ServerInv => TypeOK
  BY DEF ServerInv
<1>2. QED
  BY <1>1, ServerInvariant, PTL

(* No path through handle_client leaks a descriptor or closes it twice,    *)
(* and no two workers ever serve the same one: every accepted descriptor   *)
(* is once in the task queue or with one worker, for any number of         *)
(* workers, clients and descriptors, whatever crashes in between.          *)
THEOREM DescriptorsHaveOneOwner == Spec => []FdOwnership
<1>1. ServerInv => FdOwnership
  BY DEF ServerInv
<1>2. QED
  BY <1>1, ServerInvariant, PTL

-----------------------------------------------------------------------------
(* The request on a connection is written once: a client that has not sent *)
(* anything yet finds it empty, and so are the connections it has not made.*)
NotYetAsked ==
    \A c \in Clients, k \in 1..MaxQueries :
        \/ k > client[c].k
        \/ k = client[c].k /\ client[c].pc = "connected"
        => link[<<c, k>>].req = None

(* A worker's copy of the request is the one its connection carries. *)
HandlesRequest(w) ==
    job[w].pc \in {"lookup", "fetch", "assign", "sweep"} =>
        LinkOf(w).req = job[w].req

(* An entry on its way into the cache is about the stop it goes under. *)
CarriesEntry(t) ==
    job[t].pc \in {"assign", "sweep"} =>
        job[t].entry.arrivals.stop = UpstreamStop(job[t].req.stop)

(* So is an answer about to be sent; one without arrivals is a failure. *)
HoldsAnswer(w) ==
    job[w].pc = "send" =>
        /\ LinkOf(w).req \in Requests
        /\ IF job[w].status = "Ok"
           THEN /\ job[w].arrivals \in Answers
                /\ job[w].arrivals.stop = UpstreamStop(LinkOf(w).req.stop)
           ELSE job[w].arrivals = NothingFetched

JobSound(t) ==
    /\ CarriesEntry(t)
    /\ t \in Workers => HandlesRequest(t) /\ HoldsAnswer(t)

AnswerInv ==
    /\ NotYetAsked
    /\ \A t \in Threads : JobSound(t)
    /\ NoFailedFetchCached
    /\ AnswerIsForRequest
    /\ AnswerShape

-----------------------------------------------------------------------------
(* What a step leaves alone.                                               *)
RequestsKept ==
    \A d \in Conns : link[d].req # None => link'[d].req = link[d].req

ResponsesKept == \A d \in Conns : link'[d].resp = link[d].resp

Busy(w) == job[w].pc \notin {"none", "wait"}

LEMMA BusyConn ==
    ASSUME ServerInv, NEW w \in Workers, Busy(w)
    PROVE  /\ job[w].fd \in Fds /\ conn[job[w].fd] \in Conns
           /\ Serves(w, job[w].fd) /\ LinkOf(w) \in Links
<1>1. job[w] \in WorkerJobs /\ conn \in [Fds -> Conns \cup {None}]
      /\ link \in [Conns -> Links] /\ FdOwnership
  BY DEF ServerInv, TypeOK
<1>2. job[w].fd \in Fds /\ Serves(w, job[w].fd)
  BY <1>1, ServingFd DEF Busy, Serves
<1>3. conn[job[w].fd] # None
  BY <1>1, <1>2 DEF FdOwnership
<1>4. QED
  BY <1>1, <1>2, <1>3 DEF LinkOf

LEMMA AnswersCount == \A a \in Answers : a.count \in Nat /\ a.count > 0
<1>1. \A n \in Counts : n \in Nat /\ n > 0
  BY ServerAssumption
<1>2. \A a \in Answers : a.count \in Counts
  BY DEF Answers
<1>3. QED
  BY <1>1, <1>2

LEMMA RequestIsThere == \A r \in Requests : r # None
  BY NoneAssumption

(* A thread that does not move stays sound if its connection and the       *)
(* request on it stay.                                                     *)
LEMMA SoundKept ==
    ASSUME ServerInv, RequestsKept, NEW t \in Threads, JobSound(t),
           job'[t] = job[t],
           t \in Workers /\ Busy(t) => conn'[job[t].fd] = conn[job[t].fd]
    PROVE  JobSound(t)'
<1>1. CarriesEntry(t)'
  BY DEF JobSound, CarriesEntry
<1>2. ASSUME t \in Workers PROVE HandlesRequest(t)' /\ HoldsAnswer(t)'
  <2>1. job[t] \in WorkerJobs
    BY <1>2 DEF ServerInv, TypeOK
  <2>2. CASE job[t].pc \in {"lookup", "fetch", "assign", "sweep"}
    <3>1. job[t].req \in Requests
      BY <2>1, <2>2, WorkerShape
    <3>2. LinkOf(t).req = job[t].req /\ LinkOf(t).req # None
      BY <1>2, <2>2, <3>1, RequestIsThere DEF JobSound, HandlesRequest
    <3>3. Busy(t) /\ conn[job[t].fd] \in Conns
      BY <1>2, <2>2, BusyConn DEF Busy
    <3>4. LinkOf(t)' = link'[conn[job[t].fd]]
      BY <1>2, <3>3 DEF LinkOf
    <3>5. LinkOf(t)'.req = job[t].req
      BY <3>2, <3>3, <3>4 DEF RequestsKept, LinkOf
    <3>6. QED
      BY <2>2, <3>5 DEF HandlesRequest, HoldsAnswer
  <2>3. CASE job[t].pc = "send"
    <3>1. LinkOf(t).req \in Requests /\ LinkOf(t).req # None
      BY <1>2, <2>3, RequestIsThere DEF JobSound, HoldsAnswer
    <3>2. Busy(t) /\ conn[job[t].fd] \in Conns
      BY <1>2, <2>3, BusyConn DEF Busy
    <3>3. LinkOf(t)' = link'[conn[job[t].fd]]
      BY <1>2, <3>2 DEF LinkOf
    <3>4. LinkOf(t)'.req = LinkOf(t).req
      BY <3>1, <3>2, <3>3 DEF RequestsKept, LinkOf
    <3>5. QED
      BY <1>2, <2>3, <3>4 DEF JobSound, HandlesRequest, HoldsAnswer
  <2>4. CASE job[t].pc \notin {"lookup", "fetch", "assign", "sweep", "send"}
    BY <2>4 DEF HandlesRequest, HoldsAnswer
  <2>5. QED
    BY <2>2, <2>3, <2>4
<1>3. QED
  BY <1>1, <1>2 DEF JobSound

(* Sent answers stay what they were.                                       *)
LEMMA AnswersKept ==
    ASSUME AnswerIsForRequest, AnswerShape, RequestsKept, ResponsesKept
    PROVE  AnswerIsForRequest' /\ AnswerShape'
<1>1. AnswerShape'
  BY DEF AnswerShape, ResponsesKept
<1>2. AnswerIsForRequest'
  BY DEF AnswerIsForRequest, ResponsesKept, RequestsKept
<1>3. QED
  BY <1>1, <1>2

(* Steps at one end of a connection. *)
LEMMA EndsOnly ==
    ASSUME TypeOK, NEW x, NEW e,
           \/ link' = link
           \/ link' = [link EXCEPT ![x].server = e]
           \/ link' = [link EXCEPT ![x].client = e]
           \/ link' = [link EXCEPT ![x].failed = e]
           \/ link' = [link EXCEPT ![x] = [@ EXCEPT !.server = "closed", !.failed = e]]
    PROVE  /\ \A d \in Conns : link'[d].req = link[d].req
           /\ RequestsKept /\ ResponsesKept
<1>1. link \in [Conns -> Links]
  BY DEF TypeOK
<1>2. \A d \in Conns : link'[d].req = link[d].req /\ link'[d].resp = link[d].resp
  <2>1. CASE link' = link
    BY <2>1
  <2>2. CASE link' = [link EXCEPT ![x].server = e]
    <3>1. \A d \in Conns : link'[d] = IF d = x THEN [link[d] EXCEPT !.server = e] ELSE link[d]
      BY <1>1, <2>2
    <3>2. QED
      BY <1>1, <3>1 DEF Links
  <2>3. CASE link' = [link EXCEPT ![x].client = e]
    <3>1. \A d \in Conns : link'[d] = IF d = x THEN [link[d] EXCEPT !.client = e] ELSE link[d]
      BY <1>1, <2>3
    <3>2. QED
      BY <1>1, <3>1 DEF Links
  <2>4. CASE link' = [link EXCEPT ![x].failed = e]
    <3>1. \A d \in Conns : link'[d] = IF d = x THEN [link[d] EXCEPT !.failed = e] ELSE link[d]
      BY <1>1, <2>4
    <3>2. QED
      BY <1>1, <3>1 DEF Links
  <2>5. CASE link' = [link EXCEPT ![x] = [@ EXCEPT !.server = "closed", !.failed = e]]
    <3>1. \A d \in Conns :
            link'[d] = IF d = x THEN [link[d] EXCEPT !.server = "closed", !.failed = e]
                       ELSE link[d]
      BY <1>1, <2>5
    <3>2. QED
      BY <1>1, <3>1 DEF Links
  <2>6. QED
    BY <2>1, <2>2, <2>3, <2>4, <2>5
<1>3. QED
  BY <1>2 DEF RequestsKept, ResponsesKept

LEMMA NotYetAskedKept ==
    ASSUME NotYetAsked, client' = client,
           \A d \in Conns : link'[d].req = link[d].req
    PROVE  NotYetAsked'
  BY DEF NotYetAsked, Conns

-----------------------------------------------------------------------------
LEMMA InitAnswerInv == Init => AnswerInv
<1> SUFFICES ASSUME Init PROVE AnswerInv
  OBVIOUS
<1>1. NotYetAsked
  BY DEF Init, NotYetAsked, Conns, ClosedLink
<1>2. \A t \in Threads : JobSound(t)
  <2>1. \A t \in Threads : job[t].pc \in {"none", "wait"}
    BY DEF Init, AtStart, Waiting, NoJob
  <2>2. QED
    BY <2>1 DEF JobSound, CarriesEntry, HandlesRequest, HoldsAnswer
<1>3. NoFailedFetchCached
  BY DEF Init, EmptyCache, NoFailedFetchCached
<1>4. \A d \in Conns : link[d].resp = None
  BY DEF Init, ClosedLink
<1>5. QED
  BY <1>1, <1>2, <1>3, <1>4 DEF AnswerInv, AnswerIsForRequest, AnswerShape

(* Jobs that have nothing to do with a request, after a crash or restart. *)
LEMMA IdleSound ==
    ASSUME \A t \in Threads : job'[t].pc \in {"none", "wait"}
    PROVE  \A t \in Threads : JobSound(t)'
  BY DEF JobSound, CarriesEntry, HandlesRequest, HoldsAnswer

LEMMA TerminateAnswers ==
    ASSUME TypeOK, AnswerInv, Terminate
    PROVE  AnswerInv'
<1>1. \A d \in Conns : link'[d].req = link[d].req /\ link'[d].resp = link[d].resp
  <2>1. \A d \in Conns : link[d] \in Links
    BY DEF TypeOK
  <2>2. \A d \in Conns : \/ link'[d] = link[d]
                         \/ link'[d] = [link[d] EXCEPT !.server = "reset"]
    BY DEF Terminate
  <2>3. QED
    BY <2>1, <2>2 DEF Links
<1>2. NotYetAsked' /\ AnswerIsForRequest' /\ AnswerShape'
  BY <1>1, NotYetAskedKept, AnswersKept
  DEF Terminate, AnswerInv, RequestsKept, ResponsesKept
<1>3. \A t \in Threads : JobSound(t)'
  <2>1. \A t \in Threads : job'[t].pc \in {"none", "wait"}
    BY DEF Terminate, NoJob
  <2>2. QED
    BY <2>1, IdleSound
<1>4. NoFailedFetchCached'
  BY DEF Terminate, EmptyCache, NoFailedFetchCached
<1>5. QED
  BY <1>2, <1>3, <1>4 DEF AnswerInv

LEMMA MainAnswers ==
    ASSUME ServerInv, AnswerInv, Tick \/ Restart \/ AcceptAndSubmit
    PROVE  AnswerInv'
<1>1. NoFailedFetchCached' /\ client' = client
  BY DEF Tick, Restart, AcceptAndSubmit, AnswerInv, NoFailedFetchCached
<1>2. /\ \A d \in Conns : link'[d].req = link[d].req
      /\ RequestsKept /\ ResponsesKept
  <2>1. TypeOK
    BY DEF ServerInv
  <2>2. link' = link \/ link' = [link EXCEPT ![Head(backlog)].server = "open"]
    BY DEF Tick, Restart, AcceptAndSubmit
  <2>3. QED
    BY <2>1, <2>2, EndsOnly
<1>3. NotYetAsked' /\ AnswerIsForRequest' /\ AnswerShape'
  BY <1>1, <1>2, NotYetAskedKept, AnswersKept DEF AnswerInv
<1>4. \A t \in Threads : JobSound(t)'
  <2>1. CASE Restart
    <3>1. \A t \in Threads : job'[t].pc \in {"none", "wait"}
      BY <2>1 DEF Restart, AtStart, NoJob, Waiting
    <3>2. QED
      BY <3>1, IdleSound
  <2>2. CASE Tick \/ AcceptAndSubmit
    <3> SUFFICES ASSUME NEW t \in Threads PROVE JobSound(t)'
      OBVIOUS
    <3>1. job'[t] = job[t] /\ JobSound(t)
      BY <2>2 DEF Tick, AcceptAndSubmit, AnswerInv
    <3>2. ASSUME t \in Workers, Busy(t) PROVE conn'[job[t].fd] = conn[job[t].fd]
      <4>1. job[t].fd \in Fds /\ conn[job[t].fd] # None
        BY <3>2, BusyConn, NoneAssumption
      <4>2. CASE Tick
        BY <4>2 DEF Tick
      <4>3. CASE AcceptAndSubmit
        <5>1. PICK fd \in FreeFds : conn' = [conn EXCEPT ![fd] = Head(backlog)]
          BY <4>3 DEF AcceptAndSubmit
        <5>2. fd # job[t].fd
          BY <4>1 DEF FreeFds
        <5>3. QED
          BY <4>1, <5>1, <5>2 DEF ServerInv, TypeOK
      <4>4. QED
        BY <2>2, <4>2, <4>3
    <3>3. QED
      BY <1>2, <3>1, <3>2, SoundKept
  <2>3. QED
    BY <2>1, <2>2
<1>5. QED
  BY <1>1, <1>3, <1>4 DEF AnswerInv

LEMMA QueryAnswers ==
    ASSUME ServerInv, AnswerInv, NEW c \in Clients, Query(c)
    PROVE  AnswerInv'
<1>0. /\ TypeOK /\ NotYetAsked /\ job' = job /\ conn' = conn /\ cache' = cache
      /\ client[c] \in [pc : {"idle", "connected", "awaiting"}, k : 0..MaxQueries]
      /\ link \in [Conns -> Links]
      /\ client \in [Clients ->
                        [pc : {"idle", "connected", "awaiting"}, k : 0..MaxQueries]]
  BY DEF ServerInv, TypeOK, AnswerInv, Query, Connect, ConnectFails, SendRequest,
         SendFails, Receive, GiveUp
<1>1. RequestsKept /\ ResponsesKept /\ NotYetAsked'
  <2>1. CASE \E req \in Requests : SendRequest(c, req)
    <3>1. PICK req \in Requests : SendRequest(c, req)
      BY <2>1
    <3>2. /\ client[c].pc = "connected"
          /\ link' = [link EXCEPT ![ConnOf(c)].req = req]
          /\ client' = [client EXCEPT ![c].pc = "awaiting"]
      BY <3>1 DEF SendRequest, Goes
    <3>3. \A d \in Conns :
            link'[d] = IF d = ConnOf(c) THEN [link[d] EXCEPT !.req = req] ELSE link[d]
      BY <1>0, <3>2
    <3>4. ResponsesKept
      BY <1>0, <3>3 DEF Links, ResponsesKept
    <3>5. ConnOf(c) \in Conns => link[ConnOf(c)].req = None
      BY <1>0, <3>2 DEF NotYetAsked, ConnOf, Conns
    <3>6. RequestsKept
      BY <1>0, <3>3, <3>5 DEF RequestsKept
    <3>7. /\ client'[c].k = client[c].k /\ client'[c].pc = "awaiting"
          /\ \A d \in Clients : d # c => client'[d] = client[d]
      BY <1>0, <3>2
    <3>8. ASSUME NEW d \in Clients, NEW k \in 1..MaxQueries,
                 \/ k > client'[d].k
                 \/ k = client'[d].k /\ client'[d].pc = "connected"
          PROVE  link'[<<d, k>>].req = None
      <4>1. <<d, k>> # ConnOf(c)
        BY <1>0, <3>7, <3>8 DEF ConnOf
      <4>2. link'[<<d, k>>] = link[<<d, k>>]
        BY <3>3, <4>1 DEF Conns
      <4>3. \/ k > client[d].k
            \/ k = client[d].k /\ client[d].pc = "connected"
        BY <3>7, <3>8
      <4>4. QED
        BY <1>0, <4>2, <4>3 DEF NotYetAsked
    <3>9. NotYetAsked'
      BY <3>8 DEF NotYetAsked
    <3>10. QED
      BY <3>4, <3>6, <3>9
  <2>2. CASE \/ Connect(c) \/ ConnectFails(c) \/ SendFails(c)
             \/ Receive(c) \/ GiveUp(c)
    <3>1. \E x : link' = link \/ link' = [link EXCEPT ![x].client = "open"]
                 \/ link' = [link EXCEPT ![x].client = "closed"]
      BY <2>2 DEF Connect, ConnectFails, SendFails, Receive, GiveUp, HangUp
    <3>2. (\A d \in Conns : link'[d].req = link[d].req) /\ RequestsKept /\ ResponsesKept
      BY <1>0, <3>1, EndsOnly
    <3>3. /\ \A d \in Clients : d # c => client'[d] = client[d]
          /\ \/ client'[c].k = client[c].k + 1 /\ client'[c].pc \in {"idle", "connected"}
             \/ client'[c].k = client[c].k /\ client'[c].pc = "idle"
      <4>1. CASE Connect(c)
        BY <1>0, <4>1 DEF Connect
      <4>2. CASE ConnectFails(c)
        BY <1>0, <4>2 DEF ConnectFails
      <4>3. CASE SendFails(c) \/ Receive(c) \/ GiveUp(c)
        BY <1>0, <4>3 DEF SendFails, Receive, GiveUp, Goes
      <4>4. QED
        BY <2>2, <4>1, <4>2, <4>3
    <3>4. ASSUME NEW d \in Clients, NEW k \in 1..MaxQueries,
                 \/ k > client'[d].k
                 \/ k = client'[d].k /\ client'[d].pc = "connected"
          PROVE  \/ k > client[d].k
                 \/ k = client[d].k /\ client[d].pc = "connected"
      BY <1>0, <3>3, <3>4
    <3>5. NotYetAsked'
      BY <1>0, <3>2, <3>4 DEF NotYetAsked, Conns
    <3>6. QED
      BY <3>2, <3>5
  <2>3. QED
    BY <2>1, <2>2 DEF Query
<1>2. \A t \in Threads : JobSound(t)'
  <2>1. \A t \in Threads : JobSound(t)
    BY DEF AnswerInv
  <2>2. QED
    BY <1>0, <1>1, <2>1, SoundKept
<1>3. AnswerIsForRequest' /\ AnswerShape' /\ NoFailedFetchCached'
  BY <1>0, <1>1, AnswersKept DEF AnswerInv, NoFailedFetchCached
<1>4. QED
  BY <1>1, <1>2, <1>3 DEF AnswerInv

-----------------------------------------------------------------------------
(* Steps of handle_client.  No step of one worker touches the connection   *)
(* of another: they would have to have the same descriptor.                *)
LEMMA OthersConn ==
    ASSUME ServerInv, NEW w \in Workers, HandleClient(w), ~Terminate,
           NEW v \in Workers, v # w, Busy(v)
    PROVE  conn'[job[v].fd] = conn[job[v].fd]
<1>1. CASE RecvFails(w) \/ CloseClient(w)
  <2>1. Busy(w) /\ conn' = [conn EXCEPT ![job[w].fd] = None]
    BY <1>1 DEF RecvFails, CloseClient, CloseFd, Busy
  <2>2. /\ job[w].fd \in Fds /\ Serves(w, job[w].fd)
        /\ job[v].fd \in Fds /\ Serves(v, job[v].fd)
    BY <2>1, BusyConn
  <2>3. job[v].fd # job[w].fd
    BY <2>2 DEF ServerInv, FdOwnership
  <2>4. QED
    BY <2>1, <2>2, <2>3 DEF ServerInv, TypeOK
<1>2. CASE conn' = conn
  BY <1>2
<1>3. QED
  BY <1>1, <1>2
  DEF HandleClient, TakeTask, RecvRequest, LookupFresh, LookupStale, LookupMiss,
      SendResponse, ResponseFails, ResponseKills, RefreshThreadFails

(* The sweep and the lookup only use what the cache holds. *)
LEMMA HandleKeepsCache ==
    ASSUME NEW w \in Workers, HandleClient(w), ~Terminate
    PROVE  cache' = cache /\ client' = client
  BY DEF HandleClient, TakeTask, RecvRequest, RecvFails, CloseClient, LookupFresh,
         LookupStale, LookupMiss, SendResponse, ResponseFails, ResponseKills,
         RefreshThreadFails

(* The worker's own next job. *)
LEMMA HandleOwnJob ==
    ASSUME ServerInv, AnswerInv, NEW w \in Workers, HandleClient(w), ~Terminate
    PROVE  JobSound(w)'
<1>0. /\ w \in Threads /\ JobSound(w)
      /\ job \in [Threads -> WorkerJobs \cup RefreshJobs] /\ job[w] \in WorkerJobs
      /\ TypeOK /\ JobsOK
  BY ThreadKinds, TypeHasJobs DEF AnswerInv, ServerInv, TypeOK
<1>1. CASE \/ TakeTask(w) \/ RecvFails(w) \/ CloseClient(w)
           \/ SendResponse(w) \/ ResponseFails(w)
  <2>1. job'[w].pc \in {"recv", "wait", "close"}
    BY <1>0, <1>1
    DEF TakeTask, RecvFails, CloseClient, CloseFd, Waiting, SendResponse, ResponseFails
  <2>2. QED
    BY <2>1 DEF JobSound, CarriesEntry, HandlesRequest, HoldsAnswer
<1>2. CASE RecvRequest(w)
  <2>1. /\ job'[w] = [pc |-> "lookup", fd |-> job[w].fd, req |-> LinkOf(w).req]
        /\ conn' = conn /\ link' = link
    BY <1>0, <1>2 DEF RecvRequest
  <2>2. LinkOf(w)' = LinkOf(w)
    BY <2>1 DEF LinkOf
  <2>3. QED
    BY <2>1, <2>2 DEF JobSound, CarriesEntry, HandlesRequest, HoldsAnswer
<1>3. CASE LookupMiss(w)
  <2>1. job[w] \in [pc : {"lookup"}, fd : Fds, req : Requests]
        /\ conn' = conn /\ link' = link
        /\ job' = [job EXCEPT ![w] = [job[w] EXCEPT !.pc = "fetch"]]
    BY <1>0, <1>3, WorkerShape DEF LookupMiss
  <2>2. /\ job'[w].pc = "fetch" /\ job'[w].fd = job[w].fd
        /\ job'[w].req = job[w].req
    BY <1>0, <2>1
  <2>3. LinkOf(w)' = LinkOf(w) /\ LinkOf(w).req = job[w].req
    BY <1>0, <1>3, <2>1, <2>2 DEF LinkOf, LookupMiss, JobSound, HandlesRequest
  <2>4. QED
    BY <2>2, <2>3 DEF JobSound, CarriesEntry, HandlesRequest, HoldsAnswer
<1>4. CASE LookupFresh(w) \/ LookupStale(w)
  <2> DEFINE a == Answering(w, Found(w).state, "Ok", Found(w).arrivals)
  <2>1. job[w].pc = "lookup" /\ Found(w).state # "CACHE_MISS"
        /\ conn' = conn /\ link' = link
    BY <1>4 DEF LookupFresh, LookupStale
  <2>2. job[w].req \in Requests /\ job[w].req.stop \in Stops
    BY <1>0, <2>1, WorkerShape DEF Requests
  <2>3. /\ job[w].req.stop \in DOMAIN cache
        /\ Found(w).arrivals = cache[job[w].req.stop].arrivals
        /\ Found(w).arrivals \in Answers
    BY <1>0, <2>1, <2>2, LookupTypes DEF Found
  <2>4. Found(w).arrivals.stop = UpstreamStop(job[w].req.stop)
    BY <2>3 DEF AnswerInv, NoFailedFetchCached
  <2>5. job'[w] = a
    <3>1. CASE LookupFresh(w)
      BY <1>0, <3>1 DEF LookupFresh
    <3>2. CASE LookupStale(w)
      <4>1. PICK r \in IdleRefreshers :
              job' = [job EXCEPT ![w] = a,
                                 ![r] = [pc |-> "fetch", fd |-> NoFd, req |-> job[w].req]]
        BY <3>2 DEF LookupStale
      <4>2. r # w
        BY <4>1, ThreadKinds DEF IdleRefreshers
      <4>3. QED
        BY <1>0, <4>1, <4>2
    <3>3. QED
      BY <1>4, <3>1, <3>2
  <2>6. /\ job'[w].pc = "send" /\ job'[w].fd = job[w].fd /\ job'[w].status = "Ok"
        /\ job'[w].arrivals = Found(w).arrivals
    BY <2>5 DEF Answering
  <2>7. LinkOf(w)' = LinkOf(w) /\ LinkOf(w).req = job[w].req
    BY <1>0, <2>1, <2>6 DEF LinkOf, JobSound, HandlesRequest
  <2>8. QED
    BY <2>2, <2>3, <2>4, <2>6, <2>7
    DEF JobSound, CarriesEntry, HandlesRequest, HoldsAnswer
<1>5. QED
  BY <1>1, <1>2, <1>3, <1>4
  DEF HandleClient, ResponseKills, RefreshThreadFails

(* A refresh thread starts without an entry; the others do not move. *)
LEMMA HandleOtherJobs ==
    ASSUME ServerInv, NEW w \in Workers, HandleClient(w), ~Terminate,
           NEW t \in Threads, t # w
    PROVE  job'[t] = job[t] \/ (t \in Refreshers /\ job'[t].pc = "fetch")
<1>0. job \in [Threads -> WorkerJobs \cup RefreshJobs]
  BY DEF ServerInv, TypeOK
<1>1. CASE LookupStale(w)
  <2>1. PICK r \in IdleRefreshers :
          job' = [job EXCEPT ![w] = Answering(w, Found(w).state, "Ok", Found(w).arrivals),
                             ![r] = [pc |-> "fetch", fd |-> NoFd, req |-> job[w].req]]
    BY <1>1 DEF LookupStale
  <2>2. r \in Refreshers /\ r \in Threads
    BY <2>1, ThreadKinds DEF IdleRefreshers
  <2>3. QED
    BY <1>0, <2>1, <2>2
<1>2. CASE ~LookupStale(w)
  BY <1>0, <1>2
  DEF HandleClient, TakeTask, RecvRequest, RecvFails, CloseClient, CloseFd, LookupFresh,
      LookupMiss, SendResponse, ResponseFails, ResponseKills, RefreshThreadFails
<1>3. QED
  BY <1>1, <1>2

(* What is sent is the answer the worker holds. *)
LEMMA HandleLinks ==
    ASSUME ServerInv, AnswerInv, NEW w \in Workers, HandleClient(w), ~Terminate
    PROVE  /\ \A d \in Conns : link'[d].req = link[d].req
           /\ RequestsKept
           /\ AnswerIsForRequest' /\ AnswerShape'
<1>0. TypeOK /\ AnswerIsForRequest /\ AnswerShape /\ link \in [Conns -> Links]
  BY DEF ServerInv, TypeOK, AnswerInv
<1>1. CASE SendResponse(w)
  <2> DEFINE resp == Response(job[w].status, job[w].arrivals)
             x == conn[job[w].fd]
  <2>1. Busy(w) /\ job[w].pc = "send" /\ link' = [link EXCEPT ![x].resp = resp]
    BY <1>1 DEF SendResponse, Busy
  <2>2. x \in Conns /\ LinkOf(w) = link[x]
    BY <2>1, BusyConn DEF LinkOf
  <2>3. \A d \in Conns :
          link'[d] = IF d = x THEN [link[d] EXCEPT !.resp = resp] ELSE link[d]
    BY <1>0, <2>1
  <2>4. /\ \A d \in Conns : link'[d].req = link[d].req
        /\ \A d \in Conns : d # x => link'[d].resp = link[d].resp
        /\ link'[x].resp = resp
    BY <1>0, <2>2, <2>3 DEF Links
  <2>5. JobSound(w)
    BY ThreadKinds DEF AnswerInv
  <2>6. /\ link[x].req \in Requests /\ link[x].req # None
        /\ IF job[w].status = "Ok"
           THEN /\ job[w].arrivals \in Answers
                /\ job[w].arrivals.stop = UpstreamStop(link[x].req.stop)
           ELSE job[w].arrivals = NothingFetched
    BY <2>1, <2>2, <2>5, RequestIsThere DEF JobSound, HoldsAnswer
  <2>7. /\ resp.status = job[w].status /\ resp.stop = job[w].arrivals.stop
        /\ resp.count <= MaxArrivals
        /\ resp.status = "Ok" <=> resp.count > 0
    <3>1. job[w].arrivals.count \in Nat
          /\ (job[w].status = "Ok" <=> job[w].arrivals.count > 0)
      <4>1. CASE job[w].status = "Ok"
        BY <2>6, <4>1, AnswersCount
      <4>2. CASE job[w].status # "Ok"
        BY <2>6, <4>2 DEF NothingFetched
      <4>3. QED
        BY <4>1, <4>2
    <3>2. QED
      BY <3>1, ServerAssumption DEF Response
  <2>8. AnswerIsForRequest'
    BY <1>0, <2>2, <2>4, <2>6, <2>7 DEF AnswerIsForRequest
  <2>9. AnswerShape'
    BY <1>0, <2>2, <2>4, <2>7 DEF AnswerShape
  <2>10. QED
    BY <2>4, <2>8, <2>9 DEF RequestsKept
<1>2. CASE ~SendResponse(w)
  <2>1. \E x, e : \/ link' = link
                 \/ link' = [link EXCEPT ![x].failed = e]
                 \/ link' = [link EXCEPT ![x] = [@ EXCEPT !.server = "closed", !.failed = e]]
    BY <1>2
    DEF HandleClient, TakeTask, RecvRequest, RecvFails, CloseClient, CloseFd, LookupFresh,
        LookupStale, LookupMiss, ResponseFails, ResponseKills, RefreshThreadFails
  <2>2. (\A d \in Conns : link'[d].req = link[d].req) /\ RequestsKept /\ ResponsesKept
    BY <1>0, <2>1, EndsOnly
  <2>3. QED
    BY <1>0, <2>2, AnswersKept
<1>3. QED
  BY <1>1, <1>2

LEMMA HandleAnswers ==
    ASSUME ServerInv, AnswerInv, NEW w \in Workers, HandleClient(w)
    PROVE  AnswerInv'
<1>1. CASE Terminate
  BY <1>1, TerminateAnswers DEF ServerInv
<1>2. CASE ~Terminate
  <2>1. cache' = cache /\ client' = client
    BY <1>2, HandleKeepsCache
  <2>2. /\ \A d \in Conns : link'[d].req = link[d].req
        /\ RequestsKept /\ AnswerIsForRequest' /\ AnswerShape'
    BY <1>2, HandleLinks
  <2>3. NotYetAsked' /\ NoFailedFetchCached'
    BY <2>1, <2>2, NotYetAskedKept DEF AnswerInv, NoFailedFetchCached
  <2>4. ASSUME NEW t \in Threads PROVE JobSound(t)'
    <3>1. CASE t = w
      BY <1>2, <3>1, HandleOwnJob
    <3>2. CASE t # w /\ job'[t] = job[t]
      <4>1. JobSound(t)
        BY DEF AnswerInv
      <4>2. t \in Workers /\ Busy(t) => conn'[job[t].fd] = conn[job[t].fd]
        BY <1>2, <3>2, OthersConn
      <4>3. QED
        BY <2>2, <3>2, <4>1, <4>2, SoundKept
    <3>3. CASE t \in Refreshers /\ job'[t].pc = "fetch"
      BY <3>3, ThreadKinds DEF JobSound, CarriesEntry
    <3>4. QED
      BY <1>2, <3>1, <3>2, <3>3, HandleOtherJobs
  <2>5. QED
    BY <2>2, <2>3, <2>4 DEF AnswerInv
<1>3. QED
  BY <1>1, <1>2

-----------------------------------------------------------------------------
(* Steps of fresh_fetch_and_update_cache.                                  *)
LEMMA FetchAnswers ==
    ASSUME ServerInv, AnswerInv, NEW t \in Threads, Fetch(t)
    PROVE  AnswerInv'
<1>0. /\ job[t].pc \in {"fetch", "assign", "sweep"}
      /\ job \in [Threads -> WorkerJobs \cup RefreshJobs]
      /\ conn' = conn /\ link' = link /\ client' = client
      /\ TypeOK /\ JobsOK /\ JobSound(t) /\ NoFailedFetchCached
  BY TypeHasJobs DEF Fetch, FetchFails, FetchSucceeds, PutAssign, RemoveStaleEntries,
                     AnswerInv, ServerInv, TypeOK
<1>1. /\ \A d \in Conns : link'[d].req = link[d].req
      /\ RequestsKept /\ ResponsesKept
  BY <1>0, EndsOnly
<1>2. NotYetAsked' /\ AnswerIsForRequest' /\ AnswerShape'
  BY <1>0, <1>1, NotYetAskedKept, AnswersKept DEF AnswerInv
<1>3. /\ job[t].req \in Requests /\ job[t].req.stop \in Stops
      /\ job[t].pc # "fetch" =>
           /\ job[t].entry \in Entries
           /\ job[t] = [pc |-> job[t].pc, fd |-> job[t].fd, req |-> job[t].req,
                        entry |-> job[t].entry]
  BY <1>0, FetchShape
<1>4. /\ t \in Workers => LinkOf(t).req = job[t].req
      /\ job[t].pc # "fetch" =>
            job[t].entry.arrivals.stop = UpstreamStop(job[t].req.stop)
  BY <1>0 DEF JobSound, CarriesEntry, HandlesRequest
<1>5. ASSUME NEW st, NEW a, job'[t] = Return(t, st, a),
             IF st = "Ok" THEN a \in Answers /\ a.stop = UpstreamStop(job[t].req.stop)
                          ELSE a = NothingFetched
      PROVE  JobSound(t)'
  <2>1. CASE t \in Workers
    <3>1. /\ job'[t].pc = "send" /\ job'[t].fd = job[t].fd /\ job'[t].status = st
          /\ job'[t].arrivals = a
      BY <1>5, <2>1 DEF Return, Answering
    <3>2. LinkOf(t)' = LinkOf(t)
      BY <1>0, <3>1 DEF LinkOf
    <3>3. HoldsAnswer(t)'
      BY <1>3, <1>4, <1>5, <2>1, <3>1, <3>2 DEF HoldsAnswer
    <3>4. QED
      BY <3>1, <3>3 DEF JobSound, CarriesEntry, HandlesRequest
  <2>2. CASE t \notin Workers
    BY <1>5, <2>2 DEF Return, NoJob, JobSound, CarriesEntry
  <2>3. QED
    BY <2>1, <2>2
<1>6. ASSUME NEW e, NEW p \in {"assign", "sweep"},
             job'[t] = [pc |-> p, fd |-> job[t].fd, req |-> job[t].req, entry |-> e],
             e.arrivals.stop = UpstreamStop(job[t].req.stop)
      PROVE  JobSound(t)'
  <2>1. CarriesEntry(t)'
    BY <1>6 DEF CarriesEntry
  <2>2. LinkOf(t)' = LinkOf(t)
    BY <1>0, <1>6 DEF LinkOf
  <2>3. QED
    BY <1>4, <1>6, <2>1, <2>2 DEF JobSound, HandlesRequest, HoldsAnswer
<1>7. JobSound(t)'
  <2>1. CASE FetchFails(t)
    <3>1. PICK res \in FetchResults(job[t].req) :
            res.status # "Ok" /\ job' = [job EXCEPT ![t] = Return(t, res.status, NothingFetched)]
      BY <2>1 DEF FetchFails
    <3>2. job'[t] = Return(t, res.status, NothingFetched)
      BY <1>0, <3>1
    <3>3. QED
      BY <1>5, <3>1, <3>2
  <2>2. CASE FetchSucceeds(t)
    <3>1. PICK res \in FetchResults(job[t].req) :
            /\ res.status = "Ok"
            /\ job' = [job EXCEPT ![t] = [pc    |-> "assign", fd |-> job[t].fd,
                                          req   |-> job[t].req,
                                          entry |-> [arrivals  |-> res.arrivals,
                                                     timestamp |-> now]]]
      BY <2>2 DEF FetchSucceeds
    <3>2. res.arrivals.stop = UpstreamStop(job[t].req.stop)
      BY <1>3, <3>1, FetchResultTypes
    <3> DEFINE e == [arrivals |-> res.arrivals, timestamp |-> now]
    <3>3. job'[t] = [pc |-> "assign", fd |-> job[t].fd, req |-> job[t].req, entry |-> e]
      BY <1>0, <3>1
    <3>4. e.arrivals.stop = UpstreamStop(job[t].req.stop)
      BY <3>2
    <3>5. QED
      BY <1>6, <3>3, <3>4
  <2>3. CASE PutAssign(t)
    <3>1. job[t].pc = "assign" /\ job' = [job EXCEPT ![t] = [job[t] EXCEPT !.pc = "sweep"]]
      BY <2>3 DEF PutAssign
    <3>2. job'[t] = [pc |-> "sweep", fd |-> job[t].fd, req |-> job[t].req,
                     entry |-> job[t].entry]
      BY <1>0, <1>3, <3>1
    <3>3. QED
      BY <1>4, <1>6, <3>1, <3>2
  <2>4. CASE RemoveStaleEntries(t)
    <3>1. job[t].pc = "sweep" /\ job'[t] = Return(t, "Ok", job[t].entry.arrivals)
      BY <1>0, <2>4 DEF RemoveStaleEntries
    <3>2. job[t].entry.arrivals \in Answers
      BY <1>3, <3>1 DEF Entries
    <3>3. QED
      BY <1>4, <1>5, <3>1, <3>2
  <2>5. QED
    BY <2>1, <2>2, <2>3, <2>4 DEF Fetch
<1>8. ASSUME NEW u \in Threads PROVE JobSound(u)'
  <2>1. CASE u = t
    BY <1>7, <2>1
  <2>2. CASE u # t
    <3>1. job'[u] = job[u]
      BY <1>0, <2>2 DEF Fetch, FetchFails, FetchSucceeds, PutAssign, RemoveStaleEntries
    <3>2. JobSound(u)
      BY DEF AnswerInv
    <3>3. QED
      BY <1>0, <1>1, <3>1, <3>2, SoundKept
  <2>3. QED
    BY <2>1, <2>2
<1>9. NoFailedFetchCached'
  <2>1. CASE FetchFails(t) \/ FetchSucceeds(t)
    BY <1>0, <2>1 DEF FetchFails, FetchSucceeds, NoFailedFetchCached
  <2>2. CASE PutAssign(t)
    <3> DEFINE s == job[t].req.stop
    <3>1. job[t].pc = "assign" /\ cache' = Assign(cache, s, job[t].entry)
      BY <2>2 DEF PutAssign
    <3>2. job[t].entry.arrivals \in Answers
      BY <1>3, <3>1 DEF Entries
    <3>3. job[t].entry.arrivals.count > 0
      BY <3>2, AnswersCount
    <3>4. job[t].entry.arrivals.stop = UpstreamStop(s)
      BY <1>4, <3>1
    <3>5. \A r \in DOMAIN cache' :
            \/ r = s /\ cache'[r] = job[t].entry
            \/ r \in DOMAIN cache /\ cache'[r] = cache[r]
      BY <3>1 DEF Assign
    <3>6. QED
      BY <1>0, <3>3, <3>4, <3>5 DEF NoFailedFetchCached
  <2>3. CASE RemoveStaleEntries(t)
    <3>1. \A r \in DOMAIN cache' : r \in DOMAIN cache /\ cache'[r] = cache[r]
      BY <2>3 DEF RemoveStaleEntries, Swept, Usable, Restrict
    <3>2. QED
      BY <1>0, <3>1 DEF NoFailedFetchCached
  <2>4. QED
    BY <2>1, <2>2, <2>3 DEF Fetch
<1>10. QED
  BY <1>2, <1>8, <1>9 DEF AnswerInv

-----------------------------------------------------------------------------
LEMMA NextAnswerInv == ServerInv /\ AnswerInv /\ [Next]_vars => AnswerInv'
<1> SUFFICES ASSUME ServerInv, AnswerInv, [Next]_vars PROVE AnswerInv'
  OBVIOUS
<1>1. CASE Tick \/ Restart \/ AcceptAndSubmit
  BY <1>1, MainAnswers
<1>2. ASSUME NEW c \in Clients, Query(c) PROVE AnswerInv'
  BY <1>2, QueryAnswers
<1>3. ASSUME NEW w \in Workers, HandleClient(w) PROVE AnswerInv'
  BY <1>3, HandleAnswers
<1>4. ASSUME NEW t \in Threads, Fetch(t) PROVE AnswerInv'
  BY <1>4, FetchAnswers
<1>5. CASE UNCHANGED vars
  BY <1>5
  DEF vars, AnswerInv, NotYetAsked, JobSound, CarriesEntry, HandlesRequest, HoldsAnswer,
      LinkOf, NoFailedFetchCached, AnswerIsForRequest, AnswerShape
<1>6. QED
  BY <1>1, <1>2, <1>3, <1>4, <1>5 DEF Next

THEOREM AnswerInvariant == Spec => []AnswerInv
<1>1. Init => AnswerInv
  BY InitAnswerInv
<1>2. QED
  BY <1>1, NextAnswerInv, ServerInvariant, PTL DEF Spec

(* Whoever gets arrivals gets those of the stop they asked for, however    *)
(* many workers, clients, spellings and refresh threads share the cache    *)
(* and the descriptors.                                                    *)
THEOREM AnswersAreForTheirRequest == Spec => []AnswerIsForRequest
<1>1. AnswerInv => AnswerIsForRequest
  BY DEF AnswerInv
<1>2. QED
  BY <1>1, AnswerInvariant, PTL

(* Nothing but the arrivals of a successful fetch for the key's own stop   *)
(* is ever in the cache.                                                   *)
THEOREM OnlySuccessIsCached == Spec => []NoFailedFetchCached
<1>1. AnswerInv => NoFailedFetchCached
  BY DEF AnswerInv
<1>2. QED
  BY <1>1, AnswerInvariant, PTL

(* Status and number_of_arrivals of an answer agree, and the number stays  *)
(* within the array.                                                       *)
THEOREM AnswersAreWellFormed == Spec => []AnswerShape
<1>1. AnswerInv => AnswerShape
  BY DEF AnswerInv
<1>2. QED
  BY <1>1, AnswerInvariant, PTL
-----------------------------------------------------------------------------
(* The two ends of a connection.  A client that has made k queries has     *)
(* made its first k connections.                                           *)
Made(x) == x[2] <= client[x[1]].k

(* Only made connections have ends, nothing is answered before accept(),   *)
(* and none is closed silently.                                            *)
LinksInv ==
    /\ \A x \in Conns : ~Made(x) => link[x].client = "none" /\ link[x].server = "none"
    /\ \A x \in Conns : link[x].server = "none" => link[x].resp = None
    /\ NoSilentClose

(* The backlog holds connections once that no accept() has taken, and the  *)
(* descriptors different ones that are open.                               *)
PlacesInv ==
    /\ \A n \in 1..Len(backlog) : Made(backlog[n]) /\ link[backlog[n]].server = "none"
    /\ \A m, n \in 1..Len(backlog) : backlog[m] = backlog[n] => m = n
    /\ \A f \in Fds : conn[f] # None => Made(conn[f]) /\ link[conn[f]].server = "open"
    /\ \A f, g \in Fds : conn[f] # None /\ conn[f] = conn[g] => f = g

(* Nobody waits at the other end, or a call on this one has failed.        *)
Excused(l) == l.client = "closed" \/ l.failed

(* A worker closes what it has answered, or what it has an excuse for. *)
WorkerEnds(w) ==
    /\ job[w].pc = "close" => LinkOf(w).resp # None \/ Excused(LinkOf(w))
    /\ job[w].pc \notin {"none", "wait", "close"} => LinkOf(w).resp = None

AnsweredInv ==
    /\ \A f \in Fds : Queued(f) => link[conn[f]].resp = None
    /\ \A w \in Workers : WorkerEnds(w)

EndInv == LinksInv /\ PlacesInv /\ AnsweredInv

(* What NothingAfterClose says of a step. *)
EndsKept ==
    \A c \in Conns :
        /\ link[c].resp # None => link'[c].resp = link[c].resp
        /\ link[c].server \in {"closed", "reset"} =>
            link'[c].server = link[c].server /\ link'[c].resp = link[c].resp

(* An excuse stays one.                                                    *)
ExcusesKept == \A d \in Conns : Excused(link[d]) => Excused(link'[d])

LEMMA ConnParts == \A x \in Conns : x[1] \in Clients /\ x[2] \in 1..MaxQueries /\ x = <<x[1], x[2]>>
  BY DEF Conns

LEMMA InitEnds == Init => EndInv
<1> SUFFICES ASSUME Init PROVE EndInv
  OBVIOUS
<1>1. LinksInv
  BY DEF Init, LinksInv, NoSilentClose, ClosedLink
<1>2. PlacesInv
  BY DEF Init, PlacesInv
<1>3. AnsweredInv
  <2>1. \A w \in Workers : job[w].pc = "wait"
    BY StartTypes DEF Init, Waiting
  <2>2. QED
    BY <2>1 DEF Init, AnsweredInv, WorkerEnds, Queued
<1>4. QED
  BY <1>1, <1>2, <1>3 DEF EndInv

(* Steps that touch no connection. *)
LEMMA QuietEnds ==
    ASSUME EndInv, client' = client, link' = link, backlog' = backlog, conn' = conn,
           \A f \in Fds : Queued(f)' => Queued(f),
           \A w \in Workers : WorkerEnds(w)'
    PROVE  EndInv' /\ EndsKept
<1>1. LinksInv'
  BY DEF EndInv, LinksInv, NoSilentClose, Made
<1>2. PlacesInv'
  BY DEF EndInv, PlacesInv, Made
<1>3. AnsweredInv'
  BY DEF EndInv, AnsweredInv
<1>4. QED
  BY <1>1, <1>2, <1>3 DEF EndInv, EndsKept

(* A worker that does not move, while its connection is left alone. *)
LEMMA WorkerEndsKept ==
    ASSUME ServerInv, ExcusesKept, NEW w \in Workers, WorkerEnds(w), job'[w] = job[w],
           Busy(w) => /\ conn'[job[w].fd] = conn[job[w].fd]
                      /\ link'[conn[job[w].fd]].resp = link[conn[job[w].fd]].resp
    PROVE  WorkerEnds(w)'
<1>1. CASE Busy(w)
  <2> DEFINE x == conn[job[w].fd]
  <2>1. x \in Conns /\ LinkOf(w) = link[x]
    BY <1>1, BusyConn DEF LinkOf
  <2>2. LinkOf(w)' = link'[x] /\ link'[x].resp = link[x].resp
    BY <1>1 DEF LinkOf
  <2>3. Excused(link[x]) => Excused(link'[x])
    BY <2>1 DEF ExcusesKept
  <2>4. job'[w].pc = job[w].pc
    OBVIOUS
  <2> HIDE DEF x
  <2>5. QED
    BY <2>1, <2>2, <2>3, <2>4 DEF WorkerEnds
<1>2. CASE ~Busy(w)
  BY <1>2 DEF Busy, WorkerEnds
<1>3. QED
  BY <1>1, <1>2

LEMMA TerminateEnds ==
    ASSUME TypeOK, EndInv, Terminate
    PROVE  EndInv' /\ EndsKept
<1>1. \A x \in Conns :
        /\ link'[x].client = link[x].client /\ link'[x].resp = link[x].resp
        /\ link'[x].failed = link[x].failed
        /\ \/ link'[x].server = link[x].server
           \/ /\ link[x].client # "none" /\ link[x].server \in {"none", "open"}
              /\ link'[x].server = "reset"
  <2> SUFFICES ASSUME NEW x \in Conns
               PROVE  /\ link'[x].client = link[x].client /\ link'[x].resp = link[x].resp
                      /\ link'[x].failed = link[x].failed
                      /\ \/ link'[x].server = link[x].server
                         \/ /\ link[x].client # "none" /\ link[x].server \in {"none", "open"}
                            /\ link'[x].server = "reset"
    OBVIOUS
  <2>1. link[x] \in Links
    BY DEF TypeOK
  <2>2. link'[x] = IF link[x].client # "none" /\ link[x].server \in {"none", "open"}
                   THEN [link[x] EXCEPT !.server = "reset"] ELSE link[x]
    BY DEF Terminate
  <2>3. QED
    BY <2>1, <2>2 DEF Links
<1>2. LinksInv'
  <2>1. client' = client
    BY DEF Terminate
  <2>2. QED
    BY <1>1, <2>1 DEF EndInv, LinksInv, NoSilentClose, Made
<1>3. PlacesInv'
  BY DEF Terminate, PlacesInv
<1>4. AnsweredInv'
  BY ThreadKinds DEF Terminate, AnsweredInv, WorkerEnds, Queued, NoJob
<1>5. EndsKept
  BY <1>1 DEF EndsKept
<1>6. QED
  BY <1>2, <1>3, <1>4, <1>5 DEF EndInv

-----------------------------------------------------------------------------
(* A step at the server's end of one connection x, made before: what it    *)
(* leaves is an end, and one closed unanswered has an excuse.              *)
LEMMA EndLinks ==
    ASSUME EndInv, client' = client, NEW x \in Conns, Made(x),
           \A d \in Conns : d # x => link'[d] = link[d],
           Excused(link[x]) => Excused(link'[x]), link'[x].server # "none",
           link'[x].server = "closed" /\ link'[x].resp = None => Excused(link'[x])
    PROVE  LinksInv' /\ ExcusesKept /\ \A d \in Conns : Made(d)' <=> Made(d)
<1>1. \A d \in Conns : Made(d)' <=> Made(d)
  BY DEF Made
<1>2. ExcusesKept
  BY DEF ExcusesKept
<1>3. LinksInv'
  <2>1. \A d \in Conns : ~Made(d)' => link'[d].client = "none" /\ link'[d].server = "none"
    BY <1>1 DEF EndInv, LinksInv
  <2>2. \A d \in Conns : link'[d].server = "none" => link'[d].resp = None
    BY DEF EndInv, LinksInv
  <2>3. NoSilentClose'
    BY DEF EndInv, LinksInv, NoSilentClose, Excused
  <2>4. QED
    BY <2>1, <2>2, <2>3 DEF LinksInv
<1>4. QED
  BY <1>1, <1>2, <1>3

(* What one field of one link changes. *)
LEMMA ServerField ==
    ASSUME TypeOK, NEW x \in Conns, NEW e, link' = [link EXCEPT ![x].server = e]
    PROVE  /\ \A d \in Conns : d # x => link'[d] = link[d]
           /\ link'[x].server = e /\ link'[x].resp = link[x].resp
           /\ link'[x].client = link[x].client /\ link'[x].req = link[x].req
           /\ Excused(link[x]) => Excused(link'[x])
<1>1. link[x] \in Links /\ link \in [Conns -> Links]
  BY DEF TypeOK
<1>2. link'[x] = [link[x] EXCEPT !.server = e] /\ \A d \in Conns : d # x => link'[d] = link[d]
  BY <1>1
<1>3. QED
  BY <1>1, <1>2 DEF Links, Excused

LEMMA FailField ==
    ASSUME TypeOK, NEW x \in Conns,
           link' = [link EXCEPT ![x].failed = (link[x].client # "closed")]
    PROVE  /\ \A d \in Conns : d # x => link'[d] = link[d]
           /\ link'[x].server = link[x].server /\ link'[x].resp = link[x].resp
           /\ link'[x].client = link[x].client /\ Excused(link'[x])
<1>1. link[x] \in Links /\ link \in [Conns -> Links]
  BY DEF TypeOK
<1>2. /\ link'[x] = [link[x] EXCEPT !.failed = (link[x].client # "closed")]
      /\ \A d \in Conns : d # x => link'[d] = link[d]
  BY <1>1
<1>3. QED
  BY <1>1, <1>2 DEF Links, Excused

LEMMA CloseField ==
    ASSUME TypeOK, NEW x \in Conns, NEW b \in {link[x].failed, link[x].client # "closed"},
           link' = [link EXCEPT ![x] = [@ EXCEPT !.server = "closed", !.failed = b]]
    PROVE  /\ \A d \in Conns : d # x => link'[d] = link[d]
           /\ link'[x].server = "closed" /\ link'[x].resp = link[x].resp
           /\ link'[x].client = link[x].client
           /\ Excused(link[x]) => Excused(link'[x])
           /\ b = (link[x].client # "closed") => Excused(link'[x])
<1>1. link[x] \in Links /\ link \in [Conns -> Links]
  BY DEF TypeOK
<1>2. /\ link'[x] = [link[x] EXCEPT !.server = "closed", !.failed = b]
      /\ \A d \in Conns : d # x => link'[d] = link[d]
  BY <1>1
<1>3. QED
  BY <1>1, <1>2 DEF Links, Excused

LEMMA RespField ==
    ASSUME TypeOK, NEW x \in Conns, NEW r, link' = [link EXCEPT ![x].resp = r]
    PROVE  /\ \A d \in Conns : d # x => link'[d] = link[d]
           /\ link'[x].resp = r /\ link'[x].server = link[x].server
           /\ link'[x].client = link[x].client
           /\ Excused(link[x]) => Excused(link'[x])
<1>1. link[x] \in Links /\ link \in [Conns -> Links]
  BY DEF TypeOK
<1>2. link'[x] = [link[x] EXCEPT !.resp = r] /\ \A d \in Conns : d # x => link'[d] = link[d]
  BY <1>1
<1>3. QED
  BY <1>1, <1>2 DEF Links, Excused

(* The connection behind a busy worker's descriptor. *)
LEMMA BusyEnds ==
    ASSUME ServerInv, EndInv, NEW w \in Workers, Busy(w)
    PROVE  /\ job[w].fd \in Fds /\ conn[job[w].fd] \in Conns
           /\ Made(conn[job[w].fd]) /\ link[conn[job[w].fd]].server = "open"
           /\ LinkOf(w) = link[conn[job[w].fd]]
           /\ \A f \in Fds : f # job[w].fd /\ conn[f] # None => conn[f] # conn[job[w].fd]
           /\ ~Queued(job[w].fd)
           /\ \A v \in Workers : v # w /\ Busy(v) => job[v].fd # job[w].fd
<1>1. job[w].fd \in Fds /\ conn[job[w].fd] \in Conns /\ Serves(w, job[w].fd)
  BY BusyConn
<1>2. conn[job[w].fd] # None
  BY <1>1, NoneAssumption
<1>3. Made(conn[job[w].fd]) /\ link[conn[job[w].fd]].server = "open"
  BY <1>1, <1>2 DEF EndInv, PlacesInv
<1>4. \A f \in Fds : f # job[w].fd /\ conn[f] # None => conn[f] # conn[job[w].fd]
  BY <1>1, <1>2 DEF EndInv, PlacesInv
<1>5. ~Queued(job[w].fd)
  BY <1>1 DEF ServerInv, FdOwnership
<1>6. ASSUME NEW v \in Workers, v # w, Busy(v), job[v].fd = job[w].fd  PROVE FALSE
  <2>1. Serves(v, job[w].fd)
    BY <1>6, BusyConn
  <2>2. QED
    BY <1>1, <1>6, <2>1 DEF ServerInv, FdOwnership
<1>7. QED
  BY <1>1, <1>3, <1>4, <1>5, <1>6 DEF LinkOf

(* Another worker's connection is another one, still there. *)
LEMMA OthersEnds ==
    ASSUME ServerInv, EndInv, NEW w \in Workers, Busy(w), ExcusesKept,
           \A d \in Conns : d # conn[job[w].fd] => link'[d] = link[d],
           conn' = conn \/ conn' = [conn EXCEPT ![job[w].fd] = None],
           NEW v \in Workers, v # w, job'[v] = job[v]
    PROVE  WorkerEnds(v)'
<1>1. WorkerEnds(v)
  BY DEF EndInv, AnsweredInv
<1>2. ASSUME Busy(v)
      PROVE  /\ conn'[job[v].fd] = conn[job[v].fd]
             /\ link'[conn[job[v].fd]].resp = link[conn[job[v].fd]].resp
  <2>1. job[v].fd # job[w].fd /\ job[v].fd \in Fds /\ conn[job[v].fd] \in Conns
    BY <1>2, BusyEnds
  <2>2. conn[job[v].fd] # conn[job[w].fd]
    BY <2>1, BusyEnds, NoneAssumption
  <2>3. conn \in [Fds -> Conns \cup {None}]
    BY DEF ServerInv, TypeOK
  <2>4. QED
    BY <2>1, <2>2, <2>3
<1>3. QED
  BY <1>1, <1>2, WorkerEndsKept

(* The places of connections, after such a step. *)
LEMMA PlacesKept ==
    ASSUME PlacesInv, backlog' = backlog, client' = client,
           \A n \in 1..Len(backlog) : link'[backlog[n]].server = "none",
           \A f \in Fds : conn'[f] # None =>
                conn'[f] = conn[f] /\ link'[conn[f]].server = "open"
    PROVE  PlacesInv'
<1>1. \A n \in 1..Len(backlog') :
        backlog'[n][2] <= client'[backlog'[n][1]].k /\ link'[backlog'[n]].server = "none"
  BY DEF PlacesInv, Made
<1>2. \A f \in Fds : conn'[f] # None =>
        conn'[f][2] <= client'[conn'[f][1]].k /\ link'[conn'[f]].server = "open"
  BY DEF PlacesInv, Made
<1>3. QED
  BY <1>1, <1>2 DEF PlacesInv, Made

LEMMA SendEnds ==
    ASSUME ServerInv, EndInv, NEW w \in Workers, SendResponse(w)
    PROVE  EndInv' /\ EndsKept
<1> DEFINE fd == job[w].fd
           x == conn[fd]
           r == Response(job[w].status, job[w].arrivals)
<1>1. /\ job[w].pc = "send" /\ Busy(w) /\ WorkerEnds(w) /\ TypeOK
      /\ job[w] \in WorkerJobs /\ job \in [Threads -> WorkerJobs \cup RefreshJobs]
  BY DEF SendResponse, Busy, EndInv, AnsweredInv, ServerInv, TypeOK
<1>2. /\ fd \in Fds /\ x \in Conns /\ Made(x) /\ link[x].server = "open"
      /\ \A f \in Fds : f # fd /\ conn[f] # None => conn[f] # x
      /\ ~Queued(fd) /\ LinkOf(w) = link[x]
  BY <1>1, BusyEnds
<1>3. r # None
  <2>1. r \in Responses
    BY <1>1, WorkerShape, ResponseType
  <2>2. QED
    BY <2>1, AnswerAssumption
<1>4. /\ client' = client /\ conn' = conn /\ backlog' = backlog /\ queue' = queue
      /\ link' = [link EXCEPT ![x].resp = r]
      /\ job' = [job EXCEPT ![w] = [pc |-> "close", fd |-> fd]]
  BY DEF SendResponse
<1> HIDE DEF x, r
<1>5. /\ LinksInv' /\ ExcusesKept
      /\ \A d \in Conns : d # x => link'[d] = link[d]
      /\ link'[x].resp = r /\ link'[x].server = "open"
      /\ \A d \in Conns : Made(d)' <=> Made(d)
  <2>1. /\ \A d \in Conns : d # x => link'[d] = link[d]
        /\ link'[x].resp = r /\ link'[x].server = link[x].server
        /\ Excused(link[x]) => Excused(link'[x])
    BY <1>1, <1>2, <1>4, RespField
  <2>2. LinksInv' /\ ExcusesKept /\ \A d \in Conns : Made(d)' <=> Made(d)
    BY <1>1, <1>2, <1>4, <2>1, EndLinks
  <2>3. QED
    BY <1>2, <2>1, <2>2
<1>6. PlacesInv'
  <2>1. \A n \in 1..Len(backlog) : backlog[n] \in Conns /\ link[backlog[n]].server = "none"
    BY <1>1 DEF TypeOK, EndInv, PlacesInv
  <2>2. \A f \in Fds : conn[f] # None => conn[f] \in Conns /\ link[conn[f]].server = "open"
    BY <1>1 DEF TypeOK, EndInv, PlacesInv
  <2>3. \A n \in 1..Len(backlog) : link'[backlog[n]].server = "none"
    BY <1>2, <1>5, <2>1
  <2>4. \A f \in Fds : conn[f] # None => link'[conn[f]].server = "open"
    BY <1>5, <2>2
  <2>5. QED
    BY <1>4, <2>3, <2>4, PlacesKept DEF EndInv
<1>7. AnsweredInv'
  <2>1. ASSUME NEW f \in Fds, Queued(f)'  PROVE link'[conn'[f]].resp = None
    <3>1. Queued(f) /\ f # fd
      BY <1>2, <1>4, <2>1 DEF Queued
    <3>2. conn[f] # None /\ link[conn[f]].resp = None
      BY <3>1 DEF ServerInv, FdOwnership, EndInv, AnsweredInv
    <3>3. conn[f] # x /\ conn[f] \in Conns
      BY <1>1, <1>2, <3>1, <3>2 DEF TypeOK
    <3>4. QED
      BY <1>4, <1>5, <3>2, <3>3
  <2>2. WorkerEnds(w)'
    <3>1. job'[w] = [pc |-> "close", fd |-> fd]
      BY <1>1, <1>4, ThreadKinds
    <3>2. LinkOf(w)' = link'[x]
      BY <1>4, <3>1 DEF LinkOf, x
    <3>3. QED
      BY <1>3, <1>5, <3>1, <3>2 DEF WorkerEnds
  <2>3. ASSUME NEW v \in Workers, v # w  PROVE WorkerEnds(v)'
    <3>1. job'[v] = job[v]
      BY <1>1, <1>4, <2>3, ThreadKinds
    <3>2. \A d \in Conns : d # conn[job[w].fd] => link'[d] = link[d]
      BY <1>5 DEF x
    <3>3. QED
      BY <1>1, <1>4, <1>5, <2>3, <3>1, <3>2, OthersEnds
  <2>4. QED
    BY <2>1, <2>2, <2>3 DEF AnsweredInv
<1>8. EndsKept
  <2>1. link[x].resp = None
    BY <1>1, <1>2 DEF WorkerEnds
  <2>2. QED
    BY <1>2, <1>5, <2>1 DEF EndsKept
<1>9. QED
  BY <1>5, <1>6, <1>7, <1>8 DEF EndInv

(* A failed send() leaves the worker with an excuse. *)
LEMMA FailEnds ==
    ASSUME ServerInv, EndInv, NEW w \in Workers, ResponseFails(w)
    PROVE  EndInv' /\ EndsKept
<1> DEFINE fd == job[w].fd
           x == conn[fd]
<1>1. /\ job[w].pc = "send" /\ Busy(w) /\ TypeOK
      /\ job \in [Threads -> WorkerJobs \cup RefreshJobs]
  BY DEF ResponseFails, Busy, ServerInv, TypeOK
<1>2. /\ fd \in Fds /\ x \in Conns /\ Made(x) /\ link[x].server = "open"
      /\ LinkOf(w) = link[x]
  BY <1>1, BusyEnds
<1>3. /\ client' = client /\ conn' = conn /\ backlog' = backlog /\ queue' = queue
      /\ link' = [link EXCEPT ![x].failed = (link[x].client # "closed")]
      /\ job' = [job EXCEPT ![w] = [pc |-> "close", fd |-> fd]]
  BY <1>2 DEF ResponseFails
<1> HIDE DEF x
<1>4. /\ \A d \in Conns : d # x => link'[d] = link[d]
      /\ link'[x].server = link[x].server /\ link'[x].resp = link[x].resp
      /\ Excused(link'[x])
  BY <1>1, <1>2, <1>3, FailField
<1>5. LinksInv' /\ ExcusesKept /\ \A d \in Conns : Made(d)' <=> Made(d)
  BY <1>1, <1>2, <1>3, <1>4, EndLinks
<1>6. \A d \in Conns : link'[d].server = link[d].server /\ link'[d].resp = link[d].resp
  BY <1>4
<1>7. PlacesInv'
  <2>1. \A n \in 1..Len(backlog) : backlog[n] \in Conns /\ link[backlog[n]].server = "none"
    BY <1>1 DEF TypeOK, EndInv, PlacesInv
  <2>2. \A f \in Fds : conn[f] # None => conn[f] \in Conns /\ link[conn[f]].server = "open"
    BY <1>1 DEF TypeOK, EndInv, PlacesInv
  <2>3. \A n \in 1..Len(backlog) : link'[backlog[n]].server = "none"
    BY <1>6, <2>1
  <2>4. \A f \in Fds : conn[f] # None => link'[conn[f]].server = "open"
    BY <1>6, <2>2
  <2>5. QED
    BY <1>3, <2>3, <2>4, PlacesKept DEF EndInv
<1>8. AnsweredInv'
  <2>1. ASSUME NEW f \in Fds, Queued(f)'  PROVE link'[conn'[f]].resp = None
    <3>1. Queued(f)
      BY <1>3, <2>1 DEF Queued
    <3>2. conn[f] # None /\ link[conn[f]].resp = None
      BY <3>1 DEF ServerInv, FdOwnership, EndInv, AnsweredInv
    <3>3. conn[f] \in Conns
      BY <1>1, <3>2 DEF TypeOK
    <3>4. QED
      BY <1>3, <1>6, <3>2, <3>3
  <2>2. WorkerEnds(w)'
    <3>1. job'[w] = [pc |-> "close", fd |-> fd]
      BY <1>1, <1>3, ThreadKinds
    <3>2. LinkOf(w)' = link'[x]
      BY <1>3, <3>1 DEF LinkOf, x
    <3>3. QED
      BY <1>4, <3>1, <3>2 DEF WorkerEnds
  <2>3. ASSUME NEW v \in Workers, v # w  PROVE WorkerEnds(v)'
    <3>1. job'[v] = job[v]
      BY <1>1, <1>3, <2>3, ThreadKinds
    <3>2. \A d \in Conns : d # conn[job[w].fd] => link'[d] = link[d]
      BY <1>4 DEF x
    <3>3. QED
      BY <1>1, <1>3, <1>5, <2>3, <3>1, <3>2, OthersEnds
  <2>4. QED
    BY <2>1, <2>2, <2>3 DEF AnsweredInv
<1>9. EndsKept
  BY <1>6 DEF EndsKept
<1>10. QED
  BY <1>5, <1>7, <1>8, <1>9 DEF EndInv

LEMMA CloseEnds ==
    ASSUME ServerInv, EndInv, NEW w \in Workers, Busy(w),
           NEW b \in {LinkOf(w).failed, LinkOf(w).client # "closed"}, CloseFd(w, b),
           queue' = queue, backlog' = backlog, client' = client,
           \/ LinkOf(w).resp # None \/ Excused(LinkOf(w))
           \/ b = (LinkOf(w).client # "closed")
    PROVE  EndInv' /\ EndsKept
<1> DEFINE fd == job[w].fd
           x == conn[fd]
<1>1. TypeOK /\ job \in [Threads -> WorkerJobs \cup RefreshJobs]
  BY DEF ServerInv, TypeOK
<1>2. /\ fd \in Fds /\ x \in Conns /\ Made(x) /\ link[x].server = "open"
      /\ \A f \in Fds : f # fd /\ conn[f] # None => conn[f] # x
      /\ ~Queued(fd) /\ LinkOf(w) = link[x]
  BY BusyEnds
<1>3. /\ conn' = [conn EXCEPT ![fd] = None]
      /\ link' = [link EXCEPT ![x] = [@ EXCEPT !.server = "closed", !.failed = b]]
      /\ job' = [job EXCEPT ![w] = Waiting]
  BY DEF CloseFd
<1> HIDE DEF x
<1>4. /\ LinksInv' /\ ExcusesKept
      /\ \A d \in Conns : d # x => link'[d] = link[d]
      /\ link'[x].resp = link[x].resp /\ link'[x].server = "closed"
      /\ \A d \in Conns : Made(d)' <=> Made(d)
  <2>1. /\ \A d \in Conns : d # x => link'[d] = link[d]
        /\ link'[x].server = "closed" /\ link'[x].resp = link[x].resp
        /\ Excused(link[x]) => Excused(link'[x])
        /\ b = (link[x].client # "closed") => Excused(link'[x])
    <3>1. b \in {link[x].failed, link[x].client # "closed"}
      BY <1>2
    <3>2. QED
      BY <1>1, <1>2, <1>3, <3>1, CloseField
  <2>2. LinksInv' /\ ExcusesKept /\ \A d \in Conns : Made(d)' <=> Made(d)
    BY <1>1, <1>2, <1>3, <2>1, EndLinks
  <2>3. QED
    BY <2>1, <2>2
<1>5. /\ \A f \in Fds : f # fd => conn'[f] = conn[f]
      /\ conn'[fd] = None
  BY <1>1, <1>2, <1>3 DEF TypeOK
<1>6. PlacesInv'
  <2>1. \A n \in 1..Len(backlog) : backlog[n] \in Conns /\ link[backlog[n]].server = "none"
    BY <1>1 DEF TypeOK, EndInv, PlacesInv
  <2>2. \A f \in Fds : conn[f] # None => conn[f] \in Conns /\ link[conn[f]].server = "open"
    BY <1>1 DEF TypeOK, EndInv, PlacesInv
  <2>3. \A n \in 1..Len(backlog) : link'[backlog[n]].server = "none"
    BY <1>2, <1>4, <2>1
  <2>4. \A f \in Fds : conn'[f] # None =>
            conn'[f] = conn[f] /\ link'[conn[f]].server = "open"
    BY <1>2, <1>4, <1>5, <2>2
  <2>5. QED
    BY <2>3, <2>4, PlacesKept DEF EndInv
<1>7. AnsweredInv'
  <2>1. ASSUME NEW f \in Fds, Queued(f)'  PROVE link'[conn'[f]].resp = None
    <3>1. Queued(f) /\ f # fd
      BY <1>2, <2>1 DEF Queued
    <3>2. conn[f] # None /\ link[conn[f]].resp = None
      BY <3>1 DEF ServerInv, FdOwnership, EndInv, AnsweredInv
    <3>3. conn[f] # x /\ conn[f] \in Conns
      BY <1>1, <1>2, <3>1, <3>2 DEF TypeOK
    <3>4. QED
      BY <1>4, <1>5, <3>1, <3>2, <3>3
  <2>2. WorkerEnds(w)'
    <3>1. job'[w] = Waiting
      BY <1>1, <1>3, ThreadKinds
    <3>2. QED
      BY <3>1 DEF WorkerEnds, Waiting
  <2>3. ASSUME NEW v \in Workers, v # w  PROVE WorkerEnds(v)'
    <3>1. job'[v] = job[v]
      BY <1>1, <1>3, <2>3, ThreadKinds
    <3>2. \A d \in Conns : d # conn[job[w].fd] => link'[d] = link[d]
      BY <1>4 DEF x
    <3>3. QED
      BY <1>3, <1>4, <2>3, <3>1, <3>2, OthersEnds
  <2>4. QED
    BY <2>1, <2>2, <2>3 DEF AnsweredInv
<1>8. EndsKept
  BY <1>2, <1>4 DEF EndsKept
<1>9. QED
  BY <1>4, <1>6, <1>7, <1>8 DEF EndInv

(* A worker that goes on with its connection or takes the next one. *)
LEMMA OwnEnds ==
    ASSUME ServerInv, EndInv, NEW w \in Workers, NEW k,
           link' = link, conn' = conn, backlog' = backlog, client' = client,
           \A f \in Fds : Queued(f)' => Queued(f),
           \A v \in Workers : v # w => job'[v] = job[v],
           job'[w] = k, k.pc \in {"recv", "lookup", "fetch", "assign", "sweep", "send", "close"},
           IF k.pc = "close"
           THEN link[conn[k.fd]].resp # None \/ Excused(link[conn[k.fd]])
           ELSE link[conn[k.fd]].resp = None
    PROVE  EndInv' /\ EndsKept
<1>1. WorkerEnds(w)'
  BY DEF WorkerEnds, LinkOf
<1>2. ASSUME NEW v \in Workers, v # w  PROVE WorkerEnds(v)'
  BY <1>2 DEF EndInv, AnsweredInv, WorkerEnds, LinkOf
<1>3. QED
  BY <1>1, <1>2, QuietEnds

LEMMA TakeEnds ==
    ASSUME ServerInv, EndInv, NEW w \in Workers, TakeTask(w)
    PROVE  EndInv' /\ EndsKept
<1> DEFINE fd == Head(queue)
<1>1. /\ queue \in Seq(Fds) /\ queue # <<>> /\ queue' = Tail(queue)
      /\ \A m, n \in 1..Len(queue) : queue[m] = queue[n] => m = n
      /\ job \in [Threads -> WorkerJobs \cup RefreshJobs]
  BY DEF TakeTask, ServerInv, TypeOK, FdOwnership
<1>2. Queued(fd) /\ \A f \in Fds : Queued(f)' => Queued(f)
  BY <1>1, TailQueued
<1>3. link[conn[fd]].resp = None
  BY <1>1, <1>2 DEF EndInv, AnsweredInv
<1>4. /\ job'[w] = [pc |-> "recv", fd |-> fd]
      /\ \A v \in Workers : v # w => job'[v] = job[v]
      /\ link' = link /\ conn' = conn /\ backlog' = backlog /\ client' = client
  BY <1>1, ThreadKinds DEF TakeTask
<1> HIDE DEF fd
<1>5. QED
  BY <1>2, <1>3, <1>4, OwnEnds

(* The steps of handle_client between recv and close. *)
LEMMA MiddleEnds ==
    ASSUME ServerInv, EndInv, NEW w \in Workers,
           RecvRequest(w) \/ LookupFresh(w) \/ LookupStale(w) \/ LookupMiss(w)
    PROVE  EndInv' /\ EndsKept
<1>1. /\ job \in [Threads -> WorkerJobs \cup RefreshJobs] /\ w \in Threads
      /\ job[w] \in WorkerJobs
  BY ThreadKinds DEF ServerInv, TypeOK
<1>2. /\ link' = link /\ conn' = conn /\ backlog' = backlog /\ client' = client /\ queue' = queue
      /\ job[w].pc \in {"recv", "lookup"}
  BY DEF RecvRequest, LookupFresh, LookupStale, LookupMiss
<1>3. link[conn[job[w].fd]].resp = None
  BY <1>2 DEF EndInv, AnsweredInv, WorkerEnds, LinkOf
<1>4. \A v \in Workers : v # w => job'[v] = job[v]
  <2>1. CASE LookupStale(w)
    <3>1. PICK r \in IdleRefreshers :
            job' = [job EXCEPT ![w] = Answering(w, Found(w).state, "Ok", Found(w).arrivals),
                               ![r] = [pc |-> "fetch", fd |-> NoFd, req |-> job[w].req]]
      BY <2>1 DEF LookupStale
    <3>2. \A v \in Workers : v # r
      BY <3>1, ThreadKinds DEF IdleRefreshers
    <3>3. QED
      BY <1>1, <3>1, <3>2, ThreadKinds
  <2>2. CASE ~LookupStale(w)
    BY <1>1, <2>2, ThreadKinds DEF RecvRequest, LookupFresh, LookupMiss
  <2>3. QED
    BY <2>1, <2>2
<1>5. job'[w].pc \in {"lookup", "fetch", "send"} /\ job'[w].fd = job[w].fd
  <2>1. CASE RecvRequest(w)
    BY <1>1, <2>1 DEF RecvRequest
  <2>2. CASE LookupFresh(w)
    BY <1>1, <2>2 DEF LookupFresh, Answering
  <2>3. CASE LookupStale(w)
    <3>1. PICK r \in IdleRefreshers :
            job' = [job EXCEPT ![w] = Answering(w, Found(w).state, "Ok", Found(w).arrivals),
                               ![r] = [pc |-> "fetch", fd |-> NoFd, req |-> job[w].req]]
      BY <2>3 DEF LookupStale
    <3>2. w # r
      BY <3>1, ThreadKinds DEF IdleRefreshers
    <3>3. QED
      BY <1>1, <3>1, <3>2 DEF Answering
  <2>4. CASE LookupMiss(w)
    <3>1. job[w] \in [pc : {"lookup"}, fd : Fds, req : Requests]
          /\ job'[w] = [job[w] EXCEPT !.pc = "fetch"]
      BY <1>1, <2>4, WorkerShape DEF LookupMiss
    <3>2. QED
      BY <3>1
  <2>5. QED
    BY <2>1, <2>2, <2>3, <2>4
<1>6. \A f \in Fds : Queued(f)' => Queued(f)
  BY <1>2 DEF Queued
<1>7. link[conn[job'[w].fd]].resp = None
  BY <1>3, <1>5
<1>8. QED
  BY <1>2, <1>4, <1>5, <1>6, <1>7, OwnEnds

LEMMA HandleEnds ==
    ASSUME ServerInv, EndInv, NEW w \in Workers, HandleClient(w)
    PROVE  EndInv' /\ EndsKept
<1>1. CASE Terminate
  BY <1>1, TerminateEnds DEF ServerInv
<1>2. CASE RecvFails(w)
  <2> DEFINE b == LinkOf(w).client # "closed"
  <2>1. /\ Busy(w) /\ CloseFd(w, b)
        /\ queue' = queue /\ backlog' = backlog /\ client' = client
    BY <1>2 DEF RecvFails, Busy
  <2>2. QED
    BY <2>1, CloseEnds
<1>2a. CASE CloseClient(w)
  <2> DEFINE b == LinkOf(w).failed
  <2>1. /\ Busy(w) /\ CloseFd(w, b)
        /\ queue' = queue /\ backlog' = backlog /\ client' = client
    BY <1>2a DEF CloseClient, Busy
  <2>2. LinkOf(w).resp # None \/ Excused(LinkOf(w))
    BY <1>2a DEF CloseClient, EndInv, AnsweredInv, WorkerEnds
  <2>3. QED
    BY <2>1, <2>2, CloseEnds
<1>2b. CASE ResponseFails(w)
  BY <1>2b, FailEnds
<1>3. CASE TakeTask(w)
  BY <1>3, TakeEnds
<1>4. CASE SendResponse(w)
  BY <1>4, SendEnds
<1>5. QED
  BY <1>1, <1>2, <1>2a, <1>2b, <1>3, <1>4, MiddleEnds
  DEF HandleClient, RefreshThreadFails, ResponseKills

(* A worker that fetches goes on with the descriptor it has. *)
LEMMA FetchServes ==
    ASSUME ServerInv, NEW t \in Workers, Fetch(t)
    PROVE  job'[t].pc \in {"assign", "sweep", "send"} /\ job'[t].fd = job[t].fd
<1>1. /\ job[t].pc \in {"fetch", "assign", "sweep"} /\ JobsOK /\ t \in Threads
      /\ job \in [Threads -> WorkerJobs \cup RefreshJobs]
  BY TypeHasJobs, ThreadKinds
  DEF Fetch, FetchFails, FetchSucceeds, PutAssign, RemoveStaleEntries, ServerInv, TypeOK
<1>2. CASE FetchFails(t) \/ FetchSucceeds(t) \/ RemoveStaleEntries(t)
  BY <1>1, <1>2 DEF FetchFails, FetchSucceeds, RemoveStaleEntries, Return, Answering
<1>3. CASE PutAssign(t)
  <2>1. /\ job[t] = [pc |-> job[t].pc, fd |-> job[t].fd, req |-> job[t].req,
                     entry |-> job[t].entry]
        /\ job'[t] = [job[t] EXCEPT !.pc = "sweep"]
    BY <1>1, <1>3, FetchShape DEF PutAssign
  <2>2. QED
    BY <2>1
<1>4. QED
  BY <1>2, <1>3 DEF Fetch

LEMMA FetchEnds ==
    ASSUME ServerInv, EndInv, NEW t \in Threads, Fetch(t)
    PROVE  EndInv' /\ EndsKept
<1>1. /\ job[t].pc \in {"fetch", "assign", "sweep"} /\ JobsOK
      /\ job \in [Threads -> WorkerJobs \cup RefreshJobs]
      /\ link' = link /\ conn' = conn /\ backlog' = backlog /\ client' = client /\ queue' = queue
  BY TypeHasJobs DEF Fetch, FetchFails, FetchSucceeds, PutAssign, RemoveStaleEntries,
                     ServerInv, TypeOK
<1>2. \A f \in Fds : Queued(f)' => Queued(f)
  BY <1>1 DEF Queued
<1>3. \A v \in Workers : v # t => job'[v] = job[v]
  BY <1>1, ThreadKinds DEF Fetch, FetchFails, FetchSucceeds, PutAssign, RemoveStaleEntries
<1>4. CASE t \in Workers
  <2>1. job'[t].pc \in {"assign", "sweep", "send"} /\ job'[t].fd = job[t].fd
    BY <1>4, FetchServes
  <2>2. link[conn[job[t].fd]].resp = None
    BY <1>1, <1>4 DEF EndInv, AnsweredInv, WorkerEnds, LinkOf
  <2>3. QED
    BY <1>1, <1>2, <1>3, <1>4, <2>1, <2>2, OwnEnds
<1>5. CASE t \notin Workers
  <2>1. \A v \in Workers : job'[v] = job[v]
    BY <1>3, <1>5
  <2>2. \A v \in Workers : WorkerEnds(v)'
    BY <1>1, <2>1 DEF EndInv, AnsweredInv, WorkerEnds, LinkOf
  <2>3. QED
    BY <1>1, <1>2, <2>2, QuietEnds
<1>6. QED
  BY <1>4, <1>5

LEMMA PauseEnds ==
    ASSUME ServerInv, EndInv, Tick \/ Restart
    PROVE  EndInv' /\ EndsKept
<1>1. link' = link /\ conn' = conn /\ backlog' = backlog /\ client' = client /\ queue' = queue
  BY DEF Tick, Restart
<1>2. \A f \in Fds : Queued(f)' => Queued(f)
  BY <1>1 DEF Queued
<1>3. \A w \in Workers : WorkerEnds(w)'
  <2>1. CASE Tick
    BY <1>1, <2>1 DEF Tick, EndInv, AnsweredInv, WorkerEnds, LinkOf
  <2>2. CASE Restart
    BY <2>2, StartTypes DEF Restart, WorkerEnds, Waiting
  <2>3. QED
    BY <2>1, <2>2
<1>4. QED
  BY <1>1, <1>2, <1>3, QuietEnds

-----------------------------------------------------------------------------
(* The oldest connection of the backlog leaves it for a free descriptor. *)
LEMMA AcceptEnds ==
    ASSUME ServerInv, EndInv, AcceptAndSubmit
    PROVE  EndInv' /\ EndsKept
<1> DEFINE x == Head(backlog)
<1>1. /\ TypeOK /\ backlog \in Seq(Conns) /\ backlog # <<>> /\ backlog' = Tail(backlog)
      /\ conn \in [Fds -> Conns \cup {None}] /\ queue \in Seq(Fds)
      /\ client' = client /\ job' = job
      /\ link' = [link EXCEPT ![x].server = "open"]
  BY DEF AcceptAndSubmit, ServerInv, TypeOK
<1>2. PICK fd \in FreeFds : conn' = [conn EXCEPT ![fd] = x] /\ queue' = Append(queue, fd)
  BY DEF AcceptAndSubmit
<1>3. fd \in Fds /\ conn[fd] = None /\ ~Queued(fd)
  BY <1>2 DEF FreeFds, ServerInv, FdOwnership
<1>4. /\ Len(backlog') = Len(backlog) - 1 /\ Len(backlog) \in Nat \ {0}
      /\ \A n \in 1..Len(backlog') :
            backlog'[n] = backlog[n + 1] /\ n + 1 \in 1..Len(backlog) /\ n + 1 # 1
      /\ x = backlog[1] /\ 1 \in 1..Len(backlog) /\ x \in Conns
  BY <1>1
<1> HIDE DEF x
<1>5. Made(x) /\ link[x].server = "none" /\ link[x].resp = None
  BY <1>4 DEF EndInv, PlacesInv, LinksInv
<1>6. /\ LinksInv' /\ ExcusesKept
      /\ \A d \in Conns : d # x => link'[d] = link[d]
      /\ link'[x].resp = None /\ link'[x].server = "open"
      /\ \A d \in Conns : Made(d)' <=> Made(d)
  <2>1. /\ \A d \in Conns : d # x => link'[d] = link[d]
        /\ link'[x].server = "open" /\ link'[x].resp = link[x].resp
        /\ Excused(link[x]) => Excused(link'[x])
    BY <1>1, <1>4, ServerField
  <2>2. LinksInv' /\ ExcusesKept /\ \A d \in Conns : Made(d)' <=> Made(d)
    BY <1>1, <1>4, <1>5, <2>1, EndLinks
  <2>3. QED
    BY <1>5, <2>1, <2>2
<1>7. (\A f \in Fds : f # fd => conn'[f] = conn[f]) /\ conn'[fd] = x
  BY <1>1, <1>2, <1>3
<1>8. /\ \A f \in Fds : conn[f] # None =>
            conn[f] \in Conns /\ Made(conn[f]) /\ link[conn[f]].server = "open" /\ conn[f] # x
  BY <1>1, <1>5 DEF EndInv, PlacesInv
<1>9. PlacesInv'
  <2>1. ASSUME NEW n \in 1..Len(backlog')
        PROVE  backlog'[n] \in Conns /\ Made(backlog'[n]) /\ link'[backlog'[n]].server = "none"
    <3>1. backlog'[n] = backlog[n + 1] /\ n + 1 \in 1..Len(backlog) /\ n + 1 # 1
      BY <1>4, <2>1
    <3>2. backlog[n + 1] \in Conns
      BY <1>1, <3>1
    <3>3. backlog[n + 1] # x
      <4>1. \A i, j \in 1..Len(backlog) : backlog[i] = backlog[j] => i = j
        BY DEF EndInv, PlacesInv
      <4>2. QED
        BY <1>4, <3>1, <4>1
    <3>4. Made(backlog[n + 1]) /\ link[backlog[n + 1]].server = "none"
      BY <3>1 DEF EndInv, PlacesInv
    <3>5. QED
      BY <1>6, <3>1, <3>2, <3>3, <3>4
  <2>2. ASSUME NEW m \in 1..Len(backlog'), NEW n \in 1..Len(backlog'), backlog'[m] = backlog'[n]
        PROVE  m = n
    <3>1. backlog[m + 1] = backlog[n + 1] /\ m + 1 \in 1..Len(backlog) /\ n + 1 \in 1..Len(backlog)
      BY <1>4, <2>2
    <3>2. m + 1 = n + 1
      BY <3>1 DEF EndInv, PlacesInv
    <3>3. QED
      BY <1>4, <3>2
  <2>3. ASSUME NEW f \in Fds, conn'[f] # None
        PROVE  conn'[f] \in Conns /\ Made(conn'[f]) /\ link'[conn'[f]].server = "open"
    <3>1. CASE f = fd
      BY <1>4, <1>5, <1>6, <1>7, <3>1
    <3>2. CASE f # fd
      BY <1>6, <1>7, <1>8, <2>3, <3>2
    <3>3. QED
      BY <3>1, <3>2
  <2>4. ASSUME NEW f \in Fds, NEW g \in Fds, conn'[f] # None, conn'[f] = conn'[g]  PROVE f = g
    <3>1. CASE f = fd \/ g = fd
      BY <1>4, <1>7, <1>8, <2>4, <3>1, NoneAssumption
    <3>2. CASE f # fd /\ g # fd
      BY <1>7, <2>4, <3>2 DEF EndInv, PlacesInv
    <3>3. QED
      BY <3>1, <3>2
  <2>5. QED
    BY <1>1, <2>1, <2>2, <2>3, <2>4 DEF PlacesInv, Made
<1>10. AnsweredInv'
  <2>1. ASSUME NEW f \in Fds, Queued(f)'  PROVE link'[conn'[f]].resp = None
    <3>1. Queued(f) \/ f = fd
      <4>1. \A m, n \in 1..Len(queue) : queue[m] = queue[n] => m = n
        BY DEF ServerInv, FdOwnership
      <4>2. QED
        BY <1>1, <1>2, <1>3, <2>1, <4>1, AppendQueued
    <3>2. CASE f = fd
      BY <1>6, <1>7, <3>2
    <3>3. CASE f # fd
      <4>1. Queued(f) /\ conn[f] # None /\ link[conn[f]].resp = None
        BY <3>1, <3>3 DEF ServerInv, FdOwnership, EndInv, AnsweredInv
      <4>2. QED
        BY <1>6, <1>7, <1>8, <3>3, <4>1
    <3>4. QED
      BY <3>2, <3>3
  <2>2. ASSUME NEW w \in Workers  PROVE WorkerEnds(w)'
    <3>1. WorkerEnds(w) /\ job'[w] = job[w]
      BY <1>1 DEF EndInv, AnsweredInv
    <3>2. ASSUME Busy(w)
          PROVE  /\ conn'[job[w].fd] = conn[job[w].fd]
                 /\ link'[conn[job[w].fd]].resp = link[conn[job[w].fd]].resp
      <4>1. job[w].fd \in Fds /\ conn[job[w].fd] \in Conns
        BY <3>2, BusyConn
      <4>2. conn[job[w].fd] # None
        BY <4>1, NoneAssumption
      <4>3. job[w].fd # fd
        BY <1>3, <4>2
      <4>4. QED
        BY <1>6, <1>7, <1>8, <4>1, <4>2, <4>3
    <3>3. QED
      BY <1>6, <3>1, <3>2, WorkerEndsKept
  <2>3. QED
    BY <2>1, <2>2 DEF AnsweredInv
<1>11. EndsKept
  BY <1>5, <1>6 DEF EndsKept
<1>12. QED
  BY <1>6, <1>9, <1>10, <1>11 DEF EndInv

-----------------------------------------------------------------------------
(* What a client's step does to connections: nothing at the server's end.  *)
LEMMA QueryLinks ==
    ASSUME ServerInv, EndInv, NEW c \in Clients, Query(c)
    PROVE  /\ \A d \in Conns : link'[d].resp = link[d].resp /\ link'[d].server = link[d].server
           /\ ExcusesKept
           /\ \A d \in Conns : Made(d) => Made(d)'
           /\ \A d \in Conns : ~Made(d)' => link'[d].client = link[d].client
           /\ \A d \in Conns :
                /\ link[d].client = "closed" => link'[d].client = "closed"
                /\ link[d].req # None => link'[d].req # None
<1>0. /\ client[c] \in [pc : {"idle", "connected", "awaiting"}, k : 0..MaxQueries]
      /\ link \in [Conns -> Links]
      /\ client \in [Clients -> [pc : {"idle", "connected", "awaiting"}, k : 0..MaxQueries]]
      /\ MaxQueries \in Nat
  BY ServerAssumption DEF ServerInv, TypeOK
<1>1. /\ \A d \in Clients : d # c => client'[d].k = client[d].k
      /\ client'[c].k \in Nat /\ client[c].k \in Nat /\ client[c].k <= client'[c].k
  <2>1. CASE Connect(c)
    BY <1>0, <2>1 DEF Connect
  <2>2. CASE ConnectFails(c)
    BY <1>0, <2>2 DEF ConnectFails
  <2>3. CASE \/ \E req \in Requests : SendRequest(c, req)
             \/ SendFails(c) \/ Receive(c) \/ GiveUp(c)
    <3>1. PICK p : client' = [client EXCEPT ![c].pc = p]
      BY <2>3 DEF SendRequest, SendFails, Receive, GiveUp, Goes
    <3>2. QED
      BY <1>0, <3>1
  <2>4. QED
    BY <2>1, <2>2, <2>3 DEF Query
<1>2. \A d \in Conns : Made(d) => Made(d)'
  <2> SUFFICES ASSUME NEW d \in Conns, Made(d)  PROVE d[2] <= client'[d[1]].k
    BY DEF Made
  <2>1. d[1] \in Clients /\ d[2] \in Nat /\ d[2] <= client[d[1]].k
    BY ConnParts, ServerAssumption DEF Made
  <2>2. QED
    BY <1>1, <2>1
<1>3. PICK x : /\ x[1] = c /\ x[2] = client'[c].k
               /\ \/ link' = link
                  \/ link[x].client = "none" /\ link' = [link EXCEPT ![x].client = "open"]
                  \/ link' = [link EXCEPT ![x].client = "closed"]
                  \/ \E r \in Requests : link' = [link EXCEPT ![x].req = r]
  <2>1. CASE Connect(c)
    <3> DEFINE x == <<c, client[c].k + 1>>
    <3>1. client[c].k + 1 \in 1..MaxQueries /\ client'[c].k = client[c].k + 1
      BY <1>0, <2>1 DEF Connect
    <3>2. x \in Conns /\ ~Made(x)
      BY <1>0, <3>1 DEF Conns, Made
    <3>3. link[x].client = "none"
      BY <3>2 DEF EndInv, LinksInv
    <3>4. link' = [link EXCEPT ![x].client = "open"]
      BY <2>1 DEF Connect
    <3>5. x[1] = c /\ x[2] = client'[c].k
      BY <3>1
    <3>6. QED
      BY <3>3, <3>4, <3>5
  <2>2. CASE ConnectFails(c)
    <3>1. link' = link /\ <<c, client'[c].k>>[1] = c /\ <<c, client'[c].k>>[2] = client'[c].k
      BY <2>2 DEF ConnectFails
    <3>2. QED
      BY <3>1
  <2>3. CASE \/ \E req \in Requests : SendRequest(c, req)
             \/ SendFails(c) \/ Receive(c) \/ GiveUp(c)
    <3>1. client'[c].k = client[c].k
      <4>1. PICK p : client' = [client EXCEPT ![c].pc = p]
        BY <2>3 DEF SendRequest, SendFails, Receive, GiveUp, Goes
      <4>2. QED
        BY <1>0, <4>1
    <3>2. ConnOf(c)[1] = c /\ ConnOf(c)[2] = client'[c].k
      BY <3>1 DEF ConnOf
    <3>3. \/ link' = [link EXCEPT ![ConnOf(c)].client = "closed"]
          \/ \E r \in Requests : link' = [link EXCEPT ![ConnOf(c)].req = r]
      BY <2>3 DEF SendRequest, SendFails, Receive, GiveUp, HangUp
    <3>4. QED
      BY <3>2, <3>3
  <2>4. QED
    BY <2>1, <2>2, <2>3 DEF Query
<1>4. \A d \in Conns :
        /\ d # x => link'[d] = link[d]
        /\ link'[d].resp = link[d].resp /\ link'[d].server = link[d].server
        /\ link'[d].failed = link[d].failed
        /\ link[d].client = "closed" => link'[d].client = "closed"
        /\ link[d].req # None => link'[d].req # None
  <2> SUFFICES ASSUME NEW d \in Conns
               PROVE  /\ d # x => link'[d] = link[d]
                      /\ link'[d].resp = link[d].resp /\ link'[d].server = link[d].server
                      /\ link'[d].failed = link[d].failed
                      /\ link[d].client = "closed" => link'[d].client = "closed"
                      /\ link[d].req # None => link'[d].req # None
    OBVIOUS
  <2>1. link[d] \in Links
    BY <1>0
  <2>2. CASE d # x
    BY <1>0, <1>3, <2>2
  <2>3. CASE d = x
    <3>1. \/ link'[d] = link[d]
          \/ link[d].client = "none" /\ link'[d] = [link[d] EXCEPT !.client = "open"]
          \/ link'[d] = [link[d] EXCEPT !.client = "closed"]
          \/ \E r \in Requests : link'[d] = [link[d] EXCEPT !.req = r]
      BY <1>0, <1>3, <2>3
    <3>2. QED
      BY <2>1, <2>3, <3>1, RequestIsThere DEF Links
  <2>4. QED
    BY <2>2, <2>3
<1>5. ASSUME NEW d \in Conns, ~Made(d)'  PROVE link'[d].client = link[d].client
  <2>1. d # x
    <3>1. ~(d[2] <= client'[d[1]].k)
      BY <1>5 DEF Made
    <3>2. QED
      BY <1>1, <1>3, <3>1
  <2>2. QED
    BY <1>4, <2>1
<1>6. QED
  BY <1>2, <1>4, <1>5 DEF ExcusesKept, Excused

LEMMA QueryEnds ==
    ASSUME ServerInv, EndInv, NEW c \in Clients, Query(c)
    PROVE  EndInv' /\ EndsKept
<1>0. /\ TypeOK /\ queue' = queue /\ conn' = conn /\ job' = job
      /\ backlog \in Seq(Conns) /\ conn \in [Fds -> Conns \cup {None}]
  BY DEF ServerInv, TypeOK, Query, Connect, ConnectFails, SendRequest, SendFails, Receive, GiveUp
<1>1. /\ \A d \in Conns : link'[d].resp = link[d].resp /\ link'[d].server = link[d].server
      /\ ExcusesKept
      /\ \A d \in Conns : Made(d) => Made(d)'
      /\ \A d \in Conns : ~Made(d)' => link'[d].client = link[d].client
  BY QueryLinks
<1>2. LinksInv'
  <2>1. NoSilentClose'
    BY <1>1 DEF EndInv, LinksInv, NoSilentClose, ExcusesKept, Excused
  <2>2. QED
    BY <1>1, <2>1 DEF EndInv, LinksInv
<1>3. PlacesInv'
  <2>1. \A f \in Fds : conn[f] # None =>
            conn[f] \in Conns /\ Made(conn[f]) /\ link[conn[f]].server = "open"
    BY <1>0 DEF EndInv, PlacesInv
  <2>2. \A f \in Fds : conn'[f] # None =>
            conn'[f][2] <= client'[conn'[f][1]].k /\ link'[conn'[f]].server = "open"
    BY <1>0, <1>1, <2>1 DEF Made
  <2>3. \A n \in 1..Len(backlog) :
            /\ backlog[n] \in Conns /\ link'[backlog[n]].server = "none"
            /\ backlog[n][2] <= client'[backlog[n][1]].k
    <3>1. \A n \in 1..Len(backlog) :
            backlog[n] \in Conns /\ Made(backlog[n]) /\ link[backlog[n]].server = "none"
      BY <1>0 DEF EndInv, PlacesInv
    <3>2. QED
      BY <1>1, <3>1 DEF Made
  <2>4. CASE backlog' = backlog
    BY <1>0, <2>2, <2>3, <2>4 DEF EndInv, PlacesInv, Made
  <2>5. CASE Connect(c)
    <3> DEFINE x == <<c, client[c].k + 1>>
    <3>1. /\ client[c].k \in Nat /\ client[c].k + 1 \in 1..MaxQueries
          /\ client'[c].k = client[c].k + 1
      BY <2>5, ServerAssumption DEF Connect, ServerInv, TypeOK
    <3>2. x \in Conns /\ ~Made(x)
      BY <3>1 DEF Conns, Made
    <3>3. x[2] <= client'[x[1]].k
      BY <3>1
    <3>4. link'[x].server = "none"
      BY <1>1, <3>2 DEF EndInv, LinksInv
    <3>5. backlog' = Append(backlog, x)
      BY <2>5 DEF Connect
    <3> HIDE DEF x
    <3>6. /\ Len(backlog') = Len(backlog) + 1 /\ Len(backlog) \in Nat
          /\ \A n \in 1..Len(backlog) : backlog'[n] = backlog[n]
          /\ backlog'[Len(backlog) + 1] = x
      BY <1>0, <3>2, <3>5
    <3>7. \A n \in 1..Len(backlog) : backlog[n] # x
      BY <3>2 DEF EndInv, PlacesInv
    <3>8. \A n \in 1..Len(backlog') : n \in 1..Len(backlog) \/ n = Len(backlog) + 1
      BY <3>6
    <3>9. \A n \in 1..Len(backlog') :
            backlog'[n][2] <= client'[backlog'[n][1]].k /\ link'[backlog'[n]].server = "none"
      BY <2>3, <3>3, <3>4, <3>6, <3>8
    <3>10. \A m, n \in 1..Len(backlog') : backlog'[m] = backlog'[n] => m = n
      BY <3>6, <3>7, <3>8 DEF EndInv, PlacesInv
    <3>11. QED
      BY <1>0, <2>2, <3>9, <3>10 DEF EndInv, PlacesInv, Made
  <2>6. QED
    BY <2>4, <2>5 DEF Query, ConnectFails, SendRequest, SendFails, Receive, GiveUp
<1>4. AnsweredInv'
  <2>1. ASSUME NEW f \in Fds, Queued(f)'  PROVE link'[conn'[f]].resp = None
    <3>1. Queued(f) /\ conn[f] # None
      BY <1>0, <2>1 DEF Queued, ServerInv, FdOwnership
    <3>2. conn[f] \in Conns /\ link[conn[f]].resp = None
      BY <1>0, <3>1 DEF EndInv, AnsweredInv
    <3>3. QED
      BY <1>0, <1>1, <3>2
  <2>2. ASSUME NEW w \in Workers  PROVE WorkerEnds(w)'
    <3>1. WorkerEnds(w) /\ job'[w] = job[w]
      BY <1>0 DEF EndInv, AnsweredInv
    <3>2. Busy(w) => conn[job[w].fd] \in Conns
      BY BusyConn
    <3>3. QED
      BY <1>0, <1>1, <3>1, <3>2, WorkerEndsKept
  <2>3. QED
    BY <2>1, <2>2 DEF AnsweredInv
<1>5. EndsKept
  BY <1>1 DEF EndsKept
<1>6. QED
  BY <1>2, <1>3, <1>4, <1>5 DEF EndInv

LEMMA NextEnds == ServerInv /\ EndInv /\ [Next]_vars => EndInv' /\ EndsKept
<1> SUFFICES ASSUME ServerInv, EndInv, [Next]_vars PROVE EndInv' /\ EndsKept
  OBVIOUS
<1>1. CASE Tick \/ Restart
  BY <1>1, PauseEnds
<1>2. CASE AcceptAndSubmit
  BY <1>2, AcceptEnds
<1>3. ASSUME NEW c \in Clients, Query(c) PROVE EndInv' /\ EndsKept
  BY <1>3, QueryEnds
<1>4. ASSUME NEW w \in Workers, HandleClient(w) PROVE EndInv' /\ EndsKept
  BY <1>4, HandleEnds
<1>5. ASSUME NEW t \in Threads, Fetch(t) PROVE EndInv' /\ EndsKept
  BY <1>5, FetchEnds
<1>6. CASE UNCHANGED vars
  <2>1. \A w \in Workers : WorkerEnds(w)'
    BY <1>6 DEF vars, EndInv, AnsweredInv, WorkerEnds, LinkOf
  <2>2. \A f \in Fds : Queued(f)' => Queued(f)
    BY <1>6 DEF vars, Queued
  <2>3. QED
    BY <1>6, <2>1, <2>2, QuietEnds DEF vars
<1>7. QED
  BY <1>1, <1>2, <1>3, <1>4, <1>5, <1>6 DEF Next

LEMMA EndInvariant == Spec => []EndInv
<1>1. QED
  BY InitEnds, NextEnds, ServerInvariant, PTL DEF Spec

(* The server hangs up on a client unanswered only if the client has hung  *)
(* up itself or the recv() or the send() of its own connection has failed: *)
(* no path through handle_client is left without an attempt to answer, and *)
(* no failure of a fetch or on another connection costs anyone the answer. *)
THEOREM NobodyIsLeftUnanswered == Spec => []NoSilentClose
<1>1. EndInv => NoSilentClose
  BY DEF EndInv, LinksInv
<1>2. QED
  BY <1>1, EndInvariant, PTL

(* An answer is final, and so is close(): the descriptor's next connection *)
(* cannot be mistaken for the last one.                                    *)
THEOREM AnswersAndClosesAreFinal == Spec => NothingAfterClose
<1>1. ServerInv /\ EndInv /\ [Next]_vars => [EndsKept]_vars
  BY NextEnds
<1>2. [EndsKept]_vars <=> [\A c \in Conns :
        /\ link[c].resp # None => link'[c].resp = link[c].resp
        /\ link[c].server \in {"closed", "reset"} =>
            link'[c].server = link[c].server /\ link'[c].resp = link[c].resp]_vars
  BY DEF EndsKept
<1>3. QED
  BY <1>1, <1>2, ServerInvariant, EndInvariant, PTL DEF Spec, NothingAfterClose
-----------------------------------------------------------------------------
(* What the process dies of.  Each refresh thread that runs was started by *)
(* the request of another connection that has been looked up since.        *)
Running == {r \in Refreshers : job[r].pc # "none"}

Asked == {d \in Conns : link[d].req # None}

(* The program counters after the lookup. *)
Past(w) == job[w].pc \in {"fetch", "assign", "sweep", "send", "close"}

Served(d) ==
    \/ link[d].server \in {"closed", "reset"}
    \/ \E w \in Workers : Past(w) /\ conn[job[w].fd] = d

Passed == {d \in Asked : Served(d)}

CountInv == Cardinality(Running) <= Cardinality(Passed)

(* The two causes that DeathHasCause allows. *)
PipeBroke ==
    /\ BrokenPipeKills
    /\ \E d \in Conns : /\ link[d].client = "closed" /\ link[d].server = "reset"
                        /\ link[d].req # None /\ link[d].resp = None

TooManyAsked == Cardinality(Asked) > Cardinality(Refreshers)

LEMMA DeathIs ==
    DeathHasCause <=> \A c \in Conns : link[c].server = "reset" => PipeBroke \/ TooManyAsked
  BY DEF DeathHasCause, PipeBroke, TooManyAsked, Asked

LEMMA DeathIsNext ==
    DeathHasCause' <=> \A c \in Conns : link'[c].server = "reset" => PipeBroke' \/ TooManyAsked'
  BY DEF DeathHasCause, PipeBroke, TooManyAsked, Asked

LEMMA FiniteSystem ==
    /\ IsFiniteSet(Conns) /\ IsFiniteSet(Refreshers)
    /\ \A S \in SUBSET Conns : IsFiniteSet(S) /\ Cardinality(S) \in Nat
    /\ \A S \in SUBSET Refreshers : IsFiniteSet(S) /\ Cardinality(S) \in Nat
<1>1. IsFiniteSet(1..MaxQueries)
  BY FS_Interval, ServerAssumption
<1>2. IsFiniteSet(Conns)
  BY <1>1, FS_Product, FiniteAssumption DEF Conns
<1>3. QED
  BY <1>2, FiniteAssumption, FS_Subset, FS_CardinalityType

(* Steps other than the death of the process take back no request and no   *)
(* hanging up, and reset no connection.                                    *)
LinksGrow ==
    \A d \in Conns :
        /\ link[d].req # None => link'[d].req # None
        /\ link[d].client = "closed" => link'[d].client = "closed"
        /\ link'[d].server = "reset" => link[d].server = "reset"

Kills(w) == RefreshThreadFails(w) \/ ResponseKills(w)

LEMMA LivesOn ==
    ASSUME ServerInv, NEW w \in Workers, HandleClient(w), ~Kills(w)
    PROVE  ~Terminate
<1>1. up
  <2>1. CASE TakeTask(w)
    BY <2>1 DEF TakeTask, ServerInv, DownInv
  <2>2. CASE ~TakeTask(w)
    <3>1. Busy(w)
      BY <2>2 DEF HandleClient, RecvRequest, RecvFails, LookupFresh, LookupStale, LookupMiss,
                  SendResponse, ResponseFails, CloseClient, Kills, Busy
    <3>2. job[w].fd \in Fds /\ conn[job[w].fd] # None
      BY <3>1, BusyConn, NoneAssumption
    <3>3. QED
      BY <3>2 DEF ServerInv, DownInv
  <2>3. QED
    BY <2>1, <2>2
<1>2. up' = up
  BY DEF HandleClient, TakeTask, RecvRequest, RecvFails, LookupFresh, LookupStale, LookupMiss,
         SendResponse, ResponseFails, CloseClient, Kills
<1>3. QED
  BY <1>1, <1>2 DEF Terminate

LEMMA HandleGrows ==
    ASSUME ServerInv, AnswerInv, EndInv, NEW w \in Workers, HandleClient(w), ~Terminate
    PROVE  LinksGrow
<1>1. TypeOK /\ \A d \in Conns : link'[d].req = link[d].req
  BY HandleLinks DEF ServerInv
<1>2. \A d \in Conns :
        link'[d].client = link[d].client /\ link'[d].server \in {link[d].server, "closed"}
  <2>1. CASE SendResponse(w)
    <3>1. conn[job[w].fd] \in Conns
      BY <2>1, BusyConn DEF SendResponse, Busy
    <3>2. QED
      BY <1>1, <2>1, <3>1, RespField DEF SendResponse
  <2>2. CASE ResponseFails(w)
    <3>1. conn[job[w].fd] \in Conns
      BY <2>2, BusyConn DEF ResponseFails, Busy
    <3>2. QED
      BY <1>1, <2>2, <3>1, FailField DEF ResponseFails, LinkOf
  <2>3. CASE RecvFails(w)
    <3>1. conn[job[w].fd] \in Conns
      BY <2>3, BusyConn DEF RecvFails, Busy
    <3>2. QED
      BY <1>1, <2>3, <3>1, CloseField DEF RecvFails, CloseFd, LinkOf
  <2>4. CASE CloseClient(w)
    <3>1. conn[job[w].fd] \in Conns
      BY <2>4, BusyConn DEF CloseClient, Busy
    <3>2. QED
      BY <1>1, <2>4, <3>1, CloseField DEF CloseClient, CloseFd, LinkOf
  <2>5. CASE link' = link
    BY <2>5
  <2>6. QED
    BY <2>1, <2>2, <2>3, <2>4, <2>5
    DEF HandleClient, TakeTask, RecvRequest, LookupFresh, LookupStale, LookupMiss,
        ResponseKills, RefreshThreadFails
<1>3. QED
  BY <1>1, <1>2 DEF LinksGrow

LEMMA NextGrows ==
    ASSUME ServerInv, AnswerInv, EndInv, [Next]_vars, \A w \in Workers : ~Kills(w)
    PROVE  LinksGrow
<1>1. CASE AcceptAndSubmit
  <2> DEFINE x == Head(backlog)
  <2>1. /\ TypeOK /\ backlog \in Seq(Conns) /\ backlog # <<>>
        /\ link' = [link EXCEPT ![x].server = "open"]
    BY <1>1 DEF AcceptAndSubmit, ServerInv, TypeOK
  <2>2. x \in Conns
    BY <2>1
  <2> HIDE DEF x
  <2>3. QED
    BY <2>1, <2>2, ServerField DEF LinksGrow
<1>2. ASSUME NEW c \in Clients, Query(c) PROVE LinksGrow
  BY <1>2, QueryLinks DEF LinksGrow
<1>3. ASSUME NEW w \in Workers, HandleClient(w) PROVE LinksGrow
  BY <1>3, HandleGrows, LivesOn
<1>4. CASE Tick \/ Restart \/ (\E t \in Threads : Fetch(t)) \/ UNCHANGED vars
  <2>1. link' = link
    BY <1>4 DEF Tick, Restart, Fetch, FetchFails, FetchSucceeds, PutAssign,
                RemoveStaleEntries, vars
  <2>2. QED
    BY <2>1 DEF LinksGrow
<1>5. QED
  BY <1>1, <1>2, <1>3, <1>4 DEF Next

(* A cause once given stays one. *)
LEMMA CausesStay ==
    ASSUME LinksGrow, EndsKept, PipeBroke \/ TooManyAsked
    PROVE  PipeBroke' \/ TooManyAsked'
<1>1. CASE PipeBroke
  BY <1>1 DEF PipeBroke, LinksGrow, EndsKept
<1>2. CASE TooManyAsked
  <2>1. Asked \subseteq Asked' /\ Asked' \in SUBSET Conns
    BY DEF Asked, LinksGrow
  <2>2. /\ Cardinality(Asked) <= Cardinality(Asked')
        /\ Cardinality(Asked) \in Nat /\ Cardinality(Asked') \in Nat
        /\ Cardinality(Refreshers) \in Nat
    BY <2>1, FiniteSystem, FS_Subset, FS_CardinalityType DEF Asked
  <2>3. QED
    BY <1>2, <2>2 DEF TooManyAsked
<1>3. QED
  BY <1>1, <1>2

(* The connection that a worker about to look up serves has not been       *)
(* counted: no other worker serves it, and it is open.                     *)
LEMMA LookingUp ==
    ASSUME ServerInv, AnswerInv, EndInv, NEW w \in Workers, job[w].pc = "lookup"
    PROVE  conn[job[w].fd] \in Asked \ Passed
<1>1. Busy(w)
  BY DEF Busy
<1>2. /\ conn[job[w].fd] \in Conns /\ job[w].fd \in Fds
      /\ link[conn[job[w].fd]].server = "open"
  BY <1>1, BusyEnds
<1>3. link[conn[job[w].fd]].req = job[w].req
  BY ThreadKinds DEF AnswerInv, JobSound, HandlesRequest, LinkOf
<1>4. job[w].req \in Requests
  <2>1. job[w] \in WorkerJobs
    BY DEF ServerInv, TypeOK
  <2>2. job[w] \in [pc : {"lookup"}, fd : Fds, req : Requests]
    BY <2>1, WorkerShape
  <2>3. QED
    BY <2>2
<1>5. ASSUME NEW v \in Workers, Past(v), conn[job[v].fd] = conn[job[w].fd]  PROVE FALSE
  <2>1. v # w /\ Busy(v)
    BY <1>5 DEF Past, Busy
  <2>2. job[v].fd # job[w].fd /\ job[v].fd \in Fds /\ conn[job[v].fd] \in Conns
    BY <1>1, <2>1, BusyEnds
  <2>3. QED
    BY <1>1, <1>5, <2>2, BusyEnds, NoneAssumption
<1>6. QED
  BY <1>2, <1>3, <1>4, <1>5, RequestIsThere DEF Asked, Passed, Served

(* One connection more than those counted has asked. *)
LEMMA OneMore ==
    ASSUME NEW S \in SUBSET Conns, NEW d \in Conns \ S
    PROVE  Cardinality(S \cup {d}) = Cardinality(S) + 1
  BY FiniteSystem, FS_AddElement

LEMMA DeathCauses ==
    ASSUME ServerInv, AnswerInv, EndInv, CountInv, NEW w \in Workers, Kills(w)
    PROVE  PipeBroke' \/ TooManyAsked'
<1>0. link \in [Conns -> Links] /\ Terminate
  BY DEF ServerInv, TypeOK, Kills, RefreshThreadFails, ResponseKills
<1>1. \A d \in Conns :
        /\ link'[d].req = link[d].req /\ link'[d].resp = link[d].resp
        /\ link'[d].client = link[d].client
        /\ link[d].client # "none" /\ link[d].server = "open" => link'[d].server = "reset"
  <2> SUFFICES ASSUME NEW d \in Conns
               PROVE  /\ link'[d].req = link[d].req /\ link'[d].resp = link[d].resp
                      /\ link'[d].client = link[d].client
                      /\ link[d].client # "none" /\ link[d].server = "open" =>
                            link'[d].server = "reset"
    OBVIOUS
  <2>1. link'[d] = IF link[d].client # "none" /\ link[d].server \in {"none", "open"}
                   THEN [link[d] EXCEPT !.server = "reset"] ELSE link[d]
    BY <1>0 DEF Terminate
  <2>2. link[d] \in Links
    BY <1>0
  <2>3. QED
    BY <2>1, <2>2 DEF Links
<1>2. CASE ResponseKills(w)
  <2> DEFINE d == conn[job[w].fd]
  <2>1. job[w].pc = "send" /\ LinkOf(w).client = "closed" /\ BrokenPipeKills /\ Busy(w)
    BY <1>2 DEF ResponseKills, Busy
  <2>2. d \in Conns /\ link[d].server = "open" /\ LinkOf(w) = link[d]
    BY <2>1, BusyEnds
  <2>3. link[d].resp = None
    BY <2>1, <2>2 DEF EndInv, AnsweredInv, WorkerEnds
  <2>4. link[d].req # None
    <3>1. LinkOf(w).req \in Requests
      BY <2>1, ThreadKinds DEF AnswerInv, JobSound, HoldsAnswer
    <3>2. QED
      BY <2>2, <3>1, RequestIsThere
  <2>5. link'[d].client = "closed" /\ link'[d].server = "reset" /\ link'[d].req # None
        /\ link'[d].resp = None
    BY <1>1, <2>1, <2>2, <2>3, <2>4
  <2> HIDE DEF d
  <2>6. QED
    BY <2>1, <2>2, <2>5 DEF PipeBroke
<1>3. CASE RefreshThreadFails(w)
  <2> DEFINE d == conn[job[w].fd]
  <2>1. d \in Asked \ Passed /\ Running = Refreshers
    <3>1. job[w].pc = "lookup" /\ IdleRefreshers = {}
      BY <1>3 DEF RefreshThreadFails
    <3>2. QED
      BY <3>1, LookingUp DEF Running, IdleRefreshers
  <2> HIDE DEF d
  <2>2. /\ Passed \in SUBSET Conns /\ Asked \in SUBSET Conns /\ d \in Conns \ Passed
        /\ Passed \cup {d} \subseteq Asked
    BY <2>1 DEF Passed, Asked
  <2>3. Cardinality(Passed \cup {d}) = Cardinality(Passed) + 1
    BY <2>2, OneMore
  <2>4. Cardinality(Passed \cup {d}) <= Cardinality(Asked)
    BY <2>2, FiniteSystem, FS_Subset
  <2>5. Asked' = Asked
    BY <1>1 DEF Asked
  <2>6. /\ Cardinality(Passed) \in Nat /\ Cardinality(Asked) \in Nat
        /\ Cardinality(Refreshers) \in Nat
    BY <2>2, FiniteSystem
  <2>7. Cardinality(Asked) > Cardinality(Refreshers)
    BY <2>1, <2>3, <2>4, <2>6 DEF CountInv
  <2>8. QED
    BY <2>5, <2>7 DEF TooManyAsked
<1>4. QED
  BY <1>2, <1>3 DEF Kills

(* Who has been counted stays counted, if no worker turns back before its  *)
(* connection is closed.                                                   *)
LEMMA PassedKept ==
    ASSUME LinksGrow, EndsKept,
           \A v \in Workers : Past(v) =>
              \/ Past(v)' /\ conn'[job'[v].fd] = conn[job[v].fd]
              \/ conn[job[v].fd] \in Conns => link'[conn[job[v].fd]].server = "closed"
    PROVE  Passed \subseteq Passed'
<1> SUFFICES ASSUME NEW d \in Passed  PROVE d \in Passed'
  OBVIOUS
<1>1. d \in Conns /\ d \in Asked' /\ Served(d)
  BY DEF Passed, Asked, LinksGrow
<1>2. link'[d].server \in {"closed", "reset"} \/ \E v \in Workers : Past(v)' /\ conn'[job'[v].fd] = d
  <2>1. CASE link[d].server \in {"closed", "reset"}
    BY <1>1, <2>1 DEF EndsKept
  <2>2. ASSUME NEW v \in Workers, Past(v), conn[job[v].fd] = d
        PROVE  link'[d].server = "closed" \/ (Past(v)' /\ conn'[job'[v].fd] = d)
    BY <1>1, <2>2
  <2>3. QED
    BY <1>1, <2>1, <2>2 DEF Served
<1>3. QED
  BY <1>1, <1>2 DEF Passed, Served

LEMMA HandlePassed ==
    ASSUME ServerInv, EndInv, LinksGrow, EndsKept,
           NEW w \in Workers, HandleClient(w), ~Terminate
    PROVE  Passed \subseteq Passed'
<1>0. /\ TypeOK /\ w \in Threads /\ job \in [Threads -> WorkerJobs \cup RefreshJobs]
  BY ThreadKinds DEF ServerInv, TypeOK
<1>1. ASSUME NEW v \in Workers, v # w, Past(v)
      PROVE  Past(v)' /\ conn'[job'[v].fd] = conn[job[v].fd]
  <2>1. job'[v] = job[v]
    BY <1>1, HandleOtherJobs, ThreadKinds
  <2>2. Busy(v)
    BY <1>1 DEF Past, Busy
  <2>3. conn'[job[v].fd] = conn[job[v].fd]
    BY <1>1, <2>2, OthersConn
  <2>4. QED
    BY <1>1, <2>1, <2>3 DEF Past
<1>2. ASSUME Past(w)
      PROVE  \/ Past(w)' /\ conn'[job'[w].fd] = conn[job[w].fd]
             \/ conn[job[w].fd] \in Conns => link'[conn[job[w].fd]].server = "closed"
  <2>1. CASE SendResponse(w) \/ ResponseFails(w)
    BY <1>0, <2>1 DEF SendResponse, ResponseFails, Past
  <2>2. CASE CloseClient(w)
    <3>1. conn[job[w].fd] \in Conns
      BY <2>2, BusyConn DEF CloseClient, Busy
    <3>2. QED
      BY <1>0, <2>2, <3>1, CloseField DEF CloseClient, CloseFd, LinkOf
  <2>3. QED
    BY <1>2, <2>1, <2>2
    DEF HandleClient, TakeTask, RecvRequest, RecvFails, LookupFresh, LookupStale, LookupMiss,
        ResponseKills, RefreshThreadFails, Past
<1>3. QED
  BY <1>1, <1>2, PassedKept

(* A stale hit starts one thread and counts one connection more. *)
LEMMA StaleCounts ==
    ASSUME ServerInv, AnswerInv, EndInv, CountInv, LinksGrow, EndsKept,
           NEW w \in Workers, LookupStale(w), ~Terminate
    PROVE  CountInv'
<1>0. PICK d : d = conn[job[w].fd]
  OBVIOUS
<1>1. /\ job[w].pc = "lookup" /\ conn' = conn /\ w \in Threads /\ HandleClient(w)
      /\ job \in [Threads -> WorkerJobs \cup RefreshJobs]
  BY ThreadKinds DEF LookupStale, HandleClient, ServerInv, TypeOK
<1>2. PICK r \in IdleRefreshers :
        job' = [job EXCEPT ![w] = Answering(w, Found(w).state, "Ok", Found(w).arrivals),
                           ![r] = [pc |-> "fetch", fd |-> NoFd, req |-> job[w].req]]
  BY DEF LookupStale
<1>3. r \in Refreshers /\ r \in Threads /\ r # w /\ job[r].pc = "none"
  BY <1>2, ThreadKinds DEF IdleRefreshers
<1>4. job'[w].pc = "send" /\ job'[w].fd = job[w].fd
  BY <1>1, <1>2, <1>3 DEF Answering
<1>5. Running' = Running \cup {r}
  BY <1>1, <1>2, <1>3, ThreadKinds DEF Running
<1>6. d \in Asked \ Passed /\ d \in Conns
  BY <1>0, <1>1, LookingUp DEF Asked
<1>7. d \in Passed'
  <2>1. Past(w)' /\ conn'[job'[w].fd] = d
    BY <1>0, <1>1, <1>4 DEF Past
  <2>2. Served(d)'
    BY <2>1 DEF Served
  <2>3. d \in Asked'
    BY <1>6 DEF Asked, LinksGrow
  <2>4. QED
    BY <2>2, <2>3 DEF Passed
<1>8. Passed \subseteq Passed'
  BY <1>1, HandlePassed
<1>9. Cardinality(Passed \cup {d}) = Cardinality(Passed) + 1
  BY <1>6, OneMore DEF Passed, Asked
<1>10. /\ Cardinality(Passed \cup {d}) <= Cardinality(Passed')
       /\ Cardinality(Passed') \in Nat /\ Cardinality(Passed) \in Nat
  <2>1. Passed \cup {d} \subseteq Passed' /\ Passed' \in SUBSET Conns /\ Passed \in SUBSET Conns
    BY <1>7, <1>8 DEF Passed, Asked
  <2>2. QED
    BY <2>1, FiniteSystem, FS_Subset
<1>11. Cardinality(Running \cup {r}) <= Cardinality(Running) + 1 /\ Cardinality(Running) \in Nat
  <2>1. IsFiniteSet(Running) /\ Cardinality(Running) \in Nat
    BY FiniteSystem DEF Running
  <2>2. QED
    BY <2>1, FS_AddElement
<1>12. Cardinality(Running \cup {r}) \in Nat
  BY <1>5, FS_AddElement, FS_CardinalityType, FiniteSystem DEF Running
<1>13. QED
  BY <1>5, <1>9, <1>10, <1>11, <1>12 DEF CountInv

(* No other step has more threads running or fewer connections counted. *)
LEMMA CountsKept ==
    ASSUME CountInv, Running' \subseteq Running, Passed \subseteq Passed'
    PROVE  CountInv'
<1>1. Running \in SUBSET Refreshers /\ Passed' \in SUBSET Conns /\ Passed \in SUBSET Conns
  BY DEF Running, Passed, Asked
<1>2. Running' \in SUBSET Refreshers
  BY <1>1
<1>3. Cardinality(Running') <= Cardinality(Running)
  BY <1>1, FiniteSystem, FS_Subset
<1>4. Cardinality(Passed) <= Cardinality(Passed')
  BY <1>1, FiniteSystem, FS_Subset
<1>5. /\ Cardinality(Running) \in Nat /\ Cardinality(Running') \in Nat
      /\ Cardinality(Passed) \in Nat /\ Cardinality(Passed') \in Nat
  BY <1>1, <1>2, FiniteSystem
<1>6. QED
  BY <1>3, <1>4, <1>5 DEF CountInv

LEMMA NothingRuns == ASSUME Running' = {} PROVE CountInv'
<1>1. Passed' \in SUBSET Conns
  BY DEF Passed, Asked
<1>2. Cardinality(Passed') \in Nat /\ Cardinality(Running') = 0
  BY <1>1, FiniteSystem, FS_EmptySet
<1>3. QED
  BY <1>2 DEF CountInv

LEMMA NextCounts ==
    ASSUME ServerInv, AnswerInv, EndInv, CountInv, LinksGrow, EndsKept, [Next]_vars,
           \A w \in Workers : ~Kills(w)
    PROVE  CountInv'
<1>0. job \in [Threads -> WorkerJobs \cup RefreshJobs] /\ conn \in [Fds -> Conns \cup {None}]
  BY DEF ServerInv, TypeOK
<1>1. CASE Restart
  <2>1. Running' = {}
    BY <1>1, ThreadKinds DEF Restart, Running, AtStart, NoJob
  <2>2. QED
    BY <2>1, NothingRuns
<1>2. CASE Tick \/ (\E c \in Clients : Query(c)) \/ UNCHANGED vars
  <2>1. job' = job /\ conn' = conn
    BY <1>2 DEF Tick, Query, Connect, ConnectFails, SendRequest, SendFails, Receive, GiveUp, vars
  <2>2. \A v \in Workers : Past(v) => Past(v)' /\ conn'[job'[v].fd] = conn[job[v].fd]
    BY <2>1 DEF Past
  <2>3. Passed \subseteq Passed'
    BY <2>2, PassedKept
  <2>4. QED
    BY <2>1, <2>3, CountsKept DEF Running
<1>3. CASE AcceptAndSubmit
  <2>1. /\ job' = job
        /\ \E fd \in FreeFds : conn' = [conn EXCEPT ![fd] = Head(backlog)]
    BY <1>3 DEF AcceptAndSubmit
  <2>2. ASSUME NEW v \in Workers, Past(v)
        PROVE  Past(v)' /\ conn'[job'[v].fd] = conn[job[v].fd]
    <3>1. job[v].fd \in Fds /\ conn[job[v].fd] # None
      BY <2>2, BusyConn, NoneAssumption DEF Past, Busy
    <3>2. QED
      BY <1>0, <2>1, <2>2, <3>1 DEF Past, FreeFds
  <2>3. Passed \subseteq Passed'
    BY <2>2, PassedKept
  <2>4. QED
    BY <2>1, <2>3, CountsKept DEF Running
<1>4. ASSUME NEW w \in Workers, HandleClient(w) PROVE CountInv'
  <2>1. ~Terminate
    BY <1>4, LivesOn
  <2>2. CASE LookupStale(w)
    BY <2>1, <2>2, StaleCounts
  <2>3. CASE ~LookupStale(w)
    <3>1. \A r \in Refreshers : job'[r] = job[r]
      BY <1>0, <1>4, <2>3, ThreadKinds
      DEF HandleClient, TakeTask, RecvRequest, RecvFails, LookupFresh, LookupMiss, SendResponse,
          ResponseFails, CloseClient, CloseFd, Kills
    <3>2. Running' \subseteq Running
      BY <3>1 DEF Running
    <3>3. Passed \subseteq Passed'
      BY <1>4, <2>1, HandlePassed
    <3>4. QED
      BY <3>2, <3>3, CountsKept
  <2>4. QED
    BY <2>2, <2>3
<1>5. ASSUME NEW t \in Threads, Fetch(t) PROVE CountInv'
  <2>1. /\ conn' = conn /\ job[t].pc # "none"
        /\ \A u \in Threads : u # t => job'[u] = job[u]
    BY <1>0, <1>5 DEF Fetch, FetchFails, FetchSucceeds, PutAssign, RemoveStaleEntries
  <2>2. ASSUME NEW v \in Workers, Past(v)
        PROVE  Past(v)' /\ conn'[job'[v].fd] = conn[job[v].fd]
    <3>1. CASE v = t
      BY <1>5, <2>1, <3>1, FetchServes DEF Past
    <3>2. CASE v # t
      BY <2>1, <2>2, <3>2, ThreadKinds DEF Past
    <3>3. QED
      BY <3>1, <3>2
  <2>3. Passed \subseteq Passed'
    BY <2>2, PassedKept
  <2>4. Running' \subseteq Running
    BY <2>1, ThreadKinds DEF Running
  <2>5. QED
    BY <2>3, <2>4, CountsKept
<1>6. QED
  BY <1>1, <1>2, <1>3, <1>4, <1>5 DEF Next

LEMMA NextDeath ==
    ServerInv /\ AnswerInv /\ EndInv /\ CountInv /\ DeathHasCause /\ [Next]_vars
        => CountInv' /\ DeathHasCause'
<1> SUFFICES ASSUME ServerInv, AnswerInv, EndInv, CountInv, DeathHasCause, [Next]_vars
             PROVE  CountInv' /\ DeathHasCause'
  OBVIOUS
<1>1. ASSUME NEW w \in Workers, Kills(w) PROVE CountInv' /\ DeathHasCause'
  <2>1. Running' = {}
    BY <1>1, ThreadKinds DEF Kills, RefreshThreadFails, ResponseKills, Terminate, Running, NoJob
  <2>2. PipeBroke' \/ TooManyAsked'
    BY <1>1, DeathCauses
  <2>3. QED
    BY <2>1, <2>2, NothingRuns, DeathIsNext
<1>2. CASE \A w \in Workers : ~Kills(w)
  <2>1. LinksGrow /\ EndsKept
    BY <1>2, NextGrows, NextEnds
  <2>2. CountInv'
    BY <1>2, <2>1, NextCounts
  <2>3. \A c \in Conns : link'[c].server = "reset" => PipeBroke' \/ TooManyAsked'
    BY <2>1, CausesStay, DeathIs DEF LinksGrow
  <2>4. QED
    BY <2>2, <2>3, DeathIsNext
<1>3. QED
  BY <1>1, <1>2

(* No connection is reset by the death of the server but for a broken pipe *)
(* or for more requests than it can have refresh threads: not of an error  *)
(* in the service's answers, of a recv() that fails, or of a client that   *)
(* leaves before it has asked.                                             *)
THEOREM ServerDiesOfTwoCauses == Spec => []DeathHasCause
<1>1. Init => CountInv /\ DeathHasCause
  <2>1. ASSUME Init PROVE CountInv
    <3>1. Running = {}
      BY <2>1, ThreadKinds DEF Init, Running, AtStart, NoJob
    <3>2. Passed \in SUBSET Conns
      BY DEF Passed, Asked
    <3>3. QED
      BY <3>1, <3>2, FiniteSystem, FS_EmptySet DEF CountInv
  <2>2. Init => DeathHasCause
    BY DEF Init, DeathHasCause, ClosedLink
  <2>3. QED
    BY <2>1, <2>2
<1>2. QED
  BY <1>1, NextDeath, ServerInvariant, AnswerInvariant, EndInvariant, PTL DEF Spec
-----------------------------------------------------------------------------
(* Around the cache: what handle_client finds is what TtlCache says.       *)

(* An entry in flight was stamped in the past. *)
StampInv ==
    \A t \in Threads :
        job[t].pc \in {"assign", "sweep"} => job[t].entry.timestamp <= now

LEMMA TimesAreInts ==
    ASSUME TypeOK
    PROVE  /\ now \in Nat /\ Stamped(cache)
           /\ \A e \in Entries : e.timestamp \in Nat
<1>1. now \in Nat
  BY ServerAssumption DEF TypeOK
<1>2. \A e \in Entries : e.timestamp \in Nat
  BY ServerAssumption DEF Entries
<1>3. \A s \in DOMAIN cache : cache[s] \in Entries
  BY DEF TypeOK
<1>4. QED
  BY <1>1, <1>2, <1>3 DEF Stamped

(* Only a fetch makes an entry, and it does so in the present. *)
LEMMA StampKept ==
    ASSUME TypeOK, StampInv, now' = now,
           \A t \in Threads : \/ job'[t] = job[t]
                              \/ job'[t].pc \notin {"assign", "sweep"}
                              \/ job'[t].entry.timestamp = now
                              \/ job[t].pc \in {"assign", "sweep"} /\ job'[t].entry = job[t].entry
    PROVE  StampInv'
<1>1. SUFFICES ASSUME NEW t \in Threads, job'[t].pc \in {"assign", "sweep"}
               PROVE  job'[t].entry.timestamp <= now'
  BY DEF StampInv
<1>2. now <= now
  BY TimesAreInts
<1>3. QED
  BY <1>1, <1>2 DEF StampInv

LEMMA IdleStamps ==
    ASSUME now' = now, job' = AtStart \/ job' = [t \in Threads |-> NoJob]
    PROVE  StampInv'
<1>1. \A t \in Threads : job'[t] \in {NoJob, Waiting}
  BY DEF AtStart
<1>2. QED
  BY <1>1 DEF StampInv, NoJob, Waiting

(* The steps of handle_client before the lookup and after the answer. *)
LEMMA QuietGoes ==
    ASSUME ServerInv, NEW w \in Workers,
           \/ TakeTask(w) \/ RecvRequest(w) \/ RecvFails(w) \/ CloseClient(w)
           \/ SendResponse(w) \/ ResponseFails(w)
    PROVE  job'[w].pc \in {"wait", "recv", "lookup", "close"}
<1>1. w \in Threads /\ job \in [Threads -> WorkerJobs \cup RefreshJobs] /\ job[w] \in WorkerJobs
  BY ThreadKinds DEF ServerInv, TypeOK
<1>2. QED
  BY <1>1 DEF TakeTask, RecvRequest, RecvFails, CloseClient, CloseFd, Waiting,
              SendResponse, ResponseFails

LEMMA MissGoes ==
    ASSUME ServerInv, NEW w \in Workers, LookupMiss(w)
    PROVE  /\ job'[w].pc = "fetch" /\ job[w].req.stop \in Stops
           /\ \A u \in Threads : u # w => job'[u] = job[u]
<1>1. w \in Threads /\ job \in [Threads -> WorkerJobs \cup RefreshJobs] /\ job[w] \in WorkerJobs
  BY ThreadKinds DEF ServerInv, TypeOK
<1>2. job[w].pc = "lookup" /\ job' = [job EXCEPT ![w].pc = "fetch"]
  BY DEF LookupMiss
<1>3. job[w] \in [pc : {"lookup"}, fd : Fds, req : Requests]
  BY <1>1, <1>2, WorkerShape
<1>4. job'[w] = [job[w] EXCEPT !.pc = "fetch"]
  BY <1>1, <1>2
<1>5. job'[w].pc = "fetch"
  BY <1>3, <1>4
<1>6. job[w].req.stop \in Stops
  BY <1>3 DEF Requests
<1>7. QED
  BY <1>1, <1>2, <1>5, <1>6

LEMMA HandleStamps ==
    ASSUME ServerInv, StampInv, NEW w \in Workers, HandleClient(w)
    PROVE  StampInv'
<1>0. TypeOK /\ w \in Threads /\ job \in [Threads -> WorkerJobs \cup RefreshJobs]
  BY ThreadKinds DEF ServerInv, TypeOK
<1>1. CASE Terminate
  BY <1>1, IdleStamps DEF Terminate
<1>2. CASE ~Terminate
  <2>1. now' = now
    BY <1>2 DEF HandleClient, TakeTask, RecvRequest, RecvFails, CloseClient, LookupFresh,
                LookupStale, LookupMiss, SendResponse, ResponseFails, ResponseKills,
                RefreshThreadFails
  <2>2. job'[w].pc \notin {"assign", "sweep"}
    <3>1. CASE \/ TakeTask(w) \/ RecvRequest(w) \/ RecvFails(w) \/ CloseClient(w)
               \/ LookupMiss(w) \/ SendResponse(w) \/ ResponseFails(w)
      BY <3>1, QuietGoes, MissGoes
    <3>2. CASE LookupFresh(w)
      BY <1>0, <3>2 DEF LookupFresh, Answering
    <3>3. CASE LookupStale(w)
      BY <1>0, <3>3 DEF LookupStale, Answering, IdleRefreshers
    <3>4. QED
      BY <1>2, <3>1, <3>2, <3>3 DEF HandleClient, ResponseKills, RefreshThreadFails
  <2>3. \A t \in Threads : t # w =>
            job'[t] = job[t] \/ (t \in Refreshers /\ job'[t].pc = "fetch")
    BY <1>2, HandleOtherJobs
  <2>4. \A t \in Threads : job'[t] = job[t] \/ job'[t].pc \notin {"assign", "sweep"}
    BY <2>2, <2>3
  <2>5. QED
    BY <1>0, <2>1, <2>4, StampKept
<1>3. QED
  BY <1>1, <1>2

(* What a step of a fetch does to the job it is a step of. *)
LEMMA FetchJob ==
    ASSUME ServerInv, NEW t \in Threads, Fetch(t)
    PROVE  /\ now' = now /\ \A u \in Threads : u # t => job'[u] = job[u]
           /\ job[t].pc \in {"fetch", "assign", "sweep"}
           /\ \/ FetchSucceeds(t) /\ job'[t].pc = "assign" /\ job'[t].entry.timestamp = now
              \/ PutAssign(t) /\ job[t].pc = "assign" /\ job'[t].pc = "sweep"
                              /\ job'[t].entry = job[t].entry
              \/ /\ FetchFails(t) \/ RemoveStaleEntries(t)
                 /\ t \in Workers => job'[t].pc = "send" /\ job'[t].cacheState = "CACHE_MISS"
                 /\ t \notin Workers => job'[t].pc = "none"
<1>1. /\ JobsOK /\ job \in [Threads -> WorkerJobs \cup RefreshJobs]
      /\ job[t].pc \in {"fetch", "assign", "sweep"}
  BY TypeHasJobs DEF Fetch, FetchFails, FetchSucceeds, PutAssign, RemoveStaleEntries,
                     ServerInv, TypeOK
<1>2. now' = now /\ \A u \in Threads : u # t => job'[u] = job[u]
  BY <1>1 DEF Fetch, FetchFails, FetchSucceeds, PutAssign, RemoveStaleEntries
<1>3. CASE FetchSucceeds(t)
  <2>1. PICK res \in FetchResults(job[t].req) :
          job' = [job EXCEPT ![t] = [pc    |-> "assign", fd |-> job[t].fd, req |-> job[t].req,
                                     entry |-> [arrivals |-> res.arrivals, timestamp |-> now]]]
    BY <1>3 DEF FetchSucceeds
  <2>2. QED
    BY <1>1, <1>2, <1>3, <2>1
<1>4. CASE PutAssign(t)
  <2>1. job[t].pc = "assign" /\ job' = [job EXCEPT ![t].pc = "sweep"]
    BY <1>4 DEF PutAssign
  <2>2. job[t] = [pc |-> "assign", fd |-> job[t].fd, req |-> job[t].req, entry |-> job[t].entry]
    BY <1>1, <2>1, FetchShape
  <2>3. job'[t] = [job[t] EXCEPT !.pc = "sweep"]
    BY <1>1, <2>1
  <2>4. job'[t].pc = "sweep" /\ job'[t].entry = job[t].entry
    BY <2>2, <2>3
  <2>5. QED
    BY <1>2, <1>4, <2>1, <2>4
<1>5. CASE FetchFails(t) \/ RemoveStaleEntries(t)
  <2>1. \E st, a : job' = [job EXCEPT ![t] = Return(t, st, a)]
    BY <1>5 DEF FetchFails, RemoveStaleEntries
  <2>2. PICK st, a : job'[t] = Return(t, st, a)
    BY <1>1, <2>1
  <2>3. QED
    BY <1>1, <1>2, <1>5, <2>2 DEF Return, Answering, NoJob
<1>6. QED
  BY <1>3, <1>4, <1>5 DEF Fetch

LEMMA NextStamps == ServerInv /\ StampInv /\ [Next]_vars => StampInv'
<1> SUFFICES ASSUME ServerInv, StampInv, [Next]_vars PROVE StampInv'
  OBVIOUS
<1>0. TypeOK
  BY DEF ServerInv
<1>1. CASE Tick
  <2>1. SUFFICES ASSUME NEW t \in Threads, job[t].pc \in {"assign", "sweep"}
                 PROVE  job[t].entry.timestamp <= now + 1
    BY <1>1 DEF Tick, StampInv
  <2>2. job[t].entry \in Entries
    BY <1>0, <2>1, FetchShape, TypeHasJobs
  <2>3. job[t].entry.timestamp \in Nat /\ now \in Nat /\ job[t].entry.timestamp <= now
    BY <1>0, <2>1, <2>2, TimesAreInts DEF StampInv
  <2>4. QED
    BY <2>3
<1>2. CASE Restart
  BY <1>2, IdleStamps DEF Restart
<1>3. CASE AcceptAndSubmit \/ (\E c \in Clients : Query(c)) \/ UNCHANGED vars
  <2>1. now' = now /\ job' = job
    BY <1>3 DEF AcceptAndSubmit, Query, Connect, ConnectFails, SendRequest, SendFails, Receive,
                GiveUp, vars
  <2>2. QED
    BY <1>0, <2>1, StampKept
<1>4. ASSUME NEW w \in Workers, HandleClient(w) PROVE StampInv'
  BY <1>4, HandleStamps
<1>5. ASSUME NEW t \in Threads, Fetch(t) PROVE StampInv'
  BY <1>0, <1>5, FetchJob, StampKept
<1>6. QED
  BY <1>1, <1>2, <1>3, <1>4, <1>5 DEF Next

LEMMA StampInvariant == Spec => []StampInv
<1>1. Init => StampInv
  BY DEF Init, StampInv, AtStart, NoJob, Waiting
<1>2. QED
  BY <1>1, NextStamps, ServerInvariant, PTL DEF Spec

-----------------------------------------------------------------------------
(* TtlCache's operators are those of CacheOps. *)
LEMMA SameOps ==
    /\ Abs!EmptyCache = EmptyCache /\ Abs!NoLookup = NoLookup
    /\ \A c, n : Abs!Swept(c, n) = Swept(c, n)
    /\ \A c, s, e : Abs!Assign(c, s, e) = Assign(c, s, e)
    /\ \A c, s, n : Abs!Lookup(c, s, n) = Lookup(c, s, n)
<1>1. Abs!EmptyCache = EmptyCache /\ Abs!NoLookup = NoLookup
  BY DEF EmptyCache, Abs!EmptyCache, NoLookup, Abs!NoLookup
<1>2. \A e, n : Abs!Expired(e, n) = Expired(e, n)
  BY DEF Expired, Abs!Expired
<1>3. \A c, n : Abs!Usable(c, n) = Usable(c, n)
  BY <1>2 DEF Usable, Abs!Usable
<1>4. \A c, n : Abs!Swept(c, n) = Swept(c, n)
  BY <1>3 DEF Swept, Abs!Swept, Restrict, Abs!Restrict
<1>5. \A c, s, e : Abs!Assign(c, s, e) = Assign(c, s, e)
  BY DEF Assign, Abs!Assign
<1>6. \A c, s, n : Abs!Lookup(c, s, n) = Lookup(c, s, n)
  BY <1>3 DEF Lookup, Abs!Lookup, Miss, Abs!Miss
<1>7. QED
  BY <1>1, <1>4, <1>5, <1>6

LEMMA SweptEmpty == \A n : Swept(EmptyCache, n) = EmptyCache
  BY DEF Swept, Usable, Restrict, EmptyCache

(* Before the lookup, after the answer and in a refresh thread there is    *)
(* nothing in hand; from a miss to the answer that follows from it, a miss. *)
LEMMA NothingFound ==
    ASSUME NEW t, job[t].pc # "send",
           t \in Workers => job[t].pc \notin {"fetch", "assign", "sweep"}
    PROVE  LookupOf(t) = NoLookup
  BY DEF LookupOf

LEMMA NothingFoundNext ==
    ASSUME NEW t, job'[t].pc # "send",
           t \in Workers => job'[t].pc \notin {"fetch", "assign", "sweep"}
    PROVE  LookupOf(t)' = NoLookup
  BY DEF LookupOf

LEMMA MissHeld ==
    ASSUME NEW t, t \in Workers, job[t].pc \in {"fetch", "assign", "sweep"}
    PROVE  LookupOf(t) = Miss
  BY DEF LookupOf

LEMMA MissHeldNext ==
    ASSUME NEW t,
           \/ t \in Workers /\ job'[t].pc \in {"fetch", "assign", "sweep"}
           \/ job'[t].pc = "send" /\ job'[t].cacheState = "CACHE_MISS"
    PROVE  LookupOf(t)' = Miss
  BY DEF LookupOf

LEMMA LookupKept == ASSUME NEW t, job'[t] = job[t] PROVE LookupOf(t)' = LookupOf(t)
  BY DEF LookupOf

(* The steps that leave a thread without a lookup and the cache as it is. *)
LEMMA DropRefines ==
    ASSUME NEW t \in Threads, \A u \in Threads : u # t => job'[u] = job[u],
           job'[t].pc \notin {"send", "fetch", "assign", "sweep"},
           now' = now, Swept(cache, now)' = Swept(cache, now)
    PROVE  Abs!Next
<1>1. LookupOf(t)' = Abs!NoLookup
  BY NothingFoundNext, SameOps
<1>2. \A u \in Threads : u # t => LookupOf(u)' = LookupOf(u)
  BY LookupKept
<1>3. [u \in Threads |-> LookupOf(u)]'
        = [[u \in Threads |-> LookupOf(u)] EXCEPT ![t] = Abs!NoLookup]
  BY <1>1, <1>2
<1>4. Abs!Drop(t)
  BY <1>3 DEF Abs!Drop
<1>5. QED
  BY <1>4 DEF Abs!Next

(* A hit: a worker finds, and a refresh thread that starts finds nothing.  *)
LEMMA HitRefines ==
    ASSUME ServerInv, NEW w \in Workers, LookupFresh(w) \/ LookupStale(w)
    PROVE  Abs!Next
<1>0. /\ TypeOK /\ w \in Threads /\ job \in [Threads -> WorkerJobs \cup RefreshJobs]
      /\ job[w] \in WorkerJobs /\ job[w].pc = "lookup" /\ w \notin Refreshers
  BY ThreadKinds DEF ServerInv, TypeOK, LookupFresh, LookupStale
<1>1. job[w].req.stop \in Stops
  <2>1. job[w] \in [pc : {"lookup"}, fd : Fds, req : Requests]
    BY <1>0, WorkerShape
  <2>2. QED
    BY <2>1 DEF Requests
<1>2. Found(w).state # "CACHE_MISS" /\ now' = now /\ cache' = cache
  BY DEF LookupFresh, LookupStale
<1>3. job'[w] = Answering(w, Found(w).state, "Ok", Found(w).arrivals)
  <2>1. CASE LookupFresh(w)
    BY <1>0, <2>1 DEF LookupFresh
  <2>2. CASE LookupStale(w)
    BY <1>0, <2>2 DEF LookupStale, IdleRefreshers
  <2>3. QED
    BY <2>1, <2>2
<1>4. \A u \in Threads : u # w =>
          \/ job'[u] = job[u]
          \/ u \in Refreshers /\ job[u].pc = "none" /\ job'[u].pc = "fetch"
  BY <1>0 DEF LookupFresh, LookupStale, IdleRefreshers
<1>5. Found(w) = [state |-> Found(w).state, arrivals |-> Found(w).arrivals]
  BY DEF Found, Lookup, Miss
<1>6. LookupOf(w)' = Found(w)
  <2> DEFINE st == Found(w).state
             a  == Found(w).arrivals
  <2>1. /\ job'[w].pc = "send" /\ job'[w].cacheState = st /\ job'[w].arrivals = a
        /\ st # "CACHE_MISS" /\ Found(w) = [state |-> st, arrivals |-> a]
    BY <1>2, <1>3, <1>5 DEF Answering
  <2> HIDE DEF st, a
  <2>2. LookupOf(w)' = [state |-> st, arrivals |-> a]
    BY <2>1 DEF LookupOf
  <2>3. QED
    BY <2>1, <2>2
<1>7. ASSUME NEW u \in Threads, u # w PROVE LookupOf(u)' = LookupOf(u)
  <2>1. CASE job'[u] = job[u]
    BY <2>1, LookupKept
  <2>2. CASE u \in Refreshers /\ job[u].pc = "none" /\ job'[u].pc = "fetch"
    <3>1. u \notin Workers
      BY <2>2, ThreadKinds
    <3>2. QED
      BY <2>2, <3>1, NothingFound, NothingFoundNext
  <2>3. QED
    BY <1>4, <1>7, <2>1, <2>2
<1>8. Found(w) = Lookup(Swept(cache, now), job[w].req.stop, now)
  BY LookupSwept DEF Found
<1>9. [u \in Threads |-> LookupOf(u)]'
        = [[u \in Threads |-> LookupOf(u)] EXCEPT ![w] = Found(w)]
  BY <1>0, <1>6, <1>7
<1>10. Swept(cache, now)' = Swept(cache, now)
  BY <1>2
<1>11. Abs!Get(w, job[w].req.stop)
  BY <1>2, <1>8, <1>9, <1>10, SameOps DEF Abs!Get
<1>12. QED
  BY <1>0, <1>1, <1>11 DEF Abs!Next

(* A miss, with which a worker goes to fetch. *)
LEMMA MissRefines ==
    ASSUME ServerInv, NEW w \in Workers, LookupMiss(w)
    PROVE  Abs!Next
<1>1. /\ job'[w].pc = "fetch" /\ job[w].req.stop \in Stops
      /\ \A u \in Threads : u # w => job'[u] = job[u]
  BY MissGoes
<1>2. Found(w).state = "CACHE_MISS" /\ now' = now /\ cache' = cache
  BY DEF LookupMiss
<1>3. Found(w) = Miss
  <2>1. CASE job[w].req.stop \in Usable(cache, now)
    BY <1>2, <2>1 DEF Found, Lookup
  <2>2. CASE job[w].req.stop \notin Usable(cache, now)
    BY <2>2 DEF Found, Lookup
  <2>3. QED
    BY <2>1, <2>2
<1>4. Found(w) = Lookup(Swept(cache, now), job[w].req.stop, now)
  BY LookupSwept DEF Found
<1>5. LookupOf(w)' = Miss /\ \A u \in Threads : u # w => LookupOf(u)' = LookupOf(u)
  BY <1>1, MissHeldNext, LookupKept
<1>6. [u \in Threads |-> LookupOf(u)]'
        = [[u \in Threads |-> LookupOf(u)] EXCEPT ![w] = Found(w)]
  BY <1>3, <1>5
<1>7. Swept(cache, now)' = Swept(cache, now)
  BY <1>2
<1>8. Abs!Get(w, job[w].req.stop)
  BY <1>2, <1>4, <1>6, <1>7, SameOps DEF Abs!Get
<1>9. QED
  BY <1>1, <1>8, ThreadKinds DEF Abs!Next

LEMMA TerminateRefines == ASSUME Terminate PROVE Abs!Next
<1>1. \A t \in Threads : LookupOf(t)' = Abs!NoLookup
  <2>1. \A t \in Threads : job'[t].pc = "none"
    BY DEF Terminate, NoJob
  <2>2. QED
    BY <2>1, NothingFoundNext, SameOps
<1>2. [t \in Threads |-> LookupOf(t)]' = [t \in Threads |-> Abs!NoLookup]
  BY <1>1
<1>3. Swept(cache, now)' = EmptyCache /\ now' = now
  BY SweptEmpty DEF Terminate
<1>4. Abs!Lose
  BY <1>2, <1>3, SameOps DEF Abs!Lose
<1>5. QED
  BY <1>4 DEF Abs!Next

LEMMA HandleRefines ==
    ASSUME ServerInv, NEW w \in Workers, HandleClient(w)
    PROVE  Abs!Next
<1>0. w \in Threads /\ job \in [Threads -> WorkerJobs \cup RefreshJobs]
  BY ThreadKinds DEF ServerInv, TypeOK
<1>1. CASE RefreshThreadFails(w) \/ ResponseKills(w)
  BY <1>1, TerminateRefines DEF RefreshThreadFails, ResponseKills
<1>2. CASE LookupFresh(w) \/ LookupStale(w)
  BY <1>2, HitRefines
<1>3. CASE LookupMiss(w)
  BY <1>3, MissRefines
<1>4. CASE \/ TakeTask(w) \/ RecvRequest(w) \/ RecvFails(w) \/ CloseClient(w)
           \/ SendResponse(w) \/ ResponseFails(w)
  <2>1. /\ now' = now /\ cache' = cache
        /\ \A u \in Threads : u # w => job'[u] = job[u]
    BY <1>0, <1>4 DEF TakeTask, RecvRequest, RecvFails, CloseClient, CloseFd,
                      SendResponse, ResponseFails
  <2>2. job'[w].pc \in {"wait", "recv", "lookup", "close"}
    BY <1>4, QuietGoes
  <2>3. Swept(cache, now)' = Swept(cache, now)
    BY <2>1
  <2>4. QED
    BY <1>0, <2>1, <2>2, <2>3, DropRefines
<1>5. QED
  BY <1>1, <1>2, <1>3, <1>4 DEF HandleClient

(* A fetch neither finds nor forgets: a worker goes on with the miss it    *)
(* had, and a refresh thread has never looked anything up.                 *)
LEMMA FetchKeepsLookup ==
    ASSUME ServerInv, NEW t \in Threads, Fetch(t)
    PROVE  [u \in Threads |-> LookupOf(u)]' = [u \in Threads |-> LookupOf(u)]
<1>1. /\ \A u \in Threads : u # t => job'[u] = job[u]
      /\ job[t].pc \in {"fetch", "assign", "sweep"}
      /\ \/ job'[t].pc \in {"assign", "sweep"}
         \/ t \in Workers /\ job'[t].pc = "send" /\ job'[t].cacheState = "CACHE_MISS"
         \/ t \notin Workers /\ job'[t].pc = "none"
  BY FetchJob
<1>2. CASE t \in Workers
  BY <1>1, <1>2, MissHeld, MissHeldNext, LookupKept
<1>3. CASE t \notin Workers
  BY <1>1, <1>3, NothingFound, NothingFoundNext, LookupKept
<1>4. QED
  BY <1>2, <1>3

LEMMA FetchRefines ==
    ASSUME ServerInv, StampInv, NEW t \in Threads, Fetch(t)
    PROVE  [Abs!Next]_(Abs!vars)
<1>0. TypeOK /\ JobsOK /\ now \in Nat /\ Stamped(cache)
  BY TypeHasJobs, TimesAreInts DEF ServerInv
<1>1. CASE FetchSucceeds(t) \/ FetchFails(t)
  <2>1. cache' = cache /\ now' = now
    BY <1>1 DEF FetchSucceeds, FetchFails
  <2>2. Swept(cache, now)' = Swept(cache, now)
    BY <2>1
  <2>3. QED
    BY <2>1, <2>2, FetchKeepsLookup DEF Abs!vars
<1>2. CASE RemoveStaleEntries(t)
  <2>1. cache' = Swept(cache, now) /\ now' = now
    BY <1>2 DEF RemoveStaleEntries
  <2>2. Swept(Swept(cache, now), now) = Swept(cache, now)
    <3>1. now \in Int /\ now <= now
      BY <1>0
    <3>2. QED
      BY <1>0, <3>1, SweptLater
  <2>3. Swept(cache, now)' = Swept(cache, now)
    BY <2>1, <2>2
  <2>4. QED
    BY <2>1, <2>3, FetchKeepsLookup DEF Abs!vars
<1>3. CASE PutAssign(t)
  <2> DEFINE s == job[t].req.stop
             e == job[t].entry
  <2>1. job[t].pc = "assign" /\ cache' = Assign(cache, s, e) /\ now' = now
    BY <1>3 DEF PutAssign
  <2>2. s \in Stops /\ e \in Entries
    BY <1>0, <2>1, FetchShape
  <2>3. e.timestamp \in Nat /\ e.timestamp <= now
    BY <1>0, <2>1, <2>2, TimesAreInts DEF StampInv
  <2>4. /\ e.arrivals \in Answers /\ e.timestamp \in 0..now
        /\ e = [arrivals |-> e.arrivals, timestamp |-> e.timestamp]
    BY <1>0, <2>2, <2>3 DEF Entries
  <2>5. [u \in Threads |-> LookupOf(u)]' = [u \in Threads |-> LookupOf(u)]
    BY FetchKeepsLookup
  <2>6. Swept(Assign(cache, s, e), now) = Swept(Assign(Swept(cache, now), s, e), now)
    <3> HIDE DEF s, e
    <3>1. QED
      BY SweptAssign
  <2>7. Swept(cache, now)' = Swept(Assign(Swept(cache, now), s, e), now)
    BY <2>1, <2>6
  <2>8. Abs!Store(s, [arrivals |-> e.arrivals, timestamp |-> e.timestamp])
    BY <2>1, <2>4, <2>5, <2>7, SameOps DEF Abs!Store
  <2>9. QED
    BY <2>2, <2>4, <2>8 DEF Abs!Next
<1>4. QED
  BY <1>1, <1>2, <1>3 DEF Fetch

(* A server that is down runs no thread that has looked anything up. *)
LEMMA RestartRefines == ASSUME ServerInv, Restart PROVE UNCHANGED Abs!vars
<1>1. JobsOK /\ queue = <<>> /\ \A f \in Fds : conn[f] = None
  BY TypeHasJobs DEF ServerInv, DownInv, Restart
<1>2. ASSUME NEW t \in Threads
      PROVE  job[t].pc # "send" /\ (t \in Workers => job[t].pc \notin {"fetch", "assign", "sweep"})
  <2>1. CASE t \in Workers
    <3>1. SUFFICES ASSUME job[t].pc \in {"send", "fetch", "assign", "sweep"} PROVE FALSE
      BY <2>1
    <3>2. job[t].fd \in Fds
      BY <1>1, <2>1, <3>1, ServingFd DEF JobsOK
    <3>3. Serves(t, job[t].fd)
      BY <3>1 DEF Serves
    <3>4. QED
      BY <1>1, <2>1, <3>2, <3>3 DEF ServerInv, FdOwnership
  <2>2. CASE t \in Refreshers
    BY <1>1, <2>2, RefreshShape, ThreadKinds DEF JobsOK
  <2>3. QED
    BY <2>1, <2>2, ThreadKinds
<1>3. \A t \in Threads : job'[t].pc \notin {"send", "fetch", "assign", "sweep"}
  BY DEF Restart, AtStart, NoJob, Waiting
<1>4. \A t \in Threads : LookupOf(t)' = LookupOf(t)
  BY <1>2, <1>3, NothingFound, NothingFoundNext
<1>5. [t \in Threads |-> LookupOf(t)]' = [t \in Threads |-> LookupOf(t)]
  BY <1>4
<1>6. now' = now /\ Swept(cache, now)' = Swept(cache, now)
  BY DEF Restart
<1>7. QED
  BY <1>5, <1>6 DEF Abs!vars

LEMMA StepRefines ==
    ASSUME ServerInv, StampInv, [Next]_vars
    PROVE  [Abs!Next]_(Abs!vars)
<1>1. CASE Tick
  <2>1. now' = now + 1 /\ cache' = cache /\ job' = job
    BY <1>1 DEF Tick
  <2>2. [t \in Threads |-> LookupOf(t)]' = [t \in Threads |-> LookupOf(t)]
    BY <2>1 DEF LookupOf
  <2>3. Swept(Swept(cache, now), now + 1) = Swept(cache, now + 1)
    <3>1. now \in Int /\ now + 1 \in Int /\ now <= now + 1 /\ Stamped(cache)
      BY TimesAreInts DEF ServerInv
    <3> DEFINE m == now + 1
    <3> HIDE DEF m
    <3>2. m \in Int /\ now <= m
      BY <3>1 DEF m
    <3>3. Swept(Swept(cache, now), m) = Swept(cache, m)
      BY <3>1, <3>2, SweptLater
    <3>4. QED
      BY <3>3 DEF m
  <2>4. Swept(cache, now)' = Swept(Swept(cache, now), now + 1)
    BY <2>1, <2>3
  <2>5. Abs!Tick
    BY <2>1, <2>2, <2>4, SameOps DEF Abs!Tick
  <2>6. QED
    BY <2>5 DEF Abs!Next
<1>2. CASE Restart
  BY <1>2, RestartRefines
<1>3. CASE AcceptAndSubmit \/ (\E c \in Clients : Query(c)) \/ UNCHANGED vars
  <2>1. now' = now /\ cache' = cache /\ job' = job
    BY <1>3 DEF AcceptAndSubmit, Query, Connect, ConnectFails, SendRequest, SendFails, Receive,
                GiveUp, vars
  <2>2. [t \in Threads |-> LookupOf(t)]' = [t \in Threads |-> LookupOf(t)]
    BY <2>1 DEF LookupOf
  <2>3. Swept(cache, now)' = Swept(cache, now)
    BY <2>1
  <2>4. QED
    BY <2>1, <2>2, <2>3 DEF Abs!vars
<1>4. ASSUME NEW w \in Workers, HandleClient(w) PROVE Abs!Next
  BY <1>4, HandleRefines
<1>5. ASSUME NEW t \in Threads, Fetch(t) PROVE [Abs!Next]_(Abs!vars)
  BY <1>5, FetchRefines
<1>6. QED
  BY <1>1, <1>2, <1>3, <1>4, <1>5 DEF Next

(* What handle_client finds in the cache, hits and the misses it fetches   *)
(* for, with threads that fetch, store, sweep and look up at the same time *)
(* and a process that may die and start anew, is what one self-expiring    *)
(* register per stop would have said.                                      *)
THEOREM Refinement == Spec => ImplementsTtlCache
<1>1. Init => Abs!Init
  <2>1. ASSUME Init, NEW t \in Threads PROVE LookupOf(t) = Abs!NoLookup
    <3>1. job[t].pc \notin {"send", "fetch", "assign", "sweep"}
      BY <2>1 DEF Init, AtStart, NoJob, Waiting
    <3>2. QED
      BY <3>1, NothingFound, SameOps
  <2>2. Init => Swept(cache, now) = EmptyCache /\ now = 0
    BY SweptEmpty DEF Init
  <2>3. Init => [t \in Threads |-> LookupOf(t)] = [t \in Threads |-> Abs!NoLookup]
    BY <2>1
  <2>4. QED
    BY <2>2, <2>3, SameOps DEF Abs!Init
<1>2. ServerInv /\ StampInv /\ [Next]_vars => [Abs!Next]_(Abs!vars)
  BY StepRefines
<1>3. QED
  BY <1>1, <1>2, ServerInvariant, StampInvariant, PTL DEF Spec, ImplementsTtlCache, Abs!Spec
=============================================================================
