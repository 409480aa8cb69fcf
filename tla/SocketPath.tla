----------------------------- MODULE SocketPath -----------------------------
(***************************************************************************)
(* init_server and the one path that all instances of the server bind to.  *)
(* No instance removes the path when it ends, each does so when it starts: *)
(* over a dead instance's leftover, and over a live one's socket.  It does *)
(* not ask whether it could: /tmp is sticky, and another user's socket     *)
(* stays.                                                                  *)
(***************************************************************************)
CONSTANTS
    Instances,      \* starts of the server; a restart is another one
    Clients,        \* processes that connect()
    Removable       \* <<s, r>>: the system lets s unlink what r has bound

VARIABLES
    server,         \* instance -> how far it has come in init_server
    path,           \* the instances whose socket BKK_UDS_SOCKET_PATH names
    connected,      \* pairs of a client and the instance it is connected to
    since           \* history: who changed the path after an instance's last call

vars == <<server, path, connected, since>>

(* A socket that has been bound, and one that can be connected to. *)
Bound == {"bound", "listening", "running"}
Connectable == {"listening", "running"}

Init ==
    /\ server = [s \in Instances |-> "off"]
    /\ path = {}
    /\ connected = {}
    /\ since = [s \in Instances |-> {}]

Goes(s, from, to) ==
    /\ server[s] = from
    /\ server' = [server EXCEPT ![s] = to]

SetPath(s, value) ==
    /\ path' = value
    /\ since' = [r \in Instances |->
                    IF r = s THEN {}
                    ELSE IF value = path THEN since[r]
                    ELSE since[r] \cup {s}]
    /\ UNCHANGED connected

(* Mutant of Unlink: a path that is there is taken for this server's own. *)
UnlinkNothing(s) == Goes(s, "off", "unlinked") /\ SetPath(s, path)

(* The result is not looked at: what may not be removed stays. *)
Unlink(s) ==
    /\ Goes(s, "off", "unlinked")
    /\ SetPath(s, {r \in path : <<s, r>> \notin Removable})

(* socket() and bind(), which fails with EADDRINUSE if the path is there. *)
Bind(s) == path = {} /\ Goes(s, "unlinked", "bound") /\ SetPath(s, {s})

Listen(s) == Goes(s, "bound", "listening") /\ UNCHANGED <<path, connected, since>>

(* epoll_create1 and epoll_ctl: main enters its loop. *)
Poll(s) == Goes(s, "listening", "running") /\ UNCHANGED <<path, connected, since>>

(* Mutant of End: the path is removed on the way out, whoever's it is. *)
EndUnlinking(s) ==
    /\ server[s] \in Bound \cup {"unlinked"}
    /\ server' = [server EXCEPT ![s] = "ended"]
    /\ path' = {}
    /\ connected' = {pair \in connected : pair[2] # s}
    /\ UNCHANGED since

(* The process ends, be it a failing call of init_server, an epoll failure *)
(* or a crash: the kernel closes the socket and resets its connections,    *)
(* the path stays.                                                         *)
End(s) ==
    /\ server[s] \in Bound \cup {"unlinked"}
    /\ server' = [server EXCEPT ![s] = "ended"]
    /\ connected' = {pair \in connected : pair[2] # s}
    /\ UNCHANGED <<path, since>>

(* Connections wait in the backlog of a socket that listens. *)
Connect(c, s) ==
    /\ s \in path
    /\ server[s] \in Connectable
    /\ \A r \in Instances : <<c, r>> \notin connected
    /\ connected' = connected \cup {<<c, s>>}
    /\ UNCHANGED <<server, path, since>>

(* accept, handle_client, close: path or no path. *)
Serve(c, s) ==
    /\ <<c, s>> \in connected
    /\ server[s] = "running"
    /\ connected' = connected \ {<<c, s>>}
    /\ UNCHANGED <<server, path, since>>

Step(s) == Unlink(s) \/ Bind(s) \/ Listen(s) \/ Poll(s) \/ End(s)

Next ==
    \/ \E s \in Instances : Step(s)
    \/ \E c \in Clients, s \in Instances : Connect(c, s) \/ Serve(c, s)

Spec == Init /\ [][Next]_vars

-----------------------------------------------------------------------------
(* Types; one instance at most has the path; and nobody is connected to an *)
(* instance that has ended.                                                *)
TypeOK ==
    /\ server \in [Instances -> Bound \cup {"off", "unlinked", "ended"}]
    /\ path \subseteq Instances
    /\ \A r, s \in path : r = s
    /\ connected \subseteq Clients \X Instances
    /\ \A c \in Clients, s \in Instances : <<c, s>> \in connected => server[s] \in Connectable
    /\ since \in [Instances -> SUBSET Instances]

(* An instance is reachable from its bind() until another one is started:  *)
(* the failure of a rival's start that began earlier, or the end of a      *)
(* displaced instance, does not take the path away from it.                *)
ReachableUntilNextStart ==
    \A s \in Instances : server[s] \in Bound /\ s \notin path => since[s] # {}

(* What a crash or an exit leaves behind keeps only those from starting    *)
(* that may not remove it: any other start finds the path free, unless a   *)
(* rival has bound it after this start's own unlink.                       *)
OnlyForeignLeftoverBlocks ==
    \A s \in Instances : server[s] = "unlinked" =>
        \A r \in path : r \in since[s] \/ <<s, r>> \notin Removable
=============================================================================
