----------------------------- MODULE ServerMain -----------------------------
(***************************************************************************)
(* main of the server from its command line to its end, among other starts *)
(* of the same program: ArgParser, then SocketPath's init_server, then     *)
(* ServerExit's loop and destructors.                                      *)
(***************************************************************************)
EXTENDS ArgParser, FiniteSets

CONSTANTS
    Instances, Clients, Removable, Concurrency,
    Self            \* the instance whose main this is

ASSUME SelfAssumption == Self \in Instances
ASSUME ConcurrencyAssumption == Concurrency \in Nat      \* an unsigned int

VARIABLES
    server, path, connected, since,
    main, curl, cache, poolSize, request, refresh, spoiled, unfinished

Path == INSTANCE SocketPath
Exit == INSTANCE ServerExit WITH Requests <- Clients

pathVars == <<server, path, connected, since>>
exitVars == <<main, curl, cache, poolSize, request, refresh, spoiled, unfinished>>

MainInit == Init /\ Path!Init /\ Exit!Init

ParseArguments == Next /\ UNCHANGED <<pathVars, exitVars>>

(* Without an ok main has returned, and nothing has been touched. *)
InitServer ==
    /\ status = "ok"
    /\ main = "init"
    /\ Path!Unlink(Self) \/ Path!Bind(Self) \/ Path!Listen(Self)
    /\ UNCHANGED <<vars, exitVars>>

(* A call after the unlink fails, bind on a rival's path for one. *)
FailInit ==
    /\ main = "init"
    /\ server[Self] \in {"unlinked", "bound", "listening"}
    /\ Exit!Fail
    /\ UNCHANGED <<vars, pathVars>>

EnterLoop == Path!Poll(Self) /\ Exit!EnterLoop /\ UNCHANGED vars

AcceptAndSubmit(c) == Path!Serve(c, Self) /\ Exit!Accept(c) /\ UNCHANGED vars

FailLoop == main = "loop" /\ Exit!Fail /\ UNCHANGED <<vars, pathVars>>

DestroyCache == Exit!DestroyCache /\ UNCHANGED <<vars, pathVars>>

ExitMain == (Exit!Exit \/ Exit!Crash) /\ Path!End(Self) /\ UNCHANGED vars

Worker(c) == (Exit!HandleClient(c) \/ Exit!Refresh(c)) /\ UNCHANGED <<vars, pathVars>>

(* The other starts, seen at the path. *)
Rival(s) ==
    /\ s # Self
    /\ Path!Step(s) \/ \E c \in Clients : Path!Serve(c, s)
    /\ UNCHANGED <<vars, exitVars>>

Connect(c, s) == Path!Connect(c, s) /\ UNCHANGED <<vars, exitVars>>

MainNext ==
    \/ ParseArguments \/ InitServer \/ FailInit \/ EnterLoop
    \/ FailLoop \/ DestroyCache \/ ExitMain
    \/ \E c \in Clients : AcceptAndSubmit(c) \/ Worker(c)
    \/ \E s \in Instances : Rival(s) \/ \E c \in Clients : Connect(c, s)

MainSpec == MainInit /\ [][MainNext]_<<vars, pathVars, exitVars>>

-----------------------------------------------------------------------------
(* Types of the three parts, with what they say of workers and sockets;    *)
(* and only a server whose arguments were ok has touched the path.         *)
MainTypeOK ==
    /\ TypeOK /\ Path!TypeOK /\ Exit!TypeOK
    /\ server[Self] # "off" => status = "ok"
    /\ main = "loop" => server[Self] = "running"

(* An instance is reachable from its bind() until another one is started:  *)
(* the failure of a rival's start that began earlier, or the end of a      *)
(* displaced instance, does not take the path away from it.                *)
ReachableUntilNextStart == Path!ReachableUntilNextStart

(* What a crash or an exit leaves at the path keeps only those from        *)
(* starting that may not remove it; any other's bind() fails only over a   *)
(* rival's later one.                                                      *)
OnlyForeignLeftoverBlocks == Path!OnlyForeignLeftoverBlocks

(* When main leaves, curl and the cache are used after their end only for  *)
(* requests, refreshes included, that were under way at that moment.       *)
OnlyUnfinishedIsSpoiled == Exit!OnlyUnfinishedIsSpoiled
=============================================================================
