----------------------------- MODULE UdsClient ------------------------------
(***************************************************************************)
(* The test client: main of test_main.c, from its options to its exit,     *)
(* with read_api_key_from_file (KeyFile), find_stops_by_name_substring     *)
(* (StopSearch) and each send_bkk_uds_query it makes.  The server is what  *)
(* UdsServer shows of it: it answers about the stop it was asked for, or   *)
(* not at all.                                                             *)
(***************************************************************************)
EXTENDS StopOps, FiniteSets

CONSTANTS
    Blank, Letters,     \* of the key file, with its bounds
    MaxSize, MaxWrites,
    Statuses,           \* bkk_api_status_t
    MaxArrivals,        \* BKK_UDS_MAX_ARRIVALS
    BrokenPipeKills     \* does send() to a reset connection raise SIGPIPE?

ASSUME ClientAssumption ==
    /\ Blank \notin Letters
    /\ MaxSize \in Nat /\ MaxWrites \in Nat
    /\ "Ok" \in Statuses
    /\ MaxArrivals \in Nat \ {0}
    /\ BrokenPipeKills \in BOOLEAN

(* -s, -i and -k; Null if not given, or given empty. *)
Options == [s : Substrings \cup {Null}, i : Ids \cup {Null}, k : {Null, "file"}]

(* stop: whose arrivals they are. *)
Responses == [status : Statuses, stop : Ids, count : 0..MaxArrivals]

(* What a server answers: UdsServer!AnswerIsForRequest and AnswerShape. *)
AnswersTo(stop_id) == {r \in Responses : r.stop = stop_id /\ (r.status = "Ok" <=> r.count > 0)}

VARIABLES
    options,
    pc,
    file, writes, reader, size, buffer, key, status, open, seen,
    search, out,
    indices,        \* of the stops found; <<>> where it is NULL
    count, i,       \* of the search, then of the query loop, i from 0
    request,        \* stop_id and api_key
    stop,           \* stop.stop_id, of a variable each turn of the loop declares anew
    response,       \* the buffer that all queries share
    client_fd,      \* is it open?
    res,            \* bkk_client_status_t
    answers,        \* history: what recv() stored for the query under way
    reported        \* history: stop and res of each query reported

Key == INSTANCE KeyFile WITH pc <- reader
Search == INSTANCE StopSearch WITH pc <- search, substring <- options.s

keyVars == <<file, writes, reader, size, buffer, key, status, open, seen>>
searchVars == <<search, out, indices, count>>
queryVars == <<request, stop, response, client_fd, res, answers, reported>>

vars == <<options, pc, keyVars, searchVars, i, queryVars>>

locals == <<options, keyVars, searchVars>>

Init ==
    /\ options \in Options
    /\ pc = "key"
    /\ Key!Init
    /\ Search!Init
    /\ request = Null
    /\ stop = Null
    /\ response = Null
    /\ client_fd = FALSE
    /\ res = "none"
    /\ answers = {}
    /\ reported = <<>>

Goes(from, to) ==
    /\ pc = from
    /\ pc' = to

(* No key file, or nothing to ask for; the key is read before the latter  *)
(* is seen.                                                                *)
NoKeyFile ==
    /\ options.k = Null
    /\ Goes("key", "exited")
    /\ UNCHANGED <<locals, i, queryVars>>

ReadKey ==
    /\ pc = "key"
    /\ options.k # Null
    /\ Key!Next
    /\ UNCHANGED <<options, pc, searchVars, i, queryVars>>

KeyNotRead ==
    /\ reader = "returned" /\ status # "API_KEY_READ_OK"
    /\ Goes("key", "exited")
    /\ UNCHANGED <<locals, i, queryVars>>

(* The key is all that is left of the call; nothing looks at the file any  *)
(* more, so that the model forgets it.                                     *)
KeyRead ==
    /\ reader = "returned" /\ status = "API_KEY_READ_OK"
    /\ Goes("key", "search")
    /\ file' = <<>> /\ writes' = 0 /\ size' = 0 /\ buffer' = <<>>
    /\ seen' = [file |-> <<>>, writes |-> 0]
    /\ reader' = "begin" /\ status' = "none"
    /\ UNCHANGED <<options, key, open, searchVars, i, queryVars>>

NothingToAsk ==
    /\ options.s = Null /\ options.i = Null
    /\ Goes("search", "exited")
    /\ UNCHANGED <<locals, i, queryVars>>

(* Without -s the function is not called. *)
SearchStops ==
    /\ pc = "search"
    /\ options.s # Null
    /\ UNCHANGED <<options, pc, keyVars, queryVars>>
    /\ Search!Next

(* -i overrides the count of what was found. *)
EnterLoop ==
    /\ IF options.s = Null THEN options.i # Null ELSE search = "returned"
    /\ Goes("search", "loop")
    /\ indices' = IF out.stat = "BKK_STOP_FOUND" THEN out.indices ELSE <<>>
    /\ count' = IF options.i # Null THEN 1 ELSE out.count
    /\ i' = 0
    /\ response' \in Responses
    /\ UNCHANGED <<options, keyVars, search, out>>
    /\ UNCHANGED <<request, stop, client_fd, res, answers, reported>>

(* The stop asked for by option: stop stays as it was on the stack. *)
AskForId ==
    /\ Goes("loop", "socket")
    /\ i < count
    /\ options.i # Null
    /\ request' = [stop_id |-> options.i, api_key |-> key]
    /\ stop' \in Ids \cup {Null}
    /\ answers' = {}
    /\ UNCHANGED <<locals, i, response, client_fd, res, reported>>

(* An index that is none of the table's would be passed over (continue).   *)
AskForFound ==
    /\ pc = "loop"
    /\ i < count
    /\ options.i = Null
    /\ LET found == find_stop_by_index(indices[i + 1]) IN
        IF found.stat = "BKK_STOP_FOUND"
        THEN /\ stop' = found.stop.id
             /\ request' = [stop_id |-> stop', api_key |-> key]
             /\ answers' = {}
             /\ pc' = "socket" /\ i' = i
        ELSE /\ stop' \in Ids \cup {Null}
             /\ i' = i + 1
             /\ UNCHANGED <<pc, request, answers>>
    /\ UNCHANGED <<locals, response, client_fd, res, reported>>

-----------------------------------------------------------------------------
(* send_bkk_uds_query                                                      *)

(* Mutant of Return: without close(client_fd). *)
ReturnOpen(result) ==
    /\ pc' = "report"
    /\ res' = result
    /\ UNCHANGED <<locals, i, request, stop, client_fd, reported>>

Return(result) ==
    /\ pc' = "report"
    /\ res' = result
    /\ client_fd' = FALSE
    /\ UNCHANGED <<locals, i, request, stop, reported>>

SocketFails ==
    /\ pc = "socket"
    /\ Return("client_SocketError")
    /\ UNCHANGED <<response, answers>>

Socket ==
    /\ Goes("socket", "connect")
    /\ client_fd' = TRUE
    /\ UNCHANGED <<locals, i, request, stop, response, res, answers, reported>>

(* No path, nobody behind it, or a full backlog that does not wait. *)
ConnectFails ==
    /\ pc = "connect"
    /\ Return("client_ConnectionFailed")
    /\ UNCHANGED <<response, answers>>

Connect ==
    /\ Goes("connect", "send")
    /\ UNCHANGED <<locals, i, request, stop, response, client_fd, res, answers, reported>>

SendFails ==
    /\ pc = "send"
    /\ Return("client_SendFailed")
    /\ UNCHANGED <<response, answers>>

(* The server ended after the connect(), and the system raises SIGPIPE. *)
SendKills ==
    /\ BrokenPipeKills
    /\ Goes("send", "killed")
    /\ client_fd' = FALSE
    /\ UNCHANGED <<locals, i, request, stop, response, res, answers, reported>>

Send ==
    /\ Goes("send", "recv")
    /\ UNCHANGED <<locals, i, request, stop, response, client_fd, res, answers, reported>>

(* Mutant of ReceiveFails: the size is not looked at. *)
ReceiveNothing ==
    /\ pc = "recv"
    /\ Return("client_OK")
    /\ UNCHANGED <<response, answers>>

(* The server closed or ended without an answer: nothing is stored. *)
ReceiveFails ==
    /\ pc = "recv"
    /\ Return("client_ReceiveFailed")
    /\ UNCHANGED <<response, answers>>

Receive ==
    /\ pc = "recv"
    /\ Return("client_OK")
    /\ response' \in AnswersTo(request.stop_id)
    /\ answers' = {response'}

-----------------------------------------------------------------------------
(* Mutant of Report: a failed query ends the loop. *)
ReportAndStop ==
    /\ Goes("report", "loop")
    /\ i' = IF res = "client_OK" THEN i + 1 ELSE count
    /\ reported' = Append(reported, [stop |-> request.stop_id, res |-> res])
    /\ UNCHANGED <<locals, request, stop, response, client_fd, res, answers>>

(* The log line with response.status, then the arrivals of the response,   *)
(* or the failure with stop.stop_id.                                       *)
Report ==
    /\ Goes("report", "loop")
    /\ i' = i + 1
    /\ reported' = Append(reported, [stop |-> request.stop_id, res |-> res])
    /\ UNCHANGED <<locals, request, stop, response, client_fd, res, answers>>

Exit ==
    /\ i = count
    /\ Goes("loop", "exited")
    /\ UNCHANGED <<locals, i, request, stop, response, client_fd, res, answers, reported>>

Next ==
    \/ NoKeyFile \/ ReadKey \/ KeyNotRead \/ KeyRead
    \/ NothingToAsk \/ SearchStops \/ EnterLoop
    \/ AskForId \/ AskForFound
    \/ SocketFails \/ Socket \/ ConnectFails \/ Connect
    \/ SendFails \/ SendKills \/ Send \/ ReceiveFails \/ Receive
    \/ Report \/ Exit

Spec == Init /\ [][Next]_vars

-----------------------------------------------------------------------------
ClientStatuses == {"client_OK", "client_SocketError", "client_ConnectionFailed",
                   "client_SendFailed", "client_ReceiveFailed"}

(* Types, of the two functions' parts as well; and the descriptor is open  *)
(* inside send_bkk_uds_query alone: however a query fails, the next one    *)
(* starts without its descriptor.                                          *)
TypeOK ==
    /\ options \in Options
    /\ pc \in {"key", "search", "loop", "socket", "connect", "send", "recv", "report", "killed", "exited"}
    /\ Key!TypeOK
    /\ Search!TypeOK
    /\ request \in [stop_id : Ids, api_key : Key!Texts] \cup {Null}
    /\ stop \in Ids \cup {Null}
    /\ response \in Responses \cup {Null}
    /\ client_fd = (pc \in {"connect", "send", "recv"})
    /\ res \in ClientStatuses \cup {"none"}
    /\ answers \subseteq Responses
    /\ reported \in Seq([stop : Ids, res : ClientStatuses])

(* The key of a file that is not written while it is read is the whole     *)
(* file without the blanks at its ends.                                    *)
KeyIsTrimmedFile == Key!KeyIsTrimmedFile

(* The two passes of the search agree: the second never leaves the array   *)
(* that the first one counted for.                                         *)
WithinAllocation == pc = "search" => Search!WithinAllocation

(* What the search finds are the matching stops, each once, and what main  *)
(* gets for each index is the stop that its id names.                      *)
FoundAreTheMatches == Search!FoundAreTheMatches

(* What is printed under a stop's id are that stop's arrivals, received by *)
(* this query: never what an earlier query, or the stack, left in the one  *)
(* response that all of them share.                                        *)
PrintsOwnArrivals ==
    pc = "report" /\ res = "client_OK" =>
        response \in answers /\ response.stop = request.stop_id

StopsWanted ==
    IF options.i # Null THEN <<options.i>> ELSE [n \in 1..Len(indices) |-> StopAt(indices[n]).id]

(* Each stop wanted is asked for and reported once, in the order found,    *)
(* whatever became of the queries before it; indices is not read beyond    *)
(* its end, nor where it is NULL.                                          *)
EveryStopReportedOnce ==
    /\ pc # "search" => count <= Len(StopsWanted) /\ i = Len(reported)
    /\ \A n \in 1..Len(reported) : reported[n].stop = StopsWanted[n]
    /\ pc = "exited" /\ count > 0 => Len(reported) = Len(StopsWanted)

(* test_main.c:138: "Query for stop_id %s returned status: %d, api fetch   *)
(* status: %s": the status logged is one that this query has received.     *)
LogsStatusOfQuery ==
    pc = "report" => response.status \in {r.status : r \in answers}
=============================================================================
