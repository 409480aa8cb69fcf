------------------------------- MODULE BkkApi -------------------------------
(***************************************************************************)
(* One call of get_arrivals_for_station: the request to the service (curl, *)
(* external), the parse of its body (ResponseParser), and the result.  It  *)
(* keeps the promise that UdsServer builds on, FetchOps!FetchResults.      *)
(***************************************************************************)
EXTENDS FetchOps, Sequences

CONSTANTS
    Requests,       \* [stop |-> ..., key |-> ...], as UdsServer has them
    Codes,          \* HTTP status codes of the service
    Bodies,
    ServiceTime

VARIABLES
    req,            \* stop_id and api_key
    at,             \* program counter of the call
    asked,          \* the stop id in the URL, or None
    handle,         \* is there a curl easy handle?
    result,         \* bkk_api_status_t, "none" before the return
    body, pc, tree, i, skipped, arrivals, status    \* of the parser

apiVars == <<req, at, asked, handle, result>>

parserVars == <<body, pc, tree, i, skipped, arrivals, status>>

vars == <<apiVars, parserVars>>

Parser == INSTANCE ResponseParser

(* What cJSON and the service vouch for.                                   *)
ASSUME BodiesAssumption ==
    /\ ServiceTime \in Int
    /\ \A json \in Bodies : Parser!WellFormed(json) /\ Parser!TellsServiceTime(json)

(* Every number of arrivals and every failure there may be is one that     *)
(* UdsServer reckons with.                                                 *)
ASSUME ResultsAssumption ==
    /\ \A json \in Bodies :
          Parser!StopTimesIn(json).type = "array" =>
              1..Len(Parser!StopTimesIn(json).items) \subseteq Counts
    /\ {"CurlInitFailed", "CurlPerformFailed", "HttpError", "ArrivalsParseFailed",
        "UnexpectedException"} \subseteq Failures

ASSUME RequestsAssumption == \A r \in Requests : r.key \in {"valid", "rejected", "empty"}

Init ==
    /\ req \in Requests
    /\ at = "begin"
    /\ asked = None
    /\ handle = FALSE
    /\ result = "none"
    /\ Parser!Init

(* Mutant of Return: early, the handle not yet released. *)
ReturnKeepingHandle(res) ==
    /\ at' = "returned"
    /\ result' = res
    /\ UNCHANGED <<req, asked, handle>>
    /\ UNCHANGED parserVars

Return(res) ==
    /\ at' = "returned"
    /\ result' = res
    /\ handle' = FALSE
    /\ UNCHANGED <<req, asked>>
    /\ UNCHANGED parserVars

(* std::bad_alloc while stop id, parameters and URL are put together. *)
BuildThrows ==
    /\ at = "begin"
    /\ Return("UnexpectedException")

NoKey ==
    /\ at = "begin"
    /\ req.key = "empty"
    /\ Return("MissingApiKey")

CurlInitFails ==
    /\ at = "begin"
    /\ req.key # "empty"
    /\ Return("CurlInitFailed")

(* Mutant of StartTransfer: the stop id goes out as typed. *)
StartTransferAsTyped ==
    /\ at = "begin"
    /\ req.key # "empty"
    /\ asked' = req.stop
    /\ handle' = TRUE
    /\ at' = "transfer"
    /\ UNCHANGED <<req, result>>
    /\ UNCHANGED parserVars

StartTransfer ==
    /\ at = "begin"
    /\ req.key # "empty"
    /\ asked' = UpstreamStop(req.stop)
    /\ handle' = TRUE
    /\ at' = "transfer"
    /\ UNCHANGED <<req, result>>
    /\ UNCHANGED parserVars

(* No connection, or no end within CURLOPT_TIMEOUT. *)
TransferFails ==
    /\ at = "transfer"
    /\ Return("CurlPerformFailed")

(* The service knows its keys: 401 is for the others, which get no data. *)
Replies == {code \in Codes : IF req.key = "valid" THEN code # 401 ELSE code \notin 200..299}

Refused ==
    /\ at = "transfer"
    /\ \E code \in Replies :
        \/ code = 401 /\ Return("InvalidApiKey")
        \/ code # 401 /\ code \notin 200..299 /\ Return("HttpError")

Answered ==
    /\ at = "transfer"
    /\ \E code \in Replies : code \in 200..299
    /\ handle' = FALSE
    /\ at' = "parse"
    /\ UNCHANGED <<req, asked, result>>
    /\ UNCHANGED parserVars

ParserStep ==
    /\ at = "parse"
    /\ Parser!Next
    /\ UNCHANGED apiVars

(* Mutant of ParseReturns: "no valid stop times" is not taken for a failure. *)
ParseReturnsLeniently ==
    /\ at = "parse"
    /\ pc = "done"
    /\ Return(IF status \in Parser!Successes \cup {"NoValidStopTimes"}
              THEN "Ok" ELSE "ArrivalsParseFailed")

ParseReturns ==
    /\ at = "parse"
    /\ pc = "done"
    /\ Return(IF status \in Parser!Successes THEN "Ok" ELSE "ArrivalsParseFailed")

(* Mutant of ParseThrows: no catch clause, no return. *)
ParseThrowsUncaught == FALSE

(* catch (const std::exception&) *)
ParseThrows ==
    /\ at = "parse"
    /\ pc = "threw"
    /\ Return("UnexpectedException")

Next ==
    \/ BuildThrows \/ NoKey \/ CurlInitFails \/ StartTransfer
    \/ TransferFails \/ Refused \/ Answered
    \/ ParserStep \/ ParseReturns \/ ParseThrows

(* curl ends every transfer, and the thread is scheduled. *)
Spec == Init /\ [][Next]_vars /\ WF_vars(Next)

-----------------------------------------------------------------------------
(* Types; and, of the parser, where there is a cJSON tree.                 *)
TypeOK ==
    /\ Parser!TypeOK
    /\ req \in Requests
    /\ at \in {"begin", "transfer", "parse", "returned"}
    /\ asked \in {None} \cup {UpstreamStop(r.stop) : r \in Requests}
    /\ handle \in BOOLEAN
    /\ result \in {"none", "MissingApiKey", "CurlInitFailed", "CurlPerformFailed",
                   "InvalidApiKey", "HttpError", "ArrivalsParseFailed",
                   "UnexpectedException", "Ok"}
    /\ result # "none" <=> at = "returned"

(* What fresh_fetch_and_update_cache passes on: the arrivals of a success. *)
PassedOn == IF result = "Ok" THEN [stop |-> asked, count |-> Len(arrivals)] ELSE NothingFetched

(* Whatever the key, the network and the body, a call ends in one of the   *)
(* outcomes UdsServer takes for granted: in particular Ok only with        *)
(* arrivals, and only for the stop asked for.                              *)
OutcomeIsExpected ==
    at = "returned" => [status |-> result, arrivals |-> PassedOn] \in FetchResults(req)

(* A call leaves no curl handle behind, and a cJSON tree only by way of an *)
(* exception.  The output may hold arrivals with a failure for the same    *)
(* reason alone.                                                           *)
NothingLeftBehind ==
    at = "returned" =>
        /\ ~handle
        /\ tree \/ (result # "Ok" /\ arrivals # <<>>) => result = "UnexpectedException"

(* The call returns: what the fairness of UdsServer's Fetch rests on. *)
CallReturns == <>(at = "returned")

(* Each stop time with a time gives one arrival, in the service's order;   *)
(* an unusable one in between shifts, drops or repeats nothing.            *)
EveryTimedStopTimeOnce == Parser!EveryTimedStopTimeOnce

(* A parse status of success is one with arrivals, and tells whether all   *)
(* stop times were usable: handle_client caches it without looking.        *)
StatusTellsArrivals == Parser!StatusTellsArrivals

(* Line, vehicle type and minutes are those of the arrival's stop time.    *)
ArrivalsFitStopTimes == Parser!ArrivalsFitStopTimes
=============================================================================
