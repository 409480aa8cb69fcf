------------------------------ MODULE FetchOps ------------------------------
(***************************************************************************)
(* What bkk_api.cpp promises the thread that calls it: the stop it asks    *)
(* the service for and the outcomes of get_arrivals_for_station.           *)
(* UdsServer takes every fetch from here; BkkApi is the code that has to   *)
(* keep the promise.                                                       *)
(***************************************************************************)
EXTENDS Integers

CONSTANTS
    Counts,         \* numbers of arrivals a fetch may yield
    Failures,       \* ways a fetch with a usable key may fail
    None            \* no stop; elsewhere: no connection, no message

(* The stop id the service is asked for: get_arrivals_for_stop adds the    *)
(* prefix to ids that lack it.  The cache key stays as typed.              *)
UpstreamStop(s) == [s EXCEPT !.prefixed = TRUE]

NothingFetched == [stop |-> None, count |-> 0]

(* What get_arrivals_for_station may return for a request: no key, no      *)
(* call; an unknown key, status 401; otherwise a non-empty list of         *)
(* arrivals, since an empty one is ArrivalsParseFailed.  An exception is   *)
(* possible with any key.                                                  *)
FetchResults(req) ==
    LET Failed(S) == [status : S, arrivals : {NothingFetched}]
        Fetched == [status   : {"Ok"},
                    arrivals : [stop : {UpstreamStop(req.stop)}, count : Counts]]
    IN  CASE req.key = "empty"    -> Failed({"MissingApiKey", "UnexpectedException"})
          [] req.key = "rejected" -> Failed(Failures \cup {"InvalidApiKey"})
          [] req.key = "valid"    -> Failed(Failures) \cup Fetched
=============================================================================
