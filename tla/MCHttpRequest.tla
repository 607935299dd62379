---------------------------- MODULE MCHttpRequest ----------------------------
(***************************************************************************)
(* One run of the two halves of a request: the attempts of do (HttpRetry),  *)
(* then what Download makes of the response that they end with              *)
(* (HttpDownload).  A download reads nothing of the attempts, so that the   *)
(* response that arrives at once stands for all of them (a bound: the       *)
(* downloads run in those states alone).                                    *)
(***************************************************************************)
EXTENDS HttpDownload, HttpRetry

AnsweredAtOnce == returned = "final" /\ now = 0 /\ attempt = 1 /\ ctx = "live"

RequestInit == AttemptsInit /\ Init

RequestNext ==
    \/ AttemptsNext /\ UNCHANGED vars
    \/ AnsweredAtOnce /\ Next /\ UNCHANGED attemptVars

\* The fairness of HttpRetry; a download is not promised to end.
RequestSpec ==
    /\ RequestInit
    /\ [][RequestNext]_<<attemptVars, vars>>
    /\ AttemptsFairness

=============================================================================
