----------------------------- MODULE SharedFetch -----------------------------
(***************************************************************************)
(* What httpclient.Client.Get promises its callers, with none of the map,   *)
(* the counters, the permits or the locking that client.go builds it from.  *)
(*                                                                         *)
(* A caller that wants a resource is attached to one fetch of that          *)
(* resource.  A fetch may serve several callers; it ends with one outcome   *)
(* for all of them; a caller may give up at any time, which ends nobody     *)
(* else's fetch; and a fetch is called off only when its last caller has    *)
(* gone.  HttpFlights implements this specification.                        *)
(***************************************************************************)
CONSTANTS
    Callers,    \* goroutines that call Get
    Keys,       \* what they ask for: URL, auth flag, byte limit, identity
    Fetches,    \* identities of fetches
    NoFetch,    \* a caller that is attached to nothing
    NoKey       \* the subject of a fetch that is over

VARIABLES
    stage,      \* [Fetches -> Stages]
    subject,    \* [Fetches -> Keys \cup {NoKey}]: what a fetch reads
    attached,   \* [Callers -> Fetches \cup {NoFetch}]
    got         \* [Callers -> Answers]: what an attached caller takes away

vars == <<stage, subject, attached, got>>

\* How a fetch can end while somebody waits for it.
Results == {"ok", "failed", "expired"}

\* "over": ended, and nobody is attached; the identity may be used again.
\* "called_off": nobody is attached, and the fetch has not stopped yet.
Stages == Results \cup {"over", "running", "called_off"}
Answers == Results \cup {"none", "gaveUp"}

Audience(f) == {c \in Callers : attached[c] = f}

Init ==
    /\ stage = [f \in Fetches |-> "over"]
    /\ subject = [f \in Fetches |-> NoKey]
    /\ attached = [c \in Callers |-> NoFetch]
    /\ got = [c \in Callers |-> "none"]

\* A caller asks for k and starts a fetch of it.
Begin(c, k, f) ==
    /\ attached[c] = NoFetch
    /\ stage[f] = "over"
    /\ stage' = [stage EXCEPT ![f] = "running"]
    /\ subject' = [subject EXCEPT ![f] = k]
    /\ attached' = [attached EXCEPT ![c] = f]
    /\ UNCHANGED got

\* A caller asks for k and shares a fetch of k that still runs for others.
Attach(c, k, f) ==
    /\ attached[c] = NoFetch
    /\ stage[f] = "running"
    /\ subject[f] = k
    /\ Audience(f) # {}
    /\ attached' = [attached EXCEPT ![c] = f]
    /\ UNCHANGED <<stage, subject, got>>

\* A running fetch ends, with one outcome for its whole audience.
Finish(f) ==
    /\ stage[f] = "running"
    /\ \E r \in Results : stage' = [stage EXCEPT ![f] = r]
    /\ UNCHANGED <<subject, attached, got>>

\* A fetch that was called off comes to its end.
Stop(f) ==
    /\ stage[f] = "called_off"
    /\ stage' = [stage EXCEPT ![f] = "over"]
    /\ subject' = [subject EXCEPT ![f] = NoKey]
    /\ UNCHANGED <<attached, got>>

\* An attached caller takes the outcome of its fetch, or gives up.
Take(c) ==
    /\ attached[c] # NoFetch
    /\ got[c] = "none"
    /\ \/ /\ stage[attached[c]] \in Results
          /\ got' = [got EXCEPT ![c] = stage[attached[c]]]
       \/ got' = [got EXCEPT ![c] = "gaveUp"]
    /\ UNCHANGED <<stage, subject, attached>>

\* It goes away.  The last one out of a fetch that runs calls it off.
Detach(c, f) ==
    /\ attached[c] = f
    /\ got[c] # "none"
    /\ attached' = [attached EXCEPT ![c] = NoFetch]
    /\ got' = [got EXCEPT ![c] = "none"]
    /\ \/ Audience(f) # {c} /\ UNCHANGED <<stage, subject>>
       \/ /\ Audience(f) = {c} /\ stage[f] = "running"
          /\ stage' = [stage EXCEPT ![f] = "called_off"]
          /\ UNCHANGED subject
       \/ /\ Audience(f) = {c} /\ stage[f] \in Results
          /\ stage' = [stage EXCEPT ![f] = "over"]
          /\ subject' = [subject EXCEPT ![f] = NoKey]

Next ==
    \/ \E c \in Callers, k \in Keys, f \in Fetches : Begin(c, k, f) \/ Attach(c, k, f)
    \/ \E f \in Fetches : Finish(f) \/ Stop(f)
    \/ \E c \in Callers : Take(c)
    \/ \E c \in Callers, f \in Fetches : Detach(c, f)

Spec == Init /\ [][Next]_vars

=============================================================================
