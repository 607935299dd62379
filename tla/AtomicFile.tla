----------------------------- MODULE AtomicFile ------------------------------
(***************************************************************************)
(* What httpclient.Client.Download promises of its destination, whoever     *)
(* else downloads to it and whenever a process or the machine dies: it      *)
(* always holds the whole body of one answered request, or what it held at  *)
(* the start, and a transfer replaces it at most once, as its last step.    *)
(***************************************************************************)
CONSTANTS
    Transfers,      \* calls of Download
    Previous        \* what the destination holds at the start

VARIABLES
    content,        \* Previous, or the transfer whose whole body it is
    past,           \* what it held before
    open            \* transfers that may still replace it

vars == <<content, past, open>>

Init == content = Previous /\ past = {} /\ open = Transfers

\* A transfer's whole body becomes the content, and the transfer is through.
Replace(t) ==
    /\ t \in open
    /\ content' = t
    /\ past' = past \cup {content}
    /\ open' = open \ {t}

\* A transfer fails, returns something else than a file, or dies.
Abandon(t) ==
    /\ t \in open
    /\ open' = open \ {t}
    /\ UNCHANGED <<content, past>>

\* The machine dies: no transfer survives, and the last replacements may be
\* undone, whole files all of them.
LosePower ==
    /\ open' = {}
    /\ content' \in past \cup {content}
    /\ past' \subseteq past

Next == (\E t \in Transfers : Replace(t) \/ Abandon(t)) \/ LosePower

Spec == Init /\ [][Next]_vars

=============================================================================
