------------------------------ MODULE HttpRetry ------------------------------
(***************************************************************************)
(* internal/httpclient/client.go: Client.do, the attempts of one request    *)
(* under one deadline, with waitForRetry, waitRetryDelay and                *)
(* parseRetryAfter.                                                        *)
(*                                                                         *)
(* Time is counted in ticks from the start of the request.  A time.Duration *)
(* is a two's complement number of ticks, so that a product wraps around as *)
(* it does in int64 nanoseconds.                                            *)
(*                                                                         *)
(* HttpRequestProofs extends this module beside HttpDownload, so that they  *)
(* share no names.                                                         *)
(***************************************************************************)
EXTENDS Integers

CONSTANTS
    Budget,             \* ticks to the context's deadline (totalTimeout)
    Slack,              \* bound: ticks the clock runs on after the deadline
    Second,             \* ticks in time.Second
    FirstRetryDelay,    \* firstRetryDelay
    DurationLimit,      \* durations are -DurationLimit .. DurationLimit - 1
    DelaySeconds,       \* Retry-After values in delay-seconds
    Dates               \* Retry-After values as an HTTP-date

ASSUME TimeAssumption ==
    /\ Budget \in Nat \ {0} /\ Slack \in Nat /\ Second \in Nat \ {0}
    /\ FirstRetryDelay \in Nat \ {0}
    /\ DurationLimit \in Nat /\ DurationLimit > Budget + Slack
    /\ DelaySeconds \subseteq Nat /\ Dates \subseteq Int

VARIABLES
    now,        \* the clock
    where,      \* where do is
    attempt,    \* the loop variable
    wake,       \* when the retry timer fires
    ctx,        \* ctx.Err()
    returned,   \* what do returns
    notBefore   \* history: the earliest time the next attempt may start

attemptVars == <<now, where, attempt, wake, ctx, returned, notBefore>>

MaximumAttempts == 3

Errors == {"refused", "failed", "budget", "cancelled", "expired"}
Responses == {"final", "retryable"}     \* the response's status

AttemptsTypeOK ==
    /\ now \in 0 .. Budget + Slack
    /\ where \in {"start", "sending", "waiting", "done"}
    /\ attempt \in 1 .. MaximumAttempts
    /\ wake \in Nat
    /\ ctx \in {"live", "cancelled", "expired"}
    /\ returned \in Errors \cup Responses \cup {"none"}
    /\ where = "done" <=> returned # "none"
    /\ notBefore \in Int

AttemptsInit ==
    /\ now = 0 /\ where = "start" /\ attempt = 1 /\ wake = 0
    /\ ctx = "live" /\ returned = "none" /\ notBefore = 0

Later(t, u) == IF t > u THEN t ELSE u

\* int64 arithmetic on durations.
Wrapped(ticks) == ((ticks + DurationLimit) % (2 * DurationLimit)) - DurationLimit

-----------------------------------------------------------------------------
\* Retry-After as it arrives: nothing of use, a number of seconds, a date.
Headers == [kind : {"none"}, value : {0}]
      \cup [kind : {"seconds"}, value : DelaySeconds]
      \cup [kind : {"date"}, value : Dates]

\* Mutant: a date in the past is a negative delay, and seconds are ticks.
ParseRetryAfterTicks(header) ==
    IF header.kind = "seconds" THEN header.value ELSE header.value - now

\* parseRetryAfter.
ParseRetryAfter(header) ==
    IF header.kind = "seconds"
       THEN Wrapped(header.value * Second)
       ELSE Later(header.value - now, 0)

\* When the header says that the next attempt may start.
Requested(header) ==
    IF header.kind = "seconds"
       THEN now + header.value * Second
       ELSE Later(header.value, now)

\* waitForRetry: half of the base, and up to as much again.
Backoffs ==
    LET base == FirstRetryDelay * 2 ^ (attempt - 1)
        half == base \div 2
    IN {half + jitter : jitter \in 0 .. half}

Finish(outcome) ==
    /\ where' = "done"
    /\ returned' = outcome
    /\ UNCHANGED <<attempt, wake>>

\* Mutant: a wait that ends with the budget is refused as well.
WaitRetryDelayStrict(delay) ==
    \/ /\ Budget - now <= delay
       /\ Finish("budget")
    \/ /\ Budget - now > delay
       /\ delay <= 0
       /\ where' = "sending" /\ attempt' = attempt + 1
       /\ UNCHANGED <<wake, returned>>
    \/ /\ Budget - now > delay
       /\ delay > 0
       /\ where' = "waiting" /\ wake' = now + delay
       /\ UNCHANGED <<attempt, returned>>

\* waitRetryDelay, as far as its timer.
WaitRetryDelay(delay) ==
    \/ /\ Budget - now < delay
       /\ Finish("budget")
    \/ /\ Budget - now >= delay
       /\ delay <= 0
       /\ where' = "sending" /\ attempt' = attempt + 1
       /\ UNCHANGED <<wake, returned>>
    \/ /\ Budget - now >= delay
       /\ delay > 0
       /\ where' = "waiting" /\ wake' = now + delay
       /\ UNCHANGED <<attempt, returned>>

BackOff ==
    \E delay \in Backoffs :
        /\ WaitRetryDelay(delay)
        /\ notBefore' = now + delay

-----------------------------------------------------------------------------
\* Offline mode, or a URL outside the allowlist: nothing is sent.
Refuse ==
    /\ where = "start"
    /\ Finish("refused")
    /\ UNCHANGED <<now, ctx, notBefore>>

Begin ==
    /\ where = "start"
    /\ where' = "sending"
    /\ UNCHANGED <<now, attempt, wake, ctx, returned, notBefore>>

\* A response that do returns: any status but a retryable one, or the last.
AnswerReturned ==
    /\ where = "sending"
    /\ \/ Finish("final")
       \/ attempt = MaximumAttempts /\ Finish("retryable")
    /\ UNCHANGED <<now, ctx, notBefore>>

\* A retryable status before the last attempt.
AnswerRetried(header) ==
    /\ where = "sending"
    /\ attempt < MaximumAttempts
    /\ IF header.kind = "none"
          THEN BackOff
          ELSE /\ WaitRetryDelay(ParseRetryAfter(header))
               /\ notBefore' = Requested(header)
    /\ UNCHANGED <<now, ctx>>

\* Mutant: a request made without its context.
SendNotStopped == FALSE /\ UNCHANGED attemptVars

\* The request fails after its context ended.
SendStopped ==
    /\ where = "sending"
    /\ ctx # "live"
    /\ Finish(ctx)
    /\ UNCHANGED <<now, ctx, notBefore>>

\* A redirect that checkRedirect refuses is not tried again.
RedirectRefused ==
    /\ where = "sending"
    /\ ctx = "live"
    /\ Finish("refused")
    /\ UNCHANGED <<now, ctx, notBefore>>

\* The transport fails.
SendFailed ==
    /\ where = "sending"
    /\ ctx = "live"
    /\ IF attempt = MaximumAttempts
          THEN Finish("failed") /\ UNCHANGED notBefore
          ELSE BackOff
    /\ UNCHANGED <<now, ctx>>

\* The retry timer has fired.
Retry ==
    /\ where = "waiting"
    /\ now >= wake
    /\ where' = "sending" /\ attempt' = attempt + 1
    /\ UNCHANGED <<now, wake, ctx, returned, notBefore>>

WaitStopped ==
    /\ where = "waiting"
    /\ ctx # "live"
    /\ Finish(ctx)
    /\ UNCHANGED <<now, ctx, notBefore>>

-----------------------------------------------------------------------------
\* The caller cancels, or the flight's last waiter leaves.
Cancel ==
    /\ where # "done"
    /\ ctx = "live"
    /\ ctx' = "cancelled"
    /\ UNCHANGED <<now, where, attempt, wake, returned, notBefore>>

\* The deadline's timer fires, at the deadline or a little later.
Expire ==
    /\ where # "done"
    /\ ctx = "live"
    /\ now >= Budget
    /\ ctx' = "expired"
    /\ UNCHANGED <<now, where, attempt, wake, returned, notBefore>>

Tick ==
    /\ where # "done"
    /\ now < Budget + Slack
    /\ now' = now + 1
    /\ UNCHANGED <<where, attempt, wake, ctx, returned, notBefore>>

AttemptsNext ==
    \/ Refuse \/ Begin
    \/ AnswerReturned
    \/ \E header \in Headers : AnswerRetried(header)
    \/ SendStopped \/ RedirectRefused \/ SendFailed
    \/ Retry \/ WaitStopped
    \/ Cancel \/ Expire \/ Tick

AttemptsSpec == AttemptsInit /\ [][AttemptsNext]_attemptVars

\* Time passes, timers fire, and net/http gives up on a request whose
\* context has ended.  No upstream has to answer.
AttemptsFairness ==
    /\ WF_attemptVars(Tick) /\ WF_attemptVars(Expire)
    /\ WF_attemptVars(Begin) /\ WF_attemptVars(SendStopped)
    /\ WF_attemptVars(Retry \/ WaitStopped)

-----------------------------------------------------------------------------
(* Properties.                                                             *)

\* A wait that crosses the deadline is never begun.
WaitsWithinBudget == where = "waiting" => wake <= Budget

\* No attempt starts before the time the upstream asked for, or before the
\* backoff is over (docs/operations.md:81).
RetryAfterHonoured == where = "sending" => now >= notBefore

\* The budget error is the explicit limitation of an over-budget wait, and
\* of nothing else: a retry that fits in the budget is not given up.
BudgetErrorJustified == returned = "budget" => notBefore > Budget

\* The budget alone decides whether a retry is waited for (waitRetryDelay).
BudgetDecides == WaitsWithinBudget /\ BudgetErrorJustified

\* do returns, whatever the upstream does.
Returns == <>(where = "done")

=============================================================================
