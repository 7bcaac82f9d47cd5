----------------------------- MODULE DeviceLogin -----------------------------
(***************************************************************************)
(* Login with a device code: poll_oauth_device_code (oauth_device.py) as   *)
(* GitHub Copilot uses it (oauth_github_copilot.py). Time is counted in    *)
(* units of the shortest interval; a sleep may last longer than asked.     *)
(***************************************************************************)
EXTENDS Integers, FiniteSets

CONSTANTS
    Expiry,     \* expires_in_seconds
    Default,    \* the interval if none is named, and what slow_down adds to it
    None,
    MaxTime     \* bound

VARIABLES
    now,
    interval,   \* interval
    asked,      \* the shortest interval the service allows
    polled,     \* the time of the last poll, at first of the start
    wakes,      \* when the wait is over
    cancelled,  \* cancel_event
    at          \* waiting, polling, and how it ends

vars == <<now, interval, asked, polled, wakes, cancelled, at>>

Least(a, b) == IF a < b THEN a ELSE b

\* Fault: the wait does not regard the deadline.
Wait_Whole(i, t) == t + i

\* _wait of at most what remains until the deadline.
Wait(i, t) == t + Least(i, IF Expiry > t THEN Expiry - t ELSE 0)

\* Fault: an interval of zero is taken as it is.
PollInterval_Raw(v) == IF v = None THEN Default ELSE v

\* _poll_interval
PollInterval(v) == IF v = None \/ v <= 0 THEN Default ELSE v

Init ==
    /\ asked \in 0 .. 2 /\ interval = PollInterval(asked)
    /\ now = 0 /\ polled = 0 /\ cancelled \in BOOLEAN
    /\ wakes = Wait(interval, 0)
    /\ at = "waiting"

Tick ==
    /\ at \in {"waiting", "polling"} /\ now < MaxTime
    /\ now' = now + 1
    /\ UNCHANGED <<interval, asked, polled, wakes, cancelled, at>>

Cancel ==
    /\ at \in {"waiting", "polling"} /\ ~cancelled
    /\ cancelled' = TRUE
    /\ UNCHANGED <<now, interval, asked, polled, wakes, at>>

\* The wait ends: with the sleep, or at once when the event is set.
Wake ==
    /\ at = "waiting"
    /\ IF cancelled THEN at' = "cancelled" /\ UNCHANGED polled
       ELSE /\ now >= wakes
            /\ IF now < Expiry THEN at' = "polling" /\ polled' = now
               ELSE at' = "timed_out" /\ UNCHANGED polled
    /\ UNCHANGED <<now, interval, asked, wakes, cancelled>>

\* Fault: an answer that asks to slow down is taken for a pending one.
Slowed_Not(status, said) == interval

\* slow_down: the interval the service names, or a longer one.
Slowed(status, said) ==
    IF status # "slow_down" THEN interval
    ELSE IF said # None THEN PollInterval(said) ELSE interval + Default

\* poll() returns; an HTTP error raises like "failed".
Polled(status, said) ==
    /\ at = "polling"
    /\ interval' = Slowed(status, said)
    /\ asked' = IF status # "slow_down" THEN asked ELSE IF said # None THEN said ELSE asked + Default
    /\ at' = CASE status \in {"complete", "failed"} -> status
               [] now >= Expiry -> "timed_out"
               [] cancelled     -> "cancelled"
               [] OTHER         -> "waiting"
    /\ wakes' = IF at' = "waiting" THEN Wait(interval', now) ELSE wakes
    /\ UNCHANGED <<now, polled, cancelled>>

Next ==
    \/ Tick \/ Cancel \/ Wake
    \/ \E status \in {"complete", "pending", "slow_down", "failed"}, said \in {None, 0, 1, 3} : Polled(status, said)

Spec == Init /\ [][Next]_vars
-----------------------------------------------------------------------------
TypeOK ==
    /\ now \in 0 .. MaxTime /\ interval \in Nat \ {0} /\ asked \in Nat /\ polled \in 0 .. MaxTime
    /\ at \in {"waiting", "polling", "complete", "failed", "cancelled", "timed_out"}

\* RFC 8628, which oauth_device.py:1 names: polls are as far apart as the service
\* asked for at last, none begins when the code has expired, and none after the
\* login was cancelled.
PollsSpaced ==
    [][at = "waiting" /\ at' = "polling" => now - polled >= asked /\ now < Expiry /\ ~cancelled]_vars

\* The expiry is noticed when it comes, however long the interval has grown
\* (oauth_device.py:43, 66).
ExpiryNoticed == at = "waiting" => wakes <= Expiry
=============================================================================
