------------------------------- MODULE Poller -------------------------------
(***************************************************************************)
(* The polling watcher (internal/watch/poller.go) of http, tcp and process *)
(* watches, with the wrapper that Manager.run puts around its emit.        *)
(*                                                                         *)
(* Time passes between two probes in amounts from Gaps: the interval, or   *)
(* more when a probe was slow.  What is compared with the threshold is     *)
(* kept up to the threshold only.                                          *)
(***************************************************************************)
EXTENDS Naturals

CONSTANTS
    Gaps,      \* the time between two probes
    Threshold  \* Config.StabilityThreshold

VARIABLES
    up,         \* the watched condition
    cancelled,  \* ctx.Err() # nil
    polling,    \* where RunPoller is: in or after a probe, waiting, or done
    got,        \* what the probe returned
    current,    \* what RunPoller believes
    pending,    \* pending # nil: the last probe contradicted that
    since,      \* now.Sub(pendingSince)
    reported,   \* the last event that was emitted
    seen,       \* history: the condition when the probe returned
    last,       \* history: the result of the last round's probe
    streak      \* history: for how long the probes have given that result

pollVars == <<up, cancelled, polling, got, current, pending, since, reported, seen, last, streak>>

ASSUME PollAssumption == Gaps \subseteq Nat /\ Threshold \in Nat

\* What a poller believes, counts and reports is in range (RunPoller).
PollTypeOK ==
    /\ up \in BOOLEAN /\ cancelled \in BOOLEAN
    /\ polling \in {"first", "initial", "wait", "probe", "got", "done"}
    /\ got \in BOOLEAN /\ seen \in BOOLEAN
    /\ current \in BOOLEAN /\ pending \in BOOLEAN
    /\ since \in 0 .. Threshold /\ streak \in 0 .. Threshold
    /\ reported \in {"none", "up", "down"}
    /\ last \in BOOLEAN

PollInit ==
    /\ up \in BOOLEAN
    /\ cancelled = FALSE
    /\ polling = "first"
    /\ got = FALSE /\ seen = FALSE
    /\ current = FALSE /\ pending = FALSE /\ since = 0
    /\ reported = "none"
    /\ last = FALSE /\ streak = 0

Capped(t) == IF t < Threshold THEN t ELSE Threshold

\* A probe gives up when its context is done, and says that the condition does not hold.
Probe == up /\ ~cancelled

\* Mutant: an event of a type that rules cannot name.
EmitUnknown(v) == reported' = IF v THEN "up" ELSE "unknown"

\* Mutant: the emitter is not wrapped.
ReportAnyway(v) == reported' = IF v THEN "up" ELSE "down"

\* emitState, through wrappedEmit: what a cancelled watcher observes is dropped.
EmitState(v) == reported' = IF cancelled THEN reported ELSE IF v THEN "up" ELSE "down"

\* The ticker fires: the select need not see that ctx is done.
Tick ==
    /\ polling = "wait"
    /\ polling' = "probe"
    /\ UNCHANGED <<up, cancelled, got, current, pending, since, reported, seen, last, streak>>

\* A probe, of the initial check or of a round, returns.
ProbeReturns ==
    /\ \/ polling = "first" /\ polling' = "initial"
       \/ polling = "probe" /\ polling' = "got"
    /\ got' = Probe
    /\ seen' = up
    /\ UNCHANGED <<up, cancelled, current, pending, since, reported, last, streak>>

\* The rest of the initial check.
InitialCheck ==
    /\ polling = "initial"
    /\ polling' = "wait"
    /\ current' = got
    /\ EmitState(got)
    /\ last' = got /\ streak' = 0
    /\ UNCHANGED <<up, cancelled, got, pending, since, seen>>

\* Mutant: a pending change survives a probe that does not confirm it.
AgreesForgetful(d) ==
    /\ got = current
    /\ since' = IF pending THEN Capped(since + d) ELSE 0
    /\ UNCHANGED <<current, pending, reported>>

\* The probe confirms what is believed: a pending change was a flap.
Agrees(d) ==
    /\ got = current
    /\ pending' = FALSE
    /\ since' = 0
    /\ UNCHANGED <<current, reported>>

\* now.Sub(pendingSince), at a probe that contradicts what is believed.
Age(d) == IF pending THEN since + d ELSE 0

\* Mutant: strictly longer than the threshold.
HeldLonger(d) == Age(d) > Threshold

HeldLongEnough(d) == Age(d) >= Threshold

\* It contradicts it: the change is believed when it has held for the threshold.
Contradicts(d) ==
    /\ got # current
    /\ \/ /\ HeldLongEnough(d)
          /\ current' = got
          /\ pending' = FALSE
          /\ since' = 0
          /\ EmitState(got)
       \/ /\ ~HeldLongEnough(d)
          /\ pending' = TRUE
          /\ since' = Capped(Age(d))
          /\ UNCHANGED <<current, reported>>

\* The rest of a round of the loop.
Poll(d) ==
    /\ polling = "got"
    /\ polling' = "wait"
    /\ Agrees(d) \/ Contradicts(d)
    /\ last' = got
    /\ streak' = IF got = last THEN Capped(streak + d) ELSE 0
    /\ UNCHANGED <<up, cancelled, got, seen>>

PollerReturns ==
    /\ polling = "wait"
    /\ cancelled
    /\ polling' = "done"
    /\ UNCHANGED <<up, cancelled, got, current, pending, since, reported, seen, last, streak>>

\* The condition changes, or the watch is stopped, at any time.
ConditionFlips ==
    /\ up' = ~up
    /\ UNCHANGED <<cancelled, polling, got, current, pending, since, reported, seen, last,
                   streak>>

PollerCancelled ==
    /\ ~cancelled
    /\ cancelled' = TRUE
    /\ UNCHANGED <<up, polling, got, current, pending, since, reported, seen, last, streak>>

PollNext ==
    \/ Tick \/ ProbeReturns \/ InitialCheck \/ (\E d \in Gaps : Poll(d)) \/ PollerReturns
    \/ ConditionFlips \/ PollerCancelled

PollSpec == PollInit /\ [][PollNext]_pollVars

----------------------------------------------------------------------------
(* Properties *)

\* A transition is reported only when the probes have agreed on it for the threshold:
\* no flap that is shorter gets through (RunPoller).
FlapSuppressed ==
    [][reported # "none" /\ reported' # reported => streak' = Threshold]_pollVars

\* What the probes have agreed on for the threshold is believed: no change that holds is
\* suppressed, or late by a round (RunPoller).
StableIsBelieved == polling = "wait" /\ streak = Threshold => current = last

\* Stopping a watch is not an outage: what is reported as the condition's end was seen by
\* the probe, and is not a probe that was cut short, whenever the stop comes (RunPoller,
\* wrappedEmit).
StopIsNoOutage == [][reported' = "down" /\ reported # "down" => ~seen]_pollVars
=============================================================================
