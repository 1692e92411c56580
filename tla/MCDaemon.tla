------------------------------ MODULE MCDaemon ------------------------------
(* The daemon on small instances, for TLC. *)
EXTENDS Daemon, TLC

CONSTANTS r1, r2, s1, s2, claude

\* r1 starts a chain in s1, needs a payload key and expires; r2 continues the chain in s2
\* when r1's continuation has completed.
MCRules ==
    r1 :> [type |-> "ready", source |-> "web", session |-> s1, agent |-> claude,
           oneShot |-> TRUE, label |-> "step-1", needs |-> {"port"}, expires |-> TRUE] @@
    r2 :> [type |-> "continuation.completed", source |-> "step-1", session |-> s2,
           agent |-> NoAgent, oneShot |-> TRUE, label |-> NoLabel, needs |-> {},
           expires |-> FALSE]

Ready(keys) == [type |-> "ready", source |-> "web", keys |-> keys, of |-> Manual]

MCReady == {Ready({}), Ready({"port"})}

\* Events that every template renders with.
MCReadyWithPort == {Ready({"port"})}

\* A worker that holds no continuation has a fixed one as a place-holder, which nothing
\* reads: the states that a permutation identifies behave alike.
MCSymmetry == Permutations(Conts) \cup Permutations(Workers)

\* Bound: a day, with two out of a second stimulus, a chain of two rules and a stop; or days
\* with one stimulus and one rule, and two out of a stop, a window that passes, a session
\* that goes astray, and a rule that expires or is removed.
DayOrDays ==
    \/ /\ day = 0 /\ expired = {} /\ astray = {}
       /\ \A r \in Rules : rule[r] # "removed"
       /\ stimuli + stops + Cardinality({r \in Rules : rule[r] # "unadded"}) <= 4
    \/ /\ stimuli <= 1 /\ rule[r2] = "unadded"
       /\ stops + day + Cardinality(astray) + Cardinality(expired)
            + Cardinality({r \in Rules : rule[r] = "removed"}) <= 2

\* Bound: a stop and a failing store call with one stimulus, or one of them with two.
FaultsOrStimuli == errs + stops <= 1 \/ stimuli <= 1
=============================================================================
