-------------------------- MODULE ContinuationQueue --------------------------
(***************************************************************************)
(* What the daemon promises about continuations, without goroutines,       *)
(* snapshots, wake-ups or crashes: each session is a FIFO queue that runs  *)
(* one continuation at a time; different sessions run in parallel; what    *)
(* was interrupted is queued again and nothing that is settled runs again. *)
(***************************************************************************)
EXTENDS Naturals

CONSTANTS Conts, Sessions

VARIABLE row  \* state, session, created and byRule of each continuation

Settled == {"completed", "failed", "deleted"}

Init == \A c \in Conts : row[c].state = "unused"

\* One step enqueues what one event, or one manual call, asks for.  A continuation whose
\* prompt cannot be rendered is settled at once.  One that a rule made comes last.
Enqueue ==
    \A c \in Conts :
        \/ row'[c] = row[c]
        \/ /\ row[c].state = "unused"
           /\ row'[c].state \in {"pending", "failed"}
           /\ row'[c].session \in Sessions
           /\ row'[c].byRule =>
                \A d \in Conts :
                    row[d].state \in {"pending", "running"} => row[d].created < row'[c].created

\* A session has nothing running, and what its rules made earlier is settled.
Start(c) ==
    /\ row[c].state = "pending"
    /\ \A d \in Conts : d # c /\ row[d].session = row[c].session =>
         /\ row[d].state # "running"
         /\ row[d].byRule /\ row[d].created < row[c].created
              => row[d].state \in Settled
    /\ row' = [row EXCEPT ![c].state = "running"]

Finish(c) ==
    /\ row[c].state = "running"
    /\ \E st \in {"completed", "failed"} : row' = [row EXCEPT ![c].state = st]

\* A restart puts every interrupted continuation back in its place.
Requeue ==
    row' = [c \in Conts |-> IF row[c].state = "running"
                            THEN [row[c] EXCEPT !.state = "pending"] ELSE row[c]]

Forget ==
    \A c \in Conts : \/ row'[c] = row[c]
                     \/ row[c].state \in Settled /\ row'[c].state = "deleted"

Next ==
    \/ Enqueue
    \/ \E c \in Conts : Start(c) \/ Finish(c)
    \/ Requeue
    \/ Forget

Spec == Init /\ [][Next]_row
=============================================================================
