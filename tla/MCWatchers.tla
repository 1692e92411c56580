----------------------------- MODULE MCWatchers -----------------------------
(***************************************************************************)
(* The watch manager and the four watchers on a small instance, for TLC.   *)
(* The manager does not depend on what its watchers do, nor they on each   *)
(* other, so a behaviour is one of any one of them, and the others stay as *)
(* they began.                                                             *)
(***************************************************************************)
EXTENDS WatchManager, Poller, FileWatch, DockerWatch, GitWatch, TLC

MCGaps == {1, 2}

MCSymmetry == Permutations(Handles) \cup Permutations(Handlers)

\* Bound: two watches, or one and a store call that fails.
WatchesOrErrors == errs = 0 \/ Cardinality(spent) <= 1

VARIABLE part  \* the one that runs

vars == <<managerVars, pollVars, fileVars, dockerVars, gitVars, part>>

\* The variables of the manager and of the watchers are in range: above all the events are
\* the documented ones, and the watches table keeps UNIQUE(type, target) (AddWatch).
TypeOK == ManagerTypeOK /\ PollTypeOK /\ FileTypeOK /\ DockerTypeOK /\ GitTypeOK

Init ==
    /\ ManagerInit /\ PollInit /\ FileInit /\ DockerInit /\ GitInit
    /\ part \in {"manager", "poller", "file", "docker", "git"}
    /\ part # "poller" => up
    /\ part # "file" => parent /\ file
    /\ part # "docker" => status = "absent"
    /\ part # "git" => head = CHOOSE b \in Branches : TRUE

Next ==
    /\ UNCHANGED part
    /\ \/ part = "manager" /\ ManagerNext /\ UNCHANGED <<pollVars, fileVars, dockerVars, gitVars>>
       \/ part = "poller" /\ PollNext /\ UNCHANGED <<managerVars, fileVars, dockerVars, gitVars>>
       \/ part = "file" /\ FileNext /\ UNCHANGED <<managerVars, pollVars, dockerVars, gitVars>>
       \/ part = "docker" /\ DockerNext /\ UNCHANGED <<managerVars, pollVars, fileVars, gitVars>>
       \/ part = "git" /\ GitNext /\ UNCHANGED <<managerVars, pollVars, fileVars, dockerVars>>

Spec == Init /\ [][Next]_vars
=============================================================================
