------------------------------ MODULE GitWatch ------------------------------
(***************************************************************************)
(* The git watcher (internal/watch/git.go): kernel watches on .git and     *)
(* .git/refs/heads, and a debounce that passes the first change of a burst *)
(* and drops what follows it, for each type of event.                      *)
(*                                                                         *)
(* git and fsnotify are external: a switch of the branch, a ref update and *)
(* any other write in .git queue an event each.                            *)
(***************************************************************************)
EXTENDS Naturals, Sequences

CONSTANTS
    Branches,
    MaxGit      \* bound: events that fsnotify has queued

VARIABLES
    head,       \* the branch that .git/HEAD names
    gitQueue,   \* w.Events, by the file they are about
    gitLast,    \* the type of the event that was emitted last, "" for none
    recent,     \* less than the debounce ago
    branch,     \* history: the branch that was reported last, or that was there at first
    near,       \* history: a branch was reported less than the debounce ago
    lone        \* history: that was not so when HEAD was last switched

gitVars == <<head, gitQueue, gitLast, recent, branch, near, lone>>

ASSUME GitAssumption == MaxGit \in Nat

\* What a git watcher queues and emits is in range (RunGitWatch).
GitTypeOK ==
    /\ head \in Branches /\ branch \in Branches
    /\ gitQueue \in Seq({"HEAD", "ref", "other"})
    /\ gitLast \in {"", "git.branch.changed", "git.ref.changed"}
    /\ recent \in BOOLEAN /\ near \in BOOLEAN /\ lone \in BOOLEAN

GitInit ==
    /\ head \in Branches
    /\ gitQueue = <<>>
    /\ gitLast = ""
    /\ recent = FALSE
    /\ branch = head
    /\ near = FALSE
    /\ lone = FALSE

----------------------------------------------------------------------------
(* git and time *)

GitWrites(f) ==
    /\ Len(gitQueue) < MaxGit
    /\ gitQueue' = Append(gitQueue, f)

SwitchBranch(b) ==
    /\ b # head
    /\ head' = b
    /\ lone' = ~near
    /\ GitWrites("HEAD")
    /\ UNCHANGED <<gitLast, recent, branch, near>>

\* A commit, git pack-refs, a lock file of these; or anything else.
OtherWrite(f) ==
    /\ GitWrites(f)
    /\ UNCHANGED <<head, gitLast, recent, branch, near, lone>>

\* The debounce is over, of the last event, or of the last branch when a ref came later.
GitTimePasses ==
    /\ recent
    /\ near' = FALSE
    /\ \/ recent' = FALSE
       \/ near /\ gitLast = "git.ref.changed" /\ UNCHANGED recent
    /\ UNCHANGED <<head, gitQueue, gitLast, branch, lone>>

----------------------------------------------------------------------------
(* RunGitWatch *)

EventType(f) == IF f = "HEAD" THEN "git.branch.changed" ELSE "git.ref.changed"

\* Mutant: one debounce for both types.
DropsAny(type) == recent

\* The change is part of a burst of its type.
Drops(type) == type = gitLast /\ recent

\* currentBranch reads HEAD as it is by now.
GitEmit(type) ==
    /\ gitLast' = type
    /\ recent' = TRUE
    /\ \/ type = "git.branch.changed" /\ branch' = head /\ near' = TRUE
       \/ type # "git.branch.changed" /\ UNCHANGED <<branch, near>>
    /\ UNCHANGED lone

GitEvent ==
    /\ gitQueue # <<>>
    /\ gitQueue' = Tail(gitQueue)
    /\ LET type == EventType(Head(gitQueue))
       IN  \/ Head(gitQueue) # "other" /\ ~Drops(type) /\ GitEmit(type)
           \/ /\ Head(gitQueue) = "other" \/ Drops(type)
              /\ UNCHANGED <<gitLast, recent, branch, near, lone>>
    /\ UNCHANGED head

GitNext ==
    \/ \E b \in Branches : SwitchBranch(b)
    \/ \E f \in {"ref", "other"} : OtherWrite(f)
    \/ GitTimePasses \/ GitEvent

GitSpec == GitInit /\ [][GitNext]_gitVars

----------------------------------------------------------------------------
(* Properties *)

\* A switch of the branch is lost in the debounce of an earlier switch only: when the last
\* one came later than that, the branch reported last is the one HEAD names, once the queue
\* is read, no matter which commits and switches came with it (RunGitWatch).
LoneSwitchReported == gitQueue = <<>> /\ lone => branch = head
=============================================================================
