----------------------------- MODULE Lifecycle -----------------------------
(***************************************************************************)
(* Who runs the daemon (internal/client/ensure.go, internal/daemon/        *)
(* daemon.go, lock_unix.go): clients that find no daemon start one each,   *)
(* the lock lets one of them in, a stale socket is replaced, and a daemon  *)
(* that stops takes its socket away while the next one may be starting.    *)
(*                                                                         *)
(* The operating system is external: the lock goes with its process, a     *)
(* socket file is bound before it listens and outlives a process that      *)
(* dies.  A dial succeeds exactly when the socket file's owner listens.    *)
(***************************************************************************)
EXTENDS Naturals

CONSTANTS
    Procs,      \* processes that run `runtimepulse daemon`
    Commands,   \* client processes: commands of the CLI, MCP servers
    NoProc,     \* nobody
    Stale,      \* the owner of a socket file whose process is dead
    MaxFaults   \* bound: deaths, signals, failing system calls, missed deadlines

VARIABLES
    proc,     \* where each daemon process is
    lock,     \* who has daemon.lock
    path,     \* whose socket file is at the socket's path
    command,  \* where each client is in EnsureDaemon
    faults    \* faults so far

lifeVars == <<proc, lock, path, command, faults>>

ASSUME LifeAssumption ==
    /\ NoProc \notin Procs /\ Stale \notin Procs /\ NoProc # Stale
    /\ MaxFaults \in Nat

ProcStates == {"none", "lock", "open", "probe", "unlink", "bind", "listen", "chmod",
               "serve", "hangup", "drain", "remove", "abort", "release"}

\* Every process and client is at a step of its code (New, Serve, Close, EnsureDaemon).
LifeTypeOK ==
    /\ proc \in [Procs -> ProcStates]
    /\ lock \in Procs \cup {NoProc}
    /\ path \in Procs \cup {NoProc, Stale}
    /\ command \in [Commands -> {"idle", "ping", "start", "poll", "ok"}]
    /\ faults \in Nat

LifeInit ==
    /\ proc = [p \in Procs |-> "none"]
    /\ lock = NoProc
    /\ path \in {NoProc, Stale}
    /\ command = [c \in Commands |-> "idle"]
    /\ faults = 0

Fault == faults < MaxFaults /\ faults' = faults + 1

----------------------------------------------------------------------------
(* A daemon process *)

Step(p, from, to) == proc[p] = from /\ proc' = [proc EXCEPT ![p] = to]

\* net.Listen has returned: connections queue up until Serve accepts them.
Listening == {p \in Procs : proc[p] \in {"chmod", "serve", "hangup"}}

\* acquireLock: a process that does not get the lock ends.
AcquireLock(p) ==
    /\ \/ lock = NoProc /\ lock' = p /\ Step(p, "lock", "open")
       \/ lock # NoProc /\ UNCHANGED lock /\ Step(p, "lock", "none")
    /\ UNCHANGED <<path, command, faults>>

\* store.Open
OpenStore(p) ==
    /\ \/ Step(p, "open", "probe") /\ UNCHANGED faults
       \/ Step(p, "open", "release") /\ Fault
    /\ UNCHANGED <<lock, path, command>>

\* Mutant: a socket file that is there is somebody's.
KeepStaleSocket(p) ==
    /\ Step(p, "probe", "bind")
    /\ UNCHANGED <<lock, path, command, faults>>

\* removeStaleSocket: is anybody listening on the socket file ...
ProbeSocket(p) ==
    /\ \/ path \in Listening \cup {NoProc} /\ Step(p, "probe", "bind")
       \/ path \notin Listening \cup {NoProc} /\ Step(p, "probe", "unlink")
    /\ UNCHANGED <<lock, path, command, faults>>

\* ... if not, it is deleted, whatever it is by now.
UnlinkStale(p) ==
    /\ Step(p, "unlink", "bind")
    /\ path' = NoProc
    /\ UNCHANGED <<lock, command, faults>>

\* net.Listen binds the path, which fails when there is a file ...
Bind(p) ==
    /\ \/ path = NoProc /\ path' = p /\ Step(p, "bind", "listen")
       \/ path # NoProc /\ UNCHANGED path /\ Step(p, "bind", "release")
    /\ UNCHANGED <<lock, command, faults>>

\* ... and then listens.
Listen(p) ==
    /\ Step(p, "listen", "chmod")
    /\ UNCHANGED <<lock, path, command, faults>>

\* chmodSocket, and the rest of New.
ChmodSocket(p) ==
    /\ \/ Step(p, "chmod", "serve") /\ UNCHANGED faults
       \/ Step(p, "chmod", "abort") /\ Fault
    /\ UNCHANGED <<lock, path, command>>

\* SIGINT or SIGTERM.
Signal(p) ==
    /\ Step(p, "serve", "hangup")
    /\ Fault
    /\ UNCHANGED <<lock, path, command>>

\* The goroutine of Serve closes the listener, which unlinks the path.
HangUp(p) ==
    /\ Step(p, "hangup", "drain")
    /\ path' = NoProc
    /\ UNCHANGED <<lock, command, faults>>

\* Mutant: Close gives the lock back before it deletes the socket file.
UnlockFirst(p) ==
    /\ Step(p, "drain", "remove")
    /\ lock' = NoProc
    /\ UNCHANGED <<path, command, faults>>

\* Close: the dispatcher is done, or 10 seconds are over; the store is closed ...
Drain(p) ==
    /\ Step(p, "drain", "remove")
    /\ UNCHANGED <<lock, path, command, faults>>

\* ... what is at the path is deleted, as it is when New gives up after Listen ...
RemoveSocket(p) ==
    /\ Step(p, "remove", "release") \/ Step(p, "abort", "release")
    /\ path' = NoProc
    /\ UNCHANGED <<lock, command, faults>>

\* ... and the lock is given back.
ReleaseLock(p) ==
    /\ Step(p, "release", "none")
    /\ lock' = IF lock = p THEN NoProc ELSE lock
    /\ UNCHANGED <<path, command, faults>>

Die(p) ==
    /\ proc[p] # "none"
    /\ Fault
    /\ proc' = [proc EXCEPT ![p] = "none"]
    /\ lock' = IF lock = p THEN NoProc ELSE lock
    /\ path' = IF path = p THEN Stale ELSE path
    /\ UNCHANGED command

ProcStep(p) ==
    \/ AcquireLock(p) \/ OpenStore(p) \/ ProbeSocket(p) \/ UnlinkStale(p)
    \/ Bind(p) \/ Listen(p) \/ ChmodSocket(p)
    \/ HangUp(p) \/ Drain(p) \/ RemoveSocket(p) \/ ReleaseLock(p)

----------------------------------------------------------------------------
(* EnsureDaemon *)

Goto(c, from, to) == command[c] = from /\ command' = [command EXCEPT ![c] = to]

Ensure(c) ==
    /\ Goto(c, "idle", "ping")
    /\ UNCHANGED <<proc, lock, path, faults>>

\* Serve answers a status call.
Answering == {p \in Procs : proc[p] \in {"serve", "hangup"}}

Ping(c) ==
    /\ path \in Answering
    /\ Goto(c, "ping", "ok") \/ Goto(c, "poll", "ok")
    /\ UNCHANGED <<proc, lock, path, faults>>

\* Nobody listens; or the deadline of the call passes.
NoAnswer(c) ==
    /\ Goto(c, "ping", "start")
    /\ (path \notin Listening /\ UNCHANGED faults) \/ Fault
    /\ UNCHANGED <<proc, lock, path>>

\* A detached process is started, whoever else is starting one.
StartDaemon(c) ==
    /\ Goto(c, "start", "poll")
    /\ \E p \in Procs : Step(p, "none", "lock")
    /\ UNCHANGED <<lock, path, faults>>

\* "daemon did not start", after 30 pings; the user tries again.
GiveUp(c) ==
    /\ Goto(c, "poll", "ping")
    /\ UNCHANGED <<proc, lock, path, faults>>

Finish(c) ==
    /\ Goto(c, "ok", "idle")
    /\ UNCHANGED <<proc, lock, path, faults>>

CommandStep(c) == Ping(c) \/ NoAnswer(c) \/ StartDaemon(c) \/ GiveUp(c)

LifeNext ==
    \/ \E p \in Procs : ProcStep(p) \/ Signal(p) \/ Die(p)
    \/ \E c \in Commands : CommandStep(c) \/ Ensure(c) \/ Finish(c)

LifeSpec == LifeInit /\ [][LifeNext]_lifeVars

----------------------------------------------------------------------------
(* Properties *)

\* The store and the socket belong to one process at a time, the one that has the lock:
\* no second daemon opens the database, however many clients start one while another one
\* starts, drains or dies (New, Close, acquireLock).
OneDaemon ==
    \A p \in Procs : proc[p] \notin {"none", "lock"} => lock = p

\* A daemon that serves is the one that clients reach: neither the clean-up of an earlier
\* daemon nor the stale-socket check of a later one ever takes its socket file away
\* (removeStaleSocket, Close: the socket is removed before the lock is given back).
ServedIsReachable ==
    \A p \in Procs : proc[p] \in {"chmod", "serve"} => path = p

\* Daemons get on with their work, and so do clients, who try again after a failure.
LifeFairness ==
    /\ \A p \in Procs : WF_lifeVars(ProcStep(p))
    /\ \A c \in Commands : WF_lifeVars(CommandStep(c))

\* Every command gets its daemon in the end, over daemons that die, drain, fail to start
\* or leave their socket behind (EnsureDaemon, removeStaleSocket).
CommandIsServed == \A c \in Commands : command[c] = "ping" ~> command[c] = "ok"
=============================================================================
