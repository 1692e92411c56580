----------------------------- MODULE Dispatcher -----------------------------
(***************************************************************************)
(* The continuation dispatcher (internal/dispatch): one Run goroutine that *)
(* scans for pending work, one worker goroutine for each session that has  *)
(* some, and a wake channel of capacity one between them.                  *)
(*                                                                         *)
(* A goroutine is where its pc says.  It holds no lock between two store   *)
(* calls, so each call is a step of its own and other goroutines run in    *)
(* between.                                                                *)
(***************************************************************************)
EXTENDS Store

CONSTANTS
    Workers,   \* identities for worker goroutines
    Adapters   \* the agents that have an adapter in the registry

VARIABLES
    loop,       \* the pc of Run; "down" when there is no daemon process
    snapshot,   \* what the scan in progress read from PendingSessions
    wake,       \* the wake channel holds a token
    workers,    \* the workers map: the sessions with a live worker
    worker,     \* the worker goroutines
    cancelled,  \* ctx.Err() # nil
    orphans     \* sessions whose agent process outlives the daemon that started it

dispatchVars == <<loop, snapshot, wake, workers, worker, cancelled, orphans>>

ASSUME AdaptersAssumption == Adapters \subseteq Agents

WorkerPC == {"idle", "next", "claim", "lookup", "mark", "resume", "agent", "unmark",
             "record", "emit", "notify", "exit", "bye"}

LoopPC == {"down", "boot", "scan", "spawn", "select", "drain", "stopped"}

\* cont, ok and exit are execute's c, state = completed and exitCode # nil.
WorkerState == [pc: WorkerPC, session: Sessions, cont: Conts, ok: BOOLEAN, exit: BOOLEAN]

ASSUME ContsAssumption == Conts # {}

NoWorker == [pc |-> "idle", session |-> CHOOSE s \in Sessions : TRUE,
             cont |-> CHOOSE c \in Conts : TRUE, ok |-> FALSE, exit |-> FALSE]

DispatchTypeOK ==
    /\ loop \in LoopPC
    /\ snapshot \in SUBSET Sessions
    /\ wake \in BOOLEAN
    /\ workers \in SUBSET Sessions
    /\ worker \in [Workers -> WorkerState]
    /\ cancelled \in BOOLEAN
    /\ orphans \in SUBSET Sessions

\* No daemon process: New has not been called.
DispatchInit ==
    /\ loop = "down"
    /\ snapshot = {}
    /\ wake = FALSE
    /\ workers = {}
    /\ worker = [w \in Workers |-> NoWorker]
    /\ cancelled = FALSE
    /\ orphans = {}

Idle == {w \in Workers : worker[w].pc = "idle"}

\* A goroutine of session s that is at pc and holds no continuation.
At(s, pc) == [NoWorker EXCEPT !.pc = pc, !.session = s]

\* A non-blocking send: a token that is already there is enough.
Wake == wake' = TRUE

----------------------------------------------------------------------------
(* Run *)

\* Boot recovery; an error is logged and the loop entered all the same.
BootRecovery ==
    /\ loop = "boot"
    /\ loop' = "scan"
    /\ \/ ResetRunningContinuations
       \/ StoreFails
    /\ UNCHANGED <<snapshot, wake, workers, worker, cancelled, orphans>>

\* scan, up to the lock: the sessions with pending work are read without it.
ScanRead ==
    /\ loop = "scan"
    /\ \/ /\ snapshot' = PendingSessions
          /\ loop' = "spawn"
          /\ UNCHANGED storeVars
       \/ /\ StoreFails
          /\ loop' = "select"
          /\ UNCHANGED snapshot
    /\ UNCHANGED <<wake, workers, worker, cancelled, orphans>>

\* Mutant: the workers map is not consulted.
SpawnForAll == snapshot

\* The sessions of the snapshot that have no live worker.
ToSpawn == snapshot \ workers

\* scan, under the lock: register and start a worker for each of them.
ScanSpawn ==
    /\ loop = "spawn"
    /\ loop' = "select"
    /\ snapshot' = {}
    /\ \E W \in SUBSET Idle : \E f \in Bijection(W, ToSpawn) :
         /\ worker' = [w \in Workers |-> IF w \in W
                         THEN At(f[w], "next")
                         ELSE worker[w]]
         /\ workers' = workers \cup ToSpawn
    /\ UNCHANGED <<storeVars, wake, cancelled, orphans>>

\* select: the wake token is taken.
SelectWake ==
    /\ loop = "select"
    /\ wake
    /\ wake' = FALSE
    /\ loop' = "scan"
    /\ UNCHANGED <<storeVars, snapshot, workers, worker, cancelled, orphans>>

\* Mutant: no safety ticker.
NoTick ==
    /\ FALSE
    /\ UNCHANGED <<storeVars, dispatchVars>>

\* select: the safety ticker fires.
SelectTick ==
    /\ loop = "select"
    /\ loop' = "scan"
    /\ UNCHANGED <<storeVars, snapshot, wake, workers, worker, cancelled, orphans>>

\* select: ctx is done; wait for the workers.
SelectDone ==
    /\ loop = "select"
    /\ cancelled
    /\ loop' = "drain"
    /\ UNCHANGED <<storeVars, snapshot, wake, workers, worker, cancelled, orphans>>

\* wg.Wait returns, and Run with it.
Drained ==
    /\ loop = "drain"
    /\ Idle = Workers
    /\ loop' = "stopped"
    /\ UNCHANGED <<storeVars, snapshot, wake, workers, worker, cancelled, orphans>>

----------------------------------------------------------------------------
(* worker and execute *)

Goto(w, pc) == worker' = [worker EXCEPT ![w].pc = pc]

\* Go to pc with execute's variables out of scope.
Leave(w, pc) == worker' = [worker EXCEPT ![w] = At(worker[w].session, pc)]

\* The loop condition, then the oldest pending continuation, if there is one.
WorkerNext(w) ==
    /\ worker[w].pc = "next"
    /\ \/ /\ cancelled
          /\ Leave(w, "exit")
          /\ UNCHANGED storeVars
       \/ /\ ~cancelled
          /\ StoreFails
          /\ Leave(w, "exit")
       \/ /\ ~cancelled
          /\ NextPendingForSession(worker[w].session) = {}
          /\ Leave(w, "exit")
          /\ UNCHANGED storeVars
       \/ /\ ~cancelled
          /\ \E c \in NextPendingForSession(worker[w].session) :
               worker' = [worker EXCEPT ![w].pc = "claim", ![w].cont = c]
          /\ UNCHANGED storeVars
    /\ UNCHANGED <<loop, snapshot, wake, workers, cancelled, orphans>>

\* Claim it; when that fails, look at the queue again.
WorkerClaim(w) ==
    /\ worker[w].pc = "claim"
    /\ \/ /\ cont[worker[w].cont].state = "pending"
          /\ ClaimContinuation(worker[w].cont)
          /\ Goto(w, "lookup")
       \/ /\ cont[worker[w].cont].state # "pending"
          /\ Leave(w, "next")
          /\ UNCHANGED storeVars
       \/ /\ StoreFails
          /\ Leave(w, "next")
    /\ UNCHANGED <<loop, snapshot, wake, workers, cancelled, orphans>>

Runnable(s) == Registered(s) /\ session[s].agent \in Adapters

\* execute: the session and its adapter, or else a failure without a run.
WorkerLookup(w) ==
    /\ worker[w].pc = "lookup"
    /\ \/ /\ Runnable(worker[w].session)
          /\ Goto(w, "mark")
          /\ UNCHANGED storeVars
       \/ /\ \/ ~Runnable(worker[w].session) /\ UNCHANGED storeVars
             \/ StoreFails
          /\ worker' = [worker EXCEPT ![w].pc = "record", ![w].ok = FALSE, ![w].exit = FALSE]
    /\ UNCHANGED <<loop, snapshot, wake, workers, cancelled, orphans>>

\* SetSessionState(running); an error is only logged.
WorkerMark(w) ==
    /\ worker[w].pc = "mark"
    /\ \/ SetSessionState(worker[w].session, "running")
       \/ StoreFails
    /\ Goto(w, "resume")
    /\ UNCHANGED <<loop, snapshot, wake, workers, cancelled, orphans>>

\* Resume starts the agent CLI, unless ctx is done or the spawn fails.
WorkerResume(w) ==
    /\ worker[w].pc = "resume"
    /\ \/ /\ ~cancelled
          /\ Goto(w, "agent")
       \/ worker' = [worker EXCEPT ![w].pc = "unmark", ![w].ok = FALSE, ![w].exit = TRUE]
    /\ UNCHANGED <<storeVars, loop, snapshot, wake, workers, cancelled, orphans>>

\* The agent exits, or is killed by the resume timeout or by the shutdown.
AgentEnds(w) ==
    /\ worker[w].pc = "agent"
    /\ \E ok \in BOOLEAN :
         worker' = [worker EXCEPT ![w].pc = "unmark", ![w].ok = ok, ![w].exit = TRUE]
    /\ UNCHANGED <<storeVars, loop, snapshot, wake, workers, cancelled, orphans>>

\* Mutant: the session is not set back to waiting.
UnmarkForgotten(w) ==
    /\ worker[w].pc = "unmark"
    /\ Goto(w, "record")
    /\ UNCHANGED <<storeVars, loop, snapshot, wake, workers, cancelled, orphans>>

\* SetSessionState(waiting); an error is only logged.
WorkerUnmark(w) ==
    /\ worker[w].pc = "unmark"
    /\ \/ SetSessionState(worker[w].session, "waiting")
       \/ StoreFails
    /\ Goto(w, "record")
    /\ UNCHANGED <<loop, snapshot, wake, workers, cancelled, orphans>>

\* Mutant: a third verdict, which Sweep does not know.
VerdictTimeout(w) == IF worker[w].ok THEN "completed" ELSE "timeout"

Verdict(w) == IF worker[w].ok THEN "completed" ELSE "failed"

\* Shutdown is not a verdict: the row stays running.  An update that fails is only logged.
WorkerRecord(w) ==
    /\ worker[w].pc = "record"
    /\ \/ /\ cancelled
          /\ Leave(w, "next")
          /\ UNCHANGED storeVars
       \/ /\ ~cancelled
          /\ \/ UpdateContinuationResult(worker[w].cont, Verdict(w), worker[w].exit)
             \/ StoreFails
          /\ Goto(w, "emit")
    /\ UNCHANGED <<loop, snapshot, wake, workers, cancelled, orphans>>

\* The source of a continuation's result events: its label, or else its rule id.
ResultSource(c) ==
    CASE cont[c].rule = Manual -> ManualLabel
      [] cont[c].rule # Manual /\ RuleDef[cont[c].rule].label # NoLabel
           -> RuleDef[cont[c].rule].label
      [] OTHER -> cont[c].rule

\* exitCode is in the payload only when an adapter returned a result.
ResultEvent(w) ==
    [type |-> IF worker[w].ok THEN "continuation.completed" ELSE "continuation.failed",
     source |-> ResultSource(worker[w].cont),
     keys |-> {"continuationId"} \cup IF worker[w].exit THEN {"exitCode"} ELSE {},
     of |-> worker[w].cont]

\* emitResult, up to the commit; an error is only logged.
WorkerEmit(w) ==
    /\ worker[w].pc = "emit"
    /\ \/ \E born \in Births(ResultEvent(w)) :
            /\ Ingest(ResultEvent(w), born)
            /\ Leave(w, IF DOMAIN born = {} THEN "next" ELSE "notify")
       \/ /\ StoreFails
          /\ Leave(w, "next")
    /\ UNCHANGED <<loop, snapshot, wake, workers, cancelled, orphans>>

\* Engine.Ingest notifies the dispatcher after the commit.
WorkerNotify(w) ==
    /\ worker[w].pc = "notify"
    /\ Wake
    /\ Leave(w, "next")
    /\ UNCHANGED <<storeVars, loop, snapshot, workers, cancelled, orphans>>

\* The deferred exit: deregister under the lock ...
WorkerExit(w) ==
    /\ worker[w].pc = "exit"
    /\ workers' = workers \ {worker[w].session}
    /\ Leave(w, "bye")
    /\ UNCHANGED <<storeVars, loop, snapshot, wake, cancelled, orphans>>

\* Mutant: the exiting worker does not wake the loop.
ByeWithoutWake(w) ==
    /\ worker[w].pc = "bye"
    /\ worker' = [worker EXCEPT ![w] = NoWorker]
    /\ UNCHANGED <<storeVars, loop, snapshot, wake, workers, cancelled, orphans>>

\* Mutant: wg.Done is missing.
ByeWithoutDone(w) ==
    /\ worker[w].pc = "bye"
    /\ Wake
    /\ UNCHANGED <<storeVars, loop, snapshot, workers, worker, cancelled, orphans>>

\* ... then wake the loop, and be gone.
WorkerBye(w) ==
    /\ worker[w].pc = "bye"
    /\ Wake
    /\ worker' = [worker EXCEPT ![w] = NoWorker]
    /\ UNCHANGED <<storeVars, loop, snapshot, workers, cancelled, orphans>>

WorkerStep(w) ==
    \/ WorkerNext(w) \/ WorkerClaim(w) \/ WorkerLookup(w) \/ WorkerMark(w)
    \/ WorkerResume(w) \/ AgentEnds(w) \/ WorkerUnmark(w) \/ WorkerRecord(w)
    \/ WorkerEmit(w) \/ WorkerNotify(w) \/ WorkerExit(w) \/ WorkerBye(w)

LoopStep ==
    \/ BootRecovery \/ ScanRead \/ ScanSpawn
    \/ SelectWake \/ SelectTick \/ SelectDone \/ Drained
=============================================================================
