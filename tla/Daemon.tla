------------------------------- MODULE Daemon -------------------------------
(***************************************************************************)
(* The daemon process (internal/daemon, internal/engine): the dispatcher,  *)
(* the RPC handlers and watchers that feed the store beside it, the        *)
(* retention sweeper, and the life of the process: boot, graceful          *)
(* shutdown, crash.                                                        *)
(*                                                                         *)
(* A caller is a connection handler or a watcher goroutine: each one works *)
(* on one call at a time, and a call is as many steps as it makes store    *)
(* calls.                                                                  *)
(***************************************************************************)
EXTENDS Dispatcher

CONSTANTS
    Callers,      \* connection handlers and watchers
    Injected,     \* the events clients inject and watchers observe
    Registrants,  \* the agents that session.register is called with
    MaxStimuli,   \* bound: injected events and manual continuations
    MaxStops,     \* bound: crashes and shutdowns
    MaxDay        \* bound: long pauses

VARIABLES
    call,     \* what each caller is doing
    stimuli,  \* injected events and manual continuations so far
    stops,    \* crashes and shutdowns so far
    astray    \* history: sessions once registered as running, or with an agent that has
              \* no adapter

vars == <<storeVars, dispatchVars, call, stimuli, stops, astray>>

ASSUME DaemonAssumption ==
    /\ Registrants \subseteq Agents
    /\ MaxStimuli \in Nat
    /\ MaxStops \in Nat
    /\ MaxDay \in Nat

\* What clients inject and watchers observe is no continuation's result: the dispatcher
\* alone writes those.
ASSUME InjectedAssumption == \A ev \in Injected : ev.of \notin Conts

CallState == [pc: {"idle", "stamp", "insert", "arm", "notify"}, session: Sessions,
              rule: RuleIds, stamp: Nat]

NoCall == [pc |-> "idle", session |-> CHOOSE s \in Sessions : TRUE,
           rule |-> Manual, stamp |-> 0]

\* Every table, goroutine and call is in a state the code gives it.  A continuation ends
\* completed or failed: in a third state no sweep would find it.  A session has the state
\* it was registered with, or the waiting or running of the dispatcher (rpc.go,
\* core/session.go, core/continuation.go).
TypeOK ==
    /\ StoreTypeOK
    /\ DispatchTypeOK
    /\ call \in [Callers -> CallState]
    /\ stimuli \in Nat
    /\ stops \in Nat
    /\ astray \in SUBSET Sessions

Init ==
    /\ StoreInit
    /\ DispatchInit
    /\ call = [k \in Callers |-> NoCall]
    /\ stimuli = 0
    /\ stops = 0
    /\ astray = {}

Up == loop # "down"

\* A new call can begin.  A shutdown closes the listener only: connections that are open
\* and watchers go on until the process has ended.
Serving(k) == Up /\ call[k] = NoCall

\* History: what a registration makes of astray.
Strays(s, a, st) ==
    IF a \notin Adapters \/ (~Registered(s) /\ st = "running") THEN astray \cup {s} ELSE astray

----------------------------------------------------------------------------
(* RPC handlers and watchers *)

\* event.inject, or a watcher's emit: Engine.Ingest up to the commit.
Inject(k, ev) ==
    /\ Serving(k)
    /\ stimuli < MaxStimuli
    /\ stimuli' = stimuli + 1
    /\ \/ \E born \in Births(ev) :
            /\ Ingest(ev, born)
            /\ call' = IF DOMAIN born = {} THEN call
                       ELSE [call EXCEPT ![k].pc = "notify"]
       \/ StoreFails /\ UNCHANGED call
    /\ UNCHANGED <<dispatchVars, stops, astray>>

\* continuation.run: the session exists ...
ContinuationRunCheck(k, s) ==
    /\ Serving(k)
    /\ stimuli < MaxStimuli
    /\ stimuli' = stimuli + 1
    /\ \/ /\ Registered(s)
          /\ call' = [call EXCEPT ![k] = [NoCall EXCEPT !.pc = "stamp", !.session = s]]
          /\ UNCHANGED storeVars
       \/ StoreFails /\ UNCHANGED call
    /\ UNCHANGED <<dispatchVars, stops, astray>>

\* ... the row's created_at is read ...
ContinuationRunStamp(k) ==
    /\ call[k].pc = "stamp"
    /\ call' = [call EXCEPT ![k].pc = "insert", ![k].stamp = tick]
    /\ tick' = tick + 1
    /\ UNCHANGED <<session, rule, expired, cont, results, day, errs, dispatchVars, stimuli,
                   stops, astray>>

\* ... the row is inserted ...
ContinuationRunInsert(k) ==
    /\ call[k].pc = "insert"
    /\ \/ \E c \in Unused :
            /\ InsertManualContinuation(c, call[k].session, call[k].stamp)
            /\ call' = [call EXCEPT ![k] = [NoCall EXCEPT !.pc = "notify"]]
       \/ /\ StoreFails
          /\ call' = [call EXCEPT ![k] = NoCall]
    /\ UNCHANGED <<dispatchVars, stimuli, stops, astray>>

\* ... and, as after an ingest that made continuations, the dispatcher is woken.
Notify(k) ==
    /\ call[k].pc = "notify"
    /\ Wake
    /\ call' = [call EXCEPT ![k] = NoCall]
    /\ UNCHANGED <<storeVars, loop, snapshot, workers, worker, cancelled, orphans, stimuli, stops, astray>>

\* No call is adding rule r already: its id is fresh.
Fresh(r) == rule[r] = "unadded" /\ \A k \in Callers : call[k].rule # r

\* rule.add: the session is registered by the call, or has to exist ...
RuleAddSession(k, r) ==
    LET s == RuleDef[r].session  a == RuleDef[r].agent IN
    /\ Serving(k)
    /\ Fresh(r)
    /\ \/ /\ \/ /\ a # NoAgent
                /\ RegisterSession(s, a, "waiting")
                /\ astray' = Strays(s, a, "waiting")
             \/ /\ a = NoAgent
                /\ Registered(s)
                /\ UNCHANGED <<storeVars, astray>>
          /\ call' = [call EXCEPT ![k] = [NoCall EXCEPT !.pc = "arm", !.rule = r]]
       \/ StoreFails /\ UNCHANGED <<call, astray>>
    /\ UNCHANGED <<dispatchVars, stimuli, stops>>

\* ... and the rule is inserted.  That the registered session cannot be read back has the
\* effect of a failing insert.
RuleAddArm(k) ==
    /\ call[k].pc = "arm"
    /\ AddRule(call[k].rule) \/ StoreFails
    /\ call' = [call EXCEPT ![k] = NoCall]
    /\ UNCHANGED <<dispatchVars, stimuli, stops, astray>>

RuleRemove(k, r) ==
    /\ Serving(k)
    /\ rule[r] \in {"armed", "consumed"}
    /\ RemoveRule(r) \/ StoreFails
    /\ UNCHANGED <<dispatchVars, call, stimuli, stops, astray>>

SessionRegister(k, s, a, st) ==
    /\ Serving(k)
    /\ \/ RegisterSession(s, a, st) /\ astray' = Strays(s, a, st)
       \/ StoreFails /\ UNCHANGED astray
    /\ UNCHANGED <<dispatchVars, call, stimuli, stops>>

----------------------------------------------------------------------------
(* Retention and time *)

\* The boot sweep, or an hourly one: a goroutine beside the dispatcher.
SweepOnce ==
    /\ Up
    /\ Sweep \/ StoreFails
    /\ UNCHANGED <<dispatchVars, call, stimuli, stops, astray>>

ExpiresAt(r) ==
    /\ Expire(r)
    /\ UNCHANGED <<dispatchVars, call, stimuli, stops, astray>>

\* Work that keeps a running daemon busy is done within minutes (safetyTick,
\* resumeTimeout): days pass when there is none, or no daemon.
Quiescent ==
    /\ loop = "select"
    /\ ~cancelled
    /\ ~wake
    /\ Idle = Workers
    /\ PendingSessions = {}
    /\ \A k \in Callers : call[k] = NoCall

LongPause ==
    /\ loop = "down" \/ Quiescent
    /\ day < MaxDay
    /\ day' = day + 1
    /\ UNCHANGED <<session, rule, expired, cont, results, tick, errs, dispatchVars,
                   call, stimuli, stops, astray>>

----------------------------------------------------------------------------
(* The process *)

\* New and Serve, up to the start of the dispatcher.
Boot ==
    /\ loop = "down"
    /\ loop' = "boot"
    /\ UNCHANGED <<storeVars, snapshot, wake, workers, worker, cancelled, orphans,
                   call, stimuli, stops, astray>>

\* SIGINT or SIGTERM: ctx is cancelled and the listener closed.
Shutdown ==
    /\ Up
    /\ ~cancelled
    /\ stops < MaxStops
    /\ stops' = stops + 1
    /\ cancelled' = TRUE
    /\ UNCHANGED <<storeVars, loop, snapshot, wake, workers, worker, orphans, call, stimuli, astray>>

\* The process ends, with all that is only in memory.  A child that runs is not killed.
Gone ==
    /\ loop' = "down"
    /\ snapshot' = {}
    /\ wake' = FALSE
    /\ workers' = {}
    /\ worker' = [w \in Workers |-> NoWorker]
    /\ cancelled' = FALSE
    /\ orphans' = orphans \cup {s \in Sessions : \E w \in Workers :
                                  worker[w].pc = "agent" /\ worker[w].session = s}
    /\ call' = [k \in Callers |-> NoCall]
    /\ UNCHANGED <<storeVars, stimuli, astray>>

\* Close, once Run has returned.
Exit ==
    /\ loop = "stopped"
    /\ Gone
    /\ UNCHANGED stops

\* The process dies, or Close gives up on the dispatcher after 10 seconds.
Crash ==
    /\ Up
    /\ stops < MaxStops
    /\ stops' = stops + 1
    /\ Gone

\* An agent that lost its daemon ends.
OrphanEnds(s) ==
    /\ s \in orphans
    /\ orphans' = orphans \ {s}
    /\ UNCHANGED <<storeVars, loop, snapshot, wake, workers, worker, cancelled,
                   call, stimuli, stops, astray>>

----------------------------------------------------------------------------

CallStep(k) ==
    ContinuationRunStamp(k) \/ ContinuationRunInsert(k) \/ Notify(k) \/ RuleAddArm(k)

Environment ==
    \/ \E k \in Callers :
         \/ \E ev \in Injected : Inject(k, ev)
         \/ \E s \in Sessions : ContinuationRunCheck(k, s)
         \/ \E r \in Rules : RuleAddSession(k, r) \/ RuleRemove(k, r)
         \/ \E s \in Sessions, a \in Registrants, st \in Given : SessionRegister(k, s, a, st)
    \/ SweepOnce
    \/ \E r \in Rules : ExpiresAt(r)
    \/ LongPause

Process == Boot \/ Shutdown \/ Exit \/ Crash \/ \E s \in Sessions : OrphanEnds(s)

Dispatch ==
    /\ LoopStep \/ \E w \in Workers : WorkerStep(w)
    /\ UNCHANGED <<call, stimuli, stops, astray>>

Next ==
    \/ Dispatch
    \/ \E k \in Callers : CallStep(k)
    \/ Environment
    \/ Process

Spec == Init /\ [][Next]_vars

----------------------------------------------------------------------------
(* Safety *)

\* A worker that has not deregistered yet.
Live(w) == worker[w].pc \notin {"idle", "bye"}

\* Two workers never serve one session: neither the map that is read after the
\* snapshot, nor a worker that exits while it is scanned for, nor a reboot lets a
\* second one in (dispatcher.go, scan and worker).
WorkerExclusion ==
    \A v, w \in Workers :
        Live(v) /\ Live(w) /\ worker[v].session = worker[w].session => v = w

\* A worker that has claimed its continuation and not recorded a result yet.
Holding(w) == worker[w].pc \in {"lookup", "mark", "resume", "agent", "unmark", "record"}

\* From the claim to the result the row is the worker's: no recovery, sweep, claim or
\* update of somebody else touches it, whatever fails (ClaimContinuation,
\* UpdateContinuationResult without a guard, ResetRunningContinuations, Sweep).
HeldRowIsRunning ==
    \A w \in Workers : Holding(w) => cont[worker[w].cont].state = "running"

\* Somebody will still look at session s: the loop is about to scan, or has it in its
\* snapshot, or has a token to take; or a goroutine has yet to send one; or a worker is
\* there, which looks at the queue again or wakes the loop when it exits.
Covered(s) ==
    \/ loop \in {"down", "boot", "scan"}
    \/ loop = "spawn" /\ s \in snapshot
    \/ wake
    \/ \E k \in Callers : call[k].pc = "notify"
    \/ \E w \in Workers : worker[w].pc \in {"notify", "bye"}
    \/ \E w \in Workers : Live(w) /\ worker[w].session = s
    \/ cancelled

\* No wake-up is lost: as long as no store call fails, pending work is always covered
\* without the help of the safety tick (Wake, the worker-exit wake, Engine.Notify).
NoLostWakeUp == errs = 0 => \A s \in PendingSessions : Covered(s)

\* A continuation's result event is stored at most once, however often the daemon stops
\* and the continuation is run again (execute: record first, then emit).
ResultAtMostOnce == errs = 0 => \A c \in Conts : results[c] <= 1

\* A oneShot rule fires once in its life, whatever is ingested while it is added, expires
\* or is removed (Store.Ingest: match and consume in one transaction).
OneShotFiresOnce ==
    \A c, d \in Conts :
        /\ cont[c].state # "unused" /\ cont[d].state # "unused"
        /\ cont[c].rule = cont[d].rule /\ cont[c].rule \in Rules
        /\ RuleDef[cont[c].rule].oneShot
        => c = d

\* A rule.add that registers the session itself has it registered for as long as the rule
\* is active: the upsert refreshes updated_at, so that no sweep takes the session before
\* the rule is there to hold it, and none does after (ruleAdd, RegisterSession, Sweep).
ArmedSessionExists ==
    \A r \in Rules : Active(r) /\ RuleDef[r].agent # NoAgent => Registered(RuleDef[r].session)

\* Only a session with unsettled work is marked running, over crashes too: nothing resets
\* session states at boot, the run that is recovered does.  It takes a registration as
\* running, or with an agent that has no adapter, to leave one marked (execute,
\* SetSessionState, session.register).
RunningSessionIsOwed ==
    errs = 0 =>
        \A s \in Sessions \ astray : session[s].state = "running" =>
            \E c \in Conts : cont[c].session = s /\ cont[c].state \in {"pending", "running"}

\* At-least-once: a continuation fails only when an adapter has run it and returned a
\* result (execute, Sweep).
FailedWasTried == \A c \in Conts : cont[c].state = "failed" => cont[c].exit

\* Once a continuation is settled and its worker has moved on, its result event is stored
\* (execute: UpdateContinuationResult, then emitResult).
TerminalHasResult ==
    \A c \in Conts :
        /\ cont[c].state \in Terminal
        /\ \A w \in Workers : worker[w].pc = "emit" => worker[w].cont # c
        => results[c] > 0

\* One agent process at a time resumes a session (runCLI, boot recovery).
OneAgentPerSession ==
    \A w \in Workers : worker[w].pc = "agent" => worker[w].session \notin orphans

----------------------------------------------------------------------------
(* The abstract queue *)

\* What the abstract queue sees of the continuations table.
Rows == [c \in Conts |-> [state |-> cont[c].state, session |-> cont[c].session,
                          created |-> cont[c].created, byRule |-> cont[c].rule # Manual]]

Queue == INSTANCE ContinuationQueue WITH row <- Rows

\* As long as no store call fails, the rows the daemon writes behave like the abstract
\* per-session queues: one at a time, in order, interrupted ones queued again and settled
\* ones never run again (dispatcher.go and continuations.go, over crashes and shutdowns).
ImplementsQueue == Queue!Spec

----------------------------------------------------------------------------
(* Liveness *)

KeepCalls == UNCHANGED <<call, stimuli, stops, astray>>

\* The goroutines beside the loop, and the process.
Work ==
    \/ (\E w \in Workers : WorkerStep(w)) /\ KeepCalls
    \/ \E k \in Callers : CallStep(k)
    \/ Boot \/ Exit

LoopWork == BootRecovery \/ ScanRead \/ ScanSpawn \/ SelectWake \/ Drained

\* Goroutines are scheduled; an agent ends because resumeTimeout kills it; a select does
\* not overlook a done ctx for ever; a stopped daemon is started again by the next client.
\* As long as no store call fails, the wake channel alone drives the loop: the safety tick
\* is relied on only after a failure.
Fairness ==
    /\ WF_vars(LoopWork /\ KeepCalls)
    /\ SF_vars(SelectDone /\ KeepCalls)
    /\ WF_vars(Work)
    /\ WF_vars(errs > 0 /\ SelectTick /\ KeepCalls)

FairSpec == Spec /\ Fairness

\* Every pending continuation is settled in the end, through crashes and shutdowns, by
\* wake-ups alone; when a store call fails, it is at least claimed: the safety tick makes
\* up for a scan that failed after it took the wake token (Run, scan, worker, execute,
\* safetyTick).
EveryWakeUpSettles ==
    \A c \in Conts : cont[c].state = "pending" ~>
        \/ cont[c].state \in Terminal \cup {"deleted"}
        \/ errs > 0 /\ cont[c].state # "pending"

\* Unless a store call fails or the session goes astray, it does not stay marked running:
\* the run ends, or is recovered and ends then (execute, ResetRunningContinuations).
SessionComesBack ==
    \A s \in Sessions :
        session[s].state = "running" ~>
            errs > 0 \/ s \in astray \/ session[s].state # "running"

\* A graceful shutdown ends, whatever fails: the loop notices, and the workers drain (Run,
\* Close).
ShutdownEnds == cancelled ~> loop = "down"
=============================================================================
