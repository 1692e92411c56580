---------------------------- MODULE OutcomeProofs ----------------------------
(***************************************************************************)
(* What becomes of continuations, rules and sessions: a result is emitted  *)
(* once, a oneShot rule fires once, a session that a rule registered is    *)
(* there while the rule is, and a session is marked running for unsettled  *)
(* work only.                                                              *)
(***************************************************************************)
EXTENDS WakeUpProofs

----------------------------------------------------------------------------
(* The life of a row *)

Used(c) == cont[c].state # "unused"

Spent(c) == cont[c].state \in Terminal \cup {"deleted"}

\* The step commits an outbox transaction.
Ingested == \E ev : \E born \in Births(ev) : Ingest(ev, born)

\* The step inserts c for a manual call.
Inserted(c) ==
    \E k \in Callers :
        /\ call[k].pc = "insert"
        /\ cont'[c] = [state |-> "pending", session |-> call[k].session, rule |-> Manual,
                       created |-> call[k].stamp, updated |-> 0, exit |-> FALSE]

\* What one step can do to one row.
RowStep(c) ==
    \/ cont'[c] = cont[c]
    \/ /\ cont[c].state = "unused"
       /\ cont'[c].state \in {"pending", "failed"}
       /\ Ingested \/ Inserted(c)
    \/ /\ cont[c].state = "pending"
       /\ cont'[c] = [cont[c] EXCEPT !.state = "running"]
       /\ \E w \in Workers : WorkerClaim(w) /\ Goto(w, "lookup") /\ worker[w].cont = c
    \/ /\ cont[c].state = "running"
       /\ cont'[c] = [cont[c] EXCEPT !.state = "pending"]
       /\ loop = "boot"
    \/ /\ cont[c].state = "running"
       /\ cont'[c].state \in Terminal
       /\ cont'[c].rule = cont[c].rule
       /\ \E w \in Workers : worker[w].pc = "record" /\ worker[w].cont = c
    \/ /\ cont[c].state \in Terminal
       /\ cont'[c].state = "deleted"
       /\ cont'[c].rule = cont[c].rule

LEMMA InsertedRow ==
    ASSUME NEW c, Inserted(c)
    PROVE  \E k \in Callers : /\ call[k].pc = "insert"
                              /\ cont'[c].state = "pending"
                              /\ cont'[c].rule = Manual
                              /\ cont'[c].session = call[k].session
                              /\ cont'[c].created = call[k].stamp
BY DEF Inserted

LEMMA IngestRows ==
    ASSUME StoreTypeOK, NEW ev, NEW born \in Births(ev), Ingest(ev, born), NEW c \in Conts
    PROVE  \/ c \notin DOMAIN born /\ cont'[c] = cont[c]
           \/ /\ c \in DOMAIN born
              /\ cont[c].state = "unused"
              /\ born[c] \in Rules
              /\ cont'[c] = Born(born[c], ev)
              /\ cont'[c].state \in {"pending", "failed"}
BY BirthsType DEF Ingest, Unused, Born

\* Row by row, the daemon's steps move continuations along their life cycle only.
LEMMA RowMoves ==
    ASSUME RowInv, [Next]_vars, NEW c \in Conts
    PROVE  RowStep(c)
<1> USE DEF RowInv, WorkerInv
<1>a. StoreTypeOK /\ cont \in [Conts -> ContRow] /\ cont[c] \in ContRow
  BY DEF TypeOK, StoreTypeOK
<1>1. CASE UNCHANGED cont
  BY <1>1 DEF RowStep
<1>2. CASE Ingested
  BY <1>2, <1>a, IngestRows DEF RowStep, Ingested
<1>3. CASE LoopStep
  BY <1>1, <1>3, <1>a DEF LoopStep, BootRecovery, ScanRead, ScanSpawn, SelectWake, SelectTick,
     SelectDone, Drained, StoreFails, ResetRunningContinuations, storeVars, RowStep
<1>4. ASSUME NEW w \in Workers, WorkerStep(w) PROVE RowStep(c)
  <2>1. CASE WorkerClaim(w)
    <3>1. CASE /\ cont[worker[w].cont].state = "pending"
               /\ ClaimContinuation(worker[w].cont)
               /\ Goto(w, "lookup")
      BY <1>a, <2>1, <3>1 DEF ClaimContinuation, RowStep
    <3> QED BY <1>1, <2>1, <3>1 DEF WorkerClaim, StoreFails, storeVars
  <2>2. CASE WorkerRecord(w)
    <3>1. CASE UpdateContinuationResult(worker[w].cont, Verdict(w), worker[w].exit)
      <4>1. cont[worker[w].cont].state = "running"
        BY <2>2 DEF RowOf, Holding, WorkerRecord
      <4>2. c = worker[w].cont => /\ cont'[c].state = Verdict(w)
                                  /\ cont'[c].rule = cont[c].rule
        BY <3>1, <1>a DEF UpdateContinuationResult, ContRow
      <4>3. c # worker[w].cont => cont'[c] = cont[c]
        BY <3>1, <1>a DEF UpdateContinuationResult
      <4> QED BY <2>2, <4>1, <4>2, <4>3 DEF RowStep, Verdict, Terminal, WorkerRecord
    <3> QED BY <1>1, <2>2, <3>1 DEF WorkerRecord, StoreFails, storeVars
  <2>3. CASE WorkerEmit(w)
    BY <1>1, <1>2, <2>3 DEF WorkerEmit, StoreFails, Ingested
  <2> QED BY <1>1, <1>4, <2>1, <2>2, <2>3
          DEF WorkerStep, WorkerNext, WorkerLookup, WorkerMark, WorkerResume, AgentEnds,
              WorkerUnmark, WorkerNotify, WorkerExit, WorkerBye, StoreFails, SetSessionState,
              storeVars
<1>5. ASSUME NEW k \in Callers, CallStep(k) PROVE RowStep(c)
  <2>1. ASSUME NEW d \in Unused, InsertManualContinuation(d, call[k].session, call[k].stamp),
               call[k].pc = "insert"
        PROVE  RowStep(c)
    BY <1>a, <2>1 DEF InsertManualContinuation, Unused, RowStep, Inserted
  <2> QED BY <1>1, <1>5, <2>1
          DEF CallStep, ContinuationRunStamp, ContinuationRunInsert, Notify, RuleAddArm,
              AddRule, StoreFails, storeVars
<1>6. CASE Environment
  <2>1. CASE Sweep
    <3>1. CASE Expendable(c)
      <4>1. cont'[c] = [NoCont EXCEPT !.state = "deleted", !.rule = cont[c].rule]
        BY <2>1, <3>1 DEF Sweep
      <4> QED BY <3>1, <4>1 DEF Expendable, RowStep, NoCont
    <3> QED BY <2>1, <3>1 DEF Sweep, RowStep
  <2> QED BY <1>1, <1>2, <1>6, <2>1
          DEF Environment, Inject, ContinuationRunCheck, RuleAddSession, RuleRemove,
              SessionRegister, SweepOnce, ExpiresAt, LongPause, RegisterSession, RemoveRule,
              Expire, StoreFails, storeVars, Ingested
<1>7. CASE Process
  BY <1>1, <1>7 DEF Process, Boot, Shutdown, Exit, Crash, OrphanEnds, Gone, storeVars
<1>8. CASE UNCHANGED vars
  BY <1>1, <1>8 DEF vars, storeVars
<1> QED BY <1>3, <1>4, <1>5, <1>6, <1>7, <1>8 DEF Next, Dispatch

----------------------------------------------------------------------------
(* A result is emitted once *)

\* The result events of a continuation: none before it is settled, none yet while a worker
\* is about to emit it, and no second worker is.
EmitOnce ==
    /\ \A c \in Conts : results[c] <= 1 /\ (results[c] > 0 => Spent(c))
    /\ \A w \in Workers : worker[w].pc = "emit" =>
         Spent(worker[w].cont) /\ results[worker[w].cont] = 0
    /\ \A v, w \in Workers :
         /\ worker[v].pc = "emit" /\ worker[w].pc = "emit"
         /\ worker[v].cont = worker[w].cont
         => v = w

ResultInv == RowInv /\ (errs = 0 => EmitOnce)

LEMMA SpentStays ==
    ASSUME RowInv, [Next]_vars, NEW c \in Conts, Spent(c)
    PROVE  Spent(c)'
BY RowMoves DEF RowStep, Spent, Terminal

\* Nothing but a worker's emit adds to the result events.
LEMMA OthersEmitNothing ==
    ASSUME TypeOK, [Next]_vars, \A w \in Workers : ~WorkerEmit(w)
    PROVE  results' = results
<1>1. CASE LoopStep
  BY <1>1 DEF LoopStep, BootRecovery, ScanRead, ScanSpawn, SelectWake, SelectTick,
     SelectDone, Drained, StoreFails, ResetRunningContinuations, storeVars
<1>2. ASSUME NEW w \in Workers, WorkerStep(w) PROVE results' = results
  BY <1>2 DEF WorkerStep, WorkerNext, WorkerClaim, WorkerLookup, WorkerMark, WorkerResume,
     AgentEnds, WorkerUnmark, WorkerRecord, WorkerNotify, WorkerExit, WorkerBye, StoreFails,
     ClaimContinuation, UpdateContinuationResult, SetSessionState, storeVars
<1>3. ASSUME NEW k \in Callers, CallStep(k) PROVE results' = results
  BY <1>3 DEF CallStep, ContinuationRunStamp, ContinuationRunInsert, Notify, RuleAddArm,
     AddRule, StoreFails, InsertManualContinuation, storeVars
<1>4. CASE Environment
  <2>1. ASSUME NEW k \in Callers, NEW ev \in Injected, Inject(k, ev) PROVE results' = results
    <3>1. CASE \E born \in Births(ev) : Ingest(ev, born)
      <4>1. \A c \in Conts : c # ev.of
        BY InjectedAssumption
      <4>2. results' = [c \in Conts |-> results[c]]
        BY <3>1, <4>1 DEF Ingest, InsertEvent
      <4> QED BY <4>2 DEF TypeOK, StoreTypeOK
    <3> QED BY <2>1, <3>1 DEF Inject, StoreFails
  <2> QED BY <1>4, <2>1
          DEF Environment, ContinuationRunCheck, RuleAddSession, RuleRemove, SweepOnce, Sweep,
              SessionRegister, ExpiresAt, LongPause, RegisterSession, RemoveRule, Expire,
              StoreFails, storeVars
<1>5. CASE Process
  BY <1>5 DEF Process, Boot, Shutdown, Exit, Crash, OrphanEnds, Gone, storeVars
<1>6. CASE UNCHANGED vars
  BY <1>6 DEF vars, storeVars
<1> QED BY <1>1, <1>2, <1>3, <1>4, <1>5, <1>6 DEF Next, Dispatch

\* The workers that are about to emit, and for what: only a record adds one.
LEMMA EmitterIsOld ==
    ASSUME RowInv, [Next]_vars, NEW w \in Workers, ~WorkerRecord(w), worker'[w].pc = "emit"
    PROVE  worker'[w] = worker[w]
<1> USE DEF RowInv, WorkerInv
<1>a. worker \in [Workers -> WorkerState] /\ worker[w].session \in Sessions
  BY DEF TypeOK, DispatchTypeOK, WorkerState
<1>1. CASE worker' = worker
  BY <1>1
<1>2. CASE ScanSpawn
  BY <1>2, SpawnMove
<1>3. CASE LoopStep /\ ~ScanSpawn
  BY <1>1, <1>3, LoopKeepsWorkers
<1>4. ASSUME NEW v \in Workers, WorkerStep(v) PROVE worker'[w] = worker[w]
  <2>1. CASE v # w
    BY <1>4, <2>1, WorkerMove
  <2>2. CASE v = w
    <3>1. ASSUME NEW pc \in {"next", "notify", "exit", "bye"},
                 worker' = [worker EXCEPT ![w] = At(worker[w].session, pc)]
          PROVE  FALSE
      BY <3>1, <1>a, AtType DEF WorkerPC
    <3>2. CASE WorkerNext(w) \/ WorkerClaim(w) \/ WorkerEmit(w)
      BY <3>1, <3>2, <1>a DEF WorkerNext, WorkerClaim, WorkerEmit, Leave, Goto, WorkerState
    <3>3. CASE WorkerNotify(w) \/ WorkerExit(w) \/ WorkerBye(w)
      BY <3>1, <3>3, <1>a, NoWorkerType DEF WorkerNotify, WorkerExit, WorkerBye, Leave
    <3>4. CASE WorkerLookup(w) \/ WorkerMark(w) \/ WorkerResume(w) \/ WorkerUnmark(w)
      BY <3>4, <1>a DEF WorkerLookup, WorkerMark, WorkerResume, WorkerUnmark, Goto, WorkerState
    <3>5. CASE AgentEnds(w)
      BY <3>5, <1>a DEF AgentEnds, WorkerState
    <3> QED BY <1>4, <2>2, <3>2, <3>3, <3>4, <3>5 DEF WorkerStep
  <2> QED BY <2>1, <2>2
<1>5. CASE Gone
  BY <1>5, NoWorkerType DEF Gone
<1>6. CASE UNCHANGED vars
  BY <1>1, <1>6 DEF vars, dispatchVars
<1> QED BY <1>1, <1>2, <1>3, <1>4, <1>5, <1>6, OthersKeepWorkers
        DEF Next, Dispatch, Process, Exit, Crash

LEMMA ResultInvNext == ResultInv /\ [Next]_vars => ResultInv'
<1> SUFFICES ASSUME ResultInv, [Next]_vars, errs' = 0 PROVE EmitOnce'
  BY RowInvNext DEF ResultInv
<1> USE DEF ResultInv
<1>a. RowInv /\ TypeOK /\ TypeOK'
  BY RowInvNext DEF RowInv, WorkerInv
<1>b. errs = 0 /\ ~StoreFails /\ EmitOnce
  BY <1>a, ErrsGrow
<1>c. /\ results \in [Conts -> Nat]
      /\ \A w \in Workers : worker[w] \in WorkerState /\ worker[w].cont \in Conts
  BY <1>a DEF TypeOK, StoreTypeOK, DispatchTypeOK, WorkerState
<1>1. ASSUME NEW w \in Workers, WorkerEmit(w) PROVE EmitOnce'
  <2>1. results' = [c \in Conts |-> IF c = worker[w].cont THEN results[c] + 1 ELSE results[c]]
    BY <1>1, <1>b DEF WorkerEmit, Ingest, InsertEvent, ResultEvent
  <2>2. worker[w].pc = "emit" /\ worker'[w].pc # "emit"
    BY <1>1, <1>a, <1>c, AtType DEF WorkerEmit, Leave, WorkerPC, WorkerState, TypeOK, DispatchTypeOK
  <2>3. \A v \in Workers : worker'[v].pc = "emit" => v # w /\ worker'[v] = worker[v]
    BY <1>1, <1>a, <2>2, WorkerMove DEF WorkerStep
  <2>4. \A c \in Conts : Spent(c) => Spent(c)'
    BY <1>a, SpentStays
  <2>5. \A c \in Conts : results'[c] <= 1 /\ (results'[c] > 0 => Spent(c)')
    BY <1>b, <1>c, <2>1, <2>2, <2>4 DEF EmitOnce
  <2>6. \A v \in Workers : worker'[v].pc = "emit" =>
          (Spent(worker[v].cont) /\ results[worker[v].cont] = 0)'
    BY <1>b, <1>c, <2>1, <2>2, <2>3, <2>4 DEF EmitOnce, Spent
  <2> QED BY <1>b, <2>3, <2>5, <2>6 DEF EmitOnce, Spent
<1>2. ASSUME NEW w \in Workers, WorkerRecord(w) PROVE EmitOnce'
  <2> DEFINE c == worker[w].cont
  <2>1. results' = results
    BY <1>2, <1>b DEF WorkerRecord, UpdateContinuationResult, storeVars
  <2>2. cont[c].state = "running"
    BY <1>2, <1>a DEF RowInv, RowOf, Holding, WorkerRecord
  <2>3. ~Spent(c) /\ results[c] = 0
    BY <2>2, <1>b, <1>c DEF EmitOnce, Spent, Terminal
  <2>4. \A v \in Workers : worker[v].pc = "emit" => worker[v].cont # c
    BY <2>3, <1>b DEF EmitOnce
  <2>5. \A v \in Workers \ {w} : worker'[v] = worker[v]
    BY <1>2, <1>a, WorkerMove DEF WorkerStep
  <2>6. worker'[w].pc = "emit" => worker'[w].cont = c /\ Spent(c)'
    <3>1. CASE Leave(w, "next")
      BY <3>1, <1>a, <1>c, AtType DEF Leave, WorkerPC, TypeOK, DispatchTypeOK, WorkerState
    <3>2. CASE UpdateContinuationResult(c, Verdict(w), worker[w].exit) /\ Goto(w, "emit")
      <4>1. worker'[w].cont = c
        BY <3>2, <1>a DEF Goto, TypeOK, DispatchTypeOK, WorkerState
      <4>2. cont'[c].state = Verdict(w)
        BY <3>2, <1>a, <1>c DEF UpdateContinuationResult, TypeOK, StoreTypeOK, ContRow
      <4> QED BY <4>1, <4>2 DEF Spent, Verdict, Terminal
    <3> QED BY <1>2, <1>b, <3>1, <3>2 DEF WorkerRecord
  <2>7. \A d \in Conts : Spent(d) => Spent(d)'
    BY <1>a, SpentStays
  <2>8. \A d \in Conts : results'[d] <= 1 /\ (results'[d] > 0 => Spent(d)')
    BY <1>b, <2>1, <2>7 DEF EmitOnce
  <2>9. \A v \in Workers : worker'[v].pc = "emit" =>
          (Spent(worker[v].cont) /\ results[worker[v].cont] = 0)'
    BY <1>b, <1>c, <2>1, <2>3, <2>5, <2>6, <2>7 DEF EmitOnce, Spent
  <2>10. ASSUME NEW u \in Workers, NEW v \in Workers,
                worker'[u].pc = "emit", worker'[v].pc = "emit",
                worker'[u].cont = worker'[v].cont
         PROVE  u = v
    BY <2>10, <1>b, <2>4, <2>5, <2>6 DEF EmitOnce
  <2> QED BY <2>8, <2>9, <2>10 DEF EmitOnce, Spent
<1>3. CASE \A w \in Workers : ~WorkerEmit(w) /\ ~WorkerRecord(w)
  <2>1. results' = results
    BY <1>a, <1>3, OthersEmitNothing
  <2>2. \A v \in Workers : worker'[v].pc = "emit" => worker'[v] = worker[v]
    BY <1>a, <1>3, EmitterIsOld
  <2>3. \A d \in Conts : Spent(d) => Spent(d)'
    BY <1>a, SpentStays
  <2> QED BY <1>b, <1>c, <2>1, <2>2, <2>3 DEF EmitOnce
<1> QED BY <1>1, <1>2, <1>3

\* However often the daemon is stopped, crashes and runs a continuation again: while no
\* store call has failed, the events table has at most one result of each (execute,
\* emitResult, ResetRunningContinuations).
THEOREM ResultOnce == Spec => []ResultAtMostOnce
<1>1. Init => ResultInv
  <2> SUFFICES ASSUME Init PROVE ResultInv
    OBVIOUS
  <2>1. \A w \in Workers : worker[w].pc = "idle"
    BY NoWorkerType DEF Init, DispatchInit
  <2>2. \A c \in Conts : results[c] = 0
    BY DEF Init, StoreInit
  <2> QED BY <2>1, <2>2, RowInvInit DEF ResultInv, EmitOnce
<1>2. ResultInv => ResultAtMostOnce
  BY DEF ResultInv, EmitOnce, ResultAtMostOnce
<1> QED BY <1>1, <1>2, ResultInvNext, PTL DEF Spec

----------------------------------------------------------------------------
(* A oneShot rule fires once *)

\* A rule id is added by one call, once.
AddedOnce ==
    /\ \A k \in Callers : call[k].pc = "arm" =>
         call[k].rule \in Rules /\ rule[call[k].rule] = "unadded"
    /\ \A j, k \in Callers :
         /\ call[j].pc = "arm" /\ call[k].pc = "arm"
         /\ call[j].rule = call[k].rule
         => j = k

\* A oneShot rule that made a continuation is not armed any more, and never will be.
FiredIsOver ==
    \A c \in Conts :
        Used(c) /\ cont[c].rule \in Rules /\ RuleDef[cont[c].rule].oneShot =>
            rule[cont[c].rule] \in {"consumed", "removed"}

RuleInv == RowInv /\ AddedOnce /\ FiredIsOver /\ OneShotFiresOnce

\* What one step can do to the rules table.
RuleStep ==
    \/ rule' = rule
    \/ \E k \in Callers : /\ call[k].pc = "arm"
                           /\ AddRule(call[k].rule)
                           /\ call' = [call EXCEPT ![k] = NoCall]
    \/ \E k \in Callers, r \in Rules : RuleRemove(k, r) /\ RemoveRule(r)
    \/ Ingested

LEMMA RuleMoves ==
    ASSUME TypeOK, [Next]_vars
    PROVE  RuleStep
<1> USE DEF RuleStep, Ingested
<1>1. CASE LoopStep
  BY <1>1 DEF LoopStep, BootRecovery, ScanRead, ScanSpawn, SelectWake, SelectTick,
     SelectDone, Drained, StoreFails, ResetRunningContinuations, storeVars
<1>2. ASSUME NEW w \in Workers, WorkerStep(w) PROVE RuleStep
  BY <1>2 DEF WorkerStep, WorkerNext, WorkerClaim, WorkerLookup, WorkerMark, WorkerResume,
     AgentEnds, WorkerUnmark, WorkerRecord, WorkerEmit, WorkerNotify, WorkerExit, WorkerBye,
     StoreFails, ClaimContinuation, UpdateContinuationResult, SetSessionState, storeVars
<1>3. ASSUME NEW k \in Callers, CallStep(k) PROVE RuleStep
  BY <1>3 DEF CallStep, ContinuationRunStamp, ContinuationRunInsert, Notify, RuleAddArm,
     StoreFails, InsertManualContinuation, storeVars
<1>4. CASE Environment
  BY <1>4 DEF Environment, Inject, ContinuationRunCheck, RuleAddSession, RuleRemove,
     SweepOnce, Sweep, SessionRegister, ExpiresAt, LongPause, RegisterSession, Expire,
     StoreFails, storeVars
<1>5. CASE Process
  BY <1>5 DEF Process, Boot, Shutdown, Exit, Crash, OrphanEnds, Gone, storeVars
<1>6. CASE UNCHANGED vars
  BY <1>6 DEF vars, storeVars
<1> QED BY <1>1, <1>2, <1>3, <1>4, <1>5, <1>6 DEF Next, Dispatch

\* A call that adds a rule has been doing so, or has just found the id fresh.
LEMMA ArmingCalls ==
    ASSUME TypeOK, [Next]_vars
    PROVE  \/ \A k \in Callers : call'[k].pc = "arm" => call'[k] = call[k]
           \/ \E k \in Callers, r \in Rules :
                /\ Fresh(r) /\ rule' = rule
                /\ RuleDef[r].agent # NoAgent =>
                     RegisterSession(RuleDef[r].session, RuleDef[r].agent, "waiting")
                /\ call'[k].rule = r
                /\ \A j \in Callers \ {k} : call'[j] = call[j]
<1> USE DEF TypeOK
<1>a. NoCall.pc = "idle"
  BY DEF NoCall
<1>1. CASE UNCHANGED call
  BY <1>1
<1>2. ASSUME NEW k \in Callers, CallStep(k)
      PROVE  \A j \in Callers : call'[j].pc = "arm" => call'[j] = call[j]
  <2>1. [NoCall EXCEPT !.pc = "notify"].pc = "notify"
    BY DEF NoCall
  <2>2. CASE ContinuationRunStamp(k)
    BY <2>2 DEF ContinuationRunStamp, CallState
  <2> QED BY <1>2, <1>a, <2>1, <2>2 DEF CallStep, ContinuationRunInsert, Notify, RuleAddArm
<1>3. CASE Environment
  <2>1. ASSUME NEW k \in Callers, NEW ev \in Injected, Inject(k, ev)
        PROVE  \A j \in Callers : call'[j].pc = "arm" => call'[j] = call[j]
    BY <2>1 DEF Inject, CallState
  <2>2. ASSUME NEW k \in Callers, NEW s \in Sessions, ContinuationRunCheck(k, s)
        PROVE  \A j \in Callers : call'[j].pc = "arm" => call'[j] = call[j]
    <3>1. [NoCall EXCEPT !.pc = "stamp", !.session = s].pc = "stamp"
      BY DEF NoCall
    <3> QED BY <2>2, <3>1 DEF ContinuationRunCheck
  <2>3. ASSUME NEW k \in Callers, NEW r \in Rules, RuleAddSession(k, r), call' # call
        PROVE  /\ Fresh(r) /\ rule' = rule
               /\ RuleDef[r].agent # NoAgent =>
                    RegisterSession(RuleDef[r].session, RuleDef[r].agent, "waiting")
               /\ call'[k].rule = r
               /\ \A j \in Callers \ {k} : call'[j] = call[j]
    <3>1. [NoCall EXCEPT !.pc = "arm", !.rule = r].rule = r
      BY DEF NoCall
    <3> QED BY <2>3, <3>1 DEF RuleAddSession, RegisterSession, storeVars
  <2> QED BY <1>1, <1>3, <2>1, <2>2, <2>3
          DEF Environment, RuleRemove, SessionRegister, SweepOnce, ExpiresAt, LongPause
<1>4. CASE Process
  BY <1>1, <1>4, <1>a DEF Process, Boot, Shutdown, Exit, Crash, OrphanEnds, Gone
<1>5. CASE Dispatch \/ UNCHANGED vars
  BY <1>1, <1>5 DEF Dispatch, vars
<1> QED BY <1>2, <1>3, <1>4, <1>5 DEF Next

\* What an ingest does to the rules, and the rules its new rows are of.
LEMMA IngestRules ==
    ASSUME TypeOK, NEW ev, NEW born \in Births(ev), Ingest(ev, born)
    PROVE  /\ \A r \in Rules : \/ rule'[r] = rule[r]
                               \/ rule[r] = "armed" /\ rule'[r] = "consumed"
           /\ \A c \in DOMAIN born : /\ born[c] \in Rules
                                     /\ cont'[c].rule = born[c]
                                     /\ rule[born[c]] = "armed"
                                     /\ RuleDef[born[c]].oneShot => rule'[born[c]] = "consumed"
           /\ \A c, d \in DOMAIN born : born[c] = born[d] => c = d
<1>1. /\ \A c \in DOMAIN born : born[c] \in Matched(ev) /\ c \in Conts
      /\ \A c, d \in DOMAIN born : born[c] = born[d] => c = d
  BY DEF Births, Bijection, Injection, Surjection, IsInjective, Unused
<1>2. \A r \in Matched(ev) : r \in Rules /\ rule[r] = "armed"
  BY DEF Matched, Active
<1>3. \A c \in DOMAIN born : cont'[c] = Born(born[c], ev)
  BY <1>1 DEF Ingest
<1>4. \A c \in DOMAIN born : cont'[c].rule = born[c]
  <2>1. ASSUME NEW r PROVE Born(r, ev).rule = r
    BY DEF Born
  <2> QED BY <1>3, <2>1
<1>5. \A r \in Rules :
        rule'[r] = IF r \in Matched(ev) /\ RuleDef[r].oneShot THEN "consumed" ELSE rule[r]
  BY DEF Ingest, ConsumeOneShots
<1> QED BY <1>1, <1>2, <1>4, <1>5

LEMMA RuleInvIngest ==
    ASSUME RuleInv, Ingested
    PROVE  FiredIsOver' /\ OneShotFiresOnce'
<1>1. PICK ev : \E born \in Births(ev) : Ingest(ev, born)
  BY DEF Ingested
<1>2. PICK born \in Births(ev) : Ingest(ev, born)
  BY <1>1
<1>a. TypeOK /\ StoreTypeOK
  BY DEF RuleInv, RowInv, WorkerInv, TypeOK
<1>3. /\ \A r \in Rules : \/ rule'[r] = rule[r]
                          \/ rule[r] = "armed" /\ rule'[r] = "consumed"
      /\ \A c \in DOMAIN born : /\ born[c] \in Rules
                                /\ cont'[c].rule = born[c]
                                /\ rule[born[c]] = "armed"
                                /\ RuleDef[born[c]].oneShot => rule'[born[c]] = "consumed"
      /\ \A c, d \in DOMAIN born : born[c] = born[d] => c = d
  BY <1>2, <1>a, IngestRules
<1>4. \A c \in Conts : c \in DOMAIN born \/ cont'[c] = cont[c]
  BY <1>2, <1>a, IngestRows
<1>5. FiredIsOver'
  BY <1>3, <1>4 DEF RuleInv, FiredIsOver, Used
<1>6. OneShotFiresOnce'
  BY <1>3, <1>4 DEF RuleInv, FiredIsOver, OneShotFiresOnce, Used
<1> QED BY <1>5, <1>6

\* No step but an ingest makes a row of a rule, and none arms a rule again.
LEMMA RuleInvOther ==
    ASSUME RuleInv, [Next]_vars, ~Ingested
    PROVE  FiredIsOver' /\ OneShotFiresOnce'
<1> USE DEF RuleInv
<1>a. RowInv /\ TypeOK /\ rule \in [Rules -> {"unadded", "armed", "consumed", "removed"}]
  BY DEF RowInv, WorkerInv, TypeOK, StoreTypeOK
<1>1. \A c \in Conts : Used(c)' /\ cont'[c].rule \in Rules =>
        Used(c) /\ cont[c].rule = cont'[c].rule
  <2> SUFFICES ASSUME NEW c \in Conts, Used(c)', cont'[c].rule \in Rules
               PROVE  Used(c) /\ cont[c].rule = cont'[c].rule
    OBVIOUS
  <2>1. RowStep(c) /\ cont[c] \in ContRow
    BY <1>a, RowMoves DEF TypeOK, StoreTypeOK
  <2>2. ~Inserted(c)
    BY ManualAssumption, InsertedRow
  <2> QED BY <2>1, <2>2 DEF RowStep, Used, Terminal, ContRow
<1>2. \A r \in Rules : rule[r] \in {"consumed", "removed"} =>
        rule'[r] \in {"consumed", "removed"}
  <2>1. CASE \E k \in Callers : call[k].pc = "arm" /\ AddRule(call[k].rule)
    BY <1>a, <2>1 DEF AddRule, AddedOnce
  <2>2. CASE \E k \in Callers, r \in Rules : RuleRemove(k, r) /\ RemoveRule(r)
    BY <1>a, <2>2 DEF RemoveRule
  <2> QED BY <1>a, <2>1, <2>2, RuleMoves DEF RuleStep
<1>3. FiredIsOver'
  BY <1>1, <1>2 DEF FiredIsOver, Used
<1>4. OneShotFiresOnce'
  BY <1>1 DEF OneShotFiresOnce, Used
<1> QED BY <1>3, <1>4

LEMMA AddedOnceNext ==
    ASSUME RuleInv, [Next]_vars
    PROVE  AddedOnce'
<1> USE DEF RuleInv
<1>a. RowInv /\ TypeOK /\ rule \in [Rules -> {"unadded", "armed", "consumed", "removed"}]
  BY DEF RowInv, WorkerInv, TypeOK, StoreTypeOK
<1>b. call \in [Callers -> CallState]
  BY <1>a DEF TypeOK
<1>1. CASE \E k \in Callers, r \in Rules :
             /\ Fresh(r) /\ rule' = rule
             /\ call'[k].rule = r
             /\ \A j \in Callers \ {k} : call'[j] = call[j]
  BY <1>1 DEF AddedOnce, Fresh
<1>2. CASE \A k \in Callers : call'[k].pc = "arm" => call'[k] = call[k]
  <2>1. ASSUME NEW k \in Callers, call'[k].pc = "arm" PROVE rule'[call[k].rule] = "unadded"
    <3>a. call[k].pc = "arm" /\ call[k].rule \in Rules /\ rule[call[k].rule] = "unadded"
      BY <1>2, <2>1 DEF AddedOnce
    <3>1. CASE rule' = rule
      BY <3>a, <3>1
    <3>2. ASSUME NEW j \in Callers, call[j].pc = "arm", AddRule(call[j].rule),
                 call' = [call EXCEPT ![j] = NoCall]
          PROVE  rule'[call[k].rule] = "unadded"
      <4>1. j # k
        BY <1>b, <2>1, <3>2 DEF NoCall
      <4>2. call[j].rule # call[k].rule
        BY <3>a, <3>2, <4>1 DEF AddedOnce
      <4> QED BY <1>a, <3>a, <3>2, <4>2 DEF AddRule
    <3>3. ASSUME NEW j \in Callers, NEW r \in Rules, RuleRemove(j, r), RemoveRule(r)
          PROVE  rule'[call[k].rule] = "unadded"
      BY <1>a, <3>a, <3>3 DEF RuleRemove, RemoveRule
    <3>4. CASE Ingested
      BY <1>a, <3>a, <3>4, IngestRules DEF Ingested
    <3> QED BY <1>a, <3>1, <3>2, <3>3, <3>4, RuleMoves DEF RuleStep
  <2> QED BY <1>2, <2>1 DEF AddedOnce
<1> QED BY <1>a, <1>1, <1>2, ArmingCalls

LEMMA RuleInvInit == Init => RuleInv
<1> SUFFICES ASSUME Init PROVE RuleInv
  OBVIOUS
<1>1. \A c \in Conts : ~Used(c)
  BY DEF Init, StoreInit, Used, NoCont
<1>2. \A k \in Callers : call[k].pc = "idle"
  BY DEF Init, NoCall
<1> QED BY <1>1, <1>2, RowInvInit
        DEF RuleInv, AddedOnce, FiredIsOver, OneShotFiresOnce, Used

LEMMA RuleInvNext == RuleInv /\ [Next]_vars => RuleInv'
<1> SUFFICES ASSUME RuleInv, [Next]_vars PROVE RuleInv'
  OBVIOUS
<1>1. RowInv'
  BY RowInvNext DEF RuleInv
<1> QED BY <1>1, AddedOnceNext, RuleInvIngest, RuleInvOther DEF RuleInv

\* A oneShot rule makes at most one continuation in its life, whatever is ingested, added,
\* removed or swept meanwhile, and whatever fails (Store.Ingest, AddRule, RemoveRule).
THEOREM OneShotOnce == Spec => []OneShotFiresOnce
<1>1. RuleInv => OneShotFiresOnce
  BY DEF RuleInv
<1> QED BY <1>1, RuleInvInit, RuleInvNext, PTL DEF Spec

----------------------------------------------------------------------------
(* Sessions *)

\* What one step can do to the sessions table.
SessionStep ==
    \/ session' = session
    \/ \E s \in Sessions, a \in Agents, st \in Given \cup {"waiting"} :
         RegisterSession(s, a, st) /\ astray' = Strays(s, a, st)
    \/ \E w \in Workers : WorkerMark(w) /\ SetSessionState(worker[w].session, "running")
    \/ \E w \in Workers : WorkerUnmark(w) /\ SetSessionState(worker[w].session, "waiting")
    \/ Sweep

LEMMA SessionMoves ==
    ASSUME [Next]_vars
    PROVE  SessionStep
<1> USE DEF SessionStep
<1>1. CASE LoopStep
  BY <1>1 DEF LoopStep, BootRecovery, ScanRead, ScanSpawn, SelectWake, SelectTick,
     SelectDone, Drained, StoreFails, ResetRunningContinuations, storeVars
<1>2. ASSUME NEW w \in Workers, WorkerStep(w) PROVE SessionStep
  <2>1. CASE WorkerMark(w) \/ WorkerUnmark(w)
    BY <2>1 DEF WorkerMark, WorkerUnmark, StoreFails
  <2> QED BY <1>2, <2>1
          DEF WorkerStep, WorkerNext, WorkerClaim, WorkerLookup, WorkerResume, AgentEnds,
              WorkerRecord, WorkerEmit, WorkerNotify, WorkerExit, WorkerBye, StoreFails,
              ClaimContinuation, UpdateContinuationResult, Ingest, storeVars
<1>3. ASSUME NEW k \in Callers, CallStep(k) PROVE SessionStep
  BY <1>3 DEF CallStep, ContinuationRunStamp, ContinuationRunInsert, Notify, RuleAddArm,
     AddRule, StoreFails, InsertManualContinuation, storeVars
<1>4. CASE Environment
  <2>1. ASSUME NEW k \in Callers, NEW r \in Rules, RuleAddSession(k, r) PROVE SessionStep
    BY <2>1, RuleDefAssumption DEF RuleAddSession, StoreFails, storeVars
  <2>2. ASSUME NEW k \in Callers, NEW s \in Sessions, NEW a \in Registrants, NEW st \in Given,
               SessionRegister(k, s, a, st)
        PROVE  SessionStep
    BY <2>2, DaemonAssumption DEF SessionRegister, StoreFails
  <2> QED BY <1>4, <2>1, <2>2
          DEF Environment, Inject, ContinuationRunCheck, RuleRemove, RemoveRule, SweepOnce,
              ExpiresAt, LongPause, Expire, Ingest, StoreFails, storeVars
<1>5. CASE Process
  BY <1>5 DEF Process, Boot, Shutdown, Exit, Crash, OrphanEnds, Gone, storeVars
<1>6. CASE UNCHANGED vars
  BY <1>6 DEF vars, storeVars
<1> QED BY <1>1, <1>2, <1>3, <1>4, <1>5, <1>6 DEF Next, Dispatch

\* Where a session is after a step, by what changed it.
LEMMA RegisterMove ==
    ASSUME StoreTypeOK, NEW s \in Sessions, NEW a, NEW st, RegisterSession(s, a, st),
           NEW t \in Sessions
    PROVE  /\ t # s => session'[t] = session[t]
           /\ t = s => /\ session'[t].agent = a
                       /\ session'[t].updated = day
                       /\ session'[t].state = IF Registered(s) THEN session[s].state ELSE st
BY DEF RegisterSession, StoreTypeOK

LEMMA SetStateMove ==
    ASSUME StoreTypeOK, NEW s \in Sessions, NEW st, SetSessionState(s, st), NEW t \in Sessions
    PROVE  /\ t # s => session'[t] = session[t]
           /\ t = s /\ Registered(s) => session'[t].state = st /\ session'[t].updated = day
           /\ ~Registered(s) => session'[t] = session[t]
           /\ session'[t].agent = session[t].agent
BY DEF SetSessionState, StoreTypeOK, SessionRow

\* History only adds to the sessions that went astray.
LEMMA AstrayGrows ==
    ASSUME [Next]_vars
    PROVE  astray \subseteq astray'
<1>1. CASE Dispatch
  BY <1>1 DEF Dispatch
<1>2. ASSUME NEW k \in Callers, CallStep(k) PROVE astray \subseteq astray'
  BY <1>2 DEF CallStep, ContinuationRunStamp, ContinuationRunInsert, Notify, RuleAddArm
<1>3. CASE Environment
  BY <1>3 DEF Environment, Inject, ContinuationRunCheck, RuleAddSession, RuleRemove,
     SessionRegister, SweepOnce, ExpiresAt, LongPause, Strays
<1>4. CASE Process
  BY <1>4 DEF Process, Boot, Shutdown, Exit, Crash, OrphanEnds, Gone
<1>5. CASE UNCHANGED vars
  BY <1>5 DEF vars
<1> QED BY <1>1, <1>2, <1>3, <1>4, <1>5 DEF Next

----------------------------------------------------------------------------
(* The session of a rule *)

\* Between the two statements of a rule.add its session is registered, and fresh.
Enrolled ==
    \A k \in Callers : call[k].pc = "arm" /\ RuleDef[call[k].rule].agent # NoAgent =>
        /\ session[RuleDef[call[k].rule].session].state # "absent"
        /\ session[RuleDef[call[k].rule].session].updated = day

\* No call outlives the process.
DownIsIdle == loop = "down" => \A k \in Callers : call[k].pc = "idle"

ArmedInv == RuleInv /\ DownIsIdle /\ Enrolled /\ ArmedSessionExists

\* Days pass in a long pause only, and no expired rule becomes valid again.
LEMMA ClockMoves ==
    ASSUME [Next]_vars
    PROVE  (day' = day \/ LongPause) /\ expired \subseteq expired'
<1>1. CASE LoopStep
  BY <1>1 DEF LoopStep, BootRecovery, ScanRead, ScanSpawn, SelectWake, SelectTick,
     SelectDone, Drained, StoreFails, ResetRunningContinuations, storeVars
<1>2. ASSUME NEW w \in Workers, WorkerStep(w) PROVE day' = day /\ expired' = expired
  BY <1>2 DEF WorkerStep, WorkerNext, WorkerClaim, WorkerLookup, WorkerMark, WorkerResume,
     AgentEnds, WorkerUnmark, WorkerRecord, WorkerEmit, WorkerNotify, WorkerExit, WorkerBye,
     StoreFails, ClaimContinuation, UpdateContinuationResult, SetSessionState, Ingest,
     storeVars
<1>3. ASSUME NEW k \in Callers, CallStep(k) PROVE day' = day /\ expired' = expired
  BY <1>3 DEF CallStep, ContinuationRunStamp, ContinuationRunInsert, Notify, RuleAddArm,
     AddRule, StoreFails, InsertManualContinuation, storeVars
<1>4. CASE LongPause
  BY <1>4 DEF LongPause
<1>5. CASE Environment /\ ~LongPause
  BY <1>5 DEF Environment, Inject, ContinuationRunCheck, RuleAddSession, RuleRemove,
     RemoveRule, SessionRegister, RegisterSession, SweepOnce, Sweep, ExpiresAt, Expire,
     Ingest, StoreFails, storeVars
<1>6. CASE Process
  BY <1>6 DEF Process, Boot, Shutdown, Exit, Crash, OrphanEnds, Gone, storeVars
<1>7. CASE UNCHANGED vars
  BY <1>7 DEF vars, storeVars
<1> QED BY <1>1, <1>2, <1>3, <1>4, <1>5, <1>6, <1>7 DEF Next, Dispatch

LEMMA DownIsIdleNext ==
    ASSUME TypeOK, DownIsIdle, [Next]_vars
    PROVE  DownIsIdle'
<1> SUFFICES ASSUME loop' = "down" PROVE \A k \in Callers : call'[k].pc = "idle"
  BY DEF DownIsIdle
<1>a. NoCall.pc = "idle"
  BY DEF NoCall
<1>1. CASE Gone
  BY <1>1, <1>a DEF Gone
<1>2. CASE loop = "down" /\ call' = call
  BY <1>2 DEF DownIsIdle
<1>3. CASE LoopStep
  BY <1>3 DEF LoopStep, BootRecovery, ScanRead, ScanSpawn, SelectWake, SelectTick,
     SelectDone, Drained
<1>4. CASE Dispatch /\ ~LoopStep
  BY <1>2, <1>4, WorkerIsAwake DEF Dispatch
<1>5. ASSUME NEW k \in Callers, CallStep(k) PROVE FALSE
  BY <1>5 DEF CallStep, ContinuationRunStamp, ContinuationRunInsert, Notify, RuleAddArm,
     DownIsIdle, dispatchVars
<1>6. CASE Environment
  BY <1>2, <1>6 DEF Environment, Inject, ContinuationRunCheck, RuleAddSession, RuleRemove,
     SessionRegister, SweepOnce, ExpiresAt, LongPause, Serving, Up, dispatchVars
<1>7. CASE Process
  BY <1>1, <1>2, <1>7 DEF Process, Boot, Shutdown, Exit, Crash, OrphanEnds
<1>8. CASE UNCHANGED vars
  BY <1>2, <1>8 DEF vars, dispatchVars
<1> QED BY <1>3, <1>4, <1>5, <1>6, <1>7, <1>8 DEF Next

\* A registered session is not removed while it is fresh, nor while an active rule has it.
LEMMA SessionStays ==
    ASSUME TypeOK, [Next]_vars, NEW t \in Sessions, session[t].state # "absent",
           session[t].updated = day \/ \E r \in Rules : Active(r) /\ RuleDef[r].session = t
    PROVE  /\ session'[t].state # "absent"
           /\ session[t].updated = day => session'[t].updated = day
<1>a. StoreTypeOK /\ Registered(t) /\ session[t] \in SessionRow /\ day \in Nat
  BY DEF TypeOK, StoreTypeOK, Registered
<1>1. CASE session' = session
  BY <1>1
<1>2. ASSUME NEW s \in Sessions, NEW a, NEW st, RegisterSession(s, a, st)
      PROVE  session'[t].state # "absent" /\ (session[t].updated = day => session'[t].updated = day)
  BY <1>2, <1>a, RegisterMove
<1>3. ASSUME NEW w \in Workers, NEW st \in {"running", "waiting"},
             SetSessionState(worker[w].session, st)
      PROVE  session'[t].state # "absent" /\ (session[t].updated = day => session'[t].updated = day)
  <2>1. worker[w].session \in Sessions
    BY DEF TypeOK, DispatchTypeOK, WorkerState
  <2> QED BY <1>3, <1>a, <2>1, SetStateMove
<1>4. CASE Sweep
  <2>1. ~Sweepable(t)
    BY <1>a, BoundsAssumption DEF Sweepable, SessionRow
  <2> QED BY <1>4, <2>1 DEF Sweep
<1> QED BY <1>1, <1>2, <1>3, <1>4, SessionMoves DEF SessionStep

LEMMA EnrolledNext ==
    ASSUME ArmedInv, [Next]_vars
    PROVE  Enrolled'
<1> USE DEF ArmedInv
<1>a. TypeOK /\ StoreTypeOK
  BY DEF RuleInv, RowInv, WorkerInv, TypeOK
<1>1. CASE LongPause
  <2>1. NoCall.pc = "idle" /\ call' = call
    BY <1>1 DEF NoCall, LongPause
  <2>2. \A k \in Callers : call[k].pc = "idle"
    BY <1>1, <2>1 DEF LongPause, Quiescent, DownIsIdle
  <2> QED BY <2>1, <2>2 DEF Enrolled
<1>2. CASE day' = day
  <2>1. ASSUME NEW k \in Callers, call'[k].pc = "arm", call'[k] = call[k],
               RuleDef[call[k].rule].agent # NoAgent
        PROVE  LET t == RuleDef[call[k].rule].session IN
               session'[t].state # "absent" /\ session'[t].updated = day
    <3>1. call[k].rule \in Rules /\ RuleDef[call[k].rule].session \in Sessions
      BY <2>1, RuleDefAssumption DEF RuleInv, AddedOnce
    <3> QED BY <1>a, <2>1, <3>1, SessionStays DEF Enrolled
  <2>2. CASE \A k \in Callers : call'[k].pc = "arm" => call'[k] = call[k]
    BY <1>2, <2>1, <2>2 DEF Enrolled
  <2>3. ASSUME NEW k \in Callers, NEW r \in Rules, call'[k].rule = r,
               RuleDef[r].agent # NoAgent =>
                 RegisterSession(RuleDef[r].session, RuleDef[r].agent, "waiting"),
               \A j \in Callers \ {k} : call'[j] = call[j]
        PROVE  Enrolled'
    <3>1. ASSUME RuleDef[r].agent # NoAgent
          PROVE  LET t == RuleDef[r].session IN
                 session'[t].state # "absent" /\ session'[t].updated = day
      <4>1. RuleDef[r].session \in Sessions
        BY RuleDefAssumption
      <4> QED BY <1>a, <2>3, <3>1, <4>1, RegisterMove DEF Registered
    <3> QED BY <1>2, <2>1, <2>3, <3>1 DEF Enrolled
  <2> QED BY <1>a, <2>2, <2>3, ArmingCalls
<1> QED BY <1>1, <1>2, ClockMoves

LEMMA ArmedSessionNext ==
    ASSUME ArmedInv, [Next]_vars
    PROVE  ArmedSessionExists'
<1> USE DEF ArmedInv
<1>a. TypeOK /\ rule \in [Rules -> {"unadded", "armed", "consumed", "removed"}]
  BY DEF RuleInv, RowInv, WorkerInv, TypeOK, StoreTypeOK
<1> SUFFICES ASSUME NEW r \in Rules, Active(r)', RuleDef[r].agent # NoAgent
             PROVE  session'[RuleDef[r].session].state # "absent"
  BY DEF ArmedSessionExists, Registered
<1>b. RuleDef[r].session \in Sessions
  BY RuleDefAssumption
<1>1. CASE Active(r)
  BY <1>a, <1>b, <1>1, SessionStays DEF ArmedSessionExists, Registered
<1>2. CASE ~Active(r)
  <2>1. rule'[r] = "armed" /\ rule[r] # "armed"
    BY <1>2, ClockMoves DEF Active
  <2>2. ~Ingested
    BY <1>a, <2>1, IngestRules DEF Ingested
  <2>3. \A j \in Rules : ~RemoveRule(j)
    BY <1>a, <2>1 DEF RemoveRule
  <2>4. PICK k \in Callers : call[k].pc = "arm" /\ AddRule(call[k].rule)
    BY <1>a, <2>1, <2>2, <2>3, RuleMoves DEF RuleStep
  <2>5. call[k].rule = r /\ session' = session
    BY <1>a, <2>1, <2>4 DEF AddRule
  <2> QED BY <2>4, <2>5 DEF Enrolled
<1> QED BY <1>1, <1>2

\* For every retention policy and every set of rules: a rule.add that registers its session
\* has it registered as long as the rule is active, in whatever order sweeps, crashes, other
\* registrations and failures come between its two statements and after them (ruleAdd,
\* RegisterSession, Sweep).
THEOREM ArmedSession == Spec => []ArmedSessionExists
<1>1. Init => DownIsIdle /\ Enrolled /\ ArmedSessionExists
  <2> SUFFICES ASSUME Init PROVE DownIsIdle /\ Enrolled /\ ArmedSessionExists
    OBVIOUS
  <2>1. \A k \in Callers : call[k].pc = "idle"
    BY DEF Init, NoCall
  <2>2. \A r \in Rules : rule[r] = "unadded"
    BY DEF Init, StoreInit
  <2> QED BY <2>1, <2>2 DEF DownIsIdle, Enrolled, ArmedSessionExists, Active
<1>2. ArmedInv /\ [Next]_vars => ArmedInv'
  <2> SUFFICES ASSUME ArmedInv, [Next]_vars PROVE ArmedInv'
    OBVIOUS
  <2>1. TypeOK
    BY DEF ArmedInv, RuleInv, RowInv, WorkerInv
  <2>2. RuleInv'
    BY RuleInvNext DEF ArmedInv
  <2>3. DownIsIdle'
    BY <2>1, DownIsIdleNext DEF ArmedInv
  <2> QED BY <2>2, <2>3, EnrolledNext, ArmedSessionNext DEF ArmedInv
<1>3. ArmedInv <=> RuleInv /\ DownIsIdle /\ Enrolled /\ ArmedSessionExists
  BY DEF ArmedInv
<1> QED BY <1>1, <1>2, <1>3, RuleInvInit, PTL DEF Spec

----------------------------------------------------------------------------
(* A session that is marked running *)

\* A session that has not gone astray has an agent with an adapter.
KnownAgents ==
    \A s \in Sessions \ astray : Registered(s) => session[s].agent \in Adapters

\* A worker that is about to record a result has set its session back.
SetBack ==
    \A w \in Workers : worker[w].pc = "record" /\ worker[w].session \notin astray =>
        session[worker[w].session].state # "running"

OwedInv == RowInv /\ KnownAgents /\ RunningSessionIsOwed /\ (errs = 0 => SetBack)

LEMMA KnownAgentsNext ==
    ASSUME TypeOK, KnownAgents, [Next]_vars
    PROVE  KnownAgents'
<1> SUFFICES ASSUME NEW t \in Sessions, t \notin astray', session'[t].state # "absent"
             PROVE  session'[t].agent \in Adapters
  BY DEF KnownAgents, Registered
<1>a. StoreTypeOK /\ t \notin astray
  BY AstrayGrows DEF TypeOK
<1>1. CASE session' = session
  BY <1>1, <1>a DEF KnownAgents, Registered
<1>2. ASSUME NEW s \in Sessions, NEW a, NEW st, RegisterSession(s, a, st),
             astray' = Strays(s, a, st)
      PROVE  session'[t].agent \in Adapters
  BY <1>2, <1>a, RegisterMove DEF KnownAgents, Registered, Strays
<1>3. ASSUME NEW w \in Workers, NEW st \in {"running", "waiting"},
             SetSessionState(worker[w].session, st)
      PROVE  session'[t].agent \in Adapters
  <2>1. worker[w].session \in Sessions
    BY DEF TypeOK, DispatchTypeOK, WorkerState
  <2> QED BY <1>3, <1>a, <2>1, SetStateMove DEF KnownAgents, Registered
<1>4. CASE Sweep
  BY <1>4, <1>a DEF Sweep, KnownAgents, Registered, NoSession
<1> QED BY <1>1, <1>2, <1>3, <1>4, SessionMoves DEF SessionStep

\* Who comes to the record of a result, and from where.
LEMMA RecorderIsOld ==
    ASSUME TypeOK, [Next]_vars, NEW w \in Workers, worker'[w].pc = "record"
    PROVE  worker'[w] = worker[w] \/ WorkerLookup(w) \/ WorkerUnmark(w)
<1>a. worker \in [Workers -> WorkerState] /\ worker[w].session \in Sessions
  BY DEF TypeOK, DispatchTypeOK, WorkerState
<1>1. CASE worker' = worker
  BY <1>1
<1>2. CASE ScanSpawn
  BY <1>2, SpawnMove
<1>3. CASE LoopStep /\ ~ScanSpawn
  BY <1>1, <1>3, LoopKeepsWorkers
<1>4. ASSUME NEW v \in Workers, WorkerStep(v)
      PROVE  worker'[w] = worker[w] \/ WorkerLookup(w) \/ WorkerUnmark(w)
  <2>1. CASE v # w
    BY <1>4, <2>1, WorkerMove
  <2>2. CASE v = w
    <3>1. ASSUME NEW pc \in {"next", "notify", "exit", "bye"},
                 worker' = [worker EXCEPT ![w] = At(worker[w].session, pc)]
          PROVE  FALSE
      BY <3>1, <1>a, AtType DEF WorkerPC
    <3>2. CASE WorkerNext(w) \/ WorkerClaim(w) \/ WorkerEmit(w)
      BY <3>1, <3>2, <1>a DEF WorkerNext, WorkerClaim, WorkerEmit, Leave, Goto, WorkerState
    <3>3. CASE WorkerNotify(w) \/ WorkerExit(w) \/ WorkerBye(w)
      BY <3>1, <3>3, <1>a, NoWorkerType DEF WorkerNotify, WorkerExit, WorkerBye, Leave
    <3>4. CASE WorkerMark(w) \/ WorkerResume(w) \/ WorkerRecord(w)
      BY <3>1, <3>4, <1>a DEF WorkerMark, WorkerResume, WorkerRecord, Leave, Goto, WorkerState
    <3>5. CASE AgentEnds(w)
      BY <3>5, <1>a DEF AgentEnds, WorkerState
    <3> QED BY <1>4, <2>2, <3>2, <3>3, <3>4, <3>5 DEF WorkerStep
  <2> QED BY <2>1, <2>2
<1>5. CASE Gone
  BY <1>5, NoWorkerType DEF Gone
<1>6. CASE UNCHANGED vars
  BY <1>1, <1>6 DEF vars, dispatchVars
<1> QED BY <1>1, <1>2, <1>3, <1>4, <1>5, <1>6, OthersKeepWorkers
        DEF Next, Dispatch, Process, Exit, Crash

\* A session that does not go astray becomes running when its worker marks it.
LEMMA SessionTurnsRunning ==
    ASSUME TypeOK, [Next]_vars, NEW t \in Sessions, t \notin astray',
           session[t].state # "running", session'[t].state = "running"
    PROVE  \E w \in Workers : WorkerMark(w) /\ worker[w].session = t
<1>a. StoreTypeOK
  BY DEF TypeOK
<1>b. \A w \in Workers : worker[w].session \in Sessions
  BY DEF TypeOK, DispatchTypeOK, WorkerState
<1>1. ASSUME NEW s \in Sessions, NEW a, NEW st, RegisterSession(s, a, st),
             astray' = Strays(s, a, st)
      PROVE  FALSE
  BY <1>a, <1>1, RegisterMove DEF Strays
<1>2. \A w \in Workers : ~SetSessionState(worker[w].session, "waiting")
  BY <1>a, <1>b, SetStateMove
<1>3. ASSUME Sweep PROVE FALSE
  <2>1. session'[t] = NoSession \/ session'[t] = session[t]
    BY <1>3 DEF Sweep
  <2>2. NoSession.state = "absent"
    BY DEF NoSession
  <2> QED BY <2>1, <2>2
<1>4. ASSUME NEW w \in Workers, SetSessionState(worker[w].session, "running")
      PROVE  worker[w].session = t
  BY <1>a, <1>b, <1>4, SetStateMove
<1> QED BY <1>1, <1>2, <1>3, <1>4, SessionMoves DEF SessionStep

LEMMA SetBackNext ==
    ASSUME OwedInv, [Next]_vars, errs' = 0
    PROVE  SetBack'
<1> USE DEF OwedInv
<1>a. RowInv /\ TypeOK /\ StoreTypeOK /\ WorkerExclusion
  BY DEF RowInv, WorkerInv, TypeOK
<1>b. errs = 0 /\ ~StoreFails /\ SetBack
  BY <1>a, ErrsGrow
<1>c. worker \in [Workers -> WorkerState] /\ \A w \in Workers : worker[w].session \in Sessions
  BY <1>a DEF TypeOK, DispatchTypeOK, WorkerState
<1> SUFFICES ASSUME NEW w \in Workers, worker'[w].pc = "record",
                    worker'[w].session \notin astray'
             PROVE  session'[worker'[w].session].state # "running"
  BY DEF SetBack
<1>d. worker'[w].session \notin astray
  BY AstrayGrows
<1>1. CASE worker'[w] = worker[w]
  <2>1. SUFFICES ASSUME session'[worker[w].session].state = "running" PROVE FALSE
    BY <1>1
  <2>2. session[worker[w].session].state # "running"
    BY <1>1, <1>b, <1>d DEF SetBack
  <2>3. PICK v \in Workers : WorkerMark(v) /\ worker[v].session = worker[w].session
    BY <1>a, <1>c, <1>1, <2>1, <2>2, SessionTurnsRunning
  <2>4. Live(v) /\ Live(w) /\ v # w
    BY <1>1, <2>3 DEF WorkerMark, Live
  <2> QED BY <1>a, <2>3, <2>4 DEF WorkerExclusion
<1>2. CASE WorkerLookup(w)
  <2>1. worker'[w].session = worker[w].session /\ session' = session
    BY <1>2, <1>b, <1>c DEF WorkerLookup, Goto, WorkerState, storeVars
  <2>2. ~Runnable(worker[w].session)
    BY <1>2, <1>b, <1>c DEF WorkerLookup, Goto, WorkerState
  <2>3. session[worker[w].session].state = "absent"
    BY <1>c, <1>d, <2>1, <2>2 DEF Runnable, KnownAgents, Registered
  <2> QED BY <2>1, <2>3
<1>3. CASE WorkerUnmark(w)
  <2>1. /\ worker'[w].session = worker[w].session
        /\ SetSessionState(worker[w].session, "waiting")
    BY <1>3, <1>b, <1>c DEF WorkerUnmark, Goto, WorkerState
  <2> QED BY <1>a, <1>c, <2>1, SetStateMove DEF Registered
<1> QED BY <1>a, <1>1, <1>2, <1>3, RecorderIsOld

LEMMA OwedNext ==
    ASSUME OwedInv, [Next]_vars
    PROVE  RunningSessionIsOwed'
<1> USE DEF OwedInv
<1> SUFFICES ASSUME errs' = 0, NEW s \in Sessions, s \notin astray',
                    session'[s].state = "running"
             PROVE  \E c \in Conts : cont'[c].session = s /\ Unsettled(c)'
  BY DEF RunningSessionIsOwed, Unsettled
<1>a. RowInv /\ TypeOK /\ StoreTypeOK /\ s \notin astray
  BY AstrayGrows DEF RowInv, WorkerInv, TypeOK
<1>b. errs = 0 /\ SetBack
  BY <1>a, ErrsGrow
<1>1. CASE session[s].state = "running"
  <2>1. PICK c \in Conts : cont[c].session = s /\ Unsettled(c)
    BY <1>a, <1>1, <1>b DEF RunningSessionIsOwed, Unsettled
  <2>2. RowStep(c) /\ cont[c] \in ContRow
    BY <1>a, RowMoves DEF StoreTypeOK
  <2>3. ASSUME NEW w \in Workers, worker[w].pc = "record", worker[w].cont = c PROVE FALSE
    <3>1. worker[w].session = s
      BY <1>a, <2>1, <2>3 DEF RowInv, RowOf, Holding
    <3> QED BY <1>a, <1>1, <1>b, <2>3, <3>1 DEF SetBack
  <2>4. cont'[c].session = s /\ Unsettled(c)'
    BY <2>1, <2>2, <2>3 DEF RowStep, Unsettled, ContRow, Terminal
  <2> QED BY <2>4
<1>2. CASE session[s].state # "running"
  <2>1. PICK w \in Workers : WorkerMark(w) /\ worker[w].session = s
    BY <1>a, <1>2, SessionTurnsRunning
  <2> DEFINE c == worker[w].cont
  <2>2. c \in Conts
    BY <1>a DEF TypeOK, DispatchTypeOK, WorkerState
  <2>3. cont[c].session = s /\ cont[c].state = "running"
    BY <1>a, <2>1 DEF RowInv, RowOf, Holding, WorkerMark
  <2>4. cont' = cont
    BY <2>1 DEF WorkerMark, SetSessionState, StoreFails
  <2> HIDE DEF c
  <2> QED BY <2>2, <2>3, <2>4 DEF Unsettled
<1> QED BY <1>1, <1>2

\* Whatever agents and states sessions are registered with: as long as no store call has
\* failed, a session that is marked running has unsettled work, unless it was once
\* registered as running or with an agent that has no adapter; over crashes, shutdowns and
\* recoveries: boot resets no session, the work that is run again does (execute,
\* SetSessionState, ResetRunningContinuations).
THEOREM OwedSession == Spec => []RunningSessionIsOwed
<1>1. Init => OwedInv
  <2> SUFFICES ASSUME Init PROVE OwedInv
    OBVIOUS
  <2>1. \A w \in Workers : worker[w].pc = "idle"
    BY NoWorkerType DEF Init, DispatchInit
  <2>2. \A s \in Sessions : session[s].state = "absent"
    BY DEF Init, StoreInit, NoSession
  <2> QED BY <2>1, <2>2, RowInvInit
          DEF OwedInv, KnownAgents, Registered, SetBack, RunningSessionIsOwed
<1>2. OwedInv /\ [Next]_vars => OwedInv'
  <2> SUFFICES ASSUME OwedInv, [Next]_vars PROVE OwedInv'
    OBVIOUS
  <2>1. TypeOK /\ RowInv'
    BY RowInvNext DEF OwedInv, RowInv, WorkerInv
  <2> QED BY <2>1, KnownAgentsNext, SetBackNext, OwedNext DEF OwedInv
<1>3. OwedInv => RunningSessionIsOwed
  BY DEF OwedInv
<1> QED BY <1>1, <1>2, <1>3, PTL DEF Spec

=============================================================================
