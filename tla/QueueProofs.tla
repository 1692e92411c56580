----------------------------- MODULE QueueProofs -----------------------------
(***************************************************************************)
(* The daemon implements the abstract continuation queues: as long as no   *)
(* store call fails, every step of the daemon is a step of                 *)
(* ContinuationQueue on its continuations table, or leaves it alone.       *)
(***************************************************************************)
EXTENDS OutcomeProofs

----------------------------------------------------------------------------
(* What the refinement rests on *)

\* A worker that has chosen its continuation, or holds it.
Engaged(w) == worker[w].pc = "claim" \/ Holding(w)

\* created_at stamps are of the past, a manual call's too; a row that was never written
\* is of no rule.
Stamps ==
    /\ \A c \in Conts : Unsettled(c) => cont[c].created < tick
    /\ \A k \in Callers : call[k].pc = "insert" => call[k].stamp < tick
    /\ \A c \in Conts : ~Used(c) => cont[c].rule = Manual

\* What a worker has chosen comes before all that rules have queued for its session.
ChosenIsOldest ==
    \A w \in Workers : worker[w].pc = "claim" =>
        \A d \in PendingOf(worker[w].session) :
            cont[d].rule \in Rules => cont[worker[w].cont].created <= cont[d].created

\* After boot recovery a running row has its worker, or was left behind by a shutdown,
\* and its session's workers start nothing any more.
RunningIsHeld ==
    loop \notin {"down", "boot"} =>
        \A d \in Conts : cont[d].state = "running" =>
            \/ \E w \in Workers : Holding(w) /\ worker[w].cont = d
            \/ /\ cancelled
               /\ \A w \in Workers : Engaged(w) => worker[w].session # cont[d].session

QueueInv == RowInv /\ Stamps /\ ChosenIsOldest /\ (errs = 0 => RunningIsHeld)

----------------------------------------------------------------------------
(* Stamps *)

LEMMA TickMoves ==
    ASSUME TypeOK, [Next]_vars
    PROVE  /\ tick' = tick \/ tick' = tick + 1
           /\ \A k \in Callers : call'[k].pc = "insert" =>
                \/ call'[k] = call[k]
                \/ call'[k].stamp = tick /\ tick' = tick + 1
<1> USE DEF TypeOK
<1>a. NoCall.pc = "idle"
  BY DEF NoCall
<1>1. CASE LoopStep /\ UNCHANGED call
  BY <1>1 DEF LoopStep, BootRecovery, ScanRead, ScanSpawn, SelectWake, SelectTick,
     SelectDone, Drained, StoreFails, ResetRunningContinuations, storeVars
<1>2. ASSUME NEW w \in Workers, WorkerStep(w) PROVE tick' = tick \/ tick' = tick + 1
  BY <1>2 DEF WorkerStep, WorkerNext, WorkerClaim, WorkerLookup, WorkerMark, WorkerResume,
     AgentEnds, WorkerUnmark, WorkerRecord, WorkerEmit, WorkerNotify, WorkerExit, WorkerBye,
     StoreFails, ClaimContinuation, UpdateContinuationResult, SetSessionState, Ingest,
     storeVars
<1>3. ASSUME NEW j \in Callers, CallStep(j), ~ContinuationRunStamp(j)
      PROVE  tick' = tick /\ \A k \in Callers : call'[k].pc = "insert" => call'[k] = call[k]
  <2>1. [NoCall EXCEPT !.pc = "notify"].pc = "notify"
    BY DEF NoCall
  <2> QED BY <1>3, <1>a, <2>1
          DEF CallStep, ContinuationRunInsert, Notify, RuleAddArm, AddRule, StoreFails,
              InsertManualContinuation, storeVars
<1>7. ASSUME NEW j \in Callers, ContinuationRunStamp(j)
      PROVE  /\ tick' = tick + 1
             /\ \A k \in Callers : call'[k] = call[k] \/ call'[k].stamp = tick
  BY <1>7 DEF ContinuationRunStamp, CallState
<1>4. CASE Environment
  <2>1. ASSUME NEW j \in Callers, NEW ev \in Injected, Inject(j, ev)
        PROVE  /\ tick' = tick \/ tick' = tick + 1
               /\ \A k \in Callers : call'[k].pc = "insert" => call'[k] = call[k]
    BY <2>1 DEF Inject, CallState, Ingest, StoreFails
  <2>2. ASSUME NEW j \in Callers, NEW s \in Sessions, ContinuationRunCheck(j, s)
        PROVE  tick' = tick /\ \A k \in Callers : call'[k].pc = "insert" => call'[k] = call[k]
    <3>1. [NoCall EXCEPT !.pc = "stamp", !.session = s].pc = "stamp"
      BY DEF NoCall
    <3> QED BY <2>2, <3>1 DEF ContinuationRunCheck, StoreFails, storeVars
  <2>3. ASSUME NEW j \in Callers, NEW r \in Rules, RuleAddSession(j, r)
        PROVE  tick' = tick /\ \A k \in Callers : call'[k].pc = "insert" => call'[k] = call[k]
    <3>1. [NoCall EXCEPT !.pc = "arm", !.rule = r].pc = "arm"
      BY DEF NoCall
    <3> QED BY <2>3, <3>1 DEF RuleAddSession, RegisterSession, StoreFails, storeVars
  <2> QED BY <1>4, <2>1, <2>2, <2>3
          DEF Environment, RuleRemove, RemoveRule, SweepOnce, Sweep, SessionRegister,
              RegisterSession, ExpiresAt, LongPause, Expire, StoreFails
<1>5. CASE Process
  BY <1>5, <1>a DEF Process, Boot, Shutdown, Exit, Crash, OrphanEnds, Gone, storeVars
<1>6. CASE UNCHANGED vars
  BY <1>6 DEF vars, storeVars
<1> QED BY <1>1, <1>2, <1>3, <1>4, <1>5, <1>6, <1>7 DEF Next, Dispatch

\* Rows that an ingest made are of its rules and carry its stamp.
LEMMA IngestedRow ==
    ASSUME TypeOK, Ingested, NEW c \in Conts, cont'[c] # cont[c]
    PROVE  /\ cont[c].state = "unused"
           /\ cont'[c].state \in {"pending", "failed"}
           /\ cont'[c].rule \in Rules
           /\ cont'[c].session \in Sessions
           /\ cont'[c].created = tick
           /\ tick' = tick + 1
<1>1. PICK ev : \E born \in Births(ev) : Ingest(ev, born)
  BY DEF Ingested
<1>2. PICK born \in Births(ev) : Ingest(ev, born)
  BY <1>1
<1>3. /\ c \in DOMAIN born
      /\ cont[c].state = "unused"
      /\ born[c] \in Rules
      /\ cont'[c] = Born(born[c], ev)
      /\ cont'[c].state \in {"pending", "failed"}
  BY <1>2, IngestRows DEF TypeOK
<1>4. /\ Born(born[c], ev).rule = born[c]
      /\ Born(born[c], ev).created = tick
      /\ Born(born[c], ev).session = RuleDef[born[c]].session
  BY DEF Born
<1> QED BY <1>2, <1>3, <1>4, RuleDefAssumption DEF Ingest

LEMMA StampsNext ==
    ASSUME RowInv, Stamps, [Next]_vars
    PROVE  Stamps'
<1>a. TypeOK /\ TypeOK' /\ tick \in Nat
  BY TypeStep DEF RowInv, WorkerInv, TypeOK, StoreTypeOK
<1>b. \A c \in Conts : cont[c] \in ContRow /\ cont'[c] \in ContRow
  BY <1>a DEF TypeOK, StoreTypeOK
<1>c. \A k \in Callers : call[k] \in CallState /\ call'[k] \in CallState
  BY <1>a DEF TypeOK
<1>1. ASSUME NEW c \in Conts, Unsettled(c)' PROVE cont'[c].created < tick'
  <2>1. CASE Unsettled(c) /\ cont'[c].created = cont[c].created
    BY <1>a, <1>b, <2>1, TickMoves DEF Stamps, ContRow
  <2>2. CASE Ingested /\ cont'[c] # cont[c]
    BY <1>a, <2>2, IngestedRow
  <2>3. CASE Inserted(c)
    BY <1>a, <1>c, <2>3, InsertedRow, TickMoves DEF Stamps, CallState
  <2>4. RowStep(c)
    BY RowMoves
  <2> QED BY <1>b, <1>1, <2>1, <2>2, <2>3, <2>4 DEF RowStep, Unsettled, Terminal, ContRow
<1>2. ASSUME NEW k \in Callers, call'[k].pc = "insert" PROVE call'[k].stamp < tick'
  BY <1>a, <1>c, <1>2, TickMoves DEF Stamps, CallState
<1>3. ASSUME NEW c \in Conts, ~Used(c)' PROVE cont'[c].rule = Manual
  <2>1. cont'[c] = cont[c]
    BY <1>b, <1>3, RowMoves DEF RowStep, Used, Terminal, ContRow
  <2> QED BY <1>3, <2>1 DEF Stamps, Used
<1> QED BY <1>1, <1>2, <1>3 DEF Stamps

----------------------------------------------------------------------------
(* Workers and their continuations *)

\* Who is engaged: a worker that was, in the same session, or one that has just chosen
\* the oldest of its session's pending continuations.
LEMMA EngagedIsOld ==
    ASSUME TypeOK, [Next]_vars, NEW w \in Workers, Engaged(w)'
    PROVE  \/ worker'[w] = worker[w]
           \/ /\ Engaged(w) /\ Holding(w)'
              /\ worker'[w].session = worker[w].session
              /\ worker'[w].cont = worker[w].cont
           \/ /\ worker'[w].pc = "claim"
              /\ worker'[w].session = worker[w].session
              /\ worker'[w].cont \in NextPendingForSession(worker[w].session)
              /\ ~cancelled
              /\ cont' = cont
<1>a. worker \in [Workers -> WorkerState] /\ worker[w].session \in Sessions
  BY DEF TypeOK, DispatchTypeOK, WorkerState
<1> USE DEF Engaged, Holding
<1>1. CASE worker' = worker
  BY <1>1
<1>2. CASE ScanSpawn
  BY <1>2, SpawnMove
<1>3. CASE LoopStep /\ ~ScanSpawn
  BY <1>1, <1>3, LoopKeepsWorkers
<1>4. ASSUME NEW v \in Workers, WorkerStep(v), v # w PROVE worker'[w] = worker[w]
  BY <1>4, WorkerMove
<1>5. CASE WorkerStep(w)
  <2>1. ASSUME NEW pc \in {"next", "notify", "exit", "bye"},
               worker' = [worker EXCEPT ![w] = At(worker[w].session, pc)]
        PROVE  FALSE
    BY <2>1, <1>a, AtType DEF WorkerPC
  <2>2. CASE WorkerNext(w)
    <3>1. PICK c \in NextPendingForSession(worker[w].session) :
            /\ worker' = [worker EXCEPT ![w].pc = "claim", ![w].cont = c]
            /\ ~cancelled
            /\ UNCHANGED storeVars
      BY <2>1, <2>2 DEF WorkerNext, Leave
    <3> QED BY <1>a, <3>1 DEF storeVars, WorkerState
  <2>3. CASE WorkerClaim(w)
    BY <2>1, <2>3, <1>a DEF WorkerClaim, Leave, Goto, WorkerState
  <2>4. CASE WorkerLookup(w) \/ WorkerMark(w) \/ WorkerResume(w) \/ WorkerUnmark(w)
    BY <2>4, <1>a DEF WorkerLookup, WorkerMark, WorkerResume, WorkerUnmark, Goto, WorkerState
  <2>5. CASE AgentEnds(w)
    <3>1. PICK ok \in BOOLEAN :
            worker' = [worker EXCEPT ![w].pc = "unmark", ![w].ok = ok, ![w].exit = TRUE]
      BY <2>5 DEF AgentEnds
    <3> QED BY <1>a, <2>5, <3>1 DEF AgentEnds, WorkerState
  <2>6. CASE WorkerRecord(w) \/ WorkerEmit(w)
    BY <2>1, <2>6, <1>a DEF WorkerRecord, WorkerEmit, Leave, Goto, WorkerState
  <2>7. CASE WorkerNotify(w) \/ WorkerExit(w) \/ WorkerBye(w)
    BY <2>1, <2>7, <1>a, NoWorkerType DEF WorkerNotify, WorkerExit, WorkerBye, Leave
  <2> QED BY <1>5, <2>2, <2>3, <2>4, <2>5, <2>6, <2>7 DEF WorkerStep
<1>6. CASE Gone
  BY <1>6, NoWorkerType DEF Gone
<1>7. CASE UNCHANGED vars
  BY <1>1, <1>7 DEF vars, dispatchVars
<1> QED BY <1>1, <1>2, <1>3, <1>4, <1>5, <1>6, <1>7, OthersKeepWorkers
        DEF Next, Dispatch, Process, Exit, Crash

\* A worker lets go of its continuation when it records the result, or with the process.
LEMMA HolderStays ==
    ASSUME TypeOK, [Next]_vars, NEW w \in Workers, Holding(w), ~WorkerRecord(w),
           loop' # "down"
    PROVE  Holding(w)' /\ worker'[w].cont = worker[w].cont
<1>a. worker \in [Workers -> WorkerState]
  BY DEF TypeOK, DispatchTypeOK
<1> USE DEF Holding
<1>1. CASE worker' = worker
  BY <1>1
<1>2. CASE ScanSpawn
  BY <1>2, SpawnMove
<1>3. CASE LoopStep /\ ~ScanSpawn
  BY <1>1, <1>3, LoopKeepsWorkers
<1>4. ASSUME NEW v \in Workers, WorkerStep(v), v # w PROVE worker'[w] = worker[w]
  BY <1>4, WorkerMove
<1>5. CASE WorkerStep(w)
  <2>1. CASE WorkerLookup(w) \/ WorkerMark(w) \/ WorkerResume(w) \/ WorkerUnmark(w)
    BY <2>1, <1>a DEF WorkerLookup, WorkerMark, WorkerResume, WorkerUnmark, Goto, WorkerState
  <2>2. CASE AgentEnds(w)
    <3>1. PICK ok \in BOOLEAN :
            worker' = [worker EXCEPT ![w].pc = "unmark", ![w].ok = ok, ![w].exit = TRUE]
      BY <2>2 DEF AgentEnds
    <3> QED BY <1>a, <3>1 DEF WorkerState
  <2> QED BY <1>5, <2>1, <2>2 DEF WorkerStep, WorkerNext, WorkerClaim, WorkerRecord, WorkerEmit,
             WorkerNotify, WorkerExit, WorkerBye
<1>6. ~Gone
  BY DEF Gone
<1>7. CASE UNCHANGED vars
  BY <1>1, <1>7 DEF vars, dispatchVars
<1> QED BY <1>1, <1>2, <1>3, <1>4, <1>5, <1>6, <1>7, OthersKeepWorkers
        DEF Next, Dispatch, Process, Exit, Crash

LEMMA ChosenNext ==
    ASSUME RowInv, Stamps, ChosenIsOldest, [Next]_vars
    PROVE  ChosenIsOldest'
<1>a. TypeOK /\ RowInv' /\ tick \in Nat
  BY RowInvNext DEF RowInv, WorkerInv, TypeOK, StoreTypeOK
<1>b. \A c \in Conts : cont[c] \in ContRow
  BY <1>a DEF TypeOK, StoreTypeOK
<1> SUFFICES ASSUME NEW w \in Workers, worker'[w].pc = "claim", NEW d \in Conts,
                    cont'[d].state = "pending", cont'[d].session = worker'[w].session,
                    cont'[d].rule \in Rules
             PROVE  cont'[worker'[w].cont].created <= cont'[d].created
  BY DEF ChosenIsOldest, PendingOf
<1>1. CASE worker'[w] = worker[w]
  <2> DEFINE c == worker[w].cont
  <2>1. c \in Conts
    BY <1>a DEF TypeOK, DispatchTypeOK, WorkerState
  <2>2. cont[c].state = "pending" /\ cont'[c].state = "pending"
    BY <1>1, <1>a DEF RowInv, RowOf
  <2>3. cont'[c] = cont[c]
    BY <1>b, <2>1, <2>2, RowMoves DEF RowStep, Terminal, ContRow
  <2>4. cont[c].created < tick /\ cont[c].created \in Nat
    BY <1>b, <2>1, <2>2 DEF Stamps, Unsettled, ContRow
  <2>5. loop # "boot"
    BY <1>1 DEF RowInv, BootIsEmpty
  <2>6. CASE cont'[d] = cont[d]
    BY <1>1, <2>3, <2>6 DEF ChosenIsOldest, PendingOf
  <2>7. CASE Ingested /\ cont'[d] # cont[d]
    <3>1. cont'[d].created = tick
      BY <1>a, <2>7, IngestedRow
    <3> QED BY <1>1, <1>a, <2>3, <2>4, <3>1
  <2>8. ~Inserted(d)
    BY InsertedRow, ManualAssumption
  <2>9. RowStep(d)
    BY RowMoves
  <2> QED BY <1>b, <2>5, <2>6, <2>7, <2>8, <2>9 DEF RowStep, Terminal, ContRow
<1>2. CASE /\ worker'[w].session = worker[w].session
           /\ worker'[w].cont \in NextPendingForSession(worker[w].session)
           /\ cont' = cont
  BY <1>2 DEF NextPendingForSession, PendingOf
<1> QED BY <1>a, <1>1, <1>2, EngagedIsOld DEF Engaged, Holding

LEMMA ProcessMoves ==
    ASSUME [Next]_vars, loop' \notin {"down", "boot"}
    PROVE  /\ loop \notin {"down", "boot"} \/ BootRecovery
           /\ cancelled => cancelled'
<1>1. CASE LoopStep
  BY <1>1 DEF LoopStep, BootRecovery, ScanRead, ScanSpawn, SelectWake, SelectTick,
     SelectDone, Drained
<1>2. ASSUME NEW w \in Workers, WorkerStep(w) PROVE loop' = loop /\ cancelled' = cancelled
  BY <1>2, WorkerIsAwake
<1>3. ASSUME NEW k \in Callers, CallStep(k) PROVE loop' = loop /\ cancelled' = cancelled
  BY <1>3 DEF CallStep, ContinuationRunStamp, ContinuationRunInsert, Notify, RuleAddArm, dispatchVars
<1>4. ASSUME Environment PROVE loop' = loop /\ cancelled' = cancelled
  BY <1>4 DEF Environment, Inject, ContinuationRunCheck, RuleAddSession, RuleRemove,
     SessionRegister, SweepOnce, ExpiresAt, LongPause, dispatchVars
<1>5. CASE Process
  BY <1>5 DEF Process, Boot, Shutdown, Exit, Crash, OrphanEnds, Gone
<1>6. CASE UNCHANGED vars
  BY <1>6 DEF vars, dispatchVars
<1> QED BY <1>1, <1>2, <1>3, <1>4, <1>5, <1>6 DEF Next, Dispatch

LEMMA HeldNext ==
    ASSUME QueueInv, [Next]_vars, errs' = 0
    PROVE  RunningIsHeld'
<1> USE DEF QueueInv
<1>a. RowInv /\ RowInv' /\ TypeOK /\ TypeOK' /\ WorkerExclusion
  BY RowInvNext DEF RowInv, WorkerInv
<1>b. errs = 0 /\ ~StoreFails /\ RunningIsHeld
  BY <1>a, ErrsGrow
<1>c. /\ \A c \in Conts : cont[c] \in ContRow
      /\ \A w \in Workers : worker[w] \in WorkerState /\ worker[w].cont \in Conts
      /\ worker \in [Workers -> WorkerState]
  BY <1>a DEF TypeOK, StoreTypeOK, DispatchTypeOK, WorkerState
<1> SUFFICES ASSUME loop' \notin {"down", "boot"}, NEW d \in Conts,
                    cont'[d].state = "running"
             PROVE  \/ \E w \in Workers : Holding(w)' /\ worker'[w].cont = d
                    \/ /\ cancelled'
                       /\ \A w \in Workers : Engaged(w)' =>
                            worker'[w].session # cont'[d].session
  BY DEF RunningIsHeld
<1>1. CASE BootRecovery
  <2>1. ResetRunningContinuations
    BY <1>1, <1>b DEF BootRecovery
  <2>2. cont'[d].state # "running"
    BY <1>c, <2>1 DEF ResetRunningContinuations, ContRow
  <2> QED BY <2>2
<1>2. ASSUME ~BootRecovery, cont[d].state # "running"
      PROVE  \E w \in Workers : Holding(w)' /\ worker'[w].cont = d
  <2>1. ~Ingested \/ cont'[d] = cont[d]
    BY <1>a, <1>2, IngestedRow
  <2>2. ~Inserted(d)
    BY InsertedRow
  <2>3. PICK w \in Workers : WorkerClaim(w) /\ Goto(w, "lookup") /\ worker[w].cont = d
    BY <1>2, <1>c, <2>1, <2>2, RowMoves DEF RowStep, Terminal
  <2> QED BY <1>c, <2>3 DEF Goto, Holding, WorkerState
<1>3. ASSUME ~BootRecovery, cont[d].state = "running", NEW w \in Workers,
             Holding(w), worker[w].cont = d
      PROVE  \/ \E v \in Workers : Holding(v)' /\ worker'[v].cont = d
             \/ /\ cancelled'
                /\ \A v \in Workers : Engaged(v)' => worker'[v].session # cont'[d].session
  <2>1. CASE ~WorkerRecord(w)
    BY <1>a, <1>3, <2>1, HolderStays
  <2>2. CASE WorkerRecord(w)
    <3>1. cancelled /\ Leave(w, "next") /\ UNCHANGED storeVars
      <4>1. ASSUME UpdateContinuationResult(d, Verdict(w), worker[w].exit) PROVE FALSE
        <5>1. cont'[d].state = Verdict(w)
          BY <1>a, <1>c, <4>1 DEF UpdateContinuationResult, TypeOK, StoreTypeOK, ContRow
        <5> QED BY <5>1 DEF Verdict
      <4> QED BY <1>b, <1>3, <2>2, <4>1 DEF WorkerRecord
    <3>2. cancelled' /\ cont' = cont
      BY <2>2, <3>1 DEF WorkerRecord, storeVars
    <3>3. worker'[w].pc = "next"
      BY <1>c, <3>1, AtType DEF Leave, WorkerState, WorkerPC
    <3>4. ASSUME NEW v \in Workers, Engaged(v)' PROVE worker'[v].session # cont[d].session
      <4>1. v # w
        BY <3>3, <3>4 DEF Engaged, Holding
      <4>2. worker'[v] = worker[v]
        BY <1>a, <2>2, <4>1, WorkerMove DEF WorkerStep
      <4>3. Live(v) /\ Live(w)
        BY <1>3, <3>4, <4>2 DEF Engaged, Holding, Live
      <4>4. cont[d].session = worker[w].session
        BY <1>a, <1>3 DEF RowInv, RowOf
      <4> QED BY <1>a, <4>1, <4>2, <4>3, <4>4 DEF WorkerExclusion
    <3> QED BY <3>2, <3>4
  <2> QED BY <2>1, <2>2
<1>4. ASSUME ~BootRecovery, cont[d].state = "running", cancelled,
             \A w \in Workers : Engaged(w) => worker[w].session # cont[d].session
      PROVE  /\ cancelled'
             /\ \A w \in Workers : Engaged(w)' => worker'[w].session # cont'[d].session
  <2>1. cancelled'
    BY <1>4, ProcessMoves
  <2>2. cont'[d].session = cont[d].session
    BY <1>c, <1>4, RowMoves DEF RowStep, Terminal, ContRow
  <2>3. ASSUME NEW w \in Workers, Engaged(w)'
        PROVE  Engaged(w) /\ worker'[w].session = worker[w].session
    BY <1>a, <1>4, <2>3, EngagedIsOld DEF Engaged, Holding
  <2> QED BY <1>4, <2>1, <2>2, <2>3
<1> QED BY <1>b, <1>1, <1>2, <1>3, <1>4, ProcessMoves DEF RunningIsHeld

LEMMA QueueInvInit == Init => QueueInv
<1> SUFFICES ASSUME Init PROVE QueueInv
  OBVIOUS
<1>1. \A w \in Workers : worker[w].pc = "idle"
  BY NoWorkerType DEF Init, DispatchInit
<1>2. \A c \in Conts : cont[c].state = "unused" /\ cont[c].rule = Manual
  BY DEF Init, StoreInit, NoCont
<1>3. \A k \in Callers : call[k].pc = "idle"
  BY DEF Init, NoCall
<1>4. Stamps
  BY <1>2, <1>3 DEF Stamps, Unsettled, Used
<1>5. ChosenIsOldest /\ RunningIsHeld
  BY <1>1, <1>2 DEF ChosenIsOldest, RunningIsHeld
<1> QED BY <1>4, <1>5, RowInvInit DEF QueueInv

LEMMA QueueInvNext == QueueInv /\ [Next]_vars => QueueInv'
BY RowInvNext, StampsNext, ChosenNext, HeldNext DEF QueueInv

----------------------------------------------------------------------------
(* Step simulation *)

\* What the abstract queue sees of a row.
LEMMA RowsAt ==
    \A c \in Conts : /\ Rows[c].state = cont[c].state
                     /\ Rows[c].session = cont[c].session
                     /\ Rows[c].created = cont[c].created
                     /\ Rows[c].byRule = (cont[c].rule # Manual)
BY DEF Rows

\* The abstract view of the table when one row changes its state and no other row changes.
LEMMA OneRowMoves ==
    ASSUME cont \in [Conts -> ContRow], NEW c \in Conts, NEW st,
           /\ cont'[c].state = st
           /\ cont'[c].session = cont[c].session
           /\ cont'[c].created = cont[c].created
           /\ cont'[c].rule = cont[c].rule,
           \A d \in Conts \ {c} : cont'[d] = cont[d]
    PROVE  Rows' = [Rows EXCEPT ![c].state = st]
BY DEF Rows

LEMMA EnqueueSimulation ==
    ASSUME QueueInv, \/ Ingested
                     \/ \E k \in Callers : ContinuationRunInsert(k) /\ ~StoreFails
    PROVE  Queue!Enqueue
<1>a. TypeOK /\ Stamps
  BY DEF QueueInv, RowInv, WorkerInv
<1> SUFFICES ASSUME NEW c \in Conts, Rows'[c] # Rows[c]
             PROVE  /\ Rows[c].state = "unused"
                    /\ Rows'[c].state \in {"pending", "failed"}
                    /\ Rows'[c].session \in Sessions
                    /\ Rows'[c].byRule =>
                         \A d \in Conts :
                           Rows[d].state \in {"pending", "running"} =>
                             Rows[d].created < Rows'[c].created
  BY DEF Queue!Enqueue
<1>b. cont'[c] # cont[c]
  BY DEF Rows
<1>c. /\ Rows'[c].state = cont'[c].state
      /\ Rows'[c].session = cont'[c].session
      /\ Rows'[c].created = cont'[c].created
      /\ Rows'[c].byRule = (cont'[c].rule # Manual)
  BY DEF Rows
<1>1. CASE Ingested
  <2>1. /\ cont[c].state = "unused"
        /\ cont'[c].state \in {"pending", "failed"}
        /\ cont'[c].session \in Sessions
        /\ cont'[c].created = tick
    BY <1>a, <1>b, <1>1, IngestedRow
  <2>2. \A d \in Conts : cont[d].state \in {"pending", "running"} => cont[d].created < tick
    BY <1>a DEF Stamps, Unsettled
  <2> QED BY <1>c, <2>1, <2>2, RowsAt
<1>2. ASSUME NEW k \in Callers, ContinuationRunInsert(k), ~StoreFails
      PROVE  /\ Rows[c].state = "unused"
             /\ Rows'[c].state \in {"pending", "failed"}
             /\ Rows'[c].session \in Sessions
             /\ ~Rows'[c].byRule
  <2>1. PICK d \in Unused : InsertManualContinuation(d, call[k].session, call[k].stamp)
    BY <1>2 DEF ContinuationRunInsert
  <2>2. c = d
    BY <1>a, <1>b, <2>1 DEF InsertManualContinuation, TypeOK, StoreTypeOK
  <2>3. cont'[c] = [state |-> "pending", session |-> call[k].session, rule |-> Manual,
                    created |-> call[k].stamp, updated |-> 0, exit |-> FALSE]
    BY <1>a, <2>1, <2>2 DEF InsertManualContinuation, TypeOK, StoreTypeOK
  <2>4. /\ cont'[c].state = "pending" /\ cont'[c].rule = Manual
        /\ cont'[c].session = call[k].session
    BY <2>3
  <2>5. call[k].session \in Sessions
    BY <1>a DEF TypeOK, CallState
  <2> QED BY <1>c, <2>2, <2>4, <2>5, RowsAt DEF Unused
<1> QED BY <1>1, <1>2

LEMMA ClaimSimulation ==
    ASSUME QueueInv, errs = 0, NEW w \in Workers, WorkerClaim(w),
           cont[worker[w].cont].state = "pending", ClaimContinuation(worker[w].cont)
    PROVE  Queue!Start(worker[w].cont)
<1> DEFINE c == worker[w].cont
<1>a. RowInv /\ TypeOK /\ Stamps /\ ChosenIsOldest /\ RunningIsHeld /\ WorkerExclusion
  BY DEF QueueInv, RowInv, WorkerInv
<1>b. c \in Conts /\ worker[w].pc = "claim" /\ cont \in [Conts -> ContRow]
  BY <1>a DEF TypeOK, DispatchTypeOK, WorkerState, StoreTypeOK, WorkerClaim
<1>c. cont[c].session = worker[w].session
  BY <1>a, <1>b DEF RowInv, RowOf
<1>d. loop \notin {"down", "boot"}
  BY <1>a, <1>b DEF RowInv, BootIsEmpty
<1>1. ASSUME NEW d \in Conts, d # c, cont[d].session = cont[c].session
      PROVE  cont[d].state # "running"
  <2> SUFFICES ASSUME cont[d].state = "running" PROVE FALSE
    OBVIOUS
  <2>1. CASE \E v \in Workers : Holding(v) /\ worker[v].cont = d
    <3>1. PICK v \in Workers : Holding(v) /\ worker[v].cont = d
      BY <2>1
    <3>2. worker[v].session = worker[w].session
      BY <1>a, <1>c, <1>1, <3>1 DEF RowInv, RowOf
    <3>3. Live(v) /\ Live(w) /\ v # w
      BY <1>b, <3>1 DEF Live, Holding
    <3> QED BY <1>a, <3>2, <3>3 DEF WorkerExclusion
  <2>2. CASE \A v \in Workers : Engaged(v) => worker[v].session # cont[d].session
    BY <1>b, <1>c, <1>1, <2>2 DEF Engaged
  <2> QED BY <1>a, <1>d, <2>1, <2>2 DEF RunningIsHeld
<1>2. ASSUME NEW d \in Conts, d # c, cont[d].session = cont[c].session,
             cont[d].rule # Manual, cont[d].created < cont[c].created
      PROVE  cont[d].state \in {"completed", "failed", "deleted"}
  <2>1. cont[d].state # "running"
    BY <1>1, <1>2
  <2>2. cont[d] \in ContRow /\ cont[c] \in ContRow
    BY <1>b
  <2>3. cont[d].state # "pending"
    <3>1. cont[d].rule \in Rules /\ cont[d].created \in Nat /\ cont[c].created \in Nat
      BY <1>2, <2>2 DEF ContRow, RuleIds
    <3> QED BY <1>a, <1>b, <1>c, <1>2, <3>1 DEF ChosenIsOldest, PendingOf
  <2>4. cont[d].state # "unused"
    BY <1>a, <1>2 DEF Stamps, Used
  <2> QED BY <2>1, <2>2, <2>3, <2>4 DEF ContRow, Terminal
<1>3. Rows' = [Rows EXCEPT ![c].state = "running"]
  <2>1. /\ cont'[c].state = "running"
        /\ cont'[c].session = cont[c].session
        /\ cont'[c].created = cont[c].created
        /\ cont'[c].rule = cont[c].rule
        /\ \A d \in Conts \ {c} : cont'[d] = cont[d]
    BY <1>b DEF ClaimContinuation, ContRow
  <2> HIDE DEF c
  <2> QED BY <1>b, <2>1, OneRowMoves
<1> QED BY <1>b, <1>1, <1>2, <1>3, RowsAt DEF Queue!Start, Queue!Settled

LEMMA RecordSimulation ==
    ASSUME QueueInv, NEW w \in Workers, worker[w].pc = "record",
           UpdateContinuationResult(worker[w].cont, Verdict(w), worker[w].exit)
    PROVE  Queue!Finish(worker[w].cont)
<1> DEFINE c == worker[w].cont
<1>a. RowInv /\ TypeOK
  BY DEF QueueInv, RowInv, WorkerInv
<1>b. c \in Conts /\ cont \in [Conts -> ContRow]
  BY <1>a DEF TypeOK, DispatchTypeOK, WorkerState, StoreTypeOK
<1>1. cont[c].state = "running"
  BY <1>a DEF RowInv, RowOf, Holding
<1>2. Rows' = [Rows EXCEPT ![c].state = Verdict(w)]
  <2>1. /\ cont'[c].state = Verdict(w)
        /\ cont'[c].session = cont[c].session
        /\ cont'[c].created = cont[c].created
        /\ cont'[c].rule = cont[c].rule
        /\ \A d \in Conts \ {c} : cont'[d] = cont[d]
    BY <1>b DEF UpdateContinuationResult, ContRow
  <2> HIDE DEF c
  <2> QED BY <1>b, <2>1, OneRowMoves
<1>3. Verdict(w) \in {"completed", "failed"}
  BY DEF Verdict
<1> HIDE DEF c
<1> QED BY <1>b, <1>1, <1>2, <1>3, RowsAt DEF Queue!Finish, c

LEMMA RecoverySimulation ==
    ASSUME TypeOK, ResetRunningContinuations
    PROVE  Queue!Requeue
<1>1. ASSUME NEW c \in Conts
      PROVE  Rows'[c] = IF Rows[c].state = "running"
                        THEN [Rows[c] EXCEPT !.state = "pending"] ELSE Rows[c]
  <2>a. cont[c] \in ContRow
    BY DEF TypeOK, StoreTypeOK
  <2>1. CASE cont[c].state = "running"
    <3>1. cont'[c] = [cont[c] EXCEPT !.state = "pending"]
      BY <2>1 DEF ResetRunningContinuations
    <3>2. /\ cont'[c].state = "pending"
          /\ cont'[c].session = cont[c].session
          /\ cont'[c].created = cont[c].created
          /\ cont'[c].rule = cont[c].rule
      BY <2>a, <3>1 DEF ContRow
    <3> QED BY <2>1, <3>2 DEF Rows
  <2>2. CASE cont[c].state # "running"
    BY <2>2 DEF ResetRunningContinuations, Rows
  <2> QED BY <2>1, <2>2
<1>2. Rows' = [c \in Conts |-> Rows'[c]]
  BY DEF Rows
<1> HIDE DEF Rows
<1> QED BY <1>1, <1>2 DEF Queue!Requeue

LEMMA SweepSimulation ==
    ASSUME Sweep
    PROVE  Queue!Forget
<1> SUFFICES ASSUME NEW c \in Conts
             PROVE  \/ Rows'[c] = Rows[c]
                    \/ Rows[c].state \in Queue!Settled /\ Rows'[c].state = "deleted"
  BY DEF Queue!Forget
<1>1. CASE Expendable(c)
  <2>1. cont'[c] = [NoCont EXCEPT !.state = "deleted", !.rule = cont[c].rule]
    BY <1>1 DEF Sweep
  <2>2. cont'[c].state = "deleted"
    BY <2>1 DEF NoCont
  <2>3. Rows'[c].state = "deleted"
    BY <2>2 DEF Rows
  <2> QED BY <1>1, <2>3, RowsAt DEF Expendable, Terminal, Queue!Settled
<1>2. CASE ~Expendable(c)
  BY <1>2 DEF Sweep, Rows
<1> QED BY <1>1, <1>2

\* Every step of the daemon is a step of the queue, or does not change what it sees.
LEMMA QueueSimulation ==
    ASSUME QueueInv, [Next]_vars, errs' = 0
    PROVE  [Queue!Next]_Rows
<1>a. TypeOK
  BY DEF QueueInv, RowInv, WorkerInv
<1>b. errs = 0 /\ ~StoreFails
  BY <1>a, ErrsGrow
<1> USE DEF Queue!Next
<1>1. CASE UNCHANGED cont
  BY <1>1 DEF Rows
<1>2. CASE Ingested
  BY <1>2, EnqueueSimulation
<1>3. CASE LoopStep
  <2>1. CASE BootRecovery
    BY <1>a, <1>b, <2>1, RecoverySimulation DEF BootRecovery
  <2> QED BY <1>1, <1>3, <2>1 DEF LoopStep, ScanRead, ScanSpawn, SelectWake, SelectTick,
             SelectDone, Drained, StoreFails, storeVars
<1>4. ASSUME NEW w \in Workers, WorkerStep(w) PROVE [Queue!Next]_Rows
  <2>a. worker[w].cont \in Conts
    BY <1>a DEF TypeOK, DispatchTypeOK, WorkerState
  <2>1. CASE WorkerClaim(w)
    BY <1>1, <1>b, <2>a, <2>1, ClaimSimulation DEF WorkerClaim, storeVars
  <2>2. CASE WorkerRecord(w)
    BY <1>1, <1>b, <2>a, <2>2, RecordSimulation DEF WorkerRecord, storeVars
  <2>3. CASE WorkerEmit(w)
    BY <1>2, <1>b, <2>3 DEF WorkerEmit, Ingested
  <2> QED BY <1>1, <1>4, <2>1, <2>2, <2>3
          DEF WorkerStep, WorkerNext, WorkerLookup, WorkerMark, WorkerResume, AgentEnds,
              WorkerUnmark, WorkerNotify, WorkerExit, WorkerBye, StoreFails, SetSessionState,
              storeVars
<1>5. ASSUME NEW k \in Callers, CallStep(k) PROVE [Queue!Next]_Rows
  <2>1. CASE ContinuationRunInsert(k)
    BY <1>b, <2>1, EnqueueSimulation
  <2> QED BY <1>1, <1>5, <2>1
          DEF CallStep, ContinuationRunStamp, Notify, RuleAddArm, AddRule, StoreFails, storeVars
<1>6. CASE Environment
  <2>1. CASE SweepOnce
    BY <1>1, <2>1, SweepSimulation DEF SweepOnce, StoreFails
  <2> QED BY <1>1, <1>2, <1>6, <2>1
          DEF Environment, Inject, ContinuationRunCheck, RuleAddSession, RuleRemove,
              SessionRegister, ExpiresAt, LongPause, RegisterSession, RemoveRule, Expire,
              StoreFails, storeVars, Ingested
<1>7. CASE Process
  BY <1>1, <1>7 DEF Process, Boot, Shutdown, Exit, Crash, OrphanEnds, Gone, storeVars
<1>8. CASE UNCHANGED vars
  BY <1>1, <1>8 DEF vars, storeVars
<1> QED BY <1>3, <1>4, <1>5, <1>6, <1>7, <1>8 DEF Next, Dispatch

\* As long as no store call fails, the daemon's continuations table implements the abstract
\* per-session queues, for every number of sessions, rules, workers and callers, over
\* crashes, shutdowns, recoveries and sweeps (scan, worker, execute, Ingest,
\* ClaimContinuation, ResetRunningContinuations, Sweep).
THEOREM QueueRefinement == Spec /\ [](errs = 0) => ImplementsQueue
<1>1. Init => Queue!Init
  BY RowsAt DEF Init, StoreInit, NoCont, Queue!Init
<1>2. QueueInv /\ [Next]_vars /\ (errs = 0)' => [Queue!Next]_Rows
  BY QueueSimulation
<1> QED BY <1>1, <1>2, QueueInvInit, QueueInvNext, PTL DEF Spec, ImplementsQueue, Queue!Spec

=============================================================================
