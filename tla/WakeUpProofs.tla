---------------------------- MODULE WakeUpProofs ----------------------------
(***************************************************************************)
(* No wake-up is lost: as long as no store call fails, pending work is     *)
(* covered at every moment by somebody who will look at it, without the    *)
(* safety tick.                                                            *)
(***************************************************************************)
EXTENDS DaemonProofs

WakeInv == WorkerInv /\ NoLostWakeUp

\* A step that makes nothing pending.
NoNewWork ==
    \A c \in Conts : cont'[c].state = "pending" =>
        cont[c].state = "pending" /\ cont'[c].session = cont[c].session

LEMMA NoNewSessions ==
    ASSUME NoNewWork
    PROVE  PendingSessions' \subseteq PendingSessions
BY DEF NoNewWork, PendingSessions, PendingOf

LEMMA ErrsGrow ==
    ASSUME TypeOK, [Next]_vars, errs' = 0
    PROVE  errs = 0 /\ ~StoreFails
<1> USE DEF TypeOK, StoreTypeOK
<1>1. StoreFails => errs' # 0
  BY DEF StoreFails
<1>2. CASE LoopStep
  BY <1>1, <1>2 DEF LoopStep, BootRecovery, ScanRead, ScanSpawn, SelectWake, SelectTick,
     SelectDone, Drained, ResetRunningContinuations, storeVars
<1>3. ASSUME NEW w \in Workers, WorkerStep(w) PROVE errs = 0
  BY <1>1, <1>3 DEF WorkerStep, WorkerNext, WorkerClaim, WorkerLookup, WorkerMark,
     WorkerResume, AgentEnds, WorkerUnmark, WorkerRecord, WorkerEmit, WorkerNotify,
     WorkerExit, WorkerBye, ClaimContinuation, SetSessionState, UpdateContinuationResult,
     Ingest, storeVars
<1>4. ASSUME NEW k \in Callers, CallStep(k) PROVE errs = 0
  BY <1>1, <1>4 DEF CallStep, ContinuationRunStamp, ContinuationRunInsert, Notify, RuleAddArm,
     InsertManualContinuation, AddRule, storeVars
<1>5. CASE Environment
  BY <1>1, <1>5 DEF Environment, Inject, ContinuationRunCheck, RuleAddSession, RuleRemove,
     SessionRegister, SweepOnce, ExpiresAt, LongPause, Ingest, RegisterSession, RemoveRule,
     Sweep, Expire, storeVars
<1>6. CASE Process
  BY <1>1, <1>6 DEF Process, Boot, Shutdown, Exit, Crash, OrphanEnds, Gone, storeVars
<1>7. CASE UNCHANGED vars
  BY <1>1, <1>7 DEF vars, storeVars
<1> QED BY <1>1, <1>2, <1>3, <1>4, <1>5, <1>6, <1>7 DEF Next, Dispatch

----------------------------------------------------------------------------
(* The loop *)

LEMMA WakeLoop ==
    ASSUME WakeInv, LoopStep, UNCHANGED call, errs = 0, ~StoreFails
    PROVE  \A s \in PendingSessions' : Covered(s)'
<1> USE DEF WakeInv
<1>1. CASE BootRecovery \/ SelectWake \/ SelectTick
  BY <1>1 DEF BootRecovery, SelectWake, SelectTick, Covered
<1>2. CASE ScanRead
  BY <1>2 DEF ScanRead, Covered, storeVars, PendingSessions, PendingOf
<1>3. CASE ScanSpawn
  <2>1. PendingSessions' = PendingSessions
    BY <1>3 DEF ScanSpawn, storeVars, PendingSessions, PendingOf
  <2>2. ASSUME NEW s \in PendingSessions PROVE Covered(s)'
    <3>1. \A w \in Workers : worker[w].pc # "idle" => worker'[w] = worker[w]
      BY <1>3, SpawnMove DEF WorkerInv
    <3>2. CASE s \in snapshot
      <4>1. s \in workers \/ s \in ToSpawn
        BY <3>2 DEF ToSpawn
      <4>2. CASE s \in workers
        BY <4>2, <3>1 DEF WorkerInv, Registry, Live, Covered
      <4>3. CASE s \in ToSpawn
        BY <1>3, <4>3, SpawnMove DEF WorkerInv, Live, Covered
      <4> QED BY <4>1, <4>2, <4>3
    <3>3. CASE \E w \in Workers : worker[w].pc \in {"notify", "bye"}
      BY <3>3, <3>1 DEF Covered
    <3>4. CASE \E w \in Workers : Live(w) /\ worker[w].session = s
      BY <3>4, <3>1 DEF Covered, Live
    <3>5. CASE wake \/ cancelled \/ \E k \in Callers : call[k].pc = "notify"
      BY <1>3, <3>5 DEF ScanSpawn, Covered
    <3> QED BY <1>3, <3>2, <3>3, <3>4, <3>5 DEF NoLostWakeUp, Covered, ScanSpawn
  <2> QED BY <2>1, <2>2
<1>4. CASE SelectDone
  BY <1>4 DEF SelectDone, Covered
<1>5. CASE Drained
  <2>1. PendingSessions' = PendingSessions
    BY <1>5 DEF Drained, storeVars, PendingSessions, PendingOf
  <2> QED BY <1>5, <2>1 DEF Drained, NoLostWakeUp, Covered, Live
<1> QED BY <1>1, <1>2, <1>3, <1>4, <1>5 DEF LoopStep

----------------------------------------------------------------------------
(* The workers *)

LEMMA WorkerMakesNoWork ==
    ASSUME TypeOK, NEW w \in Workers, WorkerStep(w), ~WorkerEmit(w)
    PROVE  NoNewWork
<1> USE DEF TypeOK, StoreTypeOK
<1>1. CASE UNCHANGED cont
  BY <1>1 DEF NoNewWork
<1>2. CASE WorkerClaim(w)
  BY <1>1, <1>2 DEF WorkerClaim, ClaimContinuation, StoreFails, storeVars, NoNewWork, ContRow
<1>3. CASE WorkerRecord(w)
  BY <1>1, <1>3 DEF WorkerRecord, UpdateContinuationResult, Verdict, StoreFails, storeVars,
     NoNewWork, ContRow
<1> QED BY <1>1, <1>2, <1>3
        DEF WorkerStep, WorkerNext, WorkerLookup, WorkerMark, WorkerResume, AgentEnds,
            WorkerUnmark, WorkerNotify, WorkerExit, WorkerBye, StoreFails, SetSessionState,
            storeVars

LEMMA WakeWorker ==
    ASSUME WakeInv, NEW w \in Workers, WorkerStep(w), UNCHANGED call, errs = 0, ~StoreFails
    PROVE  \A s \in PendingSessions' : Covered(s)'
<1> USE DEF WakeInv, WorkerInv
<1>a. worker[w].session \in Sessions /\ worker \in [Workers -> WorkerState]
  BY DEF TypeOK, DispatchTypeOK, WorkerState
<1>b. wake => wake'
  BY DEF WorkerStep, WorkerNext, WorkerClaim, WorkerLookup, WorkerMark, WorkerResume,
     AgentEnds, WorkerUnmark, WorkerRecord, WorkerEmit, WorkerNotify, WorkerExit, WorkerBye,
     Wake
<1>1. CASE WorkerNotify(w) \/ WorkerBye(w)
  BY <1>1 DEF WorkerNotify, WorkerBye, Wake, Covered
<1>2. CASE WorkerExit(w)
  <2>1. worker'[w].pc = "bye"
    BY <1>2, <1>a, AtType DEF WorkerExit, Leave, WorkerPC
  <2> QED BY <2>1 DEF Covered
<1>3. ASSUME ~WorkerNotify(w), ~WorkerBye(w), ~WorkerExit(w),
             NEW s \in PendingSessions, Covered(s)
      PROVE  Covered(s)'
  <2>1. worker[w].pc \notin {"notify", "bye"}
    BY <1>3 DEF WorkerStep, WorkerNext, WorkerClaim, WorkerLookup, WorkerMark, WorkerResume,
       AgentEnds, WorkerUnmark, WorkerRecord, WorkerEmit
  <2>2. \A v \in Workers \ {w} : worker'[v] = worker[v]
    BY WorkerMove
  <2>3. Live(w)' /\ worker'[w].session = worker[w].session
    BY <1>3, StaysLive, WorkerMove DEF Live
  <2>4. loop' = loop /\ snapshot' = snapshot /\ cancelled' = cancelled
    BY WorkerIsAwake
  <2>5. CASE \E v \in Workers : worker[v].pc \in {"notify", "bye"}
    BY <2>1, <2>2, <2>5 DEF Covered
  <2>6. CASE \E v \in Workers : Live(v) /\ worker[v].session = s
    BY <2>2, <2>3, <2>6 DEF Covered, Live
  <2> QED BY <1>b, <1>3, <2>4, <2>5, <2>6 DEF Covered
<1>4. CASE WorkerEmit(w)
  <2>1. PICK born \in Births(ResultEvent(w)) :
          /\ Ingest(ResultEvent(w), born)
          /\ Leave(w, IF DOMAIN born = {} THEN "next" ELSE "notify")
    BY <1>4 DEF WorkerEmit
  <2>2. CASE DOMAIN born = {}
    <3>1. NoNewWork
      BY <2>1, <2>2 DEF Ingest, NoNewWork, TypeOK, StoreTypeOK
    <3>2. ~WorkerNotify(w) /\ ~WorkerBye(w) /\ ~WorkerExit(w)
      BY <1>4 DEF WorkerEmit, WorkerNotify, WorkerBye, WorkerExit
    <3> QED BY <1>3, <3>1, <3>2, NoNewSessions DEF NoLostWakeUp
  <2>3. CASE DOMAIN born # {}
    <3>1. worker'[w].pc = "notify"
      BY <2>1, <2>3, <1>a, AtType DEF Leave, WorkerPC
    <3> QED BY <3>1 DEF Covered
  <2> QED BY <2>2, <2>3
<1>5. CASE ~WorkerEmit(w) /\ ~WorkerNotify(w) /\ ~WorkerBye(w) /\ ~WorkerExit(w)
  BY <1>3, <1>5, WorkerMakesNoWork, NoNewSessions DEF NoLostWakeUp
<1> QED BY <1>1, <1>2, <1>4, <1>5

----------------------------------------------------------------------------
(* Handlers, the sweeper and the process *)

\* A session stays covered when only a call, the store or cancelled changes.
LEMMA StaysCovered ==
    ASSUME NEW s, Covered(s), UNCHANGED <<loop, snapshot, worker>>,
           wake => wake', cancelled => cancelled',
           \A k \in Callers : call[k].pc = "notify" => call'[k].pc = "notify"
    PROVE  Covered(s)'
BY DEF Covered, Live

LEMMA WakeCall ==
    ASSUME WakeInv, NEW k \in Callers, CallStep(k), errs = 0, ~StoreFails
    PROVE  \A s \in PendingSessions' : Covered(s)'
<1> USE DEF WakeInv, WorkerInv, TypeOK
<1>1. CASE Notify(k)
  BY <1>1 DEF Notify, Wake, Covered
<1>2. CASE ContinuationRunInsert(k)
  <2>1. call'[k].pc = "notify"
    BY <1>2, NoCallType DEF ContinuationRunInsert, CallState
  <2> QED BY <2>1 DEF Covered
<1>3. CASE RuleAddArm(k)
  <2>1. PendingSessions' = PendingSessions
    BY <1>3 DEF RuleAddArm, AddRule, PendingSessions, PendingOf
  <2>2. \A j \in Callers : call[j].pc = "notify" => call'[j].pc = "notify"
    BY <1>3 DEF RuleAddArm
  <2>3. UNCHANGED <<loop, snapshot, worker, wake, cancelled>>
    BY <1>3 DEF RuleAddArm, dispatchVars
  <2> QED BY <2>1, <2>2, <2>3, StaysCovered DEF NoLostWakeUp
<1>4. CASE ContinuationRunStamp(k)
  <2>1. PendingSessions' = PendingSessions
    BY <1>4 DEF ContinuationRunStamp, PendingSessions, PendingOf
  <2>2. \A j \in Callers : call[j].pc = "notify" => call'[j].pc = "notify"
    BY <1>4 DEF ContinuationRunStamp
  <2>3. UNCHANGED <<loop, snapshot, worker, wake, cancelled>>
    BY <1>4 DEF ContinuationRunStamp, dispatchVars
  <2> QED BY <2>1, <2>2, <2>3, StaysCovered DEF NoLostWakeUp
<1> QED BY <1>1, <1>2, <1>3, <1>4 DEF CallStep

LEMMA WakeEnvironment ==
    ASSUME WakeInv, Environment, errs = 0, ~StoreFails
    PROVE  \A s \in PendingSessions' : Covered(s)'
<1> USE DEF WakeInv, WorkerInv, TypeOK
<1>a. UNCHANGED <<loop, snapshot, worker, wake, cancelled>>
  BY DEF Environment, Inject, ContinuationRunCheck, RuleAddSession, RuleRemove,
     SessionRegister, SweepOnce, ExpiresAt, LongPause, dispatchVars
<1>b. NoCall.pc = "idle"
  BY DEF NoCall
<1>c. \A k \in Callers : call[k].pc = "notify" => call'[k].pc = "notify"
  BY <1>b DEF Environment, Inject, ContinuationRunCheck, RuleAddSession, RuleRemove,
     SessionRegister, SweepOnce, ExpiresAt, LongPause, Serving
<1>1. ASSUME NoNewWork PROVE \A s \in PendingSessions' : Covered(s)'
  BY <1>1, <1>a, <1>c, NoNewSessions, StaysCovered DEF NoLostWakeUp
<1>2. ASSUME NEW k \in Callers, NEW ev \in Injected, Inject(k, ev)
      PROVE  \A s \in PendingSessions' : Covered(s)'
  <2>1. PICK born \in Births(ev) :
          /\ Ingest(ev, born)
          /\ call' = IF DOMAIN born = {} THEN call ELSE [call EXCEPT ![k].pc = "notify"]
    BY <1>2 DEF Inject
  <2>2. CASE DOMAIN born = {}
    BY <1>1, <2>1, <2>2 DEF Ingest, NoNewWork, StoreTypeOK
  <2>3. CASE DOMAIN born # {}
    <3>1. call'[k].pc = "notify"
      BY <2>1, <2>3 DEF CallState
    <3> QED BY <3>1 DEF Covered
  <2> QED BY <2>2, <2>3
<1>3. CASE SweepOnce
  BY <1>1, <1>3 DEF SweepOnce, Sweep, NoNewWork, NoCont
<1>4. CASE UNCHANGED cont
  BY <1>1, <1>4 DEF NoNewWork
<1> QED BY <1>2, <1>3, <1>4
        DEF Environment, ContinuationRunCheck, RuleAddSession, RuleRemove, SessionRegister,
            ExpiresAt, LongPause, RegisterSession, RemoveRule, Expire, storeVars

LEMMA WakeProcess ==
    ASSUME WakeInv, Process, errs = 0
    PROVE  \A s \in PendingSessions' : Covered(s)'
<1>1. CASE Boot \/ Shutdown \/ Exit \/ Crash
  BY <1>1 DEF Boot, Shutdown, Exit, Crash, Gone, Covered
<1>2. ASSUME NEW t \in Sessions, OrphanEnds(t) PROVE \A s \in PendingSessions' : Covered(s)'
  <2>1. PendingSessions' = PendingSessions
    BY <1>2 DEF OrphanEnds, storeVars, PendingSessions, PendingOf
  <2>2. UNCHANGED <<loop, snapshot, worker, wake, cancelled, call>>
    BY <1>2 DEF OrphanEnds
  <2> QED BY <2>1, <2>2, StaysCovered DEF WakeInv, NoLostWakeUp
<1> QED BY <1>1, <1>2 DEF Process

\* No wake-up is lost, for any number of sessions, rules, workers and callers: while no
\* store call has failed, pending work always has somebody who will look at it, without
\* the safety tick (Wake, scan, the worker's deferred wake, Engine.Notify).
THEOREM WakeUps == Spec => []NoLostWakeUp
<1>1. Init => WakeInv
  <2>1. Init => NoLostWakeUp
    BY DEF Init, DispatchInit, NoLostWakeUp, Covered
  <2> QED BY <2>1, WorkerInvInit DEF WakeInv
<1>2. WakeInv /\ [Next]_vars => WakeInv'
  <2> SUFFICES ASSUME WakeInv, [Next]_vars, errs' = 0
               PROVE  \A s \in PendingSessions' : Covered(s)'
    BY WorkerInvNext DEF WakeInv, NoLostWakeUp
  <2>a. errs = 0 /\ ~StoreFails
    BY ErrsGrow DEF WakeInv, WorkerInv
  <2>1. CASE Dispatch
    BY <2>a, <2>1, WakeLoop, WakeWorker DEF Dispatch
  <2>2. ASSUME NEW k \in Callers, CallStep(k) PROVE \A s \in PendingSessions' : Covered(s)'
    BY <2>a, <2>2, WakeCall
  <2>3. CASE Environment
    BY <2>a, <2>3, WakeEnvironment
  <2>4. CASE Process
    BY <2>a, <2>4, WakeProcess
  <2>5. CASE UNCHANGED vars
    <3>1. PendingSessions' = PendingSessions
      BY <2>5 DEF vars, storeVars, PendingSessions, PendingOf
    <3>2. UNCHANGED <<loop, snapshot, worker, wake, cancelled, call>>
      BY <2>5 DEF vars, dispatchVars
    <3> QED BY <2>a, <3>1, <3>2, StaysCovered DEF WakeInv, NoLostWakeUp
  <2> QED BY <2>1, <2>2, <2>3, <2>4, <2>5 DEF Next
<1>3. WakeInv => NoLostWakeUp
  BY DEF WakeInv
<1> QED BY <1>1, <1>2, <1>3, PTL DEF Spec
=============================================================================
