---------------------------- MODULE DaemonProofs ----------------------------
(***************************************************************************)
(* Theorems about the daemon, for every value of the constants.            *)
(***************************************************************************)
EXTENDS Daemon, TLAPS

----------------------------------------------------------------------------
(* Types *)

LEMMA NoSessionType == NoSession \in SessionRow
BY AgentsAssumption DEF NoSession, SessionRow, SessionState

LEMMA NoContType == NoCont \in ContRow
BY SessionsAssumption DEF NoCont, ContRow, RuleIds

LEMMA AtType ==
    ASSUME NEW s \in Sessions, NEW pc \in WorkerPC
    PROVE  At(s, pc) \in WorkerState /\ At(s, pc).pc = pc /\ At(s, pc).session = s
BY SessionsAssumption, ContsAssumption DEF At, NoWorker, WorkerState, WorkerPC

LEMMA NoWorkerType == NoWorker \in WorkerState /\ NoWorker.pc = "idle"
BY SessionsAssumption, ContsAssumption DEF NoWorker, WorkerState, WorkerPC

LEMMA NoCallType == NoCall \in CallState
BY SessionsAssumption DEF NoCall, CallState, RuleIds

\* The continuations an event gives birth to are of the matched rules.
LEMMA BirthsType ==
    ASSUME NEW ev, NEW born \in Births(ev)
    PROVE  /\ DOMAIN born \subseteq Unused
           /\ \A c \in DOMAIN born : born[c] \in Rules
BY DEF Births, Bijection, Injection, Surjection, Matched

LEMMA IngestType ==
    ASSUME StoreTypeOK, NEW ev, NEW born \in Births(ev), Ingest(ev, born)
    PROVE  StoreTypeOK'
<1>1. cont' \in [Conts -> ContRow]
  <2>1. ASSUME NEW r \in Rules PROVE Born(r, ev) \in ContRow
    BY RuleDefAssumption DEF Born, ContRow, Terminal, RuleIds, StoreTypeOK
  <2> QED BY <2>1, BirthsType DEF Ingest, StoreTypeOK
<1>2. rule' \in [Rules -> {"unadded", "armed", "consumed", "removed"}]
  BY DEF Ingest, ConsumeOneShots, StoreTypeOK
<1>3. results' \in [Conts -> Nat]
  BY DEF Ingest, InsertEvent, StoreTypeOK
<1> QED BY <1>1, <1>2, <1>3 DEF Ingest, StoreTypeOK

LEMMA StoreCallsType ==
    ASSUME StoreTypeOK
    PROVE  /\ StoreFails => StoreTypeOK'
           /\ \A s \in Sessions, a \in Agents, st \in Given \cup {"waiting"} :
                RegisterSession(s, a, st) => StoreTypeOK'
           /\ \A s \in Sessions, st \in {"waiting", "running"} :
                SetSessionState(s, st) => StoreTypeOK'
           /\ \A r \in Rules : AddRule(r) \/ RemoveRule(r) \/ Expire(r) => StoreTypeOK'
           /\ \A c \in Conts : ClaimContinuation(c) => StoreTypeOK'
           /\ \A c \in Conts, st \in Terminal, exit \in BOOLEAN :
                UpdateContinuationResult(c, st, exit) => StoreTypeOK'
           /\ ResetRunningContinuations => StoreTypeOK'
           /\ \A c \in Conts, s \in Sessions, stamp \in Nat :
                InsertManualContinuation(c, s, stamp) => StoreTypeOK'
           /\ Sweep => StoreTypeOK'
<1> USE DEF StoreTypeOK
<1>1. StoreFails => StoreTypeOK'
  BY DEF StoreFails
<1>2. ASSUME NEW s \in Sessions, NEW a \in Agents, NEW st \in Given \cup {"waiting"},
             RegisterSession(s, a, st)
      PROVE  StoreTypeOK'
  <2> DEFINE new == [state |-> IF Registered(s) THEN session[s].state ELSE st,
                     agent |-> a, updated |-> day]
  <2>1. new \in SessionRow
    BY DEF SessionRow, SessionState
  <2>2. session' = [session EXCEPT ![s] = new]
    BY <1>2 DEF RegisterSession
  <2>3. session' \in [Sessions -> SessionRow]
    <3> HIDE DEF new
    <3> QED BY <2>1, <2>2
  <2> QED BY <1>2, <2>3 DEF RegisterSession
<1>3. ASSUME NEW s \in Sessions, NEW st \in {"waiting", "running"}, SetSessionState(s, st)
      PROVE  StoreTypeOK'
  <2> DEFINE new == [session[s] EXCEPT !.state = st, !.updated = day]
  <2>1. new \in SessionRow
    BY DEF SessionRow, SessionState
  <2>2. session' = [session EXCEPT ![s] = new] \/ session' = session
    BY <1>3 DEF SetSessionState
  <2>3. session' \in [Sessions -> SessionRow]
    <3> HIDE DEF new
    <3> QED BY <2>1, <2>2
  <2> QED BY <1>3, <2>3 DEF SetSessionState
<1>4. ASSUME NEW r \in Rules, AddRule(r) \/ RemoveRule(r) \/ Expire(r) PROVE StoreTypeOK'
  BY <1>4 DEF AddRule, RemoveRule, Expire
<1>5. ASSUME NEW c \in Conts, ClaimContinuation(c) PROVE StoreTypeOK'
  BY <1>5 DEF ClaimContinuation, ContRow
<1>6. ASSUME NEW c \in Conts, NEW st \in Terminal, NEW exit \in BOOLEAN,
             UpdateContinuationResult(c, st, exit)
      PROVE  StoreTypeOK'
  <2> DEFINE done == [cont[c] EXCEPT !.state = st, !.exit = exit, !.updated = day]
  <2>1. done \in ContRow
    BY DEF ContRow, Terminal
  <2>2. cont' = [cont EXCEPT ![c] = done]
    BY <1>6 DEF UpdateContinuationResult
  <2>3. cont' \in [Conts -> ContRow]
    <3> HIDE DEF done
    <3> QED BY <2>1, <2>2
  <2> QED BY <1>6, <2>3 DEF UpdateContinuationResult
<1>7. ASSUME ResetRunningContinuations PROVE StoreTypeOK'
  BY <1>7 DEF ResetRunningContinuations, ContRow
<1>8. ASSUME NEW c \in Conts, NEW s \in Sessions, NEW stamp \in Nat,
             InsertManualContinuation(c, s, stamp)
      PROVE  StoreTypeOK'
  BY <1>8 DEF InsertManualContinuation, ContRow, RuleIds
<1>9. ASSUME Sweep PROVE StoreTypeOK'
  <2>1. session' \in [Sessions -> SessionRow]
    BY <1>9, NoSessionType DEF Sweep
  <2>2. cont' \in [Conts -> ContRow]
    BY <1>9, NoContType DEF Sweep, ContRow
  <2> QED BY <1>9, <2>1, <2>2 DEF Sweep
<1> QED BY <1>1, <1>2, <1>3, <1>4, <1>5, <1>6, <1>7, <1>8, <1>9

LEMMA LoopType ==
    ASSUME TypeOK, LoopStep
    PROVE  StoreTypeOK' /\ DispatchTypeOK'
<1> USE DEF TypeOK
<1>1. CASE BootRecovery
  BY <1>1, StoreCallsType DEF BootRecovery, DispatchTypeOK, LoopPC
<1>2. CASE ScanRead
  BY <1>2, StoreCallsType DEF ScanRead, DispatchTypeOK, LoopPC, PendingSessions,
     StoreTypeOK, storeVars
<1>3. CASE ScanSpawn
  <2>1. PICK W \in SUBSET Idle : \E f \in Bijection(W, ToSpawn) :
          /\ worker' = [w \in Workers |-> IF w \in W THEN At(f[w], "next") ELSE worker[w]]
          /\ workers' = workers \cup ToSpawn
    BY <1>3 DEF ScanSpawn
  <2>2. PICK f \in Bijection(W, ToSpawn) :
          /\ worker' = [w \in Workers |-> IF w \in W THEN At(f[w], "next") ELSE worker[w]]
          /\ workers' = workers \cup ToSpawn
    BY <2>1
  <2>3. \A w \in W : f[w] \in Sessions
    BY DEF Bijection, Injection, Surjection, ToSpawn, DispatchTypeOK
  <2>4. worker' \in [Workers -> WorkerState]
    BY <2>2, <2>3, AtType DEF WorkerPC, DispatchTypeOK
  <2>5. workers' \in SUBSET Sessions
    BY <2>2 DEF ToSpawn, DispatchTypeOK
  <2> QED BY <1>3, <2>4, <2>5 DEF ScanSpawn, DispatchTypeOK, LoopPC, StoreTypeOK, storeVars
<1>4. CASE SelectWake
  BY <1>4 DEF SelectWake, DispatchTypeOK, LoopPC, StoreTypeOK, storeVars
<1>5. CASE SelectTick
  BY <1>5 DEF SelectTick, DispatchTypeOK, LoopPC, StoreTypeOK, storeVars
<1>6. CASE SelectDone
  BY <1>6 DEF SelectDone, DispatchTypeOK, LoopPC, StoreTypeOK, storeVars
<1>7. CASE Drained
  BY <1>7 DEF Drained, DispatchTypeOK, LoopPC, StoreTypeOK, storeVars
<1> QED BY <1>1, <1>2, <1>3, <1>4, <1>5, <1>6, <1>7 DEF LoopStep

\* A worker step changes one goroutine, and keeps its session while it lives.
LEMMA WorkerMove ==
    ASSUME TypeOK, NEW w \in Workers, WorkerStep(w)
    PROVE  /\ worker' \in [Workers -> WorkerState]
           /\ \A v \in Workers \ {w} : worker'[v] = worker[v]
           /\ worker'[w].pc # "idle" => worker'[w].session = worker[w].session
<1> USE DEF TypeOK, DispatchTypeOK, Goto, Leave
<1>a. worker[w] \in WorkerState /\ worker[w].session \in Sessions
  BY DEF WorkerState
<1>1. CASE WorkerNext(w)
  <2>1. CASE worker' = [worker EXCEPT ![w] = At(worker[w].session, "exit")]
    BY <2>1, <1>a, AtType DEF WorkerPC
  <2>2. CASE \E c \in NextPendingForSession(worker[w].session) :
               worker' = [worker EXCEPT ![w].pc = "claim", ![w].cont = c]
    <3>1. PICK c \in NextPendingForSession(worker[w].session) :
            worker' = [worker EXCEPT ![w].pc = "claim", ![w].cont = c]
      BY <2>2
    <3>2. c \in Conts
      BY DEF NextPendingForSession, PendingOf
    <3> QED BY <3>1, <3>2, <1>a DEF WorkerState, WorkerPC
  <2> QED BY <1>1, <2>1, <2>2 DEF WorkerNext
<1>2. CASE WorkerClaim(w)
  <2>1. CASE worker' = [worker EXCEPT ![w].pc = "lookup"]
    BY <2>1, <1>a DEF WorkerState, WorkerPC
  <2>2. CASE worker' = [worker EXCEPT ![w] = At(worker[w].session, "next")]
    BY <2>2, <1>a, AtType DEF WorkerPC
  <2> QED BY <1>2, <2>1, <2>2 DEF WorkerClaim
<1>3. CASE WorkerLookup(w)
  BY <1>3, <1>a DEF WorkerLookup, WorkerState, WorkerPC
<1>4. CASE WorkerMark(w)
  BY <1>4, <1>a DEF WorkerMark, WorkerState, WorkerPC
<1>5. CASE WorkerResume(w)
  BY <1>5, <1>a DEF WorkerResume, WorkerState, WorkerPC
<1>6. CASE AgentEnds(w)
  <2>1. PICK ok \in BOOLEAN :
          worker' = [worker EXCEPT ![w].pc = "unmark", ![w].ok = ok, ![w].exit = TRUE]
    BY <1>6 DEF AgentEnds
  <2> QED BY <2>1, <1>a DEF WorkerState, WorkerPC
<1>7. CASE WorkerUnmark(w)
  BY <1>7, <1>a DEF WorkerUnmark, WorkerState, WorkerPC
<1>8. CASE WorkerRecord(w)
  <2>1. CASE worker' = [worker EXCEPT ![w].pc = "emit"]
    BY <2>1, <1>a DEF WorkerState, WorkerPC
  <2>2. CASE worker' = [worker EXCEPT ![w] = At(worker[w].session, "next")]
    BY <2>2, <1>a, AtType DEF WorkerPC
  <2> QED BY <1>8, <2>1, <2>2 DEF WorkerRecord
<1>9. CASE WorkerEmit(w)
  <2>1. \E pc \in {"next", "notify"} :
          worker' = [worker EXCEPT ![w] = At(worker[w].session, pc)]
    BY <1>9 DEF WorkerEmit
  <2> QED BY <2>1, <1>a, AtType DEF WorkerPC
<1>10. CASE WorkerNotify(w)
  BY <1>10, <1>a, AtType DEF WorkerNotify, WorkerPC
<1>11. CASE WorkerExit(w)
  BY <1>11, <1>a, AtType DEF WorkerExit, WorkerPC
<1>12. CASE WorkerBye(w)
  BY <1>12, <1>a, NoWorkerType DEF WorkerBye
<1> QED BY <1>1, <1>2, <1>3, <1>4, <1>5, <1>6, <1>7, <1>8, <1>9, <1>10, <1>11, <1>12
        DEF WorkerStep

LEMMA WorkerType ==
    ASSUME TypeOK, NEW w \in Workers, WorkerStep(w)
    PROVE  StoreTypeOK' /\ DispatchTypeOK'
<1> USE DEF TypeOK
<1>a. worker[w] \in WorkerState
  BY DEF DispatchTypeOK
<1>1. StoreTypeOK'
  <2>1. CASE UNCHANGED storeVars
    BY <2>1 DEF storeVars, StoreTypeOK
  <2>2. CASE StoreFails
    BY <2>2, StoreCallsType
  <2>3. CASE WorkerClaim(w)
    BY <2>1, <2>2, <2>3, <1>a, StoreCallsType DEF WorkerClaim, WorkerState
  <2>4. CASE WorkerMark(w)
    BY <2>2, <2>4, <1>a, StoreCallsType DEF WorkerMark, WorkerState
  <2>5. CASE WorkerUnmark(w)
    BY <2>2, <2>5, <1>a, StoreCallsType DEF WorkerUnmark, WorkerState
  <2>6. CASE WorkerRecord(w)
    <3>1. Verdict(w) \in Terminal
      BY DEF Verdict, Terminal
    <3> QED BY <2>1, <2>2, <2>6, <3>1, <1>a, StoreCallsType DEF WorkerRecord, WorkerState
  <2>7. CASE WorkerEmit(w)
    BY <2>2, <2>7, IngestType DEF WorkerEmit
  <2> QED BY <2>1, <2>2, <2>3, <2>4, <2>5, <2>6, <2>7
          DEF WorkerStep, WorkerNext, WorkerLookup, WorkerResume, AgentEnds, WorkerNotify,
              WorkerExit, WorkerBye
<1>2. loop' = loop /\ snapshot' = snapshot /\ cancelled' = cancelled /\ orphans' = orphans
  BY DEF WorkerStep, WorkerNext, WorkerClaim, WorkerLookup, WorkerMark, WorkerResume,
     AgentEnds, WorkerUnmark, WorkerRecord, WorkerEmit, WorkerNotify, WorkerExit, WorkerBye
<1>3. wake' \in BOOLEAN /\ workers' \in SUBSET Sessions
  BY DEF WorkerStep, WorkerNext, WorkerClaim, WorkerLookup, WorkerMark, WorkerResume,
     AgentEnds, WorkerUnmark, WorkerRecord, WorkerEmit, WorkerNotify, WorkerExit, WorkerBye,
     Wake, DispatchTypeOK
<1> QED BY <1>1, <1>2, <1>3, WorkerMove DEF DispatchTypeOK

LEMMA CallType ==
    ASSUME TypeOK, NEW k \in Callers, CallStep(k)
    PROVE  TypeOK'
<1> USE DEF TypeOK
<1>a. call[k] \in CallState
  OBVIOUS
<1>1. CASE ContinuationRunInsert(k)
  <2>1. StoreTypeOK'
    BY <1>1, <1>a, StoreCallsType DEF ContinuationRunInsert, Unused, CallState
  <2>2. call' \in [Callers -> CallState]
    BY <1>1, NoCallType DEF ContinuationRunInsert, CallState
  <2> QED BY <1>1, <2>1, <2>2 DEF ContinuationRunInsert, dispatchVars, DispatchTypeOK
<1>2. CASE Notify(k)
  BY <1>2, NoCallType DEF Notify, Wake, storeVars, StoreTypeOK, DispatchTypeOK
<1>3. CASE RuleAddArm(k)
  <2>1. StoreTypeOK'
    BY <1>3, StoreCallsType DEF RuleAddArm, AddRule, StoreTypeOK
  <2> QED BY <1>3, <2>1, NoCallType DEF RuleAddArm, dispatchVars, DispatchTypeOK
<1>4. CASE ContinuationRunStamp(k)
  <2>1. call' \in [Callers -> CallState]
    BY <1>4, <1>a DEF ContinuationRunStamp, CallState, StoreTypeOK
  <2> QED BY <1>4, <2>1 DEF ContinuationRunStamp, dispatchVars, DispatchTypeOK, StoreTypeOK
<1> QED BY <1>1, <1>2, <1>3, <1>4 DEF CallStep

\* The history of the registrations.
LEMMA StraysType ==
    ASSUME TypeOK, NEW s \in Sessions, NEW a, NEW st
    PROVE  Strays(s, a, st) \in SUBSET Sessions
BY DEF TypeOK, Strays

LEMMA EnvironmentType ==
    ASSUME TypeOK, Environment
    PROVE  TypeOK'
<1> USE DEF TypeOK
<1>1. ASSUME NEW k \in Callers, NEW ev \in Injected, Inject(k, ev) PROVE TypeOK'
  <2>1. StoreTypeOK'
    BY <1>1, IngestType, StoreCallsType DEF Inject
  <2>2. call' \in [Callers -> CallState]
    BY <1>1 DEF Inject, CallState
  <2> QED BY <1>1, <2>1, <2>2 DEF Inject, dispatchVars, DispatchTypeOK
<1>2. ASSUME NEW k \in Callers, NEW s \in Sessions, ContinuationRunCheck(k, s) PROVE TypeOK'
  <2>1. call' \in [Callers -> CallState]
    <3> DEFINE new == [NoCall EXCEPT !.pc = "stamp", !.session = s]
    <3>1. new \in CallState
      BY NoCallType DEF CallState
    <3>2. call' = [call EXCEPT ![k] = new] \/ call' = call
      BY <1>2 DEF ContinuationRunCheck
    <3> HIDE DEF new
    <3> QED BY <3>1, <3>2
  <2>2. StoreTypeOK'
    BY <1>2, StoreCallsType DEF ContinuationRunCheck, storeVars, StoreTypeOK
  <2> QED BY <1>2, <2>1, <2>2 DEF ContinuationRunCheck, dispatchVars, DispatchTypeOK
<1>3. ASSUME NEW k \in Callers, NEW r \in Rules, RuleAddSession(k, r) PROVE TypeOK'
  <2>1. StoreTypeOK'
    <3>1. CASE /\ RuleDef[r].agent # NoAgent
               /\ RegisterSession(RuleDef[r].session, RuleDef[r].agent, "waiting")
      BY <3>1, StoreCallsType, RuleDefAssumption
    <3>2. CASE UNCHANGED storeVars
      BY <3>2 DEF storeVars, StoreTypeOK
    <3>3. CASE StoreFails
      BY <3>3, StoreCallsType
    <3> QED BY <1>3, <3>1, <3>2, <3>3 DEF RuleAddSession
  <2>2. call' \in [Callers -> CallState]
    <3> DEFINE new == [NoCall EXCEPT !.pc = "arm", !.rule = r]
    <3>1. new \in CallState
      BY NoCallType DEF CallState, RuleIds
    <3>2. call' = [call EXCEPT ![k] = new] \/ call' = call
      BY <1>3 DEF RuleAddSession
    <3> HIDE DEF new
    <3> QED BY <3>1, <3>2
  <2>3. astray' \in SUBSET Sessions
    BY <1>3, StraysType, RuleDefAssumption DEF RuleAddSession
  <2> QED BY <1>3, <2>1, <2>2, <2>3 DEF RuleAddSession, dispatchVars, DispatchTypeOK
<1>4. ASSUME NEW k \in Callers, NEW r \in Rules, RuleRemove(k, r) PROVE TypeOK'
  BY <1>4, StoreCallsType DEF RuleRemove, dispatchVars, DispatchTypeOK
<1>5. ASSUME NEW k \in Callers, NEW s \in Sessions, NEW a \in Registrants,
             NEW st \in Given, SessionRegister(k, s, a, st)
      PROVE  TypeOK'
  <2>1. StoreTypeOK'
    BY <1>5, StoreCallsType, DaemonAssumption DEF SessionRegister
  <2>2. astray' \in SUBSET Sessions
    BY <1>5, StraysType DEF SessionRegister
  <2> QED BY <1>5, <2>1, <2>2 DEF SessionRegister, dispatchVars, DispatchTypeOK
<1>6. ASSUME SweepOnce PROVE TypeOK'
  BY <1>6, StoreCallsType DEF SweepOnce, dispatchVars, DispatchTypeOK
<1>7. ASSUME NEW r \in Rules, ExpiresAt(r) PROVE TypeOK'
  BY <1>7, StoreCallsType DEF ExpiresAt, dispatchVars, DispatchTypeOK
<1>8. ASSUME LongPause PROVE TypeOK'
  BY <1>8 DEF LongPause, dispatchVars, DispatchTypeOK, StoreTypeOK
<1> QED BY <1>1, <1>2, <1>3, <1>4, <1>5, <1>6, <1>7, <1>8 DEF Environment

LEMMA ProcessType ==
    ASSUME TypeOK, Process
    PROVE  TypeOK'
<1> USE DEF TypeOK, DispatchTypeOK
<1>1. ASSUME Gone PROVE StoreTypeOK' /\ DispatchTypeOK' /\ call' \in [Callers -> CallState]
                        /\ stimuli' \in Nat /\ astray' \in SUBSET Sessions
  BY <1>1, NoWorkerType, NoCallType DEF Gone, LoopPC, storeVars, StoreTypeOK
<1>2. CASE Boot
  BY <1>2 DEF Boot, LoopPC, storeVars, StoreTypeOK
<1>3. CASE Shutdown
  BY <1>3 DEF Shutdown, storeVars, StoreTypeOK
<1>4. CASE Exit
  BY <1>1, <1>4 DEF Exit
<1>5. CASE Crash
  BY <1>1, <1>5 DEF Crash
<1>6. ASSUME NEW s \in Sessions, OrphanEnds(s) PROVE TypeOK'
  BY <1>6 DEF OrphanEnds, storeVars, StoreTypeOK
<1> QED BY <1>2, <1>3, <1>4, <1>5, <1>6 DEF Process

LEMMA TypeInit == Init => TypeOK
<1> SUFFICES ASSUME Init PROVE TypeOK
  OBVIOUS
<1>1. StoreTypeOK
  BY NoSessionType, NoContType DEF Init, StoreInit, StoreTypeOK
<1>2. DispatchTypeOK
  BY NoWorkerType DEF Init, DispatchInit, DispatchTypeOK, LoopPC
<1> QED BY <1>1, <1>2, NoCallType DEF Init, TypeOK

LEMMA TypeStep == TypeOK /\ [Next]_vars => TypeOK'
<1> SUFFICES ASSUME TypeOK, [Next]_vars PROVE TypeOK'
  OBVIOUS
<1>1. CASE Dispatch
  <2>1. StoreTypeOK' /\ DispatchTypeOK'
    BY <1>1, LoopType, WorkerType DEF Dispatch
  <2> QED BY <1>1, <2>1 DEF Dispatch, TypeOK
<1>2. ASSUME NEW k \in Callers, CallStep(k) PROVE TypeOK'
  BY <1>2, CallType
<1>3. CASE Environment
  BY <1>3, EnvironmentType
<1>4. CASE Process
  BY <1>4, ProcessType
<1>5. CASE UNCHANGED vars
  BY <1>5 DEF vars, storeVars, dispatchVars, TypeOK, StoreTypeOK, DispatchTypeOK
<1> QED BY <1>1, <1>2, <1>3, <1>4, <1>5 DEF Next

\* TypeOK holds for every set of sessions, rules, workers and callers: no handler, worker
\* or recovery step writes a row, a pc or a stamp outside its domain.
THEOREM TypeCorrect == Spec => []TypeOK
BY TypeInit, TypeStep, PTL DEF Spec

----------------------------------------------------------------------------
(* One worker for each session *)

\* The workers map is exactly the sessions of the live workers.
Registry ==
    /\ \A w \in Workers : Live(w) => worker[w].session \in workers
    /\ \A s \in workers : \E w \in Workers : Live(w) /\ worker[w].session = s

WorkerInv == TypeOK /\ Registry /\ WorkerExclusion

\* Handlers, the sweeper and the process, but for its end, leave the workers alone.
LEMMA OthersKeepWorkers ==
    ASSUME \/ \E k \in Callers : CallStep(k)
           \/ Environment
           \/ Boot \/ Shutdown \/ \E s \in Sessions : OrphanEnds(s)
    PROVE  worker' = worker /\ workers' = workers
<1>1. CASE \E k \in Callers : CallStep(k)
  BY <1>1 DEF CallStep, ContinuationRunStamp, ContinuationRunInsert, Notify, RuleAddArm, dispatchVars
<1>2. CASE Environment
  BY <1>2 DEF Environment, Inject, ContinuationRunCheck, RuleAddSession, RuleRemove,
     SessionRegister, SweepOnce, ExpiresAt, LongPause, dispatchVars
<1>3. CASE Boot \/ Shutdown \/ \E s \in Sessions : OrphanEnds(s)
  BY <1>3 DEF Boot, Shutdown, OrphanEnds
<1> QED BY <1>1, <1>2, <1>3

\* So does the loop, but for the spawning half of a scan.
LEMMA LoopKeepsWorkers ==
    ASSUME LoopStep, ~ScanSpawn
    PROVE  worker' = worker /\ workers' = workers
BY DEF LoopStep, BootRecovery, ScanRead, SelectWake, SelectTick, SelectDone, Drained

\* What the spawning half of a scan does: idle goroutines are given, one each, the
\* sessions of the snapshot that are not in the map.
LEMMA SpawnMove ==
    ASSUME TypeOK, ScanSpawn
    PROVE  /\ workers' = workers \cup ToSpawn
           /\ \A w \in Workers :
                \/ worker'[w] = worker[w]
                \/ /\ worker[w].pc = "idle"
                   /\ worker'[w].pc = "next"
                   /\ worker'[w].session \in ToSpawn
           /\ \A v, w \in Workers :
                /\ worker'[v] # worker[v]
                /\ worker'[w] # worker[w]
                /\ worker'[v].session = worker'[w].session
                => v = w
           /\ \A s \in ToSpawn : \E w \in Workers :
                worker'[w].pc = "next" /\ worker'[w].session = s
<1>1. PICK W \in SUBSET Idle : \E f \in Bijection(W, ToSpawn) :
        /\ worker' = [w \in Workers |-> IF w \in W THEN At(f[w], "next") ELSE worker[w]]
        /\ workers' = workers \cup ToSpawn
  BY DEF ScanSpawn
<1>2. PICK f \in Bijection(W, ToSpawn) :
        /\ worker' = [w \in Workers |-> IF w \in W THEN At(f[w], "next") ELSE worker[w]]
        /\ workers' = workers \cup ToSpawn
  BY <1>1
<1>3. /\ \A w \in W : f[w] \in ToSpawn
      /\ \A v, w \in W : f[v] = f[w] => v = w
      /\ \A s \in ToSpawn : \E w \in W : f[w] = s
  BY DEF Bijection, Injection, Surjection, IsInjective
<1>4. ToSpawn \subseteq Sessions
  BY DEF ToSpawn, TypeOK, DispatchTypeOK
<1>5. \A w \in W : /\ w \in Workers
                   /\ worker[w].pc = "idle"
                   /\ worker'[w].pc = "next"
                   /\ worker'[w].session = f[w]
  BY <1>2, <1>3, <1>4, AtType DEF Idle, WorkerPC
<1>6. \A w \in Workers \ W : worker'[w] = worker[w]
  BY <1>2
<1> QED BY <1>2, <1>3, <1>5, <1>6

LEMMA WorkerInvSpawn ==
    ASSUME WorkerInv, ScanSpawn
    PROVE  Registry' /\ WorkerExclusion'
<1> USE SpawnMove DEF WorkerInv
<1>1. \A w \in Workers : Live(w) => worker'[w] = worker[w] /\ Live(w)'
  BY DEF Live
<1>2. \A w \in Workers : Live(w)' /\ ~Live(w) =>
        worker'[w] # worker[w] /\ worker'[w].session \in ToSpawn
  BY DEF Live
<1>3. ToSpawn \cap workers = {}
  BY DEF ToSpawn
<1>4. WorkerExclusion'
  BY <1>1, <1>2, <1>3 DEF WorkerExclusion, Registry
<1>5. \A w \in Workers : Live(w)' => worker'[w].session \in workers'
  BY <1>1, <1>2 DEF Registry
<1>6. \A s \in workers' : \E w \in Workers : Live(w)' /\ worker'[w].session = s
  <2> SUFFICES ASSUME NEW s \in workers'
               PROVE  \E w \in Workers : Live(w)' /\ worker'[w].session = s
    OBVIOUS
  <2>1. CASE s \in workers
    BY <2>1, <1>1 DEF Registry
  <2>2. CASE s \in ToSpawn
    BY <2>2 DEF Live
  <2> QED BY <2>1, <2>2
<1> QED BY <1>4, <1>5, <1>6 DEF Registry

\* A worker is live until it deregisters.
LEMMA StaysLive ==
    ASSUME TypeOK, NEW w \in Workers, WorkerStep(w), ~WorkerExit(w), ~WorkerBye(w)
    PROVE  Live(w)'
<1>a. worker[w].session \in Sessions
  BY DEF TypeOK, DispatchTypeOK, WorkerState
<1> USE DEF TypeOK, DispatchTypeOK, Live
<1>1. ASSUME NEW pc \in {"next", "notify", "exit"},
             worker' = [worker EXCEPT ![w] = At(worker[w].session, pc)]
      PROVE  Live(w)'
  BY <1>1, <1>a, AtType DEF WorkerPC
<1>2. CASE WorkerNext(w)
  BY <1>1, <1>2 DEF WorkerNext, Leave, WorkerState
<1>3. CASE WorkerClaim(w)
  BY <1>1, <1>3 DEF WorkerClaim, Leave, Goto, WorkerState
<1>4. CASE WorkerRecord(w)
  BY <1>1, <1>4 DEF WorkerRecord, Leave, Goto, WorkerState
<1>5. CASE WorkerEmit(w)
  BY <1>1, <1>5 DEF WorkerEmit, Leave
<1>6. CASE WorkerNotify(w)
  BY <1>1, <1>6 DEF WorkerNotify, Leave
<1>7. CASE WorkerLookup(w)
  BY <1>7 DEF WorkerLookup, Goto, WorkerState
<1>8. CASE WorkerMark(w) \/ WorkerUnmark(w)
  BY <1>8 DEF WorkerMark, WorkerUnmark, Goto, WorkerState
<1>9. CASE WorkerResume(w)
  BY <1>9 DEF WorkerResume, Goto, WorkerState
<1>10. CASE AgentEnds(w)
  <2>1. PICK ok \in BOOLEAN :
          worker' = [worker EXCEPT ![w].pc = "unmark", ![w].ok = ok, ![w].exit = TRUE]
    BY <1>10 DEF AgentEnds
  <2> QED BY <2>1 DEF WorkerState
<1> QED BY <1>2, <1>3, <1>4, <1>5, <1>6, <1>7, <1>8, <1>9, <1>10 DEF WorkerStep

LEMMA WorkerInvStep ==
    ASSUME WorkerInv, NEW w \in Workers, WorkerStep(w)
    PROVE  Registry' /\ WorkerExclusion'
<1> USE WorkerMove DEF WorkerInv
<1>a. worker[w].session \in Sessions
  BY DEF TypeOK, DispatchTypeOK, WorkerState
<1>b. \A v \in Workers \ {w} : worker'[v] = worker[v] /\ (Live(v)' <=> Live(v))
  BY DEF Live
<1>1. CASE WorkerExit(w)
  <2>1. Live(w) /\ ~Live(w)' /\ workers' = workers \ {worker[w].session}
    BY <1>1, <1>a, AtType DEF WorkerExit, Leave, Live, WorkerPC, TypeOK, DispatchTypeOK
  <2> QED BY <1>b, <2>1 DEF Registry, WorkerExclusion
<1>2. CASE WorkerBye(w)
  <2>1. ~Live(w) /\ ~Live(w)' /\ workers' = workers
    BY <1>2, NoWorkerType DEF WorkerBye, Live, TypeOK, DispatchTypeOK
  <2> QED BY <1>b, <2>1 DEF Registry, WorkerExclusion
<1>3. CASE ~WorkerExit(w) /\ ~WorkerBye(w)
  <2>1. workers' = workers /\ Live(w)
    BY <1>3 DEF WorkerStep, WorkerNext, WorkerClaim, WorkerLookup, WorkerMark, WorkerResume,
       AgentEnds, WorkerUnmark, WorkerRecord, WorkerEmit, WorkerNotify, Live
  <2>2. Live(w)' => worker'[w].session = worker[w].session
    BY DEF Live
  <2>3. Live(w)'
    BY <1>3, StaysLive
  <2> QED BY <1>b, <2>1, <2>2, <2>3 DEF Registry, WorkerExclusion
<1> QED BY <1>1, <1>2, <1>3

LEMMA WorkerInvInit == Init => WorkerInv
<1> SUFFICES ASSUME Init PROVE Registry /\ WorkerExclusion /\ TypeOK
  BY DEF WorkerInv
<1>1. \A w \in Workers : ~Live(w)
  BY NoWorkerType DEF Init, DispatchInit, Live
<1>2. TypeOK
  BY TypeInit
<1> QED BY <1>1, <1>2 DEF Init, DispatchInit, Registry, WorkerExclusion

LEMMA WorkerInvNext == WorkerInv /\ [Next]_vars => WorkerInv'
<1> SUFFICES ASSUME WorkerInv, [Next]_vars PROVE WorkerInv'
  OBVIOUS
<1>1. TypeOK'
  BY TypeStep DEF WorkerInv
<1>2. CASE worker' = worker /\ workers' = workers
  BY <1>1, <1>2 DEF WorkerInv, Registry, WorkerExclusion, Live
<1>3. CASE Dispatch
  <2>1. CASE ScanSpawn
    BY <1>1, <2>1, WorkerInvSpawn DEF WorkerInv
  <2>2. CASE LoopStep /\ ~ScanSpawn
    BY <1>2, <2>2, LoopKeepsWorkers
  <2>3. ASSUME NEW w \in Workers, WorkerStep(w) PROVE WorkerInv'
    BY <1>1, <2>3, WorkerInvStep DEF WorkerInv
  <2> QED BY <1>3, <2>1, <2>2, <2>3 DEF Dispatch
<1>4. CASE Gone
  <2>1. \A w \in Workers : ~Live(w)'
    BY <1>4, NoWorkerType DEF Gone, Live
  <2> QED BY <1>1, <1>4, <2>1 DEF Gone, WorkerInv, Registry, WorkerExclusion
<1>5. CASE UNCHANGED vars
  BY <1>2, <1>5 DEF vars, dispatchVars
<1> QED BY <1>2, <1>3, <1>4, <1>5, OthersKeepWorkers DEF Next, Process, Exit, Crash

\* No two live workers serve one session, whatever the numbers of sessions, workers and
\* callers, over crashes, shutdowns and failing store calls (scan, worker).
THEOREM Exclusion == Spec => []WorkerExclusion
<1>1. WorkerInv => WorkerExclusion
  BY DEF WorkerInv
<1> QED BY <1>1, WorkerInvInit, WorkerInvNext, PTL DEF Spec

----------------------------------------------------------------------------
(* A claimed row belongs to its worker *)

\* There are no workers before boot recovery.
BootIsEmpty == loop \in {"down", "boot"} => \A w \in Workers : worker[w].pc = "idle"

\* The row of a worker's continuation: in the worker's session, pending before the claim
\* and running from the claim to the result.
RowOf(w) ==
    /\ worker[w].pc = "claim" \/ Holding(w) =>
         cont[worker[w].cont].session = worker[w].session
    /\ worker[w].pc = "claim" => cont[worker[w].cont].state = "pending"
    /\ Holding(w) => cont[worker[w].cont].state = "running"

RowInv == WorkerInv /\ BootIsEmpty /\ \A w \in Workers : RowOf(w)

Unsettled(c) == cont[c].state \in {"pending", "running"}

\* An ingest writes new rows only.
LEMMA IngestKeepsRows ==
    ASSUME StoreTypeOK, NEW ev, NEW born \in Births(ev), Ingest(ev, born),
           NEW c \in Conts, Unsettled(c)
    PROVE  cont'[c] = cont[c]
<1>1. c \notin DOMAIN born
  BY BirthsType DEF Unsettled, Unused
<1> QED BY <1>1 DEF Ingest

\* Nothing but boot recovery and the workers touches an unsettled row.
LEMMA OthersKeepRows ==
    ASSUME TypeOK, NEW c \in Conts, Unsettled(c),
           \/ \E k \in Callers : CallStep(k)
           \/ Environment
           \/ Process
           \/ LoopStep /\ ~BootRecovery
    PROVE  cont'[c] = cont[c]
<1> USE DEF TypeOK
<1>1. ASSUME NEW k \in Callers, CallStep(k) PROVE cont'[c] = cont[c]
  BY <1>1 DEF CallStep, ContinuationRunStamp, ContinuationRunInsert, Notify, RuleAddArm, InsertManualContinuation,
     Unused, Unsettled, StoreTypeOK, StoreFails, AddRule, storeVars
<1>2. CASE Environment
  <2>1. ASSUME NEW k \in Callers, NEW ev \in Injected, Inject(k, ev) PROVE cont'[c] = cont[c]
    BY <2>1, IngestKeepsRows DEF Inject, StoreFails
  <2>2. CASE SweepOnce
    BY <2>2 DEF SweepOnce, Sweep, Expendable, Terminal, Unsettled, StoreFails
  <2> QED BY <1>2, <2>1, <2>2
          DEF Environment, ContinuationRunCheck, RuleAddSession, RuleRemove, SessionRegister,
              ExpiresAt, LongPause, RegisterSession, RemoveRule, Expire, StoreFails, storeVars
<1>3. CASE Process
  BY <1>3 DEF Process, Boot, Shutdown, Exit, Crash, OrphanEnds, Gone, storeVars
<1>4. CASE LoopStep /\ ~BootRecovery
  BY <1>4 DEF LoopStep, ScanRead, ScanSpawn, SelectWake, SelectTick, SelectDone, Drained,
     StoreFails, storeVars
<1> QED BY <1>1, <1>2, <1>3, <1>4

\* A worker touches the row of its continuation, when it claims it or records its result.
LEMMA WorkerKeepsRows ==
    ASSUME TypeOK, NEW w \in Workers, WorkerStep(w), NEW c \in Conts, Unsettled(c),
           c # worker[w].cont \/ worker[w].pc \notin {"claim", "record"}
    PROVE  cont'[c] = cont[c]
<1>1. CASE WorkerEmit(w)
  BY <1>1, IngestKeepsRows DEF WorkerEmit, StoreFails, TypeOK
<1>2. CASE WorkerClaim(w) \/ WorkerRecord(w)
  BY <1>2 DEF WorkerClaim, WorkerRecord, ClaimContinuation, UpdateContinuationResult,
     StoreFails, storeVars, TypeOK, StoreTypeOK
<1> QED BY <1>1, <1>2
        DEF WorkerStep, WorkerNext, WorkerLookup, WorkerMark, WorkerResume, AgentEnds,
            WorkerUnmark, WorkerNotify, WorkerExit, WorkerBye, StoreFails, SetSessionState,
            storeVars

\* A row that is kept stays the row of its worker.
LEMMA KeptRow ==
    ASSUME TypeOK, NEW w \in Workers, RowOf(w), worker'[w] = worker[w],
           worker[w].pc = "claim" \/ Holding(w) =>
             cont'[worker[w].cont] = cont[worker[w].cont]
    PROVE  RowOf(w)'
BY DEF RowOf, Holding

LEMMA RowInvWorker ==
    ASSUME RowInv, NEW w \in Workers, WorkerStep(w)
    PROVE  \A v \in Workers : RowOf(v)'
<1> USE DEF RowInv, WorkerInv
<1>a. worker[w] \in WorkerState /\ worker[w].cont \in Conts /\ worker[w].session \in Sessions
  BY DEF TypeOK, DispatchTypeOK, WorkerState
<1>b. worker \in [Workers -> WorkerState] /\ cont \in [Conts -> ContRow]
  BY DEF TypeOK, DispatchTypeOK, StoreTypeOK
<1>1. ASSUME NEW v \in Workers \ {w} PROVE RowOf(v)'
  <2>1. worker'[v] = worker[v]
    BY WorkerMove
  <2>2. ASSUME worker[v].pc = "claim" \/ Holding(v)
        PROVE  cont'[worker[v].cont] = cont[worker[v].cont]
    <3>1. worker[v].cont \in Conts /\ Unsettled(worker[v].cont)
      BY <2>2, <1>b DEF RowOf, Unsettled, WorkerState
    <3>2. ASSUME worker[w].pc \in {"claim", "record"} PROVE worker[v].cont # worker[w].cont
      <4>1. Live(v) /\ Live(w)
        BY <2>2, <3>2 DEF Live, Holding
      <4>2. worker[v].session # worker[w].session
        BY <4>1 DEF WorkerExclusion
      <4>3. /\ cont[worker[v].cont].session = worker[v].session
            /\ cont[worker[w].cont].session = worker[w].session
        BY <2>2, <3>2 DEF RowOf, Holding
      <4> QED BY <4>2, <4>3
    <3> QED BY <3>1, <3>2, WorkerKeepsRows
  <2> QED BY <2>1, <2>2, KeptRow
<1>2. RowOf(w)'
  <2>1. ASSUME worker'[w].pc # "claim", ~Holding(w)' PROVE RowOf(w)'
    BY <2>1 DEF RowOf
  <2>2. ASSUME NEW pc \in {"next", "notify", "exit", "bye"},
               worker' = [worker EXCEPT ![w] = At(worker[w].session, pc)]
        PROVE  RowOf(w)'
    <3>1. worker'[w].pc = pc
      BY <2>2, <1>a, <1>b, AtType DEF WorkerPC
    <3> QED BY <2>1, <3>1 DEF Holding
  <2>3. ASSUME Holding(w), worker[w].pc # "record", Holding(w)',
               worker'[w].cont = worker[w].cont, worker'[w].session = worker[w].session
        PROVE  RowOf(w)'
    <3>1. Unsettled(worker[w].cont) /\ worker[w].pc # "claim"
      BY <2>3 DEF RowOf, Unsettled, Holding
    <3>2. cont'[worker[w].cont] = cont[worker[w].cont]
      BY <2>3, <3>1, <1>a, WorkerKeepsRows
    <3> QED BY <2>3, <3>2 DEF RowOf, Holding
  <2>4. CASE WorkerNext(w)
    <3>1. CASE \E c \in NextPendingForSession(worker[w].session) :
                 worker' = [worker EXCEPT ![w].pc = "claim", ![w].cont = c]
      <4>1. PICK c \in NextPendingForSession(worker[w].session) :
              worker' = [worker EXCEPT ![w].pc = "claim", ![w].cont = c]
        BY <3>1
      <4>2. c \in Conts /\ cont[c].state = "pending" /\ cont[c].session = worker[w].session
        BY DEF NextPendingForSession, PendingOf
      <4>3. /\ worker'[w].pc = "claim" /\ worker'[w].cont = c
            /\ worker'[w].session = worker[w].session
        BY <4>1, <1>b DEF WorkerState
      <4>4. cont'[c] = cont[c]
        BY <2>4, <4>2, WorkerKeepsRows DEF WorkerNext, Unsettled
      <4> QED BY <4>2, <4>3, <4>4 DEF RowOf, Holding
    <3> QED BY <2>2, <2>4, <3>1 DEF WorkerNext, Leave
  <2>5. CASE WorkerClaim(w)
    <3>1. CASE ClaimContinuation(worker[w].cont) /\ Goto(w, "lookup")
      <4>1. cont'[worker[w].cont].state = "running"
            /\ cont'[worker[w].cont].session = cont[worker[w].cont].session
        BY <3>1, <1>a, <1>b DEF ClaimContinuation, ContRow
      <4>2. worker'[w].pc = "lookup" /\ worker'[w].cont = worker[w].cont
            /\ worker'[w].session = worker[w].session
        BY <3>1, <1>b DEF Goto, WorkerState
      <4> QED BY <2>5, <4>1, <4>2 DEF RowOf, Holding, WorkerClaim
    <3> QED BY <2>2, <2>5, <3>1 DEF WorkerClaim, Leave
  <2>6. CASE WorkerLookup(w)
    BY <2>3, <2>6, <1>b DEF WorkerLookup, Goto, Holding, WorkerState
  <2>7. CASE WorkerMark(w)
    BY <2>3, <2>7, <1>b DEF WorkerMark, Goto, Holding, WorkerState
  <2>8. CASE WorkerResume(w)
    BY <2>3, <2>8, <1>b DEF WorkerResume, Goto, Holding, WorkerState
  <2>9. CASE AgentEnds(w)
    <3>1. PICK ok \in BOOLEAN :
            worker' = [worker EXCEPT ![w].pc = "unmark", ![w].ok = ok, ![w].exit = TRUE]
      BY <2>9 DEF AgentEnds
    <3> QED BY <2>3, <2>9, <3>1, <1>b DEF AgentEnds, Holding, WorkerState
  <2>10. CASE WorkerUnmark(w)
    BY <2>3, <2>10, <1>b DEF WorkerUnmark, Goto, Holding, WorkerState
  <2>11. CASE WorkerRecord(w)
    <3>1. CASE Goto(w, "emit")
      BY <2>1, <3>1, <1>b DEF Goto, Holding, WorkerState
    <3> QED BY <2>2, <2>11, <3>1 DEF WorkerRecord, Leave
  <2>12. CASE WorkerEmit(w)
    BY <2>2, <2>12 DEF WorkerEmit, Leave
  <2>13. CASE WorkerNotify(w) \/ WorkerExit(w)
    BY <2>2, <2>13 DEF WorkerNotify, WorkerExit, Leave
  <2>14. CASE WorkerBye(w)
    BY <2>1, <2>14, <1>b, NoWorkerType DEF WorkerBye, Holding
  <2> QED BY <2>4, <2>5, <2>6, <2>7, <2>8, <2>9, <2>10, <2>11, <2>12, <2>13, <2>14
          DEF WorkerStep
<1> QED BY <1>1, <1>2

LEMMA WorkerIsAwake ==
    ASSUME NEW w \in Workers, WorkerStep(w)
    PROVE  worker[w].pc # "idle" /\ loop' = loop /\ snapshot' = snapshot
           /\ cancelled' = cancelled
BY DEF WorkerStep, WorkerNext, WorkerClaim, WorkerLookup, WorkerMark, WorkerResume,
   AgentEnds, WorkerUnmark, WorkerRecord, WorkerEmit, WorkerNotify, WorkerExit, WorkerBye

LEMMA RowInvInit == Init => RowInv
<1> SUFFICES ASSUME Init PROVE RowInv
  OBVIOUS
<1>1. \A w \in Workers : worker[w].pc = "idle"
  BY NoWorkerType DEF Init, DispatchInit
<1> QED BY <1>1, WorkerInvInit DEF RowInv, BootIsEmpty, RowOf, Holding

LEMMA RowInvNext == RowInv /\ [Next]_vars => RowInv'
<1> SUFFICES ASSUME RowInv, [Next]_vars PROVE RowInv'
  OBVIOUS
<1> USE DEF RowInv
<1>a. WorkerInv' /\ TypeOK
  BY WorkerInvNext DEF WorkerInv
<1>b. \A w \in Workers : worker[w].cont \in Conts
  BY <1>a DEF TypeOK, DispatchTypeOK, WorkerState
<1>1. CASE Dispatch
  <2>1. CASE BootRecovery
    <3>1. worker' = worker /\ loop = "boot"
      BY <2>1 DEF BootRecovery
    <3> QED BY <1>a, <3>1 DEF BootIsEmpty, RowOf, Holding
  <2>2. CASE ScanSpawn
    <3>1. loop' = "select"
      BY <2>2 DEF ScanSpawn
    <3>2. ASSUME NEW w \in Workers PROVE RowOf(w)'
      <4>1. CASE worker'[w] = worker[w]
        <5>1. UNCHANGED cont
          BY <2>2 DEF ScanSpawn, storeVars
        <5> QED BY <1>a, <4>1, <5>1, KeptRow
      <4>2. CASE worker'[w].pc = "next"
        BY <4>2 DEF RowOf, Holding
      <4> QED BY <1>a, <2>2, <4>1, <4>2, SpawnMove
    <3> QED BY <1>a, <3>1, <3>2 DEF BootIsEmpty
  <2>3. CASE LoopStep /\ ~BootRecovery /\ ~ScanSpawn
    <3>1. worker' = worker
      BY <2>3, LoopKeepsWorkers
    <3>2. loop' \notin {"down", "boot"}
      BY <2>3 DEF LoopStep, ScanRead, SelectWake, SelectTick, SelectDone, Drained
    <3>3. ASSUME NEW w \in Workers PROVE RowOf(w)'
      <4>1. worker[w].pc = "claim" \/ Holding(w) => Unsettled(worker[w].cont)
        BY DEF RowOf, Unsettled
      <4> QED BY <1>a, <1>b, <2>3, <3>1, <4>1, OthersKeepRows, KeptRow
    <3> QED BY <1>a, <3>2, <3>3 DEF BootIsEmpty
  <2>4. ASSUME NEW w \in Workers, WorkerStep(w) PROVE RowInv'
    <3>1. BootIsEmpty'
      BY <2>4, WorkerIsAwake DEF BootIsEmpty
    <3> QED BY <1>a, <2>4, <3>1, RowInvWorker
  <2> QED BY <1>1, <2>1, <2>2, <2>3, <2>4 DEF Dispatch
<1>2. CASE Gone
  <2>1. \A w \in Workers : worker'[w].pc = "idle"
    BY <1>2, NoWorkerType DEF Gone
  <2> QED BY <1>a, <2>1 DEF BootIsEmpty, RowOf, Holding
<1>3. ASSUME \/ \E k \in Callers : CallStep(k)
             \/ Environment
             \/ Boot \/ Shutdown \/ \E s \in Sessions : OrphanEnds(s)
      PROVE  RowInv'
  <2>1. worker' = worker
    BY <1>3, OthersKeepWorkers
  <2>2. ASSUME NEW w \in Workers PROVE RowOf(w)'
    <3>1. worker[w].pc = "claim" \/ Holding(w) => Unsettled(worker[w].cont)
      BY DEF RowOf, Unsettled
    <3> QED BY <1>a, <1>b, <1>3, <2>1, <3>1, OthersKeepRows, KeptRow DEF Process
  <2>3. loop' = loop \/ Boot
    BY <1>3 DEF CallStep, ContinuationRunStamp, ContinuationRunInsert, Notify, RuleAddArm, Environment, Inject,
       ContinuationRunCheck, RuleAddSession, RuleRemove, SessionRegister, SweepOnce,
       ExpiresAt, LongPause, Shutdown, OrphanEnds, dispatchVars
  <2>4. BootIsEmpty'
    BY <2>1, <2>3 DEF BootIsEmpty, Boot
  <2> QED BY <1>a, <2>2, <2>4
<1>4. CASE UNCHANGED vars
  <2>1. worker' = worker /\ cont' = cont /\ loop' = loop
    BY <1>4 DEF vars, dispatchVars, storeVars
  <2> QED BY <1>a, <2>1, KeptRow DEF BootIsEmpty
<1> QED BY <1>1, <1>2, <1>3, <1>4 DEF Next, Process, Exit, Crash

\* From the claim to the result a row is running and belongs to its worker alone, also
\* when the store fails or the daemon is restarted (ClaimContinuation,
\* UpdateContinuationResult, ResetRunningContinuations, Sweep).
THEOREM HeldRow == Spec => []HeldRowIsRunning
<1>1. RowInv => HeldRowIsRunning
  BY DEF RowInv, RowOf, HeldRowIsRunning
<1> QED BY <1>1, RowInvInit, RowInvNext, PTL DEF Spec

=============================================================================
