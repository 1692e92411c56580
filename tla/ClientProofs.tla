---------------------------- MODULE ClientProofs ----------------------------
(***************************************************************************)
(* What the clients rely on, for any number of processes, streams and      *)
(* events and files of any size: the start and the end of the daemon,      *)
(* `runtimepulse apply` against a daemon that may stop, and the live event *)
(* stream.                                                                 *)
(***************************************************************************)
EXTENDS Lifecycle, Apply, EventStream, Integers, SequenceTheorems, TLAPS

----------------------------------------------------------------------------
(* The life of the daemon: one process at a time has the lock, and its socket file. *)

\* The socket file is the process's own from bind to the close of the listener.
OwnPath ==
    \A p \in Procs : proc[p] \in {"listen", "chmod", "serve", "hangup"} => path = p

\* What is needed to keep both: only the holder of the lock touches the socket file, and
\* the holder of the lock is the only process beyond acquireLock.
LifeInv == LifeTypeOK /\ OneDaemon /\ OwnPath

\* The steps that change nothing but where the process is, and do not come to have the
\* lock or the socket: store.Open, the probe, listen, chmod, a signal, the drain.
LEMMA LocalKeeps ==
    ASSUME LifeInv, NEW p \in Procs,
           OpenStore(p) \/ ProbeSocket(p) \/ Listen(p) \/ ChmodSocket(p) \/ Signal(p) \/ Drain(p)
    PROVE  LifeInv'
<1> USE LifeAssumption DEF LifeInv, LifeTypeOK, OneDaemon, OwnPath, ProcStates, Step, Fault
<1>1. CASE OpenStore(p)
  BY <1>1 DEF OpenStore
<1>2. CASE ProbeSocket(p)
  BY <1>2 DEF ProbeSocket
<1>3. CASE Listen(p)
  BY <1>3 DEF Listen
<1>4. CASE ChmodSocket(p)
  BY <1>4 DEF ChmodSocket
<1>5. CASE Signal(p)
  BY <1>5 DEF Signal
<1>6. CASE Drain(p)
  BY <1>6 DEF Drain
<1> QED
  BY <1>1, <1>2, <1>3, <1>4, <1>5, <1>6

\* The steps that change the lock or the socket file.
LEMMA SharedKeeps ==
    ASSUME LifeInv, NEW p \in Procs,
           \/ AcquireLock(p) \/ UnlinkStale(p) \/ Bind(p) \/ HangUp(p)
           \/ RemoveSocket(p) \/ ReleaseLock(p) \/ Die(p)
    PROVE  LifeInv'
<1> USE LifeAssumption DEF LifeInv, LifeTypeOK, OneDaemon, OwnPath, ProcStates, Step, Fault
<1>1. CASE AcquireLock(p)
  BY <1>1 DEF AcquireLock
<1>2. CASE UnlinkStale(p)
  BY <1>2 DEF UnlinkStale
<1>3. CASE Bind(p)
  BY <1>3 DEF Bind
<1>4. CASE HangUp(p)
  BY <1>4 DEF HangUp
<1>5. CASE RemoveSocket(p)
  BY <1>5 DEF RemoveSocket
<1>6. CASE ReleaseLock(p)
  BY <1>6 DEF ReleaseLock
<1>7. CASE Die(p)
  BY <1>7 DEF Die
<1> QED
  BY <1>1, <1>2, <1>3, <1>4, <1>5, <1>6, <1>7

\* A client touches a process only to start it, before the lock.
LEMMA CommandKeeps ==
    ASSUME LifeInv, NEW c \in Commands, CommandStep(c) \/ Ensure(c) \/ Finish(c)
    PROVE  LifeInv'
<1> USE LifeAssumption DEF LifeInv, LifeTypeOK, OneDaemon, OwnPath, ProcStates, Goto, Fault
<1>1. CASE Ping(c)
  BY <1>1 DEF Ping
<1>2. CASE NoAnswer(c)
  BY <1>2 DEF NoAnswer
<1>3. CASE StartDaemon(c)
  BY <1>3 DEF StartDaemon, Step
<1>4. CASE GiveUp(c) \/ Ensure(c) \/ Finish(c)
  BY <1>4 DEF GiveUp, Ensure, Finish
<1> QED
  BY <1>1, <1>2, <1>3, <1>4 DEF CommandStep

LEMMA LifeInitInv == LifeInit => LifeInv
  BY LifeAssumption DEF LifeInit, LifeInv, LifeTypeOK, OneDaemon, OwnPath, ProcStates

LEMMA LifeStep == LifeInv /\ [LifeNext]_lifeVars => LifeInv'
<1> SUFFICES ASSUME LifeInv, [LifeNext]_lifeVars PROVE LifeInv'
  OBVIOUS
<1>1. ASSUME NEW p \in Procs, ProcStep(p) \/ Signal(p) \/ Die(p)
      PROVE  LifeInv'
  BY <1>1, LocalKeeps, SharedKeeps DEF ProcStep
<1>2. ASSUME NEW c \in Commands, CommandStep(c) \/ Ensure(c) \/ Finish(c)
      PROVE  LifeInv'
  BY <1>2, CommandKeeps
<1>3. CASE UNCHANGED lifeVars
  BY <1>3 DEF lifeVars, LifeInv, LifeTypeOK, OneDaemon, OwnPath
<1> QED BY <1>1, <1>2, <1>3 DEF LifeNext

LEMMA LifeInvariant == LifeSpec => []LifeInv
  BY LifeInitInv, LifeStep, PTL DEF LifeSpec

\* However many clients start a daemon while others start, drain, fail or die, one process
\* at a time is beyond acquireLock, the one that has the lock (New, Close).
THEOREM OneDaemonAtATime == LifeSpec => []OneDaemon
<1>1. LifeInv => OneDaemon
  BY DEF LifeInv
<1> QED
  BY <1>1, LifeInvariant, PTL

\* A daemon that serves has its socket file at the path: no clean-up and no stale-socket
\* check of another process takes it away (removeStaleSocket, Close).
THEOREM ServedReachable == LifeSpec => []ServedIsReachable
<1>1. LifeInv => ServedIsReachable
  BY DEF LifeInv, OwnPath, ServedIsReachable
<1> QED
  BY <1>1, LifeInvariant, PTL

----------------------------------------------------------------------------
(* Apply.  A rule that is in the store is one that apply is about to learn of, knows, or *)
(* can no longer know; that needs what the daemon has answered for each step.            *)

\* Before the first step nothing was asked of the daemon, or parsed; after that the file
\* is one that Parse lets through.
ParsedFirst ==
    /\ applying \in {"parse", "refused"} => inflight = {} /\ step = 1 /\ created = <<>>
    /\ applying \notin {"parse", "refused"} => Parse(file)

\* Steps are sent in order, each of them once.
SentInOrder ==
    /\ applying \in {"add", "wait"} => step \in Steps
    /\ applying = "applied" => step = Len(file.steps) + 1
    /\ applying = "failed" => created = <<>>
    /\ \A i \in Steps : i < step => answer[i] = "ok"
    /\ \A i \in Steps : i > step \/ (i = step /\ applying \in {"parse", "add", "refused"}) =>
          answer[i] = "none" /\ i \notin inflight

\* What the daemon works on has no answer yet, and apply waits for it or has given up.
InFlight ==
    \A i \in inflight : /\ answer[i] = "none"
                        /\ (i = step /\ applying = "wait") \/ i \in adrift

\* The daemon's answers are true.
AnswersAreTrue == \A i \in Steps : answer[i] = "ok" <=> row[i] # "none"

\* Apply knows the rules that are in the store, or will.
RulesAreKnown ==
    /\ \A n \in 1 .. Len(created) : answer[created[n]] = "ok"
    /\ \A i \in Steps : row[i] \in {"armed", "fired"} =>
          \/ i \in adrift
          \/ \E n \in 1 .. Len(created) : created[n] = i
          \/ i = step /\ applying = "wait"

ApplyInv ==
    ApplyTypeOK /\ ParsedFirst /\ SentInOrder /\ InFlight /\ AnswersAreTrue /\ RulesAreKnown

LEMMA ApplyInitInv == ApplyInit => ApplyInv
<1> SUFFICES ASSUME ApplyInit PROVE ApplyInv
  OBVIOUS
<1>1. Len(file.steps) \in Nat
  BY ApplyAssumption DEF ApplyInit
<1>2. ApplyTypeOK
  BY <1>1 DEF ApplyInit, ApplyTypeOK, Steps
<1> QED BY <1>1, <1>2 DEF ApplyInit, ApplyInv, ParsedFirst, SentInOrder, InFlight, AnswersAreTrue,
                          RulesAreKnown, Steps

\* The file is read once, so that its steps stay what they are.
LEMMA SameSteps == ApplyNext => file' = file /\ Steps' = Steps
BY DEF ApplyNext, ParseFile, SendAdd, ReadAnswer, NoReply, Rollback, RolledBack, RuleAdded,
       RuleRefused, RuleFires, DaemonStops, KeepDaemonSide, KeepApply, Steps

LEMMA StepsAreNumbers == ApplyTypeOK => Len(file.steps) \in Nat /\ Steps \subseteq Nat
BY ApplyAssumption DEF ApplyTypeOK, Steps

\* What apply does to parse the file and to add the rules preserves the invariant.
LEMMA AddingKeeps ==
    ASSUME ApplyInv, Steps' = Steps, ParseFile \/ SendAdd \/ ReadAnswer \/ NoReply
    PROVE  ApplyInv'
<1> USE DEF ApplyInv
<1>1. Len(file.steps) \in Nat /\ Steps \subseteq Nat /\ step \in Nat
  BY StepsAreNumbers DEF ApplyTypeOK
<1>2. CASE ParseFile
  <2>1. /\ UNCHANGED <<step, created, answer, inflight, adrift, file, serving, row>>
        /\ applying = "parse" /\ applying' = IF Parse(file) THEN "add" ELSE "refused"
        /\ step = 1 /\ created = <<>> /\ inflight = {}
    BY <1>2 DEF ParseFile, KeepDaemonSide, ParsedFirst
  <2>2. ApplyTypeOK'
    BY <2>1 DEF ApplyTypeOK, Steps
  <2>3. Parse(file) => 1 \in Steps
    <3> SUFFICES ASSUME Parse(file) PROVE 1 \in Steps
      OBVIOUS
    <3>1. file.steps \in Seq(StepType) /\ file.steps # <<>>
      BY ApplyAssumption DEF ApplyTypeOK, Parse
    <3>2. Len(file.steps) # 0
      BY <3>1
    <3> QED BY <1>1, <3>2 DEF Steps
  <2>4. ParsedFirst'
    BY <2>1 DEF ParsedFirst, Parse, Label
  <2>5. SentInOrder' /\ InFlight'
    BY <2>1, <2>3 DEF SentInOrder, InFlight, Steps
  <2> QED BY <2>1, <2>2, <2>4, <2>5 DEF AnswersAreTrue, RulesAreKnown, Steps
<1>3. CASE SendAdd
  <2>1. /\ UNCHANGED <<step, created, answer, adrift, file, serving, row>>
        /\ applying = "add" /\ step \in Steps /\ Parse(file)
        /\ \/ applying' = "wait" /\ inflight' = inflight \cup {step}
           \/ applying' = "rollback" /\ inflight' = inflight
    BY <1>3 DEF SendAdd, KeepDaemonSide, SentInOrder, ParsedFirst
  <2>2. ApplyTypeOK'
    BY <2>1 DEF ApplyTypeOK, Steps
  <2>3. ParsedFirst'
    BY <2>1 DEF ParsedFirst, Parse, Label
  <2>4. SentInOrder'
    BY <1>1, <2>1 DEF SentInOrder, Steps
  <2>5. InFlight'
    BY <2>1 DEF InFlight, SentInOrder
  <2> QED BY <2>1, <2>2, <2>3, <2>4, <2>5 DEF AnswersAreTrue, RulesAreKnown, Steps
<1>4. CASE ReadAnswer
  <2>1. /\ UNCHANGED <<answer, inflight, adrift, file, serving, row>>
        /\ applying = "wait" /\ step \in Steps /\ Parse(file)
    BY <1>4 DEF ReadAnswer, KeepDaemonSide, SentInOrder, ParsedFirst
  <2>2. CASE /\ answer[step] = "ok" /\ created' = Append(created, step) /\ step' = step + 1
             /\ applying' = IF step = Len(file.steps) THEN "applied" ELSE "add"
    <3>1. ApplyTypeOK'
      BY <1>1, <2>1, <2>2 DEF ApplyTypeOK, Steps
    <3>2. ParsedFirst'
      BY <2>1, <2>2 DEF ParsedFirst, Parse, Label
    <3>3. SentInOrder'
      BY <1>1, <2>1, <2>2 DEF SentInOrder, Steps
    <3>4. \A i \in inflight : i \in Steps /\ i # step
      BY <2>2 DEF InFlight, ApplyTypeOK
    <3>5. InFlight'
      BY <2>1, <3>4 DEF InFlight
    <3>6. /\ created \in Seq(Steps) /\ Len(created') = Len(created) + 1
          /\ \A n \in 1 .. Len(created) : created'[n] = created[n]
          /\ created'[Len(created) + 1] = step
      BY <2>1, <2>2 DEF ApplyTypeOK
    <3>7. RulesAreKnown'
      <4>1. \A n \in 1 .. Len(created') : answer[created'[n]] = "ok"
        BY <2>2, <3>6 DEF RulesAreKnown
      <4>2. ASSUME NEW i \in Steps, row[i] \in {"armed", "fired"}
            PROVE  i \in adrift \/ \E n \in 1 .. Len(created') : created'[n] = i
        <5>1. CASE \E n \in 1 .. Len(created) : created[n] = i
          BY <3>6, <5>1
        <5>2. CASE i = step
          BY <3>6, <5>2
        <5> QED BY <4>2, <5>1, <5>2 DEF RulesAreKnown
      <4> QED BY <2>1, <4>1, <4>2 DEF RulesAreKnown, Steps
    <3> QED BY <2>1, <3>1, <3>2, <3>3, <3>5, <3>7 DEF AnswersAreTrue, Steps
  <2>3. CASE answer[step] = "error" /\ applying' = "rollback" /\ UNCHANGED <<created, step>>
    <3>1. ApplyTypeOK'
      BY <2>1, <2>3 DEF ApplyTypeOK, Steps
    <3>2. ParsedFirst' /\ SentInOrder'
      BY <1>1, <2>1, <2>3 DEF ParsedFirst, Parse, Label, SentInOrder, Steps
    <3>3. \A i \in inflight : i # step
      BY <2>3 DEF InFlight
    <3>4. InFlight'
      BY <2>1, <2>3, <3>3 DEF InFlight
    <3>5. row[step] = "none"
      BY <2>1, <2>3 DEF AnswersAreTrue
    <3>6. RulesAreKnown'
      BY <2>1, <2>3, <3>5 DEF RulesAreKnown, Steps
    <3> QED BY <2>1, <3>1, <3>2, <3>4, <3>6 DEF AnswersAreTrue, Steps
  <2> QED BY <1>4, <2>2, <2>3 DEF ReadAnswer
<1>5. CASE NoReply
  <2>1. /\ UNCHANGED <<step, created, answer, inflight, file, serving, row>>
        /\ applying = "wait" /\ applying' = "rollback" /\ adrift' = adrift \cup {step}
        /\ step \in Steps /\ Parse(file)
    BY <1>5 DEF NoReply, KeepDaemonSide, SentInOrder, ParsedFirst
  <2>2. ApplyTypeOK'
    BY <2>1 DEF ApplyTypeOK, Steps
  <2>3. ParsedFirst' /\ SentInOrder'
    BY <1>1, <2>1 DEF ParsedFirst, Parse, Label, SentInOrder, Steps
  <2>4. InFlight' /\ RulesAreKnown'
    BY <2>1 DEF InFlight, RulesAreKnown, Steps
  <2> QED BY <2>1, <2>2, <2>3, <2>4 DEF AnswersAreTrue, Steps
<1> QED BY <1>2, <1>3, <1>4, <1>5

\* The rollback preserves it: a rule that leaves the list is removed or adrift.
LEMMA RollbackKeeps ==
    ASSUME ApplyInv, Steps' = Steps, Rollback \/ RolledBack
    PROVE  ApplyInv'
<1> USE DEF ApplyInv
<1>1. Len(file.steps) \in Nat /\ Steps \subseteq Nat /\ step \in Nat /\ Parse(file)
  BY StepsAreNumbers DEF ApplyTypeOK, ParsedFirst, Rollback, RolledBack
<1>2. CASE Rollback
  <2> DEFINE i == Head(created)
  <2>1. /\ UNCHANGED <<file, applying, step, answer, inflight, serving>>
        /\ applying = "rollback" /\ created # <<>> /\ created' = Tail(created)
        /\ \/ row' = [row EXCEPT ![i] = "removed"] /\ UNCHANGED adrift
           \/ UNCHANGED row /\ adrift' = adrift \cup {i}
    BY <1>2 DEF Rollback
  <2>2. /\ created \in Seq(Steps) /\ Len(created) \in Nat \ {0}
        /\ i = created[1] /\ i \in Steps
        /\ created' \in Seq(Steps) /\ Len(created') = Len(created) - 1
        /\ \A n \in 1 .. Len(created') : created'[n] = created[n + 1]
    BY <2>1 DEF ApplyTypeOK
  <2>3. answer[i] = "ok"
    BY <2>2 DEF RulesAreKnown
  <2> HIDE DEF i
  <2>4. /\ \A j \in Steps \ {i} : row'[j] = row[j]
        /\ row'[i] = "removed" \/ (i \in adrift' /\ row'[i] = row[i])
        /\ adrift \subseteq adrift'
    BY <2>1, <2>2 DEF ApplyTypeOK
  <2>5. ApplyTypeOK'
    BY <2>1, <2>2 DEF ApplyTypeOK, Steps
  <2>6. ParsedFirst' /\ SentInOrder' /\ InFlight'
    BY <1>1, <2>1, <2>4 DEF ParsedFirst, Parse, Label, SentInOrder, InFlight, Steps
  <2>7. \A j \in Steps : (answer[j] = "ok") <=> (row'[j] # "none")
    BY <2>3, <2>4 DEF AnswersAreTrue
  <2>8. \A n \in 1 .. Len(created') : answer[created'[n]] = "ok"
    BY <2>2 DEF RulesAreKnown
  <2>9. ASSUME NEW j \in Steps, row'[j] \in {"armed", "fired"}
        PROVE  j \in adrift' \/ \E n \in 1 .. Len(created') : created'[n] = j
    <3>1. CASE j = i
      BY <2>4, <2>9, <3>1
    <3>2. CASE j # i /\ j \notin adrift
      <4>1. PICK n \in 1 .. Len(created) : created[n] = j
        BY <2>1, <2>4, <2>9, <3>2 DEF RulesAreKnown
      <4>2. n # 1
        BY <2>2, <3>2, <4>1
      <4>3. n - 1 \in 1 .. Len(created') /\ created'[n - 1] = j
        BY <2>2, <4>1, <4>2
      <4> QED BY <4>3
    <3> QED BY <2>4, <3>1, <3>2
  <2>10. AnswersAreTrue' /\ RulesAreKnown'
    BY <2>1, <2>7, <2>8, <2>9 DEF AnswersAreTrue, RulesAreKnown
  <2> QED BY <2>5, <2>6, <2>10
<1>3. CASE RolledBack
  <2>1. /\ UNCHANGED <<step, created, answer, inflight, adrift, file, serving, row>>
        /\ applying = "rollback" /\ applying' = "failed" /\ created = <<>>
    BY <1>3 DEF RolledBack, KeepDaemonSide
  <2>2. ApplyTypeOK'
    BY <2>1 DEF ApplyTypeOK, Steps
  <2>3. ParsedFirst' /\ SentInOrder' /\ InFlight'
    BY <1>1, <2>1 DEF ParsedFirst, Parse, Label, SentInOrder, InFlight, Steps
  <2> QED BY <2>1, <2>2, <2>3 DEF AnswersAreTrue, RulesAreKnown, Steps
<1> QED BY <1>2, <1>3

\* So do the daemon's steps, late answers to a call that apply has given up among them.
LEMMA DaemonKeeps ==
    ASSUME ApplyInv, Steps' = Steps,
           (\E i \in Steps : RuleAdded(i) \/ RuleRefused(i) \/ RuleFires(i)) \/ DaemonStops
    PROVE  ApplyInv'
<1> USE DEF ApplyInv
<1>1. /\ Len(file.steps) \in Nat /\ Steps \subseteq Nat /\ step \in Nat
      /\ UNCHANGED <<file, applying, step, created, adrift>>
  BY StepsAreNumbers DEF ApplyTypeOK, RuleAdded, RuleRefused, RuleFires, DaemonStops, KeepApply
<1>2. ASSUME NEW i \in Steps, RuleAdded(i)
      PROVE  ApplyInv'
  <2>1. /\ i \in inflight /\ inflight' = inflight \ {i} /\ serving' = serving
        /\ answer' = [answer EXCEPT ![i] = "ok"] /\ row' = [row EXCEPT ![i] = "armed"]
    BY <1>2 DEF RuleAdded
  <2>2. /\ answer'[i] = "ok" /\ row'[i] = "armed"
        /\ \A j \in Steps \ {i} : answer'[j] = answer[j] /\ row'[j] = row[j]
    BY <2>1 DEF ApplyTypeOK
  <2>3. ApplyTypeOK'
    BY <1>1, <2>1 DEF ApplyTypeOK, Steps
  <2>4. ParsedFirst'
    BY <1>1, <2>1 DEF ParsedFirst, Parse, Label
  <2>5. SentInOrder'
    BY <1>1, <2>1, <2>2 DEF SentInOrder, Steps
  <2>6. InFlight'
    BY <1>1, <2>1, <2>2 DEF InFlight, ApplyTypeOK
  <2>7. AnswersAreTrue'
    BY <1>1, <2>2 DEF AnswersAreTrue
  <2>8. RulesAreKnown'
    <3>1. i \in adrift \/ (i = step /\ applying = "wait")
      BY <2>1 DEF InFlight
    <3>2. \A n \in 1 .. Len(created) : answer'[created[n]] = "ok"
      BY <2>2 DEF RulesAreKnown, ApplyTypeOK
    <3> QED BY <1>1, <2>2, <3>1, <3>2 DEF RulesAreKnown
  <2> QED BY <2>3, <2>4, <2>5, <2>6, <2>7, <2>8
<1>3. ASSUME NEW i \in Steps, RuleRefused(i)
      PROVE  ApplyInv'
  <2>1. /\ i \in inflight /\ inflight' = inflight \ {i} /\ UNCHANGED <<serving, row>>
        /\ answer' = [answer EXCEPT ![i] = "error"] /\ answer[i] = "none"
    BY <1>3 DEF RuleRefused, InFlight
  <2>2. /\ answer'[i] = "error"
        /\ \A j \in Steps \ {i} : answer'[j] = answer[j]
    BY <2>1 DEF ApplyTypeOK
  <2>3. ApplyTypeOK'
    BY <1>1, <2>1 DEF ApplyTypeOK, Steps
  <2>4. ParsedFirst'
    BY <1>1, <2>1 DEF ParsedFirst, Parse, Label
  <2>5. SentInOrder'
    BY <1>1, <2>1, <2>2 DEF SentInOrder, Steps
  <2>6. InFlight'
    BY <1>1, <2>1, <2>2 DEF InFlight, ApplyTypeOK
  <2>7. AnswersAreTrue'
    BY <1>1, <2>1, <2>2 DEF AnswersAreTrue
  <2>8. RulesAreKnown'
    <3>1. \A n \in 1 .. Len(created) : answer'[created[n]] = "ok"
      BY <2>1, <2>2 DEF RulesAreKnown, ApplyTypeOK
    <3> QED BY <1>1, <2>1, <3>1 DEF RulesAreKnown
  <2> QED BY <2>3, <2>4, <2>5, <2>6, <2>7, <2>8
<1>4. ASSUME NEW i \in Steps, RuleFires(i)
      PROVE  ApplyInv'
  <2>1. /\ row[i] = "armed" /\ row' = [row EXCEPT ![i] = "fired"]
        /\ UNCHANGED <<answer, inflight, serving>>
    BY <1>4 DEF RuleFires
  <2>2. row'[i] = "fired" /\ \A j \in Steps \ {i} : row'[j] = row[j]
    BY <2>1 DEF ApplyTypeOK
  <2>3. ApplyTypeOK'
    BY <1>1, <2>1 DEF ApplyTypeOK, Steps
  <2>4. ParsedFirst' /\ SentInOrder' /\ InFlight'
    BY <1>1, <2>1 DEF ParsedFirst, Parse, Label, SentInOrder, InFlight, Steps
  <2>5. AnswersAreTrue' /\ RulesAreKnown'
    BY <1>1, <2>1, <2>2 DEF AnswersAreTrue, RulesAreKnown
  <2> QED BY <2>3, <2>4, <2>5
<1>5. CASE DaemonStops
  <2>1. inflight' = {} /\ serving' = FALSE /\ UNCHANGED <<answer, row>>
    BY <1>5 DEF DaemonStops
  <2>2. ApplyTypeOK'
    BY <1>1, <2>1 DEF ApplyTypeOK, Steps
  <2>3. ParsedFirst' /\ SentInOrder' /\ InFlight'
    BY <1>1, <2>1 DEF ParsedFirst, Parse, Label, SentInOrder, InFlight, Steps
  <2> QED BY <1>1, <2>1, <2>2, <2>3 DEF AnswersAreTrue, RulesAreKnown
<1> QED BY <1>2, <1>3, <1>4, <1>5

LEMMA ApplyStep == ApplyInv /\ [ApplyNext]_applyVars => ApplyInv'
<1> SUFFICES ASSUME ApplyInv, [ApplyNext]_applyVars PROVE ApplyInv'
  OBVIOUS
<1>1. CASE UNCHANGED applyVars
  BY <1>1 DEF applyVars, ApplyInv, ApplyTypeOK, ParsedFirst, Parse, Label, SentInOrder, InFlight,
              AnswersAreTrue, RulesAreKnown, Steps
<1>2. CASE ApplyNext
  BY <1>2, SameSteps, AddingKeeps, RollbackKeeps, DaemonKeeps DEF ApplyNext
<1> QED BY <1>1, <1>2

LEMMA ApplyInvariant == ApplySpec => []ApplyInv
  BY ApplyInitInv, ApplyStep, PTL DEF ApplySpec

\* A workflow of any length is added as a whole or not at all: whenever calls time out, the
\* daemon stops or rules fire meanwhile, what is left of a workflow that failed is only
\* what apply could not know of or could not remove.
THEOREM WholeWorkflow == ApplySpec => []NoHalfWorkflow
<1>1. ApplyInv => NoHalfWorkflow
  <2> SUFFICES ASSUME ApplyInv PROVE NoHalfWorkflow
    OBVIOUS
  <2>1. Len(file.steps) \in Nat /\ Steps \subseteq Nat
    BY StepsAreNumbers DEF ApplyInv
  <2>2. applying = "applied" => \A i \in Steps : row[i] # "none"
    BY <2>1 DEF ApplyInv, SentInOrder, AnswersAreTrue, Steps
  <2>3. applying = "failed" =>
          \A i \in Steps : row[i] \in {"armed", "fired"} => i \in adrift
    BY DEF ApplyInv, SentInOrder, RulesAreKnown
  <2>4. applying = "refused" =>
          \A i \in Steps : row[i] \in {"armed", "fired"} => i \in adrift
    BY DEF ApplyInv, ParsedFirst, RulesAreKnown
  <2> QED BY <2>2, <2>3, <2>4 DEF NoHalfWorkflow
<1> QED BY <1>1, ApplyInvariant, PTL

\* The daemon never refuses a step for what is wrong with it: Parse demands of every step
\* what rule.add demands.
THEOREM ParseSuffices == ApplySpec => []ParsedIsAccepted
<1>1. ApplyInv => ParsedIsAccepted
  BY DEF ApplyInv, ApplyTypeOK, ParsedFirst, ParsedIsAccepted, Parse, RuleAddAccepts, Steps
<1> QED BY <1>1, ApplyInvariant, PTL

----------------------------------------------------------------------------
(* The event stream.  Every stream is by itself: but for a publication and the end of    *)
(* the daemon, a step is one of a single stream.                                         *)

\* A handler that has answered its client is subscribed, and holds an event only while it
\* writes it; what the client reads after the first response are events.
StreamOrder(s) ==
    /\ reader[s].at = "idle" => conn[s].at = "none"
    /\ s \notin Waiters => conn[s].at # "reply"
    /\ conn[s].at \in {"none", "begin", "reply"} =>
          conn[s].wire = <<>> /\ (s \in Waiters => reader[s].at # "read")
    /\ conn[s].at \in {"reply", "select", "encode"} => sub[s].on
    /\ conn[s].at = "encode" => \E e \in Events : conn[s].note = <<e>>
    /\ conn[s].at # "encode" => conn[s].note = <<>>
    /\ \A n \in 1 .. Len(conn[s].wire) :
          conn[s].wire[n] = Ok => n = 1 /\ reader[s].at \in {"ack", "over"}

\* What was published since the first response ends what was delivered, event by event.
Ends(p, n, d) ==
    /\ n <= Len(p) /\ Len(p) <= Len(d) + n
    /\ \A j \in n + 1 .. Len(p) : d[Len(d) - Len(p) + j] = p[j]

Gapless(s) ==
    /\ reader[s].acked <= Len(published)
    /\ /\ s \in Waiters /\ reader[s].at = "read"
       /\ conn[s].at # "gone" /\ ~sub[s].full
       => Ends(published, reader[s].acked, Delivered(s))

\* A client that has read a match has it, and its ctx is done.
MatchFound(s) ==
    s \in Waiters =>
        /\ reader[s].at \in {"idle", "ack"} => reader[s].got = <<>>
        /\ reader[s].match # <<>> => reader[s].done
        /\ reader[s].match = <<>> <=>
              \A n \in 1 .. Len(reader[s].got) : reader[s].got[n] \notin Hits
        /\ \A n \in 1 .. Len(reader[s].got) : FirstHit(s, n) =>
              /\ reader[s].match = <<reader[s].got[n]>>
              /\ reader[s].at = "over" => reader[s].answer = "match"

StreamInv ==
    StreamTypeOK /\ \A s \in Streams : StreamOrder(s) /\ Gapless(s) /\ MatchFound(s)

LEMMA StreamInitInv == StreamInit => StreamInv
<1> SUFFICES ASSUME StreamInit PROVE StreamInv
  OBVIOUS
<1>1. StreamTypeOK
  BY StreamAssumption DEF StreamInit, StreamTypeOK, Sub, Conn, Reader
<1> QED BY <1>1 DEF StreamInit, StreamInv, StreamOrder, Gapless, MatchFound

\* What is along the way from the channel to the client.
Along(g, w, o, c) == g \o w \o o \o c

\* The same with one event more at its end.
Longer(d, e) == d \o <<e>>

\* An event moves from the channel to the handler, ...
LEMMA MoveTaken ==
    ASSUME NEW S, NEW g \in Seq(S), NEW w \in Seq(S), NEW c \in Seq(S), c # <<>>
    PROVE  Along(g, w, <<Head(c)>>, Tail(c)) = Along(g, w, <<>>, c)
<1>1. <<Head(c)>> \in Seq(S) /\ Tail(c) \in Seq(S) /\ c = <<Head(c)>> \o Tail(c)
  OBVIOUS
<1>2. g \o w \in Seq(S) /\ g \o w \o <<>> = g \o w
  OBVIOUS
<1>3. (g \o w \o <<Head(c)>>) \o Tail(c) = (g \o w) \o (<<Head(c)>> \o Tail(c))
  BY <1>1, <1>2, ConcatAssociative
<1> QED BY <1>1, <1>2, <1>3 DEF Along

\* ... to the connection, ...
LEMMA MoveWritten ==
    ASSUME NEW S, NEW g \in Seq(S), NEW w \in Seq(S), NEW e \in S, NEW c \in Seq(S)
    PROVE  Along(g, Append(w, e), <<>>, c) = Along(g, w, <<e>>, c)
<1>1. Append(w, e) = w \o <<e>> /\ Append(w, e) \in Seq(S) /\ <<e>> \in Seq(S)
  BY AppendIsConcat
<1>2. g \o Append(w, e) \o <<>> = g \o Append(w, e)
  BY <1>1
<1>3. (g \o w) \o <<e>> = g \o (w \o <<e>>)
  BY <1>1, ConcatAssociative
<1> QED BY <1>1, <1>2, <1>3 DEF Along

\* ... to the client: what was delivered stays the same.
LEMMA MoveRead ==
    ASSUME NEW S, NEW g \in Seq(S), NEW w \in Seq(S), NEW o \in Seq(S), NEW c \in Seq(S),
           w # <<>>
    PROVE  Along(Append(g, Head(w)), Tail(w), o, c) = Along(g, w, o, c)
<1>1. <<Head(w)>> \in Seq(S) /\ Tail(w) \in Seq(S) /\ w = <<Head(w)>> \o Tail(w)
  OBVIOUS
<1>2. Append(g, Head(w)) = g \o <<Head(w)>>
  OBVIOUS
<1>3. (g \o <<Head(w)>>) \o Tail(w) = g \o w
  BY <1>1, ConcatAssociative
<1> QED BY <1>2, <1>3 DEF Along

\* An event that is offered is the last that was delivered.
LEMMA MoveOffered ==
    ASSUME NEW S, NEW g \in Seq(S), NEW w \in Seq(S), NEW o \in Seq(S), NEW c \in Seq(S),
           NEW e \in S
    PROVE  Along(g, w, o, Append(c, e)) = Longer(Along(g, w, o, c), e)
<1> DEFINE ahead == g \o w \o o
<1>1. ahead \in Seq(S) /\ <<e>> \in Seq(S)
  OBVIOUS
<1>2. Append(c, e) = c \o <<e>>
  OBVIOUS
<1>3. Along(g, w, o, Append(c, e)) = ahead \o (c \o <<e>>)
  BY <1>2 DEF Along
<1>4. Longer(Along(g, w, o, c), e) = (ahead \o c) \o <<e>>
  BY DEF Along, Longer
<1> HIDE DEF ahead
<1>5. ahead \o (c \o <<e>>) = (ahead \o c) \o <<e>>
  BY <1>1, ConcatAssociative
<1> QED BY <1>3, <1>4, <1>5

LEMMA EndsAppend ==
    ASSUME NEW S, NEW p \in Seq(S), NEW d \in Seq(S), NEW n \in Nat, NEW e \in S, Ends(p, n, d)
    PROVE  Ends(Append(p, e), n, Longer(d, e))
<1> DEFINE q == Append(p, e)
           f == Longer(d, e)
<1>1. /\ Len(q) = Len(p) + 1 /\ q[Len(p) + 1] = e
      /\ \A j \in 1 .. Len(p) : q[j] = p[j]
      /\ Len(f) = Len(d) + 1 /\ f[Len(d) + 1] = e
      /\ \A j \in 1 .. Len(d) : f[j] = d[j]
      /\ Len(p) \in Nat /\ Len(d) \in Nat
  BY DEF Longer
<1> HIDE DEF q, f
<1>2. ASSUME NEW j \in n + 1 .. Len(p) + 1
      PROVE  f[Len(f) - Len(q) + j] = q[j]
  <2>1. CASE j = Len(p) + 1
    BY <1>1, <2>1
  <2>2. CASE j # Len(p) + 1
    <3>1. j \in n + 1 .. Len(p) /\ Len(d) - Len(p) + j \in 1 .. Len(d)
      BY <1>1, <2>2 DEF Ends
    <3>2. d[Len(d) - Len(p) + j] = p[j]
      BY <3>1 DEF Ends
    <3>3. Len(f) - Len(q) + j = Len(d) - Len(p) + j /\ j \in 1 .. Len(p)
      BY <1>1, <3>1
    <3> QED BY <1>1, <3>1, <3>2, <3>3
  <2> QED BY <2>1, <2>2
<1>3. n <= Len(q) /\ Len(q) <= Len(f) + n
  BY <1>1 DEF Ends
<1>4. Ends(q, n, f)
  BY <1>1, <1>2, <1>3 DEF Ends
<1> QED BY <1>4 DEF q, f

\* The same, as a relation on sequences.
LEMMA EndsIsSuffix ==
    ASSUME NEW S, NEW p \in Seq(S), NEW d \in Seq(S), NEW n \in Nat, Ends(p, n, d)
    PROVE  IsSuffix(SubSeq(p, n + 1, Len(p)), d)
<1> DEFINE t == SubSeq(p, n + 1, Len(p))
           r == Reverse(t)
           u == Reverse(d)
<1>1. /\ t \in Seq(S) /\ Len(t) = Len(p) - n /\ Len(t) \in Nat
      /\ \A j \in 1 .. Len(t) : t[j] = p[n + j]
  <2>1. Len(p) \in Nat /\ n <= Len(p) /\ \A j \in n + 1 .. Len(p) : p[j] \in S
    BY DEF Ends
  <2>2. /\ t \in Seq(S) /\ Len(t) = IF n + 1 <= Len(p) THEN Len(p) - (n + 1) + 1 ELSE 0
        /\ \A j \in 1 .. Len(p) - (n + 1) + 1 : t[j] = p[(n + 1) + j - 1]
    BY <2>1, SubSeqProperties
  <2>3. Len(t) = Len(p) - n /\ Len(t) \in Nat
    BY <2>1, <2>2
  <2>4. \A j \in 1 .. Len(t) : (n + 1) + j - 1 = n + j
    BY <2>3
  <2> HIDE DEF t
  <2> QED BY <2>1, <2>2, <2>3, <2>4
<1>2. Len(p) \in Nat /\ Len(d) \in Nat /\ Len(t) <= Len(d)
  BY <1>1 DEF Ends
<1> HIDE DEF t
<1>3. \A j \in 1 .. Len(t) : t[j] = d[Len(d) - Len(t) + j]
  <2> TAKE j \in 1 .. Len(t)
  <2>1. n + j \in n + 1 .. Len(p)
    BY <1>1, <1>2
  <2>2. d[Len(d) - Len(p) + (n + j)] = p[n + j]
    BY <2>1 DEF Ends
  <2>3. Len(d) - Len(p) + (n + j) = Len(d) - Len(t) + j
    BY <1>1, <1>2
  <2> QED BY <1>1, <2>2, <2>3
<1>4. /\ r \in Seq(S) /\ Len(r) = Len(t) /\ \A j \in 1 .. Len(t) : r[j] = t[Len(t) - j + 1]
      /\ u \in Seq(S) /\ Len(u) = Len(d) /\ \A j \in 1 .. Len(d) : u[j] = d[Len(d) - j + 1]
  BY <1>1, <1>2 DEF Reverse
<1> HIDE DEF r, u
<1>5. \A j \in 1 .. Len(r) : r[j] = u[j]
  <2> TAKE j \in 1 .. Len(r)
  <2>1. Len(t) - j + 1 \in 1 .. Len(t) /\ j \in 1 .. Len(d)
    BY <1>1, <1>2, <1>4
  <2>2. t[Len(t) - j + 1] = d[Len(d) - Len(t) + (Len(t) - j + 1)]
    BY <1>3, <2>1
  <2>3. Len(d) - Len(t) + (Len(t) - j + 1) = Len(d) - j + 1
    BY <1>1, <1>2, <1>4
  <2> QED BY <1>4, <2>1, <2>2, <2>3
<1>6. SubSeq(r, 1, Len(r)) = SubSeq(u, 1, Len(r))
  BY <1>1, <1>2, <1>4, <1>5
<1>7. IsPrefix(r, u)
  BY <1>2, <1>4, <1>6 DEF IsPrefix
<1> QED BY <1>7 DEF IsSuffix, r, u, t

Notes == Events \cup {Ok}

\* What the parts of a stream are.
LEMMA StreamParts ==
    ASSUME StreamInv, NEW s \in Streams
    PROVE  /\ sub[s] \in Sub /\ conn[s] \in Conn /\ reader[s] \in Reader
           /\ StreamOrder(s) /\ Gapless(s) /\ MatchFound(s)
           /\ published \in Seq(Notes) /\ reader[s].got \in Seq(Notes)
           /\ conn[s].wire \in Seq(Notes) /\ conn[s].note \in Seq(Notes)
           /\ sub[s].channel \in Seq(Notes) /\ Delivered(s) \in Seq(Notes)
<1>1. sub[s] \in Sub /\ conn[s] \in Conn /\ reader[s] \in Reader /\ published \in Seq(Events)
  BY DEF StreamInv, StreamTypeOK
<1>2. /\ published \in Seq(Notes) /\ reader[s].got \in Seq(Notes)
      /\ conn[s].wire \in Seq(Notes) /\ conn[s].note \in Seq(Notes)
      /\ sub[s].channel \in Seq(Notes)
  BY <1>1, SeqMonotonic DEF Sub, Conn, Reader, Notes
<1>3. Delivered(s) \in Seq(Notes)
  BY <1>2, ConcatProperties DEF Delivered
<1> QED BY <1>1, <1>2, <1>3 DEF StreamInv

\* A step of one stream leaves the others alone.
LEMMA OneStream ==
    ASSUME StreamInv, NEW s \in Streams, UNCHANGED <<up, committed, publishing, published>>,
           \E x \in Sub, y \in Conn, z \in Reader :
              /\ sub' = [sub EXCEPT ![s] = x]
              /\ conn' = [conn EXCEPT ![s] = y]
              /\ reader' = [reader EXCEPT ![s] = z],
           StreamOrder(s)', Gapless(s)', MatchFound(s)'
    PROVE  StreamInv'
<1>1. StreamTypeOK'
  BY DEF StreamInv, StreamTypeOK
<1>2. ASSUME NEW t \in Streams, t # s
      PROVE  StreamOrder(t)' /\ Gapless(t)' /\ MatchFound(t)'
  <2>1. sub'[t] = sub[t] /\ conn'[t] = conn[t] /\ reader'[t] = reader[t]
    BY <1>2 DEF StreamInv, StreamTypeOK
  <2>2. StreamOrder(t) /\ Gapless(t) /\ MatchFound(t)
    BY DEF StreamInv
  <2> QED BY <2>1, <2>2 DEF StreamOrder, Gapless, Delivered, MatchFound, FirstHit
<1> QED BY <1>1, <1>2 DEF StreamInv

\* The records that the steps make.
SubWith(x, b, c) == [x EXCEPT !.on = b, !.channel = c]
ConnAt == {"none", "begin", "reply", "select", "encode", "gone"}
ConnWith(x, a, o, w) == [x EXCEPT !.at = a, !.note = o, !.wire = w]

LEMMA NewSub ==
    ASSUME NEW x \in Sub, NEW b \in BOOLEAN, NEW c \in Seq(Events)
    PROVE  SubWith(x, b, c) \in Sub
BY DEF Sub, SubWith

LEMMA NewConn ==
    ASSUME NEW x \in Conn, NEW a \in ConnAt, NEW o \in Seq(Events), NEW w \in Seq(Notes)
    PROVE  ConnWith(x, a, o, w) \in Conn
BY DEF Conn, ConnWith, ConnAt, Notes

\* The handler's steps preserve the invariant.
LEMMA HandlerKeeps ==
    ASSUME StreamInv, NEW s \in Streams, HandlerStep(s) \/ ContextDone(s)
    PROVE  StreamInv'
<1>1. /\ sub[s] \in Sub /\ conn[s] \in Conn /\ reader[s] \in Reader
      /\ sub \in [Streams -> Sub] /\ conn \in [Streams -> Conn] /\ reader \in [Streams -> Reader]
      /\ StreamOrder(s) /\ Gapless(s) /\ MatchFound(s)
  BY StreamParts DEF StreamInv, StreamTypeOK
<1>2. /\ UNCHANGED <<up, committed, publishing, published, reader>>
      /\ reader' = [reader EXCEPT ![s] = reader[s]] /\ reader'[s] \in Reader
  BY <1>1 DEF HandlerStep, Subscribe, Reply, TakeEvent, WriteEvent, HangUpSeen, ContextDone,
              KeepIngest
<1>3. MatchFound(s)'
  BY <1>1, <1>2 DEF MatchFound, FirstHit
<1>4. ASSUME Leave(s), conn[s].at # "none"
      PROVE  StreamInv'
  <2> DEFINE x == SubWith(sub[s], FALSE, <<>>)
             y == ConnWith(conn[s], "gone", <<>>, conn[s].wire)
  <2>1. sub' = [sub EXCEPT ![s] = x] /\ conn' = [conn EXCEPT ![s] = y]
    BY <1>1, <1>4 DEF Leave, SubWith, ConnWith, Conn
  <2>2. x \in Sub /\ y \in Conn /\ y.at = "gone" /\ y.note = <<>> /\ y.wire = conn[s].wire
    <3>1. <<>> \in Seq(Events) /\ conn[s].wire \in Seq(Notes) /\ "gone" \in ConnAt
      BY <1>1 DEF Conn, ConnAt, Notes
    <3>2. x \in Sub /\ y \in Conn
      BY <1>1, <3>1, NewSub, NewConn
    <3> QED BY <1>1, <3>2 DEF ConnWith, Conn
  <2> HIDE DEF x, y
  <2>3. sub'[s] = x /\ conn'[s] = y /\ reader'[s] = reader[s]
    BY <1>1, <1>2, <2>1
  <2>4. StreamOrder(s)'
    BY <1>1, <1>4, <2>2, <2>3 DEF StreamOrder
  <2>5. Gapless(s)'
    BY <1>1, <1>2, <2>2, <2>3 DEF Gapless
  <2> QED BY <1>1, <1>2, <1>3, <2>1, <2>2, <2>4, <2>5, OneStream
<1>5. CASE Subscribe(s)
  <2> DEFINE x == [sub[s] EXCEPT !.on = TRUE]
             y == [conn[s] EXCEPT !.at = IF s \in Waiters THEN "reply" ELSE "select"]
  <2>1. conn[s].at = "begin" /\ sub' = [sub EXCEPT ![s] = x] /\ conn' = [conn EXCEPT ![s] = y]
    BY <1>5 DEF Subscribe
  <2>2. /\ x \in Sub /\ x.on /\ x.channel = sub[s].channel /\ x.full = sub[s].full
        /\ y \in Conn /\ y.at = IF s \in Waiters THEN "reply" ELSE "select"
        /\ y.wire = conn[s].wire /\ y.note = conn[s].note
    BY <1>1 DEF Sub, Conn
  <2> HIDE DEF x, y
  <2>3. sub'[s] = x /\ conn'[s] = y /\ reader'[s] = reader[s]
    BY <1>1, <1>2, <2>1
  <2>4. StreamOrder(s)'
    BY <1>1, <2>1, <2>2, <2>3 DEF StreamOrder
  <2>5. Gapless(s)'
    BY <1>1, <1>2, <2>1, <2>2, <2>3 DEF Gapless, StreamOrder
  <2> QED BY <1>1, <1>2, <1>3, <2>1, <2>2, <2>4, <2>5, OneStream
<1>6. CASE Reply(s)
  <2>1. conn[s].at = "reply" /\ s \in Waiters /\ conn[s].wire = <<>> /\ sub[s].on
        /\ reader[s].at \in {"ack", "over"}
    BY <1>1, <1>6 DEF Reply, StreamOrder, Reader
  <2>2. CASE conn[s].closed /\ Leave(s)
    BY <1>4, <2>1, <2>2
  <2>3. CASE ~conn[s].closed /\ sub' = sub /\
             conn' = [conn EXCEPT ![s].wire = Append(@, Ok), ![s].note = <<>>, ![s].at = "select"]
    <3> DEFINE y == ConnWith(conn[s], "select", <<>>, Append(conn[s].wire, Ok))
    <3>1. sub' = [sub EXCEPT ![s] = sub[s]] /\ conn' = [conn EXCEPT ![s] = y]
      BY <1>1, <2>3 DEF ConnWith, Conn
    <3>2. y \in Conn /\ y.at = "select" /\ y.note = <<>> /\ y.wire = <<Ok>>
      <4>1. /\ <<>> \in Seq(Events) /\ "select" \in ConnAt
            /\ Append(conn[s].wire, Ok) = <<Ok>> /\ <<Ok>> \in Seq(Notes)
        BY <2>1 DEF ConnAt, Notes
      <4>2. y \in Conn
        BY <1>1, <4>1, NewConn
      <4> QED BY <1>1, <4>1, <4>2 DEF ConnWith, Conn
    <3> HIDE DEF y
    <3>3. sub'[s] = sub[s] /\ conn'[s] = y /\ reader'[s] = reader[s]
      BY <1>1, <1>2, <3>1
    <3>4. StreamOrder(s)'
      BY <1>1, <2>1, <3>2, <3>3 DEF StreamOrder
    <3>5. Gapless(s)'
      BY <1>1, <1>2, <2>1, <3>2, <3>3 DEF Gapless
    <3> QED BY <1>1, <1>2, <1>3, <3>1, <3>2, <3>4, <3>5, OneStream
  <2> QED BY <1>6, <2>2, <2>3 DEF Reply, Encode
<1>7. CASE TakeEvent(s)
  <2> DEFINE e == Head(sub[s].channel)
             x == SubWith(sub[s], sub[s].on, Tail(sub[s].channel))
             y == ConnWith(conn[s], "encode", <<e>>, conn[s].wire)
  <2>1. /\ conn[s].at = "select" /\ sub[s].channel # <<>>
        /\ sub' = [sub EXCEPT ![s] = x] /\ conn' = [conn EXCEPT ![s] = y]
        /\ conn[s].note = <<>> /\ sub[s].on
    BY <1>1, <1>7 DEF TakeEvent, StreamOrder, SubWith, ConnWith, Sub, Conn
  <2>2. /\ e \in Events /\ <<e>> \in Seq(Events)
        /\ x \in Sub /\ x.on = sub[s].on /\ x.channel = Tail(sub[s].channel) /\ x.full = sub[s].full
        /\ y \in Conn /\ y.at = "encode" /\ y.wire = conn[s].wire /\ y.note = <<e>>
    <3>1. /\ e \in Events /\ <<e>> \in Seq(Events) /\ Tail(sub[s].channel) \in Seq(Events)
          /\ conn[s].wire \in Seq(Notes) /\ "encode" \in ConnAt /\ sub[s].on \in BOOLEAN
      BY <1>1, <2>1 DEF Sub, Conn, Notes, ConnAt
    <3>2. x \in Sub
      BY <1>1, <3>1, NewSub
    <3>3. y \in Conn
      BY <1>1, <3>1, NewConn
    <3>4. x.on = sub[s].on /\ x.channel = Tail(sub[s].channel) /\ x.full = sub[s].full
      BY <1>1 DEF SubWith, Sub
    <3>5. y.at = "encode" /\ y.wire = conn[s].wire /\ y.note = <<e>>
      BY <1>1 DEF ConnWith, Conn
    <3> QED BY <3>1, <3>2, <3>3, <3>4, <3>5
  <2>3. sub'[s] = x /\ conn'[s] = y /\ reader'[s] = reader[s]
    BY <1>1, <1>2, <2>1
  <2>4. Delivered(s)' = Delivered(s)
    <3>1. Delivered(s)' = Along(reader[s].got, conn[s].wire, <<e>>, Tail(sub[s].channel))
      BY <2>2, <2>3 DEF Delivered, Along
    <3>2. Delivered(s) = Along(reader[s].got, conn[s].wire, <<>>, sub[s].channel)
      BY <2>1 DEF Delivered, Along
    <3>3. /\ reader[s].got \in Seq(Notes) /\ conn[s].wire \in Seq(Notes)
          /\ sub[s].channel \in Seq(Notes)
      BY StreamParts
    <3> QED BY <2>1, <3>1, <3>2, <3>3, MoveTaken
  <2> HIDE DEF x, y, e
  <2>5. StreamOrder(s)'
    BY <1>1, <2>1, <2>2, <2>3 DEF StreamOrder
  <2>6. Gapless(s)'
    BY <1>1, <1>2, <2>1, <2>2, <2>3, <2>4 DEF Gapless
  <2> QED BY <1>1, <1>2, <1>3, <2>1, <2>2, <2>5, <2>6, OneStream
<1>8. CASE WriteEvent(s)
  <2>1. PICK e \in Events : conn[s].note = <<e>>
    BY <1>1, <1>8 DEF WriteEvent, StreamOrder
  <2>2. conn[s].at = "encode" /\ Head(conn[s].note) = e /\ sub[s].on
    BY <1>1, <1>8, <2>1 DEF WriteEvent, StreamOrder
  <2>3. CASE conn[s].closed /\ Leave(s)
    BY <1>4, <2>2, <2>3
  <2>4. CASE ~conn[s].closed /\ sub' = sub /\
             conn' = [conn EXCEPT ![s].wire = Append(@, e), ![s].note = <<>>, ![s].at = "select"]
    <3> DEFINE y == ConnWith(conn[s], "select", <<>>, Append(conn[s].wire, e))
    <3>1. sub' = [sub EXCEPT ![s] = sub[s]] /\ conn' = [conn EXCEPT ![s] = y]
      BY <1>1, <2>4 DEF ConnWith, Conn
    <3>2. y \in Conn /\ y.at = "select" /\ y.note = <<>> /\ y.wire = Append(conn[s].wire, e)
      <4>1. /\ <<>> \in Seq(Events) /\ Append(conn[s].wire, e) \in Seq(Notes)
            /\ "select" \in ConnAt
        BY <1>1 DEF Conn, Notes, ConnAt
      <4>2. y \in Conn
        BY <1>1, <4>1, NewConn
      <4> QED BY <1>1, <4>2 DEF ConnWith, Conn
    <3> HIDE DEF y
    <3>3. sub'[s] = sub[s] /\ conn'[s] = y /\ reader'[s] = reader[s]
      BY <1>1, <1>2, <3>1
    <3>4. Delivered(s)' = Delivered(s)
      <4>1. e \in Notes
        BY DEF Notes
      <4>2. Delivered(s)' = Along(reader[s].got, Append(conn[s].wire, e), <<>>, sub[s].channel)
        BY <3>2, <3>3 DEF Delivered, Along
      <4>3. Delivered(s) = Along(reader[s].got, conn[s].wire, <<e>>, sub[s].channel)
        BY <2>1 DEF Delivered, Along
      <4>4. /\ reader[s].got \in Seq(Notes) /\ conn[s].wire \in Seq(Notes)
            /\ sub[s].channel \in Seq(Notes)
        BY StreamParts
      <4> QED BY <4>1, <4>2, <4>3, <4>4, MoveWritten
    <3>5. \A n \in 1 .. Len(y.wire) : y.wire[n] = Ok => n = 1 /\ reader[s].at \in {"ack", "over"}
      <4>1. e # Ok
        BY StreamAssumption DEF Events, Ok
      <4>2. conn[s].wire \in Seq(Notes)
        BY StreamParts
      <4>3. \A n \in 1 .. Len(conn[s].wire) :
                conn[s].wire[n] = Ok => n = 1 /\ reader[s].at \in {"ack", "over"}
        BY <1>1 DEF StreamOrder
      <4>4. /\ Len(y.wire) = Len(conn[s].wire) + 1 /\ y.wire[Len(conn[s].wire) + 1] = e
            /\ \A n \in 1 .. Len(conn[s].wire) : y.wire[n] = conn[s].wire[n]
            /\ Len(conn[s].wire) \in Nat
        BY <3>2, <4>2
      <4> QED BY <4>1, <4>3, <4>4
    <3>6. StreamOrder(s)'
      BY <1>1, <2>2, <3>2, <3>3, <3>5 DEF StreamOrder
    <3>7. Gapless(s)'
      BY <1>1, <1>2, <2>2, <3>2, <3>3, <3>4 DEF Gapless
    <3> QED BY <1>1, <1>2, <1>3, <3>1, <3>2, <3>6, <3>7, OneStream
  <2> QED BY <1>8, <2>2, <2>3, <2>4 DEF WriteEvent, Encode
<1>9. CASE HangUpSeen(s) \/ ContextDone(s)
  BY <1>4, <1>9 DEF HangUpSeen, ContextDone
<1> QED BY <1>5, <1>6, <1>7, <1>8, <1>9 DEF HandlerStep

\* The client's steps but for ReadEvent preserve it.
LEMMA ClientKeeps ==
    ASSUME StreamInv, NEW s \in Streams,
           Connect(s) \/ ReadAck(s) \/ Expire(s) \/ CloseConn(s) \/ ReadFails(s)
    PROVE  StreamInv'
<1>1. /\ sub[s] \in Sub /\ conn[s] \in Conn /\ reader[s] \in Reader
      /\ sub \in [Streams -> Sub] /\ conn \in [Streams -> Conn] /\ reader \in [Streams -> Reader]
      /\ StreamOrder(s) /\ Gapless(s) /\ MatchFound(s)
      /\ published \in Seq(Notes) /\ conn[s].wire \in Seq(Notes) /\ Delivered(s) \in Seq(Notes)
  BY StreamParts DEF StreamInv, StreamTypeOK
<1>2. /\ UNCHANGED <<up, committed, publishing, published, sub>>
      /\ sub' = [sub EXCEPT ![s] = sub[s]]
  BY <1>1 DEF Connect, ReadAck, Expire, CloseConn, ReadFails, KeepDaemon
<1>3. CASE Connect(s)
  <2> DEFINE y == [conn[s] EXCEPT !.at = "begin"]
             z == [reader[s] EXCEPT !.at = IF s \in Waiters THEN "ack" ELSE "read"]
  <2>1. /\ conn' = [conn EXCEPT ![s] = y] /\ reader' = [reader EXCEPT ![s] = z]
        /\ reader[s].at = "idle" /\ conn[s].at = "none" /\ conn[s].wire = <<>>
    BY <1>1, <1>3 DEF Connect, StreamOrder
  <2>2. /\ y \in Conn /\ y.at = "begin" /\ y.wire = conn[s].wire /\ y.note = conn[s].note
        /\ z \in Reader /\ z.at = (IF s \in Waiters THEN "ack" ELSE "read")
        /\ z.got = reader[s].got /\ z.match = reader[s].match /\ z.done = reader[s].done
        /\ z.acked = reader[s].acked
    BY <1>1 DEF Conn, Reader
  <2> HIDE DEF y, z
  <2>3. sub'[s] = sub[s] /\ conn'[s] = y /\ reader'[s] = z
    BY <1>1, <1>2, <2>1
  <2>4. StreamOrder(s)'
    BY <1>1, <2>1, <2>2, <2>3 DEF StreamOrder
  <2>5. Gapless(s)'
    BY <1>1, <1>2, <2>1, <2>2, <2>3 DEF Gapless
  <2>6. MatchFound(s)'
    BY <1>1, <2>1, <2>2, <2>3 DEF MatchFound, FirstHit
  <2> QED BY <1>1, <1>2, <2>1, <2>2, <2>4, <2>5, <2>6, OneStream
<1>4. CASE ReadAck(s)
  <2> DEFINE y == [conn[s] EXCEPT !.wire = Tail(@)]
             z == [reader[s] EXCEPT !.at = "read", !.acked = Len(published)]
  <2>1. /\ conn' = [conn EXCEPT ![s] = y] /\ reader' = [reader EXCEPT ![s] = z]
        /\ reader[s].at = "ack" /\ conn[s].wire # <<>>
        /\ conn[s].at \notin {"none", "begin", "reply"}
    BY <1>1, <1>4 DEF ReadAck, StreamOrder
  <2>2. /\ Tail(conn[s].wire) \in Seq(Events \cup {Ok}) /\ Len(published) \in Nat
        /\ Len(Tail(conn[s].wire)) = Len(conn[s].wire) - 1 /\ Len(conn[s].wire) \in Nat
        /\ \A n \in 1 .. Len(Tail(conn[s].wire)) : Tail(conn[s].wire)[n] = conn[s].wire[n + 1]
    BY <1>1, <2>1 DEF Notes
  <2>3. /\ y \in Conn /\ y.at = conn[s].at /\ y.wire = Tail(conn[s].wire)
        /\ y.note = conn[s].note
    BY <1>1, <2>2 DEF Conn
  <2>4. /\ z \in Reader /\ z.at = "read"
        /\ z.got = reader[s].got /\ z.match = reader[s].match /\ z.done = reader[s].done
        /\ z.acked = Len(published)
    BY <1>1, <2>2 DEF Reader
  <2> HIDE DEF y, z
  <2>5. sub'[s] = sub[s] /\ conn'[s] = y /\ reader'[s] = z
    BY <1>1, <1>2, <2>1
  <2>6. \A n \in 1 .. Len(y.wire) : y.wire[n] # Ok
    <3>1. \A n \in 1 .. Len(conn[s].wire) : conn[s].wire[n] = Ok => n = 1
      BY <1>1 DEF StreamOrder
    <3> QED BY <2>2, <2>3, <3>1
  <2>7. StreamOrder(s)'
    BY <1>1, <2>1, <2>3, <2>4, <2>5, <2>6 DEF StreamOrder
  <2>8. Gapless(s)'
    <3>1. Delivered(s)' \in Seq(Notes)
      <4>1. /\ reader[s].got \in Seq(Notes) /\ Tail(conn[s].wire) \in Seq(Notes)
            /\ conn[s].note \in Seq(Notes) /\ sub[s].channel \in Seq(Notes)
        BY <2>2, StreamParts DEF Notes
      <4>2. Along(reader[s].got, Tail(conn[s].wire), conn[s].note, sub[s].channel) \in Seq(Notes)
        BY <4>1, ConcatProperties DEF Along
      <4> QED BY <2>3, <2>4, <2>5, <4>2 DEF Delivered, Along
    <3>2. Ends(published, Len(published), Delivered(s)')
      BY <2>2, <3>1 DEF Ends
    <3> QED BY <1>2, <2>2, <2>4, <2>5, <3>2 DEF Gapless
  <2>9. MatchFound(s)'
    BY <1>1, <2>1, <2>4, <2>5 DEF MatchFound, FirstHit
  <2> QED BY <1>1, <1>2, <2>1, <2>3, <2>4, <2>7, <2>8, <2>9, OneStream
<1>5. CASE Expire(s)
  <2> DEFINE z == [reader[s] EXCEPT !.done = TRUE]
  <2>1. /\ conn' = [conn EXCEPT ![s] = conn[s]] /\ reader' = [reader EXCEPT ![s] = z]
        /\ conn' = conn
    BY <1>1, <1>5 DEF Expire
  <2>2. /\ z \in Reader /\ z.at = reader[s].at /\ z.done /\ z.answer = reader[s].answer
        /\ z.got = reader[s].got /\ z.match = reader[s].match /\ z.acked = reader[s].acked
    BY <1>1 DEF Reader
  <2> HIDE DEF z
  <2>3. sub'[s] = sub[s] /\ conn'[s] = conn[s] /\ reader'[s] = z
    BY <1>1, <1>2, <2>1
  <2>4. StreamOrder(s)'
    BY <1>1, <2>2, <2>3 DEF StreamOrder
  <2>5. Gapless(s)'
    BY <1>1, <1>2, <2>2, <2>3 DEF Gapless, Delivered
  <2>6. MatchFound(s)'
    BY <1>1, <2>2, <2>3 DEF MatchFound, FirstHit
  <2> QED BY <1>1, <1>2, <2>1, <2>2, <2>4, <2>5, <2>6, OneStream
<1>6. CASE CloseConn(s)
  <2> DEFINE y == [conn[s] EXCEPT !.closed = TRUE]
  <2>1. /\ conn' = [conn EXCEPT ![s] = y] /\ reader' = [reader EXCEPT ![s] = reader[s]]
        /\ reader' = reader
    BY <1>1, <1>6 DEF CloseConn
  <2>2. y \in Conn /\ y.at = conn[s].at /\ y.wire = conn[s].wire /\ y.note = conn[s].note
    BY <1>1 DEF Conn
  <2> HIDE DEF y
  <2>3. sub'[s] = sub[s] /\ conn'[s] = y /\ reader'[s] = reader[s]
    BY <1>1, <1>2, <2>1
  <2>4. StreamOrder(s)'
    BY <1>1, <2>2, <2>3 DEF StreamOrder
  <2>5. Gapless(s)'
    BY <1>1, <1>2, <2>2, <2>3 DEF Gapless, Delivered
  <2>6. MatchFound(s)'
    BY <1>1, <2>3 DEF MatchFound, FirstHit
  <2> QED BY <1>1, <1>2, <2>1, <2>2, <2>4, <2>5, <2>6, OneStream
<1>7. CASE ReadFails(s)
  <2> DEFINE ans == IF reader[s].at = "ack" \/ ~reader[s].done THEN "error"
                    ELSE IF reader[s].match # <<>> THEN "match" ELSE "timed out"
             y == [conn[s] EXCEPT !.closed = TRUE]
             z == [reader[s] EXCEPT !.at = "over", !.answer = ans]
  <2>1. /\ conn' = [conn EXCEPT ![s] = y] /\ reader' = [reader EXCEPT ![s] = z]
        /\ reader[s].at \in {"ack", "read"}
    BY <1>1, <1>7 DEF ReadFails
  <2>2. y \in Conn /\ y.at = conn[s].at /\ y.wire = conn[s].wire /\ y.note = conn[s].note
    BY <1>1 DEF Conn
  <2>3. /\ z \in Reader /\ z.at = "over" /\ z.answer = ans /\ z.done = reader[s].done
        /\ z.got = reader[s].got /\ z.match = reader[s].match /\ z.acked = reader[s].acked
    BY <1>1 DEF Reader
  <2>4. reader[s].at = "read" /\ reader[s].done /\ reader[s].match # <<>> => ans = "match"
    OBVIOUS
  <2> HIDE DEF y, z, ans
  <2>5. sub'[s] = sub[s] /\ conn'[s] = y /\ reader'[s] = z
    BY <1>1, <1>2, <2>1
  <2>6. StreamOrder(s)'
    BY <1>1, <2>1, <2>2, <2>3, <2>5 DEF StreamOrder
  <2>7. Gapless(s)'
    BY <1>1, <1>2, <2>3, <2>5 DEF Gapless
  <2>8. MatchFound(s)'
    <3> SUFFICES ASSUME s \in Waiters PROVE MatchFound(s)'
      BY DEF MatchFound
    <3>1. ASSUME NEW n \in 1 .. Len(reader[s].got), FirstHit(s, n)
          PROVE  reader[s].match = <<reader[s].got[n]>> /\ ans = "match"
      <4>1. reader[s].match = <<reader[s].got[n]>>
        BY <1>1, <3>1 DEF MatchFound
      <4>2. reader[s].match # <<>>
        BY <4>1
      <4>3. reader[s].got # <<>>
        OBVIOUS
      <4>4. reader[s].done /\ reader[s].at = "read"
        BY <1>1, <2>1, <4>2, <4>3 DEF MatchFound
      <4> QED BY <2>4, <4>1, <4>2, <4>4
    <3> QED BY <1>1, <2>3, <2>5, <3>1 DEF MatchFound, FirstHit
  <2> QED BY <1>1, <1>2, <2>1, <2>2, <2>3, <2>6, <2>7, <2>8, OneStream
<1> QED BY <1>3, <1>4, <1>5, <1>6, <1>7

\* A client that reads an event preserves it: the first match is kept.
LEMMA ReadKeeps ==
    ASSUME StreamInv, NEW s \in Streams, ReadEvent(s)
    PROVE  StreamInv'
<1> DEFINE n == Head(conn[s].wire)
           m == Found(s, n)
           got == Append(reader[s].got, n)
           y == [conn[s] EXCEPT !.wire = Tail(@)]
           z == [reader[s] EXCEPT !.got = got, !.match = m, !.done = @ \/ m # <<>>]
<1>1. /\ sub[s] \in Sub /\ conn[s] \in Conn /\ reader[s] \in Reader
      /\ sub \in [Streams -> Sub] /\ conn \in [Streams -> Conn] /\ reader \in [Streams -> Reader]
      /\ StreamOrder(s) /\ Gapless(s) /\ MatchFound(s)
      /\ reader[s].got \in Seq(Notes) /\ conn[s].wire \in Seq(Notes)
      /\ conn[s].note \in Seq(Notes) /\ sub[s].channel \in Seq(Notes)
  BY StreamParts DEF StreamInv, StreamTypeOK
<1>2. /\ UNCHANGED <<up, committed, publishing, published, sub>>
      /\ sub' = [sub EXCEPT ![s] = sub[s]]
      /\ conn' = [conn EXCEPT ![s] = y] /\ reader' = [reader EXCEPT ![s] = z]
      /\ reader[s].at = "read" /\ conn[s].wire # <<>>
  BY <1>1 DEF ReadEvent, KeepDaemon
<1>3. /\ n = conn[s].wire[1] /\ Tail(conn[s].wire) \in Seq(Events \cup {Ok})
      /\ n \in Events \cup {Ok}
      /\ Len(Tail(conn[s].wire)) = Len(conn[s].wire) - 1 /\ Len(conn[s].wire) \in Nat \ {0}
      /\ \A j \in 1 .. Len(Tail(conn[s].wire)) : Tail(conn[s].wire)[j] = conn[s].wire[j + 1]
  BY <1>1, <1>2 DEF Notes
<1>4. \A j \in 1 .. Len(conn[s].wire) : conn[s].wire[j] # Ok
  BY <1>1, <1>2 DEF StreamOrder
<1>5. n \in Events /\ n \in Notes
  BY <1>3, <1>4 DEF Notes
<1>6. /\ reader[s].got \in Seq(Events) /\ reader[s].match \in Seq(Events)
      /\ reader[s].done \in BOOLEAN
  BY <1>1 DEF Reader
<1>7. m \in Seq(Events) /\ got \in Seq(Events)
  BY <1>5, <1>6 DEF Found
<1>8. y \in Conn /\ y.at = conn[s].at /\ y.wire = Tail(conn[s].wire) /\ y.note = conn[s].note
  BY <1>1, <1>3 DEF Conn
<1>9. /\ Len(got) = Len(reader[s].got) + 1 /\ got[Len(reader[s].got) + 1] = n
      /\ \A j \in 1 .. Len(reader[s].got) : got[j] = reader[s].got[j]
      /\ Len(reader[s].got) \in Nat
  BY <1>5, <1>6
<1>10. m = IF s \in Waiters /\ n \in Hits /\ reader[s].match = <<>> THEN <<n>> ELSE reader[s].match
  BY DEF Found
<1>11. sub'[s] = sub[s] /\ conn'[s] = y /\ reader'[s] = z
  BY <1>1, <1>2
<1>12. (Delivered(s))' = Along(got, Tail(conn[s].wire), conn[s].note, sub[s].channel)
  BY <1>1, <1>8, <1>11 DEF Delivered, Along, Reader
<1> HIDE DEF m, got
<1>13. /\ z \in Reader /\ z.at = reader[s].at /\ z.got = got /\ z.match = m
       /\ z.done = (reader[s].done \/ m # <<>>) /\ z.acked = reader[s].acked
  BY <1>1, <1>7 DEF Reader
<1> HIDE DEF y, z
<1>14. StreamOrder(s)'
  <2>1. \A j \in 1 .. Len(y.wire) : y.wire[j] # Ok
    BY <1>3, <1>4, <1>8
  <2>2. conn[s].at \notin {"none", "begin", "reply"}
    BY <1>1, <1>2 DEF StreamOrder
  <2> QED BY <1>1, <1>2, <1>8, <1>11, <1>13, <2>1, <2>2 DEF StreamOrder
<1>15. Gapless(s)'
  <2>1. (Delivered(s))' = Along(reader[s].got, conn[s].wire, conn[s].note, sub[s].channel)
    BY <1>1, <1>2, <1>12, MoveRead DEF got
  <2>2. (Delivered(s))' = Delivered(s)
    BY <2>1 DEF Delivered, Along
  <2> QED BY <1>1, <1>2, <1>8, <1>11, <1>13, <2>2 DEF Gapless
<1>16. MatchFound(s)'
  <2> SUFFICES ASSUME s \in Waiters PROVE MatchFound(s)'
    BY DEF MatchFound
  <2> DEFINE First(g, k) == g[k] \in Hits /\ \A j \in 1 .. k - 1 : g[j] \notin Hits
  <2>1. /\ reader[s].match # <<>> => reader[s].done
        /\ reader[s].match = <<>> <=>
              \A k \in 1 .. Len(reader[s].got) : reader[s].got[k] \notin Hits
        /\ \A k \in 1 .. Len(reader[s].got) :
              First(reader[s].got, k) => reader[s].match = <<reader[s].got[k]>>
    BY <1>1 DEF MatchFound, FirstHit
  <2>2. m = <<>> <=> \A k \in 1 .. Len(got) : got[k] \notin Hits
    <3>1. <<n>> # <<>>
      OBVIOUS
    <3> HIDE DEF n
    <3>2. (\A k \in 1 .. Len(got) : got[k] \notin Hits) <=>
            /\ n \notin Hits
            /\ \A k \in 1 .. Len(reader[s].got) : reader[s].got[k] \notin Hits
      <4> DEFINE old == reader[s].got
                 len == Len(old)
      <4>1. /\ Len(got) = len + 1 /\ got[len + 1] = n /\ len \in Nat
            /\ \A j \in 1 .. len : got[j] = old[j]
        BY <1>9
      <4> HIDE DEF old, len
      <4>2. (\A k \in 1 .. Len(got) : got[k] \notin Hits) <=>
              n \notin Hits /\ \A k \in 1 .. len : old[k] \notin Hits
        BY <4>1
      <4> QED BY <4>2 DEF old, len
    <3>3. CASE n \in Hits /\ reader[s].match = <<>>
      BY <1>10, <3>1, <3>2, <3>3
    <3>4. CASE ~(n \in Hits /\ reader[s].match = <<>>)
      <4>1. m = reader[s].match
        BY <1>10, <3>4
      <4> QED BY <2>1, <3>2, <3>4, <4>1
    <3> QED BY <3>3, <3>4
  <2>3. ASSUME NEW k \in 1 .. Len(got), First(got, k)
        PROVE  m = <<got[k]>>
    <3>1. CASE k \in 1 .. Len(reader[s].got)
      <4>1. First(reader[s].got, k)
        BY <1>9, <2>3, <3>1
      <4>2. reader[s].match = <<reader[s].got[k]>> /\ reader[s].match # <<>>
        BY <2>1, <3>1, <4>1
      <4> QED BY <1>9, <1>10, <3>1, <4>2
    <3>2. CASE k = Len(reader[s].got) + 1
      <4>1. \A j \in 1 .. Len(reader[s].got) : reader[s].got[j] \notin Hits
        BY <1>9, <2>3, <3>2
      <4>2. reader[s].match = <<>> /\ n \in Hits
        BY <1>9, <2>1, <2>3, <3>2, <4>1
      <4> QED BY <1>9, <1>10, <3>2, <4>2
    <3> QED BY <1>9, <3>1, <3>2
  <2>4. m # <<>> => z.done
    BY <1>13
  <2> QED BY <1>2, <1>11, <1>13, <2>2, <2>3, <2>4 DEF MatchFound, FirstHit
<1> QED BY <1>1, <1>2, <1>8, <1>13, <1>14, <1>15, <1>16, OneStream

\* A commit, a publication and the end of the daemon preserve it.
LEMMA IngestKeeps ==
    ASSUME StreamInv,
           (\E k \in Ingesters : Commit(k) \/ Publish(k)) \/ DaemonExits
    PROVE  StreamInv'
<1>1. ASSUME NEW k \in Ingesters, Commit(k)
      PROVE  StreamInv'
  <2>1. StreamTypeOK'
    BY <1>1, StreamAssumption DEF StreamInv, StreamTypeOK, Commit
  <2>2. UNCHANGED <<published, sub, conn, reader>>
    BY <1>1 DEF Commit
  <2>3. \A s \in Streams : StreamOrder(s) /\ Gapless(s) /\ MatchFound(s)
    BY DEF StreamInv
  <2> QED BY <2>1, <2>2, <2>3
          DEF StreamInv, StreamOrder, Gapless, Delivered, MatchFound, FirstHit
<1>2. ASSUME NEW k \in Ingesters, Publish(k)
      PROVE  StreamInv'
  <2> DEFINE e == publishing[k]
  <2>1. /\ e \in Events /\ published' = Append(published, e)
        /\ publishing' = [publishing EXCEPT ![k] = 0]
        /\ UNCHANGED <<up, committed, conn, reader>>
    BY <1>2, StreamAssumption DEF StreamInv, StreamTypeOK, Publish, Events
  <2>2. ASSUME NEW s \in Streams
        PROVE  /\ sub'[s] \in Sub /\ sub'[s].on = sub[s].on
               /\ sub[s].on /\ ~sub'[s].full =>
                     ~sub[s].full /\ sub'[s].channel = Append(sub[s].channel, e)
    <3>1. sub[s] \in Sub
      BY StreamParts
    <3>2. Append(sub[s].channel, e) \in Seq(Events)
      BY <2>1, <3>1 DEF Sub
    <3>3. sub'[s] = IF ~sub[s].on THEN sub[s]
                    ELSE IF Len(sub[s].channel) = Buffer THEN [sub[s] EXCEPT !.full = TRUE]
                    ELSE [sub[s] EXCEPT !.channel = Append(@, e)]
      BY <1>2 DEF Publish
    <3> HIDE DEF e
    <3> QED BY <3>1, <3>2, <3>3 DEF Sub
  <2> HIDE DEF e
  <2>3. StreamTypeOK'
    <3>1. sub' \in [Streams -> Sub]
      BY <1>2, <2>2 DEF Publish
    <3> QED BY <2>1, <3>1, StreamAssumption DEF StreamInv, StreamTypeOK
  <2>4. ASSUME NEW s \in Streams
        PROVE  StreamOrder(s)' /\ Gapless(s)' /\ MatchFound(s)'
    <3>1. /\ StreamOrder(s) /\ Gapless(s) /\ MatchFound(s) /\ reader[s] \in Reader
          /\ conn[s] \in Conn
      BY StreamParts
    <3>2. StreamOrder(s)' /\ MatchFound(s)'
      BY <2>1, <2>2, <3>1 DEF StreamOrder, MatchFound, FirstHit
    <3>3. /\ published \in Seq(Notes) /\ reader[s].got \in Seq(Notes) /\ conn[s].wire \in Seq(Notes)
          /\ conn[s].note \in Seq(Notes) /\ sub[s].channel \in Seq(Notes)
          /\ Delivered(s) \in Seq(Notes) /\ e \in Notes /\ reader[s].acked \in Nat
      BY <2>1, <3>1, StreamParts DEF Notes, Reader
    <3>4. Len(published') = Len(published) + 1 /\ Len(published) \in Nat
      BY <2>1, <3>3
    <3>5. ASSUME s \in Waiters, reader[s].at = "read", conn[s].at # "gone", ~sub'[s].full
          PROVE  Ends(published', reader[s].acked, (Delivered(s))')
      <4>1. sub[s].on
        BY <3>1, <3>5 DEF StreamOrder, Conn
      <4>2. ~sub[s].full /\ sub'[s].channel = Append(sub[s].channel, e)
        BY <2>2, <3>5, <4>1
      <4>3. (Delivered(s))' = Along(reader[s].got, conn[s].wire, conn[s].note,
                                    Append(sub[s].channel, e))
        BY <2>1, <4>2 DEF Delivered, Along
      <4>4. Delivered(s) = Along(reader[s].got, conn[s].wire, conn[s].note, sub[s].channel)
        BY DEF Delivered, Along
      <4>5. (Delivered(s))' = Longer(Delivered(s), e)
        <5>1. Along(reader[s].got, conn[s].wire, conn[s].note, Append(sub[s].channel, e))
                = Longer(Along(reader[s].got, conn[s].wire, conn[s].note, sub[s].channel), e)
          BY <3>3, MoveOffered
        <5> QED BY <4>3, <4>4, <5>1
      <4>6. Ends(published, reader[s].acked, Delivered(s))
        BY <3>1, <3>5, <4>2 DEF Gapless
      <4>7. Ends(Append(published, e), reader[s].acked, Longer(Delivered(s), e))
        BY <3>3, <4>6, EndsAppend
      <4> QED BY <2>1, <4>5, <4>7
    <3>6. Gapless(s)'
      BY <2>1, <3>1, <3>3, <3>4, <3>5 DEF Gapless
    <3> QED BY <3>2, <3>6
  <2> QED BY <2>3, <2>4 DEF StreamInv
<1>3. CASE DaemonExits
  <2>1. /\ up' = FALSE /\ publishing' = [k \in Ingesters |-> 0]
        /\ UNCHANGED <<committed, published, reader>>
    BY <1>3 DEF DaemonExits
  <2>2. ASSUME NEW s \in Streams
        PROVE  /\ sub'[s] \in Sub /\ conn'[s] \in Conn
               /\ conn'[s].wire = conn[s].wire
               /\ conn'[s].note = <<>>
               /\ \/ conn'[s].at = "none" /\ conn[s].at = "none"
                  \/ conn'[s].at = "gone" /\ conn[s].at # "none"
    <3>1. sub[s] \in Sub /\ conn[s] \in Conn /\ StreamOrder(s)
      BY StreamParts
    <3>2. <<>> \in Seq(Events)
      OBVIOUS
    <3>3. sub'[s] = SubWith(sub[s], FALSE, <<>>)
      BY <1>3 DEF DaemonExits, SubWith
    <3>4. sub'[s] \in Sub
      BY <3>1, <3>2, <3>3, NewSub
    <3>5. CASE conn[s].at = "none"
      <4>1. conn'[s] = conn[s]
        BY <1>3, <3>5 DEF DaemonExits
      <4> QED BY <3>1, <3>4, <3>5, <4>1 DEF StreamOrder
    <3>6. CASE conn[s].at # "none"
      <4>1. conn'[s] = [conn[s] EXCEPT !.at = "gone", !.note = <<>>]
        BY <1>3, <3>6 DEF DaemonExits
      <4>2. conn'[s] = ConnWith(conn[s], "gone", <<>>, conn[s].wire)
        BY <3>1, <4>1 DEF ConnWith, Conn
      <4>3. conn[s].wire \in Seq(Notes) /\ "gone" \in ConnAt
        BY StreamParts DEF ConnAt
      <4>4. conn'[s] \in Conn
        BY <3>1, <3>2, <4>2, <4>3, NewConn
      <4>5. conn'[s].at = "gone" /\ conn'[s].note = <<>> /\ conn'[s].wire = conn[s].wire
        BY <3>1, <4>1 DEF Conn
      <4> QED BY <3>4, <3>6, <4>4, <4>5
    <3> QED BY <3>5, <3>6
  <2>3. StreamTypeOK'
    <3>1. sub' \in [Streams -> Sub] /\ conn' \in [Streams -> Conn]
      BY <1>3, <2>2 DEF DaemonExits
    <3>2. publishing' \in [Ingesters -> 0 .. MaxEvents]
      BY <2>1, StreamAssumption
    <3>3. /\ committed' \in 0 .. MaxEvents /\ published' \in Seq(Events)
          /\ reader' \in [Streams -> Reader] /\ up' \in BOOLEAN
      BY <2>1 DEF StreamInv, StreamTypeOK
    <3> QED BY <3>1, <3>2, <3>3 DEF StreamTypeOK
  <2>4. ASSUME NEW s \in Streams
        PROVE  StreamOrder(s)' /\ Gapless(s)' /\ MatchFound(s)'
    <3>1. StreamOrder(s) /\ Gapless(s) /\ MatchFound(s)
      BY DEF StreamInv
    <3>2. StreamOrder(s)'
      BY <2>1, <2>2, <3>1 DEF StreamOrder
    <3>3. Gapless(s)'
      BY <2>1, <2>2, <3>1 DEF Gapless, StreamOrder
    <3>4. MatchFound(s)'
      BY <2>1, <3>1 DEF MatchFound, FirstHit
    <3> QED BY <3>2, <3>3, <3>4
  <2> QED BY <2>3, <2>4 DEF StreamInv
<1> QED BY <1>1, <1>2, <1>3

LEMMA StreamStep == StreamInv /\ [StreamNext]_streamVars => StreamInv'
<1> SUFFICES ASSUME StreamInv, [StreamNext]_streamVars PROVE StreamInv'
  OBVIOUS
<1>1. CASE UNCHANGED streamVars
  BY <1>1 DEF streamVars, StreamInv, StreamTypeOK, StreamOrder, Gapless, Delivered, MatchFound,
              FirstHit
<1>2. CASE StreamNext
  BY <1>2, HandlerKeeps, ClientKeeps, ReadKeeps, IngestKeeps DEF StreamNext, ReaderStep
<1> QED BY <1>1, <1>2

LEMMA StreamInvariant == StreamSpec => []StreamInv
  BY StreamInitInv, StreamStep, PTL DEF StreamSpec

\* Channels, connections and clients stay in range: the client takes nothing for an event
\* that is not one, such as the first response.
THEOREM StreamTypes == StreamSpec => []StreamTypeOK
<1>1. StreamInv => StreamTypeOK
  BY DEF StreamInv
<1> QED BY <1>1, StreamInvariant, PTL

\* No event falls between the answer that the stream is on and the subscription, or is
\* overtaken on the way, for any number of events, streams and ingesters and any capacity.
THEOREM StreamGapless == StreamSpec => []NoSilentGap
<1>1. StreamInv => NoSilentGap
  <2> SUFFICES ASSUME StreamInv, NEW s \in Waiters,
                      reader[s].at = "read", ~conn[s].closed, conn[s].at # "gone", ~sub[s].full
               PROVE  IsSuffix(SubSeq(published, reader[s].acked + 1, Len(published)),
                               Delivered(s))
    BY DEF NoSilentGap
  <2>1. s \in Streams
    BY DEF Streams
  <2>2. /\ Gapless(s) /\ published \in Seq(Notes) /\ Delivered(s) \in Seq(Notes)
        /\ reader[s] \in Reader
    BY <2>1, StreamParts
  <2>3. Ends(published, reader[s].acked, Delivered(s)) /\ reader[s].acked \in Nat
    BY <2>2 DEF Gapless, Reader
  <2> QED BY <2>2, <2>3, EndsIsSuffix
<1> QED BY <1>1, StreamInvariant, PTL

\* A wait that has read a match returns the first one it read, whatever else ends it.
THEOREM MatchKept == StreamSpec => []MatchIsKept
<1>1. StreamInv => MatchIsKept
  BY DEF StreamInv, MatchFound, MatchIsKept, Streams
<1> QED BY <1>1, StreamInvariant, PTL
=============================================================================
