------------------------------- MODULE Apply -------------------------------
(***************************************************************************)
(* `runtimepulse apply` (internal/workflow, cmd_apply.go) against the      *)
(* daemon's rule.add and rule.remove: a workflow file is parsed, its steps *)
(* are added as rules one call at a time, and a call that fails rolls back *)
(* the rules that were added.                                              *)
(*                                                                         *)
(* A call can be answered, refused, or not be answered: its deadline       *)
(* passes or the daemon stops, and the daemon may commit all the same.     *)
(***************************************************************************)
EXTENDS Naturals, Sequences

CONSTANT Files  \* the workflow files

VARIABLES
    file,       \* the file that is applied
    applying,   \* where apply is
    step,       \* the index of its current step
    created,    \* the rules it knows to be added, and has not rolled back
    answer,     \* the daemon's answer to each rule.add
    inflight,   \* the rule.add calls that the daemon works on
    serving,    \* the daemon runs
    row,        \* each step's rule in the store
    adrift      \* history: steps whose add was not answered or whose removal failed

applyVars == <<file, applying, step, created, answer, inflight, serving, row, adrift>>

\* Labels are numbers: 0 is no label, and i is the default label of step i, "step-i".
StepType == [label: Nat, type: BOOLEAN, prompt: {"none", "malformed", "fine"}]

ASSUME ApplyAssumption == \A f \in Files : f.steps \in Seq(StepType)

Steps == 1 .. Len(file.steps)

\* A run of apply and the rules it adds are in range (applyCmd, ruleAdd).
ApplyTypeOK ==
    /\ file \in Files
    /\ applying \in {"parse", "add", "wait", "rollback", "refused", "failed", "applied"}
    /\ step \in Nat
    /\ created \in Seq(Steps)
    /\ answer \in [Steps -> {"none", "ok", "error"}]
    /\ inflight \subseteq Steps /\ adrift \subseteq Steps
    /\ serving \in BOOLEAN
    /\ row \in [Steps -> {"none", "armed", "fired", "removed"}]

ApplyInit ==
    /\ file \in Files
    /\ applying = "parse"
    /\ step = 1
    /\ created = <<>>
    /\ answer = [i \in Steps |-> "none"]
    /\ inflight = {}
    /\ serving = TRUE
    /\ row = [i \in Steps |-> "none"]
    /\ adrift = {}

----------------------------------------------------------------------------
(* workflow.Parse and applyCmd *)

Label(f, i) == IF f.steps[i].label = 0 THEN i ELSE f.steps[i].label

\* Mutant: templates are left to the daemon.
ParseLax(f) ==
    /\ f.session /\ f.agent
    /\ f.steps # <<>>
    /\ \A i \in DOMAIN f.steps : f.steps[i].type /\ f.steps[i].prompt # "none"
    /\ \A i, j \in DOMAIN f.steps : Label(f, i) = Label(f, j) => i = j

\* The file has a session, an agent and steps, with distinct labels, types and prompts.
Parse(f) ==
    /\ f.session /\ f.agent
    /\ f.steps # <<>>
    /\ \A i \in DOMAIN f.steps : f.steps[i].type /\ f.steps[i].prompt = "fine"
    /\ \A i, j \in DOMAIN f.steps : Label(f, i) = Label(f, j) => i = j

KeepDaemonSide == UNCHANGED <<file, serving, row>>

ParseFile ==
    /\ applying = "parse"
    /\ applying' = IF Parse(file) THEN "add" ELSE "refused"
    /\ UNCHANGED <<step, created, answer, inflight, adrift>>
    /\ KeepDaemonSide

\* rule.add for the next step; a daemon that is gone refuses the connection.
SendAdd ==
    /\ applying = "add"
    /\ \/ serving /\ applying' = "wait" /\ inflight' = inflight \cup {step}
       \/ ~serving /\ applying' = "rollback" /\ UNCHANGED inflight
    /\ UNCHANGED <<step, created, answer, adrift>>
    /\ KeepDaemonSide

\* Mutant: one step too many.
ReadAnswerLate ==
    /\ applying = "wait"
    /\ \/ /\ answer[step] = "ok"
          /\ created' = Append(created, step)
          /\ step' = step + 1
          /\ applying' = IF step > Len(file.steps) THEN "applied" ELSE "add"
       \/ /\ answer[step] = "error"
          /\ applying' = "rollback"
          /\ UNCHANGED <<created, step>>
    /\ UNCHANGED <<answer, inflight, adrift>>
    /\ KeepDaemonSide

ReadAnswer ==
    /\ applying = "wait"
    /\ \/ /\ answer[step] = "ok"
          /\ created' = Append(created, step)
          /\ step' = step + 1
          /\ applying' = IF step = Len(file.steps) THEN "applied" ELSE "add"
       \/ /\ answer[step] = "error"
          /\ applying' = "rollback"
          /\ UNCHANGED <<created, step>>
    /\ UNCHANGED <<answer, inflight, adrift>>
    /\ KeepDaemonSide

\* The deadline of the call passes, or the connection ends without an answer.
NoReply ==
    /\ applying = "wait"
    /\ applying' = "rollback"
    /\ adrift' = adrift \cup {step}
    /\ UNCHANGED <<step, created, answer, inflight>>
    /\ KeepDaemonSide

\* Mutant: the first removal that fails ends the rollback.
RollbackStops ==
    /\ applying = "rollback"
    /\ created # <<>>
    /\ \/ serving /\ row' = [row EXCEPT ![Head(created)] = "removed"] /\ UNCHANGED adrift
          /\ created' = Tail(created)
       \/ UNCHANGED row /\ adrift' = adrift \cup {Head(created)} /\ created' = <<>>
    /\ UNCHANGED <<file, applying, step, answer, inflight, serving>>

\* rule.remove for one rule after the other; an error is ignored.
Rollback ==
    /\ applying = "rollback"
    /\ created # <<>>
    /\ \/ serving /\ row' = [row EXCEPT ![Head(created)] = "removed"] /\ UNCHANGED adrift
       \/ UNCHANGED row /\ adrift' = adrift \cup {Head(created)}
    /\ created' = Tail(created)
    /\ UNCHANGED <<file, applying, step, answer, inflight, serving>>

RolledBack ==
    /\ applying = "rollback"
    /\ created = <<>>
    /\ applying' = "failed"
    /\ UNCHANGED <<step, created, answer, inflight, adrift>>
    /\ KeepDaemonSide

----------------------------------------------------------------------------
(* The daemon *)

\* What ruleAdd demands before it changes anything.
RuleAddAccepts(f, i) == f.session /\ f.steps[i].type /\ f.steps[i].prompt = "fine"

KeepApply == UNCHANGED <<file, applying, step, created, adrift>>

RuleAdded(i) ==
    /\ i \in inflight
    /\ RuleAddAccepts(file, i)
    /\ inflight' = inflight \ {i}
    /\ answer' = [answer EXCEPT ![i] = "ok"]
    /\ row' = [row EXCEPT ![i] = "armed"]
    /\ UNCHANGED serving
    /\ KeepApply

\* The parameters are refused, or the store fails.
RuleRefused(i) ==
    /\ i \in inflight
    /\ inflight' = inflight \ {i}
    /\ answer' = [answer EXCEPT ![i] = "error"]
    /\ UNCHANGED <<serving, row>>
    /\ KeepApply

\* An event comes that a rule waits for, while apply may still be at work.
RuleFires(i) ==
    /\ serving
    /\ row[i] = "armed"
    /\ row' = [row EXCEPT ![i] = "fired"]
    /\ UNCHANGED <<answer, inflight, serving>>
    /\ KeepApply

DaemonStops ==
    /\ serving
    /\ serving' = FALSE
    /\ inflight' = {}
    /\ UNCHANGED <<answer, row>>
    /\ KeepApply

ApplyNext ==
    \/ ParseFile \/ SendAdd \/ ReadAnswer \/ NoReply \/ Rollback \/ RolledBack
    \/ \E i \in Steps : RuleAdded(i) \/ RuleRefused(i) \/ RuleFires(i)
    \/ DaemonStops

ApplySpec == ApplyInit /\ [][ApplyNext]_applyVars

----------------------------------------------------------------------------
(* Properties *)

\* A workflow is added as a whole or not at all, even when rules fire while the rest is
\* added: after a failure only such rules are in the store as apply could not know of, the
\* step that was not answered, or could not remove (applyCmd).
NoHalfWorkflow ==
    /\ applying = "applied" => \A i \in Steps : row[i] # "none"
    /\ applying \in {"refused", "failed"} =>
          \A i \in Steps : row[i] \in {"armed", "fired"} => i \in adrift

\* The daemon refuses no step of a workflow that Parse lets through: both check the same
\* things, as the comment on applyCmd says.
ParsedIsAccepted == \A i \in inflight : RuleAddAccepts(file, i)
=============================================================================
