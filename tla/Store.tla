------------------------------- MODULE Store -------------------------------
(***************************************************************************)
(* The SQLite store of the RuntimePulse daemon (internal/store) and the    *)
(* core types it persists (internal/core).  The database has one           *)
(* connection (SetMaxOpenConns(1)), so each store method is one atomic     *)
(* step; every operator below that primes a variable is one such method,   *)
(* and says what it does to all of the tables.                             *)
(*                                                                         *)
(* Row ids are random and never reused: a continuation row whose state is  *)
(* "unused" has not been inserted yet, one that is "deleted" was swept.    *)
(*                                                                         *)
(* Time has two scales.  tick orders the created_at stamps, which FIFO     *)
(* order compares; day counts the retention windows that updated_at is     *)
(* compared with.                                                          *)
(***************************************************************************)
EXTENDS Naturals, FiniteSets, Functions

CONSTANTS
    Sessions,         \* session ids
    Conts,            \* continuation ids
    Rules,            \* rule ids
    Agents,           \* agent names a session can be registered with
    NoAgent,          \* a rule.add without agent and repoPath
    Given,            \* the states session.register is called with
    Manual,           \* stands for the synthetic rule id of a manual continuation
    AnySource,        \* the empty event_source of a selector
    NoLabel,          \* the empty label
    ManualLabel,      \* the label "manual"
    RuleDef,          \* what each rule id is added with (type, source, session, agent, ...)
    SessionIdle,      \* RetentionPolicy.SessionIdle, in days
    ContinuationAge,  \* RetentionPolicy.ContinuationAge, in days
    MaxErrs           \* bound: store calls that fail

VARIABLES
    session,  \* the sessions table
    rule,     \* the rules table: where each rule id is in its life
    expired,  \* the rules whose expires_at has passed
    cont,     \* the continuations table
    results,  \* the events table: how many result events of each continuation it was given
    tick,     \* the next created_at stamp
    day,      \* the retention clock
    errs      \* store calls that failed so far

storeVars == <<session, rule, expired, cont, results, tick, day, errs>>

RuleIds == Rules \cup {Manual}

ASSUME SessionsAssumption == Sessions # {}
ASSUME AgentsAssumption == Agents # {} /\ NoAgent \notin Agents
ASSUME GivenAssumption == "absent" \notin Given
ASSUME RuleDefAssumption ==
    \A r \in Rules : /\ RuleDef[r].session \in Sessions
                     /\ RuleDef[r].oneShot \in BOOLEAN
                     /\ RuleDef[r].agent \in Agents \cup {NoAgent}
ASSUME ManualAssumption == Manual \notin Rules
ASSUME BoundsAssumption ==
    /\ SessionIdle \in Nat
    /\ ContinuationAge \in Nat
    /\ MaxErrs \in Nat

\* The daemon itself sets waiting and running; the column takes any other text.
SessionState == {"absent", "waiting", "running"} \cup Given

SessionRow == [state: SessionState, agent: Agents, updated: Nat]

Terminal == {"completed", "failed"}

\* exit says that exit_code is not NULL: an adapter returned a result.  updated is kept
\* for terminal rows only: the sweep compares no other row's updated_at.
ContRow == [state: {"unused", "pending", "running", "deleted"} \cup Terminal,
            session: Sessions, rule: RuleIds, created: Nat, updated: Nat, exit: BOOLEAN]

NoSession == [state |-> "absent", agent |-> CHOOSE a \in Agents : TRUE, updated |-> 0]

NoCont == [state |-> "unused", session |-> CHOOSE s \in Sessions : TRUE,
           rule |-> Manual, created |-> 0, updated |-> 0, exit |-> FALSE]

StoreTypeOK ==
    /\ session \in [Sessions -> SessionRow]
    /\ rule \in [Rules -> {"unadded", "armed", "consumed", "removed"}]
    /\ expired \in SUBSET Rules
    /\ cont \in [Conts -> ContRow]
    /\ results \in [Conts -> Nat]
    /\ tick \in Nat
    /\ day \in Nat
    /\ errs \in Nat

\* A fresh database: Open and migrate on an empty state directory.
StoreInit ==
    /\ session = [s \in Sessions |-> NoSession]
    /\ rule = [r \in Rules |-> "unadded"]
    /\ expired = {}
    /\ cont = [c \in Conts |-> NoCont]
    /\ results = [c \in Conts |-> 0]
    /\ tick = 0
    /\ day = 0
    /\ errs = 0

\* One store call fails: nothing is written (a failed transaction rolls back).
StoreFails ==
    /\ errs < MaxErrs
    /\ errs' = errs + 1
    /\ UNCHANGED <<session, rule, expired, cont, results, tick, day>>

----------------------------------------------------------------------------
(* Sessions *)

Registered(s) == session[s].state # "absent"

\* Mutant: ON CONFLICT leaves updated_at alone.
RegisterStale(s, a, st) ==
    /\ session' = [session EXCEPT ![s] =
         IF Registered(s) THEN [@ EXCEPT !.agent = a]
         ELSE [state |-> st, agent |-> a, updated |-> day]]
    /\ UNCHANGED <<rule, expired, cont, results, tick, day, errs>>

\* A new session has the state it is registered with, which the caller defaults to
\* waiting; re-registering keeps the state.
RegisterSession(s, a, st) ==
    /\ session' = [session EXCEPT ![s] =
         [state |-> IF Registered(s) THEN @.state ELSE st,
          agent |-> a, updated |-> day]]
    /\ UNCHANGED <<rule, expired, cont, results, tick, day, errs>>

\* UPDATE ... WHERE session_id: no row, no effect.
SetSessionState(s, st) ==
    /\ session' = IF Registered(s)
                  THEN [session EXCEPT ![s].state = st, ![s].updated = day]
                  ELSE session
    /\ UNCHANGED <<rule, expired, cont, results, tick, day, errs>>

----------------------------------------------------------------------------
(* Rules *)

\* consumed = 0 AND (expires_at IS NULL OR expires_at > now)
Active(r) == rule[r] = "armed" /\ r \notin expired

AddRule(r) ==
    /\ rule' = [rule EXCEPT ![r] = "armed"]
    /\ UNCHANGED <<session, expired, cont, results, tick, day, errs>>

RemoveRule(r) ==
    /\ rule' = [rule EXCEPT ![r] = "removed"]
    /\ UNCHANGED <<session, expired, cont, results, tick, day, errs>>

\* The passing of a rule's expires_at.
Expire(r) ==
    /\ RuleDef[r].expires
    /\ r \notin expired
    /\ expired' = expired \cup {r}
    /\ UNCHANGED <<session, rule, cont, results, tick, day, errs>>

\* EventSelector.Matches, and the WHERE clause that restates it.
Matches(r, ev) ==
    /\ RuleDef[r].type = ev.type
    /\ RuleDef[r].source \in {AnySource, ev.source}

\* A template that uses a payload key the event lacks does not render.
Renders(r, ev) == RuleDef[r].needs \subseteq ev.keys

Matched(ev) == {r \in Rules : Active(r) /\ Matches(r, ev)}

----------------------------------------------------------------------------
(* Continuations *)

Unused == {c \in Conts : cont[c].state = "unused"}

\* The continuations an event gives birth to: fresh ids, one for each matched rule.
Births(ev) == UNION {Bijection(N, Matched(ev)) : N \in SUBSET Unused}

Born(r, ev) ==
    [state |-> IF Renders(r, ev) THEN "pending" ELSE "failed",
     session |-> RuleDef[r].session, rule |-> r,
     created |-> tick, updated |-> IF Renders(r, ev) THEN 0 ELSE day, exit |-> FALSE]

\* The event row; an event says in "of" which continuation it is the result of, if any.
InsertEvent(ev) ==
    results' = [c \in Conts |-> IF c = ev.of THEN results[c] + 1 ELSE results[c]]

\* Mutant: the oneShot rule is not consumed.
ConsumeNothing(ev) == rule

ConsumeOneShots(ev) ==
    [r \in Rules |-> IF r \in Matched(ev) /\ RuleDef[r].oneShot THEN "consumed" ELSE rule[r]]

\* The outbox transaction: the event, one continuation for each rule it matches, all
\* with one created_at, and the oneShot rules consumed.
Ingest(ev, born) ==
    /\ InsertEvent(ev)
    /\ cont' = [c \in Conts |-> IF c \in DOMAIN born THEN Born(born[c], ev) ELSE cont[c]]
    /\ rule' = ConsumeOneShots(ev)
    /\ tick' = IF DOMAIN born = {} THEN tick ELSE tick + 1
    /\ UNCHANGED <<session, expired, day, errs>>

\* The rows a query for the session's pending work selects.
PendingOf(s) == {c \in Conts : cont[c].state = "pending" /\ cont[c].session = s}

PendingSessions == {s \in Sessions : PendingOf(s) # {}}

\* Mutant: any pending row, ORDER BY created_at forgotten.
AnyPendingForSession(s) == PendingOf(s)

\* ORDER BY created_at, id LIMIT 1.  Ids are random: of the oldest, any can come first.
NextPendingForSession(s) ==
    {c \in PendingOf(s) : \A d \in PendingOf(s) : cont[c].created <= cont[d].created}

ClaimContinuation(c) ==
    /\ cont' = [cont EXCEPT ![c].state = "running"]
    /\ UNCHANGED <<session, rule, expired, results, tick, day, errs>>

UpdateContinuationResult(c, st, exit) ==
    /\ cont' = [cont EXCEPT ![c].state = st, ![c].exit = exit, ![c].updated = day]
    /\ UNCHANGED <<session, rule, expired, results, tick, day, errs>>

\* Mutant: everything but the pending rows is put back.
ResetAllContinuations ==
    /\ cont' = [c \in Conts |-> IF cont[c].state \in {"running"} \cup Terminal
                                THEN [cont[c] EXCEPT !.state = "pending"] ELSE cont[c]]
    /\ UNCHANGED <<session, rule, expired, results, tick, day, errs>>

\* Mutant: no boot recovery.
ResetNothing == UNCHANGED storeVars

ResetRunningContinuations ==
    /\ cont' = [c \in Conts |-> IF cont[c].state = "running"
                                THEN [cont[c] EXCEPT !.state = "pending"]
                                ELSE cont[c]]
    /\ UNCHANGED <<session, rule, expired, results, tick, day, errs>>

\* stamp is the time InsertManualContinuation read before it wrote the row.
InsertManualContinuation(c, s, stamp) ==
    /\ cont' = [cont EXCEPT ![c] =
         [state |-> "pending", session |-> s, rule |-> Manual,
          created |-> stamp, updated |-> 0, exit |-> FALSE]]
    /\ UNCHANGED <<session, rule, expired, results, tick, day, errs>>

----------------------------------------------------------------------------
(* Retention *)

\* Idle, not running, and no active rule continues it.
Sweepable(s) ==
    /\ session[s].updated + SessionIdle < day
    /\ session[s].state \notin {"absent", "running"}
    /\ \A r \in Rules : Active(r) => RuleDef[r].session # s

\* Mutant: pending and running continuations age out too.
ExpendableInAnyState(c) ==
    /\ cont[c].state # "unused"
    /\ cont[c].updated + ContinuationAge < day

Expendable(c) ==
    /\ cont[c].state \in Terminal
    /\ cont[c].updated + ContinuationAge < day

Sweep ==
    /\ session' = [s \in Sessions |-> IF Sweepable(s) THEN NoSession ELSE session[s]]
    /\ cont' = [c \in Conts |-> IF Expendable(c)
                                THEN [NoCont EXCEPT !.state = "deleted", !.rule = cont[c].rule]
                                ELSE cont[c]]
    /\ UNCHANGED <<rule, expired, results, tick, day, errs>>
=============================================================================
