---------------------------- MODULE WatchManager ----------------------------
(***************************************************************************)
(* Watches: the watches table (internal/store/watches.go), the manager's   *)
(* map of running watchers (internal/watch/manager.go) and the RPC calls   *)
(* that change both (internal/daemon/rpc.go, watch.add and watch.remove).  *)
(*                                                                         *)
(* A target stands for a (type, target) pair.  The table and the map are   *)
(* guarded by different means, one connection and one mutex, so a call is  *)
(* a step for each of them and other calls run in between.                 *)
(***************************************************************************)
EXTENDS Naturals, FiniteSets, Functions

CONSTANTS
    Ids,       \* watch ids
    Targets,   \* what can be watched
    NoTarget,  \* a row that is not there
    Fragile,   \* the targets whose watcher can return an error
    Handles,   \* identities of watcher goroutines and of their handles
    NoHandle,  \* no entry in the map
    Handlers,  \* connection handlers
    MaxStops,  \* bound: crashes and shutdowns
    MaxErrs    \* bound: store calls that fail

VARIABLES
    row,        \* the watches table
    spent,      \* the ids that were inserted
    process,    \* "down", "up" or "cancelled" (the lifetime ctx is done)
    running,    \* Manager.running
    goroutine,  \* the watcher goroutines
    call,       \* what each handler is doing
    owed,       \* history: targets of watch.add calls that no state was emitted for since
    left,       \* history: rows that a failed call has left without attending to their watcher
    stops,      \* crashes and shutdowns so far
    errs        \* store calls that failed so far

managerVars == <<row, spent, process, running, goroutine, call, owed, left, stops, errs>>

ASSUME WatchAssumption ==
    /\ Ids # {} /\ Targets # {}
    /\ NoTarget \notin Targets
    /\ Fragile \subseteq Targets
    /\ NoHandle \notin Handles
    /\ MaxStops \in Nat /\ MaxErrs \in Nat

\* "wrap": about to call wrappedEmit; "emit": past its check of ctx.
Goroutine == [pc: {"none", "wrap", "emit", "watch", "cleanup"}, id: Ids,
              target: Targets \cup {NoTarget}, cancelled: BOOLEAN]

NoGoroutine == [pc |-> "none", id |-> CHOOSE i \in Ids : TRUE, target |-> NoTarget,
                cancelled |-> FALSE]

Call == [pc: {"idle", "select", "start", "cancel", "delete"}, id: Ids,
         target: Targets \cup {NoTarget}, handle: Handles \cup {NoHandle}]

NoCall == [pc |-> "idle", id |-> CHOOSE i \in Ids : TRUE, target |-> NoTarget,
           handle |-> NoHandle]

\* Every row, map entry, goroutine and call is of its kind, and the table keeps its
\* constraint UNIQUE(type, target) (AddWatch: INSERT OR IGNORE).
ManagerTypeOK ==
    /\ row \in [Ids -> Targets \cup {NoTarget}]
    /\ \A i, j \in Ids : row[i] = row[j] /\ row[i] # NoTarget => i = j
    /\ spent \in SUBSET Ids
    /\ process \in {"down", "up", "cancelled"}
    /\ running \in [Ids -> Handles \cup {NoHandle}]
    /\ goroutine \in [Handles -> Goroutine]
    /\ call \in [Handlers -> Call]
    /\ owed \in SUBSET Targets
    /\ left \in SUBSET Ids
    /\ stops \in Nat /\ errs \in Nat

ManagerInit ==
    /\ row = [i \in Ids |-> NoTarget]
    /\ spent = {}
    /\ process = "down"
    /\ running = [i \in Ids |-> NoHandle]
    /\ goroutine = [h \in Handles |-> NoGoroutine]
    /\ call = [k \in Handlers |-> NoCall]
    /\ owed = {}
    /\ left = {}
    /\ stops = 0 /\ errs = 0

\* One store call fails: nothing is written.
StoreFails ==
    /\ errs < MaxErrs
    /\ errs' = errs + 1
    /\ UNCHANGED <<row, spent>>

\* Handles are pointers: one that a Stop still holds is not allocated again.
FreeHandles == {h \in Handles : /\ goroutine[h].pc = "none"
                                /\ \A k \in Handlers : call[k].handle # h}

\* ctx.Err() # nil: the watcher's own context is derived from the lifetime's.
Cancelled(h) == goroutine[h].cancelled \/ process = "cancelled"

Spawned(i, t) == [pc |-> "wrap", id |-> i, target |-> t, cancelled |-> FALSE]

----------------------------------------------------------------------------
(* watch.add *)

\* Mutant: the conflict on (type, target) goes unnoticed.
NoRows(t) == {}

Rows(t) == {i \in Ids : row[i] = t}

\* INSERT OR IGNORE on (type, target); the id of an ignored row is never seen.
AddInsert(k, t) ==
    /\ process # "down"
    /\ call[k] = NoCall
    /\ \/ /\ \/ Rows(t) # {} /\ UNCHANGED <<row, spent>>
             \/ /\ Rows(t) = {}
                /\ \E i \in Ids \ spent :
                     /\ row' = [row EXCEPT ![i] = t]
                     /\ spent' = spent \cup {i}
          /\ call' = [call EXCEPT ![k] = [NoCall EXCEPT !.pc = "select", !.target = t]]
          /\ owed' = owed \cup {t}
          /\ UNCHANGED errs
       \/ StoreFails /\ UNCHANGED <<call, owed>>
    /\ UNCHANGED <<process, running, goroutine, left, stops>>

\* The row that the table holds for the target; an error when it is gone again, or when it
\* cannot be read: then it stays in the table, and the call ends without a watcher for it.
AddSelect(k) ==
    /\ call[k].pc = "select"
    /\ \/ /\ \E i \in Rows(call[k].target) :
               call' = [call EXCEPT ![k].pc = "start", ![k].id = i]
          /\ UNCHANGED <<row, spent, owed, left, errs>>
       \/ /\ \/ Rows(call[k].target) = {} /\ UNCHANGED <<row, spent, left, errs>>
             \/ StoreFails /\ left' = left \cup Rows(call[k].target)
          /\ call' = [call EXCEPT ![k] = NoCall]
          /\ owed' = owed \ {call[k].target}
    /\ UNCHANGED <<process, running, goroutine, stops>>

\* Manager.Start, under the lock: a watcher that runs already is left alone.
AddStart(k) ==
    /\ call[k].pc = "start"
    /\ \/ running[call[k].id] # NoHandle /\ UNCHANGED <<running, goroutine>>
       \/ /\ running[call[k].id] = NoHandle
          /\ \E h \in FreeHandles :
               /\ running' = [running EXCEPT ![call[k].id] = h]
               /\ goroutine' = [goroutine EXCEPT ![h] = Spawned(call[k].id, call[k].target)]
    /\ left' = left \ {call[k].id}
    /\ call' = [call EXCEPT ![k] = NoCall]
    /\ UNCHANGED <<row, spent, process, owed, stops, errs>>

----------------------------------------------------------------------------
(* watch.remove *)

\* Mutant: Stop leaves the clean-up of the entry to the goroutine.
RemoveKeepsEntry(k, i) ==
    /\ process # "down"
    /\ call[k] = NoCall
    /\ call' = [call EXCEPT ![k] =
         [NoCall EXCEPT !.pc = IF running[i] = NoHandle THEN "delete" ELSE "cancel",
                        !.id = i, !.handle = running[i]]]
    /\ owed' = owed \ {row[i]}
    /\ UNCHANGED <<row, spent, process, running, goroutine, left, stops, errs>>

\* Manager.Stop, under the lock: the entry is taken out ...
RemoveStop(k, i) ==
    /\ process # "down"
    /\ call[k] = NoCall
    /\ running' = [running EXCEPT ![i] = NoHandle]
    /\ call' = [call EXCEPT ![k] =
         [NoCall EXCEPT !.pc = IF running[i] = NoHandle THEN "delete" ELSE "cancel",
                        !.id = i, !.handle = running[i]]]
    /\ owed' = owed \ {row[i]}
    /\ UNCHANGED <<row, spent, process, goroutine, left, stops, errs>>

\* ... the watcher is cancelled when the lock is released ...
RemoveCancel(k) ==
    /\ call[k].pc = "cancel"
    /\ goroutine' = IF goroutine[call[k].handle].pc = "none" THEN goroutine
                    ELSE [goroutine EXCEPT ![call[k].handle].cancelled = TRUE]
    /\ call' = [call EXCEPT ![k].pc = "delete", ![k].handle = NoHandle]
    /\ UNCHANGED <<row, spent, process, running, owed, left, stops, errs>>

\* ... and the row is deleted; when that fails it stays, without its watcher.
RemoveDelete(k) ==
    /\ call[k].pc = "delete"
    /\ \/ /\ row' = [row EXCEPT ![call[k].id] = NoTarget]
          /\ UNCHANGED <<spent, left, errs>>
       \/ StoreFails /\ left' = left \cup {call[k].id}
    /\ call' = [call EXCEPT ![k] = NoCall]
    /\ UNCHANGED <<process, running, goroutine, owed, stops>>

----------------------------------------------------------------------------
(* The watcher goroutines *)

Goto(h, pc) == goroutine' = [goroutine EXCEPT ![h].pc = pc]

\* wrappedEmit drops what a cancelled watcher observed.
WrappedEmit(h) ==
    /\ goroutine[h].pc = "wrap"
    /\ Goto(h, IF Cancelled(h) THEN "watch" ELSE "emit")
    /\ UNCHANGED <<row, spent, process, running, call, owed, left, stops, errs>>

Emit(h) ==
    /\ goroutine[h].pc = "emit"
    /\ owed' = owed \ {goroutine[h].target}
    /\ Goto(h, "watch")
    /\ UNCHANGED <<row, spent, process, running, call, left, stops, errs>>

\* The watched condition changes.
Observe(h) ==
    /\ goroutine[h].pc = "watch"
    /\ Goto(h, "wrap")
    /\ UNCHANGED <<row, spent, process, running, call, owed, left, stops, errs>>

\* run returns: the context is done, or the watcher cannot go on.
Return(h) ==
    /\ goroutine[h].pc \in {"wrap", "watch"}
    /\ Cancelled(h) \/ goroutine[h].target \in Fragile
    /\ Goto(h, "cleanup")
    /\ UNCHANGED <<row, spent, process, running, call, owed, left, stops, errs>>

\* Mutant: the entry is deleted whoever it belongs to.
CleanupAnyway(h) == [running EXCEPT ![goroutine[h].id] = NoHandle]

\* The deferred clean-up deletes the entry only if it holds this goroutine's handle.
AfterCleanup(h) ==
    IF running[goroutine[h].id] = h
    THEN [running EXCEPT ![goroutine[h].id] = NoHandle] ELSE running

Cleanup(h) ==
    /\ goroutine[h].pc = "cleanup"
    /\ running' = AfterCleanup(h)
    /\ goroutine' = [goroutine EXCEPT ![h] = NoGoroutine]
    /\ UNCHANGED <<row, spent, process, call, owed, left, stops, errs>>

----------------------------------------------------------------------------
(* The process *)

\* Mutant: the persisted watches are not re-armed.
ArmNothing == {}

\* ListWatches, at boot.
ListWatches == {i \in Ids : row[i] # NoTarget}

\* Manager.Run re-arms the persisted watches; no call is served before that.
Run ==
    /\ process = "down"
    /\ process' = "up"
    /\ \E H \in SUBSET Handles : \E f \in Bijection(ListWatches, H) :
         /\ running' = [i \in Ids |-> IF i \in ListWatches THEN f[i] ELSE NoHandle]
         /\ goroutine' = [h \in Handles |->
              IF \E i \in ListWatches : f[i] = h
              THEN LET i == CHOOSE i \in ListWatches : f[i] = h IN Spawned(i, row[i])
              ELSE NoGoroutine]
    /\ UNCHANGED <<row, spent, call, owed, left, stops, errs>>

\* The list cannot be read: Serve returns, and the process ends.
RunFails ==
    /\ process = "down"
    /\ StoreFails
    /\ UNCHANGED <<process, running, goroutine, call, owed, left, stops>>

Shutdown ==
    /\ process = "up"
    /\ stops < MaxStops
    /\ stops' = stops + 1
    /\ process' = "cancelled"
    /\ UNCHANGED <<row, spent, running, goroutine, call, owed, left, errs>>

\* The process ends, after a shutdown or at any moment: only the table survives.
Gone ==
    /\ \/ process = "cancelled" /\ UNCHANGED stops
       \/ process = "up" /\ stops < MaxStops /\ stops' = stops + 1
    /\ process' = "down"
    /\ running' = [i \in Ids |-> NoHandle]
    /\ goroutine' = [h \in Handles |-> NoGoroutine]
    /\ call' = [k \in Handlers |-> NoCall]
    /\ owed' = {} /\ left' = {}
    /\ UNCHANGED <<row, spent, errs>>

----------------------------------------------------------------------------

ManagerNext ==
    \/ \E k \in Handlers :
         \/ \E t \in Targets : AddInsert(k, t)
         \/ \E i \in spent : RemoveStop(k, i)
         \/ AddSelect(k) \/ AddStart(k) \/ RemoveCancel(k) \/ RemoveDelete(k)
    \/ \E h \in Handles :
         WrappedEmit(h) \/ Emit(h) \/ Observe(h) \/ Return(h) \/ Cleanup(h)
    \/ Run \/ RunFails \/ Shutdown \/ Gone

ManagerSpec == ManagerInit /\ [][ManagerNext]_managerVars

----------------------------------------------------------------------------
(* Properties *)

\* A watcher that works and that nobody has stopped.
Working(h) ==
    /\ goroutine[h].pc \in {"wrap", "emit", "watch"}
    /\ ~goroutine[h].cancelled
    /\ \A k \in Handlers : call[k].handle # h

\* A watcher that works is in the map, so that it can be stopped and is not started twice:
\* the clean-up of an earlier goroutine of the same id cannot orphan it (handle).
WatcherKeepsItsEntry == \A h \in Handles : Working(h) => running[goroutine[h].id] = h

\* Starting is a no-op only when there is a watcher: no entry of the map belongs to a
\* goroutine that has gone or was stopped, or to one of another id (Start, Stop).
EntryIsLive ==
    \A i \in Ids : running[i] # NoHandle =>
        /\ goroutine[running[i]].pc # "none"
        /\ goroutine[running[i]].id = i
        /\ ~goroutine[running[i]].cancelled

Quiet == \A k \in Handlers : call[k] = NoCall

\* A persisted watch is watched: between calls, a row without a watcher is one whose
\* watcher has failed, or one that a failing SELECT of watch.add or DELETE of watch.remove
\* has left behind, until the next watch.add of its target or the next boot (AddWatch,
\* RemoveWatch, Start, Stop, Run).
RowIsWatched ==
    Quiet /\ process = "up" =>
        \A i \in Ids \ left : row[i] \in Targets \ Fragile => running[i] # NoHandle

\* The initial check: once watch.add has returned, the state of its target was emitted
\* after the call, or a watcher is about to emit it (Start, RunPoller).
CreationReports ==
    Quiet /\ process = "up" =>
        \A t \in owed \ Fragile : \E h \in Handles :
            goroutine[h].target = t /\ goroutine[h].pc \in {"wrap", "emit"}
=============================================================================
