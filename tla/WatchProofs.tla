---------------------------- MODULE WatchProofs ----------------------------
(***************************************************************************)
(* The manager's map is exact, for any number of watches, handlers,        *)
(* goroutines, crashes and shutdowns.  Neither half of that is inductive   *)
(* alone: a Stop takes the entry out and cancels the watcher a step later, *)
(* so the proof also keeps track of the handles that a Stop holds.         *)
(***************************************************************************)
EXTENDS WatchManager, TLAPS

\* A handle that a Stop holds is in no entry of the map.
HeldIsOut ==
    \A k \in Handlers : call[k].handle # NoHandle =>
        \A i \in Ids : running[i] # call[k].handle

\* Only a call that is about to cancel holds a handle.
CancelHolds == \A k \in Handlers : call[k].pc = "cancel" <=> call[k].handle # NoHandle

\* Only the table outlives the process.
DownIsEmpty ==
    process = "down" =>
        /\ \A k \in Handlers : call[k] = NoCall
        /\ \A h \in Handles : goroutine[h] = NoGoroutine
        /\ \A i \in Ids : running[i] = NoHandle

MapInv ==
    /\ ManagerTypeOK
    /\ WatcherKeepsItsEntry
    /\ EntryIsLive
    /\ HeldIsOut
    /\ CancelHolds
    /\ DownIsEmpty

LEMMA NoGoroutineType == NoGoroutine \in Goroutine /\ NoGoroutine.pc = "none"
BY WatchAssumption DEF NoGoroutine, Goroutine

LEMMA NoCallType == NoCall \in Call /\ NoCall.pc = "idle" /\ NoCall.handle = NoHandle
BY WatchAssumption DEF NoCall, Call

\* ManagerInit establishes the invariant.
LEMMA MapInit == ManagerInit => MapInv
<1> SUFFICES ASSUME ManagerInit PROVE MapInv
  OBVIOUS
<1>1. ManagerTypeOK
  BY NoGoroutineType, NoCallType, WatchAssumption DEF ManagerInit, ManagerTypeOK
<1>2. WatcherKeepsItsEntry /\ EntryIsLive /\ HeldIsOut /\ CancelHolds /\ DownIsEmpty
  BY NoGoroutineType, NoCallType
  DEF ManagerInit, WatcherKeepsItsEntry, Working, EntryIsLive, HeldIsOut, CancelHolds, DownIsEmpty
<1> QED BY <1>1, <1>2 DEF MapInv

\* A store call that fails and leaves everything as it was preserves it.
LEMMA FailureKeepsMap ==
    ASSUME MapInv, StoreFails, UNCHANGED <<process, running, goroutine, call, owed, left, stops>>
    PROVE  MapInv'
BY DEF MapInv, StoreFails, ManagerTypeOK, WatcherKeepsItsEntry, Working, EntryIsLive, HeldIsOut,
       CancelHolds, DownIsEmpty

\* The calls of watch.add preserve it.
LEMMA AddSteps ==
    ASSUME MapInv, NEW k \in Handlers,
           (\E t \in Targets : AddInsert(k, t)) \/ AddSelect(k) \/ AddStart(k)
    PROVE  MapInv'
<1> USE DEF MapInv
<1>1. CASE \E t \in Targets : AddInsert(k, t)
  <2>1. PICK t \in Targets : AddInsert(k, t)
    BY <1>1
  <2>0. CASE StoreFails /\ UNCHANGED <<call, owed>>
    BY <2>0, <2>1, FailureKeepsMap DEF AddInsert
  <2> DEFINE Inserted == /\ call' = [call EXCEPT ![k] = [NoCall EXCEPT !.pc = "select", !.target = t]]
                         /\ owed' = owed \cup {t} /\ UNCHANGED errs
                         /\ \/ Rows(t) # {} /\ UNCHANGED <<row, spent>>
                            \/ /\ Rows(t) = {}
                               /\ \E i \in Ids \ spent : /\ row' = [row EXCEPT ![i] = t]
                                                         /\ spent' = spent \cup {i}
  <2> SUFFICES ASSUME Inserted PROVE MapInv'
    BY <2>0, <2>1 DEF AddInsert
  <2>2. /\ call' = [call EXCEPT ![k] = [NoCall EXCEPT !.pc = "select", !.target = t]]
        /\ process # "down" /\ UNCHANGED <<process, running, goroutine, left, stops, errs>>
        /\ owed' = owed \cup {t}
    BY <2>1 DEF AddInsert
  <2>3. [NoCall EXCEPT !.pc = "select", !.target = t] \in Call
    BY NoCallType DEF Call
  <2>4. /\ row' \in [Ids -> Targets \cup {NoTarget}] /\ spent' \in SUBSET Ids
        /\ \A i, j \in Ids : row'[i] = row'[j] /\ row'[i] # NoTarget => i = j
    BY DEF ManagerTypeOK, Rows
  <2>5. ManagerTypeOK'
    BY <2>2, <2>3, <2>4 DEF ManagerTypeOK
  <2>6. \A j \in Handlers : call'[j].handle = call[j].handle
                            /\ (call'[j].pc = "cancel" <=> call[j].pc = "cancel")
    <3>1. call[k] = NoCall
      BY <2>1 DEF AddInsert
    <3> QED BY <2>2, <3>1, NoCallType DEF ManagerTypeOK, Call
  <2> QED BY <2>2, <2>5, <2>6
          DEF WatcherKeepsItsEntry, Working, EntryIsLive, HeldIsOut, CancelHolds, DownIsEmpty
<1>2. CASE AddSelect(k)
  <2>1. /\ call' \in [Handlers -> Call]
        /\ \A j \in Handlers : call'[j].handle = call[j].handle
                               /\ (call'[j].pc = "cancel" <=> call[j].pc = "cancel")
    <3>1. CASE call' = [call EXCEPT ![k] = NoCall]
      BY <1>2, <3>1, NoCallType DEF AddSelect, ManagerTypeOK, Call, CancelHolds
    <3>2. CASE \E i \in Ids : call' = [call EXCEPT ![k].pc = "start", ![k].id = i]
      <4>1. PICK i \in Ids : call' = [call EXCEPT ![k].pc = "start", ![k].id = i]
        BY <3>2
      <4> DEFINE new == [call[k] EXCEPT !.pc = "start", !.id = i]
      <4>2. new \in Call /\ new.handle = call[k].handle /\ new.pc = "start"
        BY DEF ManagerTypeOK, Call
      <4>3. call' = [call EXCEPT ![k] = new]
        BY <4>1
      <4>4. call[k].pc = "select"
        BY <1>2 DEF AddSelect
      <4> HIDE DEF new
      <4> QED BY <4>2, <4>3, <4>4 DEF ManagerTypeOK
    <3> QED BY <1>2, <3>1, <3>2 DEF AddSelect, Rows
  <2>2. /\ UNCHANGED <<row, spent, process, running, goroutine, stops>>
        /\ owed' \in SUBSET Targets /\ process # "down"
        /\ left' \in SUBSET Ids /\ errs' \in Nat
    BY <1>2, NoCallType DEF AddSelect, StoreFails, Rows, ManagerTypeOK, DownIsEmpty
  <2> QED BY <2>1, <2>2
          DEF ManagerTypeOK, WatcherKeepsItsEntry, Working, EntryIsLive, HeldIsOut, CancelHolds,
              DownIsEmpty
<1>3. CASE AddStart(k)
  <2>1. /\ call' = [call EXCEPT ![k] = NoCall]
        /\ UNCHANGED <<row, spent, process, owed, stops, errs>>
        /\ process # "down" /\ left' \in SUBSET Ids
    BY <1>3, NoCallType DEF AddStart, DownIsEmpty, ManagerTypeOK
  <2>2. /\ call' \in [Handlers -> Call]
        /\ \A j \in Handlers : call'[j].handle = call[j].handle
                               /\ (call'[j].pc = "cancel" <=> call[j].pc = "cancel")
    BY <1>3, <2>1, NoCallType DEF AddStart, ManagerTypeOK, Call, CancelHolds
  <2>3. CASE UNCHANGED <<running, goroutine>>
    BY <2>1, <2>2, <2>3
    DEF ManagerTypeOK, WatcherKeepsItsEntry, Working, EntryIsLive, HeldIsOut, CancelHolds, DownIsEmpty
  <2>4. CASE /\ running[call[k].id] = NoHandle
             /\ \E h \in FreeHandles :
                  /\ running' = [running EXCEPT ![call[k].id] = h]
                  /\ goroutine' = [goroutine EXCEPT ![h] = Spawned(call[k].id, call[k].target)]
    <3> DEFINE id == call[k].id
               new == Spawned(id, call[k].target)
    <3>1. PICK h \in FreeHandles : running' = [running EXCEPT ![id] = h]
                                   /\ goroutine' = [goroutine EXCEPT ![h] = new]
      BY <2>4
    <3>2. /\ id \in Ids /\ h \in Handles /\ h # NoHandle
          /\ goroutine[h].pc = "none"
          /\ \A j \in Handlers : call[j].handle # h
      BY <3>1, WatchAssumption DEF FreeHandles, ManagerTypeOK, Call
    <3>3. /\ new \in Goroutine /\ new.id = id /\ new.pc = "wrap" /\ ~new.cancelled
      BY DEF Spawned, ManagerTypeOK, Call, Goroutine
    <3>4. \A i \in Ids : running[i] # h
      BY <3>2 DEF EntryIsLive
    <3> HIDE DEF new, id
    <3>5. ManagerTypeOK'
      BY <2>1, <2>2, <3>1, <3>2, <3>3 DEF ManagerTypeOK
    <3>6. /\ running'[id] = h /\ goroutine'[h] = new
          /\ \A i \in Ids \ {id} : running'[i] = running[i]
          /\ \A g \in Handles \ {h} : goroutine'[g] = goroutine[g]
      BY <3>1, <3>2 DEF ManagerTypeOK
    <3>7. WatcherKeepsItsEntry'
      <4> SUFFICES ASSUME NEW g \in Handles, Working(g)'
                   PROVE  running'[goroutine'[g].id] = g
        BY DEF WatcherKeepsItsEntry
      <4>1. CASE g = h
        BY <4>1, <3>3, <3>6
      <4>2. CASE g # h
        <5>1. Working(g) /\ goroutine'[g] = goroutine[g]
          BY <4>2, <3>6, <2>2 DEF Working
        <5>2. running[goroutine[g].id] = g /\ goroutine[g].id \in Ids
          BY <5>1 DEF WatcherKeepsItsEntry, ManagerTypeOK, Goroutine
        <5>3. goroutine[g].id # id
          BY <5>2, <2>4, WatchAssumption DEF id
        <5> QED BY <5>1, <5>2, <5>3, <3>6
      <4> QED BY <4>1, <4>2
    <3>8. EntryIsLive'
      BY <3>2, <3>3, <3>4, <3>6 DEF EntryIsLive, ManagerTypeOK
    <3>9. HeldIsOut'
      BY <2>2, <3>2, <3>6 DEF HeldIsOut
    <3> QED BY <2>1, <2>2, <3>5, <3>7, <3>8, <3>9 DEF CancelHolds, DownIsEmpty
  <2> QED BY <1>3, <2>3, <2>4 DEF AddStart
<1> QED BY <1>1, <1>2, <1>3

\* The calls of watch.remove preserve it.
LEMMA RemoveSteps ==
    ASSUME MapInv, NEW k \in Handlers,
           (\E i \in spent : RemoveStop(k, i)) \/ RemoveCancel(k) \/ RemoveDelete(k)
    PROVE  MapInv'
<1> USE DEF MapInv
<1>1. CASE \E i \in spent : RemoveStop(k, i)
  <2>1. PICK i \in spent : RemoveStop(k, i)
    BY <1>1
  <2> DEFINE new == [NoCall EXCEPT !.pc = IF running[i] = NoHandle THEN "delete" ELSE "cancel",
                                   !.id = i, !.handle = running[i]]
  <2>2. i \in Ids /\ new \in Call /\ new.handle = running[i]
        /\ (new.pc = "cancel" <=> running[i] # NoHandle)
    BY NoCallType DEF ManagerTypeOK, Call
  <2>3. /\ call' = [call EXCEPT ![k] = new]
        /\ running' = [running EXCEPT ![i] = NoHandle]
        /\ owed' = owed \ {row[i]}
        /\ process # "down" /\ UNCHANGED <<row, spent, process, goroutine, left, stops, errs>>
    BY <2>1 DEF RemoveStop
  <2> HIDE DEF new
  <2>4. ManagerTypeOK'
    BY <2>2, <2>3 DEF ManagerTypeOK
  <2>5. /\ running'[i] = NoHandle /\ call'[k] = new
        /\ \A j \in Ids \ {i} : running'[j] = running[j]
        /\ \A j \in Handlers \ {k} : call'[j] = call[j]
    BY <2>2, <2>3 DEF ManagerTypeOK
  <2>6. WatcherKeepsItsEntry'
    <3> SUFFICES ASSUME NEW g \in Handles, Working(g)'
                 PROVE  running'[goroutine'[g].id] = g
      BY DEF WatcherKeepsItsEntry
    <3>1. /\ goroutine'[g] = goroutine[g] /\ goroutine[g].id \in Ids
          /\ call'[k].handle # g
      BY <2>3 DEF Working, ManagerTypeOK, Goroutine
    <3>2. call[k].handle = NoHandle /\ NoHandle # g
      BY <2>1, NoCallType, WatchAssumption DEF RemoveStop
    <3>3. Working(g)
      BY <2>3, <2>5, <3>1, <3>2 DEF Working
    <3>4. running[goroutine[g].id] = g
      BY <3>3 DEF WatcherKeepsItsEntry
    <3>5. goroutine[g].id # i
      BY <3>1, <3>4, <2>2, <2>5
    <3> QED BY <3>1, <3>4, <3>5, <2>5
  <2>7. EntryIsLive'
    BY <2>3, <2>5 DEF EntryIsLive
  <2>8. HeldIsOut'
    <3>1. \A j \in Ids : running[i] # NoHandle /\ running[j] = running[i] => j = i
      BY <2>2 DEF EntryIsLive
    <3> QED BY <2>2, <2>5, <3>1 DEF HeldIsOut
  <2>9. CancelHolds' /\ DownIsEmpty'
    BY <2>2, <2>3, <2>5 DEF CancelHolds, DownIsEmpty
  <2> QED BY <2>4, <2>6, <2>7, <2>8, <2>9
<1>2. CASE RemoveCancel(k)
  <2> DEFINE h == call[k].handle
  <2>1. /\ h \in Handles /\ call[k].pc = "cancel" /\ h # NoHandle
        /\ UNCHANGED <<row, spent, process, running, owed, left, stops, errs>> /\ process # "down"
        /\ call' = [call EXCEPT ![k].pc = "delete", ![k].handle = NoHandle]
    BY <1>2, NoCallType DEF RemoveCancel, CancelHolds, ManagerTypeOK, Call, DownIsEmpty
  <2>2. /\ goroutine' \in [Handles -> Goroutine]
        /\ \A g \in Handles \ {h} : goroutine'[g] = goroutine[g]
        /\ goroutine'[h].pc = "none" \/ goroutine'[h].cancelled
    <3>1. CASE goroutine[h].pc = "none"
      BY <1>2, <3>1 DEF RemoveCancel, ManagerTypeOK
    <3>2. CASE goroutine[h].pc # "none"
      <4>1. goroutine' = [goroutine EXCEPT ![h].cancelled = TRUE]
        BY <1>2, <3>2 DEF RemoveCancel
      <4> QED BY <2>1, <4>1 DEF ManagerTypeOK, Goroutine
    <3> QED BY <3>1, <3>2
  <2>3. /\ call' \in [Handlers -> Call]
        /\ \A j \in Handlers \ {k} : call'[j] = call[j]
        /\ call'[k].handle = NoHandle /\ call'[k].pc = "delete"
    BY <2>1 DEF ManagerTypeOK, Call
  <2>4. ManagerTypeOK'
    BY <2>1, <2>2, <2>3 DEF ManagerTypeOK
  <2>5. \A i \in Ids : running[i] # h
    BY <2>1 DEF HeldIsOut
  <2>6. WatcherKeepsItsEntry'
    <3> SUFFICES ASSUME NEW g \in Handles, Working(g)'
                 PROVE  running'[goroutine'[g].id] = g
      BY DEF WatcherKeepsItsEntry
    <3>1. g # h
      BY <2>2 DEF Working
    <3>2. Working(g) /\ goroutine'[g] = goroutine[g]
      BY <2>2, <2>3, <3>1 DEF Working
    <3> QED BY <3>2, <2>1 DEF WatcherKeepsItsEntry
  <2>7. EntryIsLive'
    <3> HIDE DEF h
    <3> QED BY <2>1, <2>2, <2>5 DEF EntryIsLive, ManagerTypeOK
  <2>8. HeldIsOut' /\ CancelHolds' /\ DownIsEmpty'
    BY <2>1, <2>3 DEF HeldIsOut, CancelHolds, DownIsEmpty
  <2> QED BY <2>4, <2>6, <2>7, <2>8
<1>3. CASE RemoveDelete(k)
  <2>1. /\ call' = [call EXCEPT ![k] = NoCall]
        /\ UNCHANGED <<spent, process, running, goroutine, owed, stops>>
        /\ row' = [row EXCEPT ![call[k].id] = NoTarget] \/ row' = row
        /\ process # "down" /\ call[k].pc = "delete"
        /\ left' \in SUBSET Ids /\ errs' \in Nat
    BY <1>3, NoCallType DEF RemoveDelete, StoreFails, DownIsEmpty, ManagerTypeOK, Call
  <2>2. /\ call' \in [Handlers -> Call]
        /\ \A j \in Handlers : call'[j].handle = call[j].handle
                               /\ (call'[j].pc = "cancel" <=> call[j].pc = "cancel")
    BY <2>1, NoCallType DEF ManagerTypeOK, Call, CancelHolds
  <2>3. ManagerTypeOK'
    BY <2>1, <2>2 DEF ManagerTypeOK
  <2> QED BY <2>1, <2>2, <2>3
          DEF WatcherKeepsItsEntry, Working, EntryIsLive, HeldIsOut, CancelHolds, DownIsEmpty
<1> QED BY <1>1, <1>2, <1>3

\* The steps of a watcher goroutine preserve it.
LEMMA GoroutineSteps ==
    ASSUME MapInv, NEW h \in Handles,
           WrappedEmit(h) \/ Emit(h) \/ Observe(h) \/ Return(h) \/ Cleanup(h)
    PROVE  MapInv'
<1> USE DEF MapInv
<1>1. CASE WrappedEmit(h) \/ Emit(h) \/ Observe(h) \/ Return(h)
  <2>1. PICK pc \in {"wrap", "emit", "watch", "cleanup"} :
          goroutine' = [goroutine EXCEPT ![h].pc = pc]
    BY <1>1 DEF WrappedEmit, Emit, Observe, Return, Goto
  <2>2. /\ UNCHANGED <<row, spent, process, running, call, left, stops, errs>>
        /\ owed' \in SUBSET Targets
        /\ goroutine[h].pc \in {"wrap", "emit", "watch"} /\ process # "down"
    BY <1>1, NoGoroutineType DEF WrappedEmit, Emit, Observe, Return, ManagerTypeOK, DownIsEmpty
  <2>3. /\ goroutine' \in [Handles -> Goroutine]
        /\ \A g \in Handles : /\ goroutine'[g].id = goroutine[g].id
                              /\ goroutine'[g].cancelled = goroutine[g].cancelled
                              /\ goroutine[g].pc # "none" => goroutine'[g].pc # "none"
        /\ \A g \in Handles \ {h} : goroutine'[g] = goroutine[g]
    BY <2>1 DEF ManagerTypeOK, Goroutine
  <2>4. ManagerTypeOK'
    BY <2>2, <2>3 DEF ManagerTypeOK
  <2>5. \A g \in Handles : Working(g)' => Working(g)
    BY <2>2, <2>3 DEF Working
  <2>6. WatcherKeepsItsEntry'
    BY <2>2, <2>3, <2>5 DEF WatcherKeepsItsEntry
  <2>7. EntryIsLive'
    BY <2>2, <2>3 DEF EntryIsLive, ManagerTypeOK
  <2> QED BY <2>2, <2>4, <2>6, <2>7 DEF HeldIsOut, CancelHolds, DownIsEmpty
<1>2. CASE Cleanup(h)
  <2>1. /\ goroutine[h].pc = "cleanup"
        /\ goroutine' = [goroutine EXCEPT ![h] = NoGoroutine]
        /\ UNCHANGED <<row, spent, process, call, owed, left, stops, errs>> /\ process # "down"
        /\ running' \in [Ids -> Handles \cup {NoHandle}]
        /\ \A i \in Ids : running'[i] = IF running[i] = h THEN NoHandle ELSE running[i]
    <3>1. \A i \in Ids : running[i] = h => i = goroutine[h].id
      BY WatchAssumption DEF EntryIsLive
    <3> QED BY <1>2, <3>1, NoGoroutineType
            DEF Cleanup, AfterCleanup, ManagerTypeOK, DownIsEmpty, Goroutine
  <2>2. /\ goroutine' \in [Handles -> Goroutine]
        /\ goroutine'[h].pc = "none"
        /\ \A g \in Handles \ {h} : goroutine'[g] = goroutine[g]
    BY <2>1, NoGoroutineType DEF ManagerTypeOK
  <2>3. ManagerTypeOK'
    BY <2>1, <2>2 DEF ManagerTypeOK
  <2>4. WatcherKeepsItsEntry'
    <3> SUFFICES ASSUME NEW g \in Handles, Working(g)'
                 PROVE  running'[goroutine'[g].id] = g
      BY DEF WatcherKeepsItsEntry
    <3>1. g # h
      BY <2>2 DEF Working
    <3>2. Working(g) /\ goroutine'[g] = goroutine[g] /\ goroutine[g].id \in Ids
      BY <2>1, <2>2, <3>1 DEF Working, ManagerTypeOK, Goroutine
    <3> QED BY <2>1, <3>1, <3>2 DEF WatcherKeepsItsEntry
  <2>5. EntryIsLive'
    BY <2>1, <2>2 DEF EntryIsLive, ManagerTypeOK
  <2> QED BY <2>1, <2>3, <2>4, <2>5 DEF HeldIsOut, CancelHolds, DownIsEmpty
<1> QED BY <1>1, <1>2

\* Boot, shutdown and the end of the process preserve it.
LEMMA ProcessSteps ==
    ASSUME MapInv, Run \/ RunFails \/ Shutdown \/ Gone
    PROVE  MapInv'
<1> USE DEF MapInv
<1>1. CASE Run
  <2>1. PICK H \in SUBSET Handles : \E f \in Bijection(ListWatches, H) :
          /\ running' = [i \in Ids |-> IF i \in ListWatches THEN f[i] ELSE NoHandle]
          /\ goroutine' = [h \in Handles |->
               IF \E i \in ListWatches : f[i] = h
               THEN LET i == CHOOSE i \in ListWatches : f[i] = h IN Spawned(i, row[i])
               ELSE NoGoroutine]
    BY <1>1 DEF Run
  <2>2. PICK f \in Bijection(ListWatches, H) :
          /\ running' = [i \in Ids |-> IF i \in ListWatches THEN f[i] ELSE NoHandle]
          /\ goroutine' = [h \in Handles |->
               IF \E i \in ListWatches : f[i] = h
               THEN LET i == CHOOSE i \in ListWatches : f[i] = h IN Spawned(i, row[i])
               ELSE NoGoroutine]
    BY <2>1
  <2>3. /\ \A i \in ListWatches : f[i] \in Handles
        /\ \A i, j \in ListWatches : f[i] = f[j] => i = j
    BY <2>1, <2>2 DEF Bijection, Injection, Surjection, IsInjective
  <2>4. /\ process = "down" /\ process' = "up"
        /\ UNCHANGED <<row, spent, call, owed, left, stops, errs>>
    BY <1>1 DEF Run
  <2>5. ListWatches \subseteq Ids
    BY DEF ListWatches
  <2>6. ASSUME NEW i \in ListWatches
        PROVE  goroutine'[f[i]] = Spawned(i, row[i])
    <3>1. f[i] \in Handles /\ \E j \in ListWatches : f[j] = f[i]
      BY <2>3
    <3>2. (CHOOSE j \in ListWatches : f[j] = f[i]) = i
      BY <2>3
    <3> QED BY <2>2, <3>1, <3>2
  <2>7. ASSUME NEW h \in Handles, \A i \in ListWatches : f[i] # h
        PROVE  goroutine'[h] = NoGoroutine
    BY <2>2, <2>7
  <2>8. ASSUME NEW i \in ListWatches
        PROVE  /\ Spawned(i, row[i]) \in Goroutine
               /\ Spawned(i, row[i]).id = i
               /\ Spawned(i, row[i]).pc = "wrap"
               /\ ~Spawned(i, row[i]).cancelled
    BY <2>5 DEF Spawned, Goroutine, ManagerTypeOK
  <2>9. goroutine' \in [Handles -> Goroutine]
    <3>1. \A h \in Handles : goroutine'[h] \in Goroutine
      BY <2>6, <2>7, <2>8, NoGoroutineType
    <3> QED BY <2>2, <3>1
  <2>10. running' \in [Ids -> Handles \cup {NoHandle}]
    BY <2>2, <2>3
  <2>11. ManagerTypeOK'
    BY <2>4, <2>9, <2>10 DEF ManagerTypeOK
  <2>12. WatcherKeepsItsEntry'
    <3> SUFFICES ASSUME NEW h \in Handles, Working(h)'
                 PROVE  running'[goroutine'[h].id] = h
      BY DEF WatcherKeepsItsEntry
    <3>1. PICK i \in ListWatches : f[i] = h
      BY <2>7, NoGoroutineType DEF Working
    <3>2. goroutine'[h].id = i
      BY <2>6, <2>8, <3>1
    <3> QED BY <2>2, <2>5, <3>1, <3>2
  <2>13. EntryIsLive'
    <3> SUFFICES ASSUME NEW i \in Ids, running'[i] # NoHandle
                 PROVE  /\ goroutine'[running'[i]].pc # "none"
                        /\ goroutine'[running'[i]].id = i
                        /\ ~goroutine'[running'[i]].cancelled
      BY DEF EntryIsLive
    <3>1. i \in ListWatches /\ running'[i] = f[i]
      BY <2>2
    <3> QED BY <3>1, <2>6, <2>8
  <2>14. HeldIsOut' /\ CancelHolds' /\ DownIsEmpty'
    BY <2>4, NoCallType DEF HeldIsOut, CancelHolds, DownIsEmpty
  <2> QED BY <2>11, <2>12, <2>13, <2>14
<1>2. CASE Shutdown
  BY <1>2 DEF Shutdown, ManagerTypeOK, WatcherKeepsItsEntry, Working, EntryIsLive, HeldIsOut,
              CancelHolds, DownIsEmpty
<1>3. CASE Gone
  <2>1. ManagerTypeOK'
    BY <1>3, NoGoroutineType, NoCallType DEF Gone, ManagerTypeOK
  <2> QED BY <1>3, <2>1, NoGoroutineType, NoCallType
          DEF Gone, WatcherKeepsItsEntry, Working, EntryIsLive, HeldIsOut, CancelHolds,
              DownIsEmpty
<1>4. CASE RunFails
  BY <1>4, FailureKeepsMap DEF RunFails
<1> QED BY <1>1, <1>2, <1>3, <1>4

\* Every step preserves it.
LEMMA MapStep == ASSUME MapInv, [ManagerNext]_managerVars PROVE MapInv'
<1>1. CASE UNCHANGED managerVars
  BY <1>1 DEF managerVars, MapInv, ManagerTypeOK, WatcherKeepsItsEntry, Working, EntryIsLive,
              HeldIsOut, CancelHolds, DownIsEmpty
<1>2. CASE ManagerNext
  BY <1>2, AddSteps, RemoveSteps, GoroutineSteps, ProcessSteps DEF ManagerNext
<1> QED BY <1>1, <1>2

\* The invariant holds of every behaviour.
LEMMA MapInvariant == ManagerSpec => []MapInv
<1>1. MapInv /\ [ManagerNext]_managerVars => MapInv'
  BY MapStep
<1> QED BY <1>1, MapInit, PTL DEF ManagerSpec

\* A watcher that works and that nobody stopped is in the map under its id: whatever stops,
\* starts and clean-ups interleave, it can be stopped and is not started twice.
THEOREM EntryKept == ManagerSpec => []WatcherKeepsItsEntry
<1>1. MapInv => WatcherKeepsItsEntry
  BY DEF MapInv
<1> QED BY <1>1, MapInvariant, PTL

\* Every entry of the map is the handle of a goroutine of that id that is there and that
\* was not stopped: Start never refuses for the sake of a watcher that is gone.
THEOREM EntryLive == ManagerSpec => []EntryIsLive
<1>1. MapInv => EntryIsLive
  BY DEF MapInv
<1> QED BY <1>1, MapInvariant, PTL

----------------------------------------------------------------------------
(* Every row is watched.  While calls are at work a row can be without a watcher; the    *)
(* invariant says that one of them is then on its way to start one or to delete the row, *)
(* unless a call whose SELECT or DELETE failed has left the row as it is.                *)

\* An id is given to one row, once: the ids that rows, entries and calls name are spent.
IdsAreSpent ==
    /\ \A i \in Ids : row[i] # NoTarget \/ running[i] # NoHandle => i \in spent
    /\ \A k \in Handlers : call[k].pc \in {"start", "cancel", "delete"} => call[k].id \in spent

\* A watcher that runs or is about to be started watches what its row says.
TargetsAgree ==
    /\ \A k \in Handlers : call[k].pc = "start" /\ row[call[k].id] # NoTarget
                           => call[k].target = row[call[k].id]
    /\ \A i \in Ids : running[i] # NoHandle /\ row[i] # NoTarget
                      => goroutine[running[i]].target = row[i]

\* A watcher that returns by itself could fail.
FailedIsFragile ==
    process = "up" =>
        \A i \in Ids : running[i] # NoHandle /\ goroutine[running[i]].pc = "cleanup"
                       => goroutine[running[i]].target \in Fragile

\* The call starts a watcher for the row, or deletes it.
Attends(k, i) ==
    \/ call[k].pc = "select" /\ call[k].target = row[i]
    \/ call[k].pc \in {"start", "cancel", "delete"} /\ call[k].id = i

\* watch.add looks for a target.
SelectsTarget == \A k \in Handlers : call[k].pc = "select" => call[k].target \in Targets

\* Every row without a watcher is attended, unless a failing call has left it.
Attended ==
    process = "up" =>
        \A i \in Ids \ left : row[i] \in Targets \ Fragile /\ running[i] = NoHandle
                       => \E k \in Handlers : Attends(k, i)

AttendInv == IdsAreSpent /\ SelectsTarget /\ TargetsAgree /\ FailedIsFragile /\ Attended

LEMMA AttendInit == ManagerInit => AttendInv
BY NoCallType DEF ManagerInit, AttendInv, SelectsTarget, IdsAreSpent, TargetsAgree, FailedIsFragile, Attended

\* A store call that fails and leaves everything as it was preserves it.
LEMMA FailureKeepsAttend ==
    ASSUME AttendInv, StoreFails, UNCHANGED <<process, running, goroutine, call, left>>
    PROVE  AttendInv'
BY DEF AttendInv, StoreFails, IdsAreSpent, SelectsTarget, TargetsAgree, FailedIsFragile, Attended,
       Attends

\* The calls of watch.add preserve it.
LEMMA AddAttends ==
    ASSUME MapInv, AttendInv, NEW k \in Handlers,
           (\E t \in Targets : AddInsert(k, t)) \/ AddSelect(k) \/ AddStart(k)
    PROVE  AttendInv'
<1> USE DEF MapInv, AttendInv
<1>1. CASE \E t \in Targets : AddInsert(k, t)
  <2>1. PICK t \in Targets : AddInsert(k, t)
    BY <1>1
  <2> DEFINE new == [NoCall EXCEPT !.pc = "select", !.target = t]
  <2>0. CASE StoreFails /\ UNCHANGED <<call, owed>>
    BY <2>0, <2>1, FailureKeepsAttend DEF AddInsert
  <2> DEFINE Inserted == /\ call' = [call EXCEPT ![k] = new]
                         /\ \/ UNCHANGED <<row, spent>>
                            \/ \E i \in Ids \ spent : /\ row' = [row EXCEPT ![i] = t]
                                                      /\ spent' = spent \cup {i}
  <2> SUFFICES ASSUME Inserted PROVE AttendInv'
    BY <2>0, <2>1 DEF AddInsert
  <2>2. new.pc = "select" /\ new.target = t
    BY DEF NoCall
  <2>3. /\ call' = [call EXCEPT ![k] = new] /\ call[k] = NoCall
        /\ UNCHANGED <<process, running, goroutine, left>>
    BY <2>1 DEF AddInsert
  <2> HIDE DEF new
  <2>4. call'[k] = new /\ \A j \in Handlers \ {k} : call'[j] = call[j]
    BY <2>3 DEF ManagerTypeOK
  <2>5. /\ spent \subseteq spent'
        /\ \A i \in Ids : \/ row'[i] = row[i]
                          \/ i \notin spent /\ i \in spent' /\ row'[i] = t
    BY DEF ManagerTypeOK
  <2>6. IdsAreSpent' /\ SelectsTarget'
    BY <2>2, <2>3, <2>4, <2>5 DEF IdsAreSpent, SelectsTarget
  <2>7. TargetsAgree'
    <3>1. \A j \in Handlers : call'[j].pc = "start" =>
              call'[j] = call[j] /\ call[j].id \in Ids /\ row'[call[j].id] = row[call[j].id]
      BY <2>2, <2>4, <2>5 DEF IdsAreSpent, ManagerTypeOK, Call
    <3>2. \A i \in Ids : running[i] # NoHandle => row'[i] = row[i]
      BY <2>5 DEF IdsAreSpent
    <3> QED BY <2>3, <3>1, <3>2 DEF TargetsAgree
  <2>8. FailedIsFragile'
    BY <2>3 DEF FailedIsFragile
  <2>9. Attended'
    <3> SUFFICES ASSUME process' = "up", NEW i \in Ids, i \notin left', row'[i] \in Targets \ Fragile,
                        running'[i] = NoHandle
                 PROVE  \E j \in Handlers : Attends(j, i)'
      BY DEF Attended
    <3>1. CASE row'[i] = row[i]
      <4>1. PICK j \in Handlers : Attends(j, i)
        BY <2>3, <3>1 DEF Attended
      <4>2. j # k
        BY <4>1, <2>3, NoCallType DEF Attends
      <4> QED BY <4>1, <4>2, <2>4, <3>1 DEF Attends
    <3>2. CASE row'[i] = t
      BY <2>2, <2>4, <3>2 DEF Attends
    <3> QED BY <2>5, <3>1, <3>2
  <2> QED BY <2>6, <2>7, <2>8, <2>9
<1>2. CASE AddSelect(k)
  <2>1. /\ call[k].pc = "select"
        /\ UNCHANGED <<row, spent, process, running, goroutine>>
    BY <1>2 DEF AddSelect, StoreFails
  <2>2. CASE /\ call' = [call EXCEPT ![k] = NoCall]
             /\ left' = left \cup Rows(call[k].target)
    <3>1. call'[k].pc = "idle" /\ \A j \in Handlers \ {k} : call'[j] = call[j]
      BY <2>2, NoCallType DEF ManagerTypeOK
    <3>2. \A i \in Ids \ left' : ~Attends(k, i)
      BY <2>1, <2>2 DEF Attends, Rows
    <3>3. IdsAreSpent' /\ SelectsTarget' /\ TargetsAgree' /\ FailedIsFragile'
      BY <2>1, <3>1 DEF IdsAreSpent, SelectsTarget, TargetsAgree, FailedIsFragile
    <3>4. ASSUME NEW j \in Handlers, NEW i \in Ids \ left', Attends(j, i)
          PROVE  Attends(j, i)'
      <4>1. j # k
        BY <3>2, <3>4
      <4>2. call'[j] = call[j]
        BY <3>1, <4>1
      <4> QED BY <2>1, <3>4, <4>2 DEF Attends
    <3>5. Attended'
      BY <2>1, <2>2, <3>4 DEF Attended
    <3> QED BY <3>3, <3>5
  <2>3. CASE /\ \E i \in Rows(call[k].target) :
                  call' = [call EXCEPT ![k].pc = "start", ![k].id = i]
             /\ UNCHANGED left
    <3>1. PICK i \in Rows(call[k].target) :
            call' = [call EXCEPT ![k].pc = "start", ![k].id = i]
      BY <2>3
    <3>2. /\ i \in Ids /\ row[i] = call[k].target
          /\ call'[k].pc = "start" /\ call'[k].id = i /\ call'[k].target = call[k].target
          /\ \A j \in Handlers \ {k} : call'[j] = call[j]
      BY <3>1 DEF ManagerTypeOK, Call, Rows
    <3>3. IdsAreSpent'
      <4>1. row[i] # NoTarget => i \in spent
        BY <3>2 DEF IdsAreSpent
      <4>2. row[i] # NoTarget
        BY <2>1, <3>2, WatchAssumption DEF SelectsTarget
      <4> QED BY <2>1, <3>2, <4>1, <4>2 DEF IdsAreSpent
    <3>4. SelectsTarget' /\ TargetsAgree' /\ FailedIsFragile'
      BY <2>1, <3>2 DEF SelectsTarget, TargetsAgree, FailedIsFragile
    <3>5. ASSUME NEW j \in Handlers, NEW n \in Ids, Attends(j, n), row[n] # NoTarget
          PROVE  Attends(j, n)'
      <4>1. CASE j = k
        <5>1. row[n] = row[i]
          BY <2>1, <3>2, <3>5, <4>1 DEF Attends
        <5>2. n = i
          BY <5>1, <3>2, <3>5 DEF ManagerTypeOK
        <5> QED BY <3>2, <4>1, <5>2 DEF Attends
      <4>2. CASE j # k
        <5>1. call'[j] = call[j]
          BY <3>2, <4>2
        <5> QED BY <2>1, <3>5, <5>1 DEF Attends
      <4> QED BY <4>1, <4>2
    <3>6. Attended'
      BY <2>1, <2>3, <3>5, WatchAssumption DEF Attended
    <3> QED BY <3>3, <3>4, <3>6
  <2>4. Rows(call[k].target) = {} /\ UNCHANGED left => left' = left \cup Rows(call[k].target)
    OBVIOUS
  <2> QED BY <1>2, <2>2, <2>3, <2>4 DEF AddSelect
<1>3. CASE AddStart(k)
  <2> DEFINE id == call[k].id
  <2>1. /\ call[k].pc = "start" /\ UNCHANGED <<row, spent, process>>
        /\ call' = [call EXCEPT ![k] = NoCall] /\ id \in Ids /\ id \in spent
        /\ left' = left \ {id}
    BY <1>3 DEF AddStart, ManagerTypeOK, Call, IdsAreSpent
  <2>2. call'[k].pc = "idle" /\ \A j \in Handlers \ {k} : call'[j] = call[j]
    BY <2>1, NoCallType DEF ManagerTypeOK
  <2>3. ASSUME NEW j \in Handlers, NEW i \in Ids, Attends(j, i), i # id
        PROVE  Attends(j, i)'
    <3>1. j # k
      BY <2>1, <2>3 DEF Attends
    <3>2. call'[j] = call[j]
      BY <2>2, <3>1
    <3> QED BY <2>1, <2>3, <3>2 DEF Attends
  <2>4. CASE running[id] # NoHandle /\ UNCHANGED <<running, goroutine>>
    <3>1. IdsAreSpent' /\ SelectsTarget' /\ TargetsAgree' /\ FailedIsFragile'
      BY <2>1, <2>2, <2>4 DEF IdsAreSpent, SelectsTarget, TargetsAgree, FailedIsFragile
    <3>2. Attended'
      BY <2>1, <2>3, <2>4 DEF Attended
    <3> QED BY <3>1, <3>2
  <2>5. CASE /\ running[id] = NoHandle
             /\ \E h \in FreeHandles :
                  /\ running' = [running EXCEPT ![id] = h]
                  /\ goroutine' = [goroutine EXCEPT ![h] = Spawned(id, call[k].target)]
    <3>1. PICK h \in FreeHandles :
                  /\ running' = [running EXCEPT ![id] = h]
                  /\ goroutine' = [goroutine EXCEPT ![h] = Spawned(id, call[k].target)]
      BY <2>5
    <3>2. h \in Handles /\ h # NoHandle /\ \A i \in Ids : running[i] # h
      BY WatchAssumption DEF FreeHandles, EntryIsLive
    <3>3. /\ Spawned(id, call[k].target).pc = "wrap"
          /\ Spawned(id, call[k].target).target = call[k].target
      BY DEF Spawned
    <3>4. /\ running'[id] = h /\ \A i \in Ids \ {id} : running'[i] = running[i]
          /\ goroutine'[h] = Spawned(id, call[k].target)
          /\ \A g \in Handles \ {h} : goroutine'[g] = goroutine[g]
      BY <2>1, <3>1, <3>2 DEF ManagerTypeOK
    <3>5. \A i \in Ids \ {id} : running[i] # NoHandle =>
              goroutine'[running'[i]] = goroutine[running[i]]
      BY <3>2, <3>4 DEF ManagerTypeOK
    <3>6. IdsAreSpent' /\ SelectsTarget'
      BY <2>1, <2>2, <3>4 DEF IdsAreSpent, SelectsTarget
    <3>7. TargetsAgree'
      <4>1. row[id] # NoTarget => goroutine'[h].target = row[id]
        BY <2>1, <3>3, <3>4 DEF TargetsAgree
      <4> QED BY <2>1, <2>2, <3>4, <3>5, <4>1 DEF TargetsAgree
    <3>8. FailedIsFragile'
      <4>1. goroutine'[h].pc # "cleanup"
        BY <3>3, <3>4
      <4> QED BY <2>1, <3>4, <3>5, <4>1 DEF FailedIsFragile
    <3>9. Attended'
      BY <2>1, <2>3, <3>2, <3>4 DEF Attended
    <3> QED BY <3>6, <3>7, <3>8, <3>9
  <2> QED BY <1>3, <2>4, <2>5 DEF AddStart
<1> QED BY <1>1, <1>2, <1>3

\* The calls of watch.remove preserve it.
LEMMA RemoveAttends ==
    ASSUME MapInv, AttendInv, NEW k \in Handlers,
           (\E i \in spent : RemoveStop(k, i)) \/ RemoveCancel(k) \/ RemoveDelete(k)
    PROVE  AttendInv'
<1> USE DEF MapInv, AttendInv
<1>1. CASE \E i \in spent : RemoveStop(k, i)
  <2>1. PICK i \in spent : RemoveStop(k, i)
    BY <1>1
  <2> DEFINE new == [NoCall EXCEPT !.pc = IF running[i] = NoHandle THEN "delete" ELSE "cancel",
                                   !.id = i, !.handle = running[i]]
  <2>2. i \in Ids /\ new.pc \in {"cancel", "delete"} /\ new.id = i
    BY DEF ManagerTypeOK, NoCall
  <2>3. /\ call' = [call EXCEPT ![k] = new] /\ call[k] = NoCall
        /\ running' = [running EXCEPT ![i] = NoHandle]
        /\ UNCHANGED <<row, spent, process, goroutine, left>>
    BY <2>1 DEF RemoveStop
  <2> HIDE DEF new
  <2>4. /\ running'[i] = NoHandle /\ call'[k] = new
        /\ \A j \in Ids \ {i} : running'[j] = running[j]
        /\ \A j \in Handlers \ {k} : call'[j] = call[j]
    BY <2>2, <2>3 DEF ManagerTypeOK
  <2>5. IdsAreSpent' /\ SelectsTarget'
    BY <2>2, <2>3, <2>4 DEF IdsAreSpent, SelectsTarget
  <2>6. TargetsAgree' /\ FailedIsFragile'
    BY <2>2, <2>3, <2>4 DEF TargetsAgree, FailedIsFragile
  <2>7. Attended'
    <3> SUFFICES ASSUME process' = "up", NEW n \in Ids, n \notin left', row'[n] \in Targets \ Fragile,
                        running'[n] = NoHandle
                 PROVE  \E j \in Handlers : Attends(j, n)'
      BY DEF Attended
    <3>1. CASE n = i
      BY <2>2, <2>4, <3>1 DEF Attends
    <3>2. CASE n # i
      <4>1. PICK j \in Handlers : Attends(j, n)
        BY <2>3, <2>4, <3>2 DEF Attended
      <4>2. j # k
        BY <4>1, <2>3, NoCallType DEF Attends
      <4>3. call'[j] = call[j]
        BY <2>4, <4>2
      <4> QED BY <4>1, <4>3, <2>3 DEF Attends
    <3> QED BY <3>1, <3>2
  <2> QED BY <2>5, <2>6, <2>7
<1>2. CASE RemoveCancel(k)
  <2>1. /\ call[k].pc = "cancel" /\ UNCHANGED <<row, spent, process, running, left>>
        /\ call' = [call EXCEPT ![k].pc = "delete", ![k].handle = NoHandle]
        /\ call[k].handle \in Handles
    BY <1>2, WatchAssumption DEF RemoveCancel, CancelHolds, ManagerTypeOK, Call
  <2>2. /\ call'[k].pc = "delete" /\ call'[k].id = call[k].id
        /\ \A j \in Handlers \ {k} : call'[j] = call[j]
    BY <2>1 DEF ManagerTypeOK, Call
  <2>3. \A g \in Handles : /\ goroutine'[g].pc = goroutine[g].pc
                           /\ goroutine'[g].target = goroutine[g].target
    <3>1. CASE goroutine[call[k].handle].pc = "none"
      BY <1>2, <3>1 DEF RemoveCancel
    <3>2. CASE goroutine[call[k].handle].pc # "none"
      BY <1>2, <2>1, <3>2 DEF RemoveCancel, ManagerTypeOK, Goroutine
    <3> QED BY <3>1, <3>2
  <2>4. IdsAreSpent' /\ SelectsTarget'
    <3>1. call[k].id \in spent
      BY <2>1 DEF IdsAreSpent
    <3>2. \A j \in Handlers : call'[j].pc \in {"start", "cancel", "delete"} =>
              call'[j].id \in spent
      BY <2>2, <3>1 DEF IdsAreSpent
    <3>3. \A j \in Handlers : call'[j].pc = "select" => call'[j].target \in Targets
      BY <2>2 DEF SelectsTarget
    <3> QED BY <2>1, <3>2, <3>3 DEF IdsAreSpent, SelectsTarget
  <2>5. \A i \in Ids : running[i] # NoHandle =>
            /\ goroutine'[running[i]].pc = goroutine[running[i]].pc
            /\ goroutine'[running[i]].target = goroutine[running[i]].target
    BY <2>3 DEF ManagerTypeOK
  <2>6. TargetsAgree'
    <3>1. \A j \in Handlers : call'[j].pc = "start" => call'[j] = call[j]
      BY <2>2
    <3> QED BY <2>1, <2>5, <3>1 DEF TargetsAgree
  <2>7. FailedIsFragile'
    BY <2>1, <2>5 DEF FailedIsFragile
  <2>8. \A j \in Handlers, i \in Ids : Attends(j, i) => Attends(j, i)'
    BY <2>1, <2>2 DEF Attends
  <2>9. Attended'
    BY <2>1, <2>8 DEF Attended
  <2> QED BY <2>4, <2>6, <2>7, <2>9
<1>3. CASE RemoveDelete(k)
  <2> DEFINE id == call[k].id
  <2>1. /\ call[k].pc = "delete" /\ id \in Ids
        /\ UNCHANGED <<spent, process, running, goroutine>>
        /\ call' = [call EXCEPT ![k] = NoCall]
        /\ \/ row' = [row EXCEPT ![id] = NoTarget] /\ left' = left
           \/ row' = row /\ left' = left \cup {id}
    BY <1>3 DEF RemoveDelete, StoreFails, ManagerTypeOK, Call
  <2>2. /\ call'[k].pc = "idle" /\ \A j \in Handlers \ {k} : call'[j] = call[j]
        /\ row'[id] = NoTarget \/ (row'[id] = row[id] /\ id \in left')
        /\ left \subseteq left' /\ \A i \in Ids \ {id} : row'[i] = row[i]
    <3>1. call'[k].pc = "idle" /\ \A j \in Handlers \ {k} : call'[j] = call[j]
      BY <2>1, NoCallType DEF ManagerTypeOK
    <3> HIDE DEF id
    <3>2. CASE row' = [row EXCEPT ![id] = NoTarget] /\ left' = left
      <4>1. row'[id] = NoTarget /\ \A i \in Ids \ {id} : row'[i] = row[i]
        BY <2>1, <3>2 DEF ManagerTypeOK
      <4> QED BY <3>1, <3>2, <4>1
    <3>3. CASE row' = row /\ left' = left \cup {id}
      BY <3>1, <3>3
    <3> QED BY <2>1, <3>2, <3>3
  <2>3. IdsAreSpent' /\ SelectsTarget'
    BY <2>1, <2>2 DEF IdsAreSpent, SelectsTarget
  <2>4. TargetsAgree' /\ FailedIsFragile'
    BY <2>1, <2>2 DEF TargetsAgree, FailedIsFragile, ManagerTypeOK, Call
  <2>5. ASSUME NEW j \in Handlers, NEW i \in Ids, Attends(j, i), i # id
        PROVE  Attends(j, i)'
    <3>1. j # k
      BY <2>1, <2>5 DEF Attends
    <3>2. call'[j] = call[j] /\ row'[i] = row[i]
      BY <2>2, <2>5, <3>1
    <3> QED BY <2>5, <3>2 DEF Attends
  <2>6. Attended'
    <3> SUFFICES ASSUME process' = "up", NEW i \in Ids, i \notin left', row'[i] \in Targets \ Fragile,
                        running'[i] = NoHandle
                 PROVE  \E j \in Handlers : Attends(j, i)'
      BY DEF Attended
    <3>1. i # id
      BY <2>2, WatchAssumption
    <3>2. PICK j \in Handlers : Attends(j, i)
      BY <2>1, <2>2, <3>1 DEF Attended
    <3> QED BY <2>5, <3>1, <3>2
  <2> QED BY <2>3, <2>4, <2>6
<1> QED BY <1>1, <1>2, <1>3

\* The steps of a watcher goroutine preserve it: only a watcher that could fail takes its
\* own entry out.
LEMMA GoroutineAttends ==
    ASSUME MapInv, AttendInv, NEW h \in Handles,
           WrappedEmit(h) \/ Emit(h) \/ Observe(h) \/ Return(h) \/ Cleanup(h)
    PROVE  AttendInv'
<1> USE DEF MapInv, AttendInv
<1>1. UNCHANGED <<row, spent, process, call, left>>
  BY DEF WrappedEmit, Emit, Observe, Return, Cleanup
<1>2. SelectsTarget' /\ \A j \in Handlers, i \in Ids : Attends(j, i) => Attends(j, i)'
  BY <1>1 DEF SelectsTarget, Attends
<1>3. CASE WrappedEmit(h) \/ Emit(h) \/ Observe(h) \/ Return(h)
  <2>1. running' = running
    BY <1>3 DEF WrappedEmit, Emit, Observe, Return
  <2>2. \A g \in Handles :
          /\ goroutine'[g].target = goroutine[g].target
          /\ goroutine'[g].pc = "cleanup" /\ goroutine[g].pc # "cleanup" =>
                goroutine[g].cancelled \/ process = "cancelled" \/ goroutine[g].target \in Fragile
    <3>1. CASE Return(h)
      BY <3>1 DEF Return, Goto, Cancelled, ManagerTypeOK, Goroutine
    <3>2. CASE WrappedEmit(h) \/ Emit(h) \/ Observe(h)
      BY <3>2 DEF WrappedEmit, Emit, Observe, Goto, ManagerTypeOK, Goroutine
    <3> QED BY <1>3, <3>1, <3>2
  <2>3. IdsAreSpent' /\ Attended'
    BY <1>1, <1>2, <2>1 DEF IdsAreSpent, Attended
  <2>4. TargetsAgree'
    BY <1>1, <2>1, <2>2 DEF TargetsAgree, ManagerTypeOK
  <2>5. FailedIsFragile'
    <3> SUFFICES ASSUME process = "up", NEW i \in Ids, running[i] # NoHandle,
                        goroutine'[running[i]].pc = "cleanup"
                 PROVE  goroutine'[running[i]].target \in Fragile
      BY <1>1, <2>1 DEF FailedIsFragile
    <3>1. running[i] \in Handles /\ ~goroutine[running[i]].cancelled
      BY DEF ManagerTypeOK, EntryIsLive
    <3> QED BY <2>2, <3>1 DEF FailedIsFragile
  <2> QED BY <1>2, <2>3, <2>4, <2>5
<1>4. CASE Cleanup(h)
  <2>1. /\ goroutine[h].pc = "cleanup"
        /\ goroutine' = [goroutine EXCEPT ![h] = NoGoroutine]
        /\ \A i \in Ids : running'[i] = IF running[i] = h THEN NoHandle ELSE running[i]
    <3>1. \A i \in Ids : running[i] = h => i = goroutine[h].id
      BY WatchAssumption DEF EntryIsLive
    <3> QED BY <1>4, <3>1 DEF Cleanup, AfterCleanup, ManagerTypeOK, Goroutine
  <2>2. \A i \in Ids : running'[i] # NoHandle =>
            running'[i] = running[i] /\ goroutine'[running'[i]] = goroutine[running[i]]
    BY <2>1 DEF ManagerTypeOK
  <2>3. IdsAreSpent'
    BY <1>1, <2>2 DEF IdsAreSpent
  <2>4. TargetsAgree' /\ FailedIsFragile'
    BY <1>1, <2>2 DEF TargetsAgree, FailedIsFragile
  <2>5. Attended'
    <3> SUFFICES ASSUME process = "up", NEW i \in Ids, i \notin left', row[i] \in Targets \ Fragile,
                        running'[i] = NoHandle
                 PROVE  \E j \in Handlers : Attends(j, i)'
      BY <1>1 DEF Attended
    <3>1. running[i] # h
      <4> SUFFICES ASSUME running[i] = h PROVE FALSE
        OBVIOUS
      <4>1. goroutine[h].target = row[i]
        BY WatchAssumption DEF TargetsAgree
      <4>2. goroutine[h].target \in Fragile
        BY <2>1, WatchAssumption DEF FailedIsFragile
      <4> QED BY <4>1, <4>2
    <3>2. running[i] = NoHandle
      BY <2>1, <3>1
    <3> QED BY <1>1, <1>2, <3>2 DEF Attended
  <2> QED BY <1>2, <2>3, <2>4, <2>5
<1> QED BY <1>3, <1>4

\* Boot, which starts a watcher for every row, shutdown and the end preserve it.
LEMMA ProcessAttends ==
    ASSUME MapInv, AttendInv, Run \/ RunFails \/ Shutdown \/ Gone
    PROVE  AttendInv'
<1> USE DEF MapInv, AttendInv
<1>1. CASE Run
  <2>1. PICK H \in SUBSET Handles : \E f \in Bijection(ListWatches, H) :
          /\ running' = [i \in Ids |-> IF i \in ListWatches THEN f[i] ELSE NoHandle]
          /\ goroutine' = [h \in Handles |->
               IF \E i \in ListWatches : f[i] = h
               THEN LET i == CHOOSE i \in ListWatches : f[i] = h IN Spawned(i, row[i])
               ELSE NoGoroutine]
    BY <1>1 DEF Run
  <2>2. PICK f \in Bijection(ListWatches, H) :
          /\ running' = [i \in Ids |-> IF i \in ListWatches THEN f[i] ELSE NoHandle]
          /\ goroutine' = [h \in Handles |->
               IF \E i \in ListWatches : f[i] = h
               THEN LET i == CHOOSE i \in ListWatches : f[i] = h IN Spawned(i, row[i])
               ELSE NoGoroutine]
    BY <2>1
  <2>3. /\ \A i \in ListWatches : f[i] \in Handles
        /\ \A i, j \in ListWatches : f[i] = f[j] => i = j
    BY <2>1, <2>2 DEF Bijection, Injection, Surjection, IsInjective
  <2>4. UNCHANGED <<row, spent, call>> /\ \A k \in Handlers : call[k] = NoCall
    BY <1>1 DEF Run, DownIsEmpty
  <2>5. ASSUME NEW i \in ListWatches
        PROVE  goroutine'[f[i]] = Spawned(i, row[i])
    <3>1. f[i] \in Handles /\ \E j \in ListWatches : f[j] = f[i]
      BY <2>3
    <3>2. (CHOOSE j \in ListWatches : f[j] = f[i]) = i
      BY <2>3
    <3> QED BY <2>2, <3>1, <3>2
  <2>6. ASSUME NEW i \in Ids, running'[i] # NoHandle
        PROVE  /\ row[i] # NoTarget
               /\ goroutine'[running'[i]].target = row[i]
               /\ goroutine'[running'[i]].pc = "wrap"
    <3>1. i \in ListWatches /\ running'[i] = f[i]
      BY <2>2, <2>6
    <3>2. goroutine'[running'[i]] = Spawned(i, row[i]) /\ row[i] # NoTarget
      BY <2>5, <3>1 DEF ListWatches
    <3>3. Spawned(i, row[i]).target = row[i] /\ Spawned(i, row[i]).pc = "wrap"
      BY DEF Spawned
    <3> QED BY <3>2, <3>3
  <2>7. \A i \in Ids : row[i] # NoTarget => running'[i] # NoHandle
    BY <2>2, <2>3, WatchAssumption DEF ListWatches
  <2>8. IdsAreSpent' /\ SelectsTarget'
    BY <2>4, <2>6, NoCallType DEF IdsAreSpent, SelectsTarget
  <2>9. TargetsAgree' /\ FailedIsFragile'
    BY <2>4, <2>6, NoCallType DEF TargetsAgree, FailedIsFragile
  <2>10. Attended'
    BY <2>4, <2>7, WatchAssumption DEF Attended
  <2> QED BY <2>8, <2>9, <2>10
<1>2. CASE Shutdown
  BY <1>2 DEF Shutdown, IdsAreSpent, SelectsTarget, TargetsAgree, FailedIsFragile, Attended
<1>3. CASE Gone
  BY <1>3, NoCallType
  DEF Gone, IdsAreSpent, SelectsTarget, TargetsAgree, FailedIsFragile, Attended
<1>4. CASE RunFails
  BY <1>4, FailureKeepsAttend DEF RunFails
<1> QED BY <1>1, <1>2, <1>3, <1>4

\* A persisted watch is watched: when no call is at work, every row of a target whose
\* watcher cannot fail has an entry in the map, whatever adds and removals of the same
\* target crossed and after every restart, but for a row that a failing SELECT of watch.add
\* or DELETE of watch.remove has left behind since the last boot and no later watch.add has
\* picked up.
THEOREM RowsWatched == ManagerSpec => []RowIsWatched
<1>1. MapInv /\ AttendInv /\ [ManagerNext]_managerVars => AttendInv'
  <2> SUFFICES ASSUME MapInv, AttendInv, [ManagerNext]_managerVars PROVE AttendInv'
    OBVIOUS
  <2>1. CASE UNCHANGED managerVars
    BY <2>1 DEF managerVars, AttendInv, IdsAreSpent, SelectsTarget, TargetsAgree, FailedIsFragile,
                Attended, Attends
  <2>2. CASE ManagerNext
    BY <2>2, AddAttends, RemoveAttends, GoroutineAttends, ProcessAttends DEF ManagerNext
  <2> QED BY <2>1, <2>2
<1>2. AttendInv => RowIsWatched
  BY NoCallType DEF AttendInv, Attended, Attends, RowIsWatched, Quiet
<1> QED BY <1>1, <1>2, MapInvariant, AttendInit, PTL DEF ManagerSpec
=============================================================================
