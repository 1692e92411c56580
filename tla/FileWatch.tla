----------------------------- MODULE FileWatch -----------------------------
(***************************************************************************)
(* The file watcher (internal/watch/file.go): a kernel watch on the parent *)
(* directory, a trailing-edge debounce timer, and the re-arming when the   *)
(* directory disappears.                                                   *)
(*                                                                         *)
(* The file system and fsnotify are external: a change under an armed      *)
(* watch queues an event, the end of the directory queues "gone" and       *)
(* disarms the watch.                                                      *)
(***************************************************************************)
EXTENDS Naturals, Sequences

CONSTANT MaxQueue  \* bound: events that fsnotify has queued

VARIABLES
    parent,   \* the directory exists
    file,     \* the file exists
    armed,    \* the kernel watches the directory
    queue,    \* w.Events: "file" for the file's path, "gone" for the directory's
    watching, \* where RunFileWatch is
    exists,   \* its belief
    timer,    \* the debounce timer
    emitted,  \* history: the last event, and whether the file existed then
    unseen    \* history: the file's contents changed after they were last reported

fileVars == <<parent, file, armed, queue, watching, exists, timer, emitted, unseen>>

ASSUME FileAssumption == MaxQueue \in Nat

\* What a file watcher believes, queues and reports is in range (RunFileWatch).
FileTypeOK ==
    /\ parent \in BOOLEAN /\ file \in BOOLEAN /\ armed \in BOOLEAN
    /\ queue \in Seq({"file", "gone"})
    /\ watching \in {"arm", "stat", "loop", "rearm", "restat"}
    /\ exists \in BOOLEAN
    /\ timer \in {"off", "running", "fired"}
    /\ emitted \in [type: {"none", "file.created", "file.changed", "file.removed"},
                    file: BOOLEAN]
    /\ unseen \in BOOLEAN

FileInit ==
    /\ parent \in BOOLEAN
    /\ file \in BOOLEAN
    /\ file => parent
    /\ armed = FALSE
    /\ queue = <<>>
    /\ watching = "arm"
    /\ exists = FALSE
    /\ timer = "off"
    /\ emitted = [type |-> "none", file |-> FALSE]
    /\ unseen = file

----------------------------------------------------------------------------
(* The file system and fsnotify *)

KeepWatcher == UNCHANGED <<watching, exists, timer, emitted>>

Queued(evs) ==
    /\ queue' = IF armed THEN queue \o evs ELSE queue
    /\ Len(queue') <= MaxQueue

\* The file is created or written.
FileWritten ==
    /\ parent
    /\ file' = TRUE
    /\ unseen' = TRUE
    /\ Queued(<<"file">>)
    /\ UNCHANGED <<parent, armed>>
    /\ KeepWatcher

FileRemoved ==
    /\ file
    /\ file' = FALSE
    /\ unseen' = FALSE
    /\ Queued(<<"file">>)
    /\ UNCHANGED <<parent, armed>>
    /\ KeepWatcher

\* The directory is renamed away, or removed with the file in it.
ParentGone ==
    /\ parent
    /\ parent' = FALSE
    /\ file' = FALSE
    /\ armed' = FALSE
    /\ unseen' = FALSE
    /\ Queued(<<"gone">>) \/ (file /\ Queued(<<"file", "gone">>))
    /\ KeepWatcher

ParentCreated ==
    /\ ~parent
    /\ parent' = TRUE
    /\ UNCHANGED <<file, armed, queue, unseen>>
    /\ KeepWatcher

----------------------------------------------------------------------------
(* RunFileWatch *)

\* What the watcher says is about the file as it is now.
EmitFile(type) ==
    /\ emitted' = [type |-> type, file |-> file]
    /\ unseen' = (unseen /\ type = "file.removed")

KeepReport == UNCHANGED <<emitted, unseen>>

\* w.Add(parent) succeeds once the directory is there.
Arm ==
    /\ watching = "arm"
    /\ parent
    /\ armed' = TRUE
    /\ watching' = "stat"
    /\ UNCHANGED <<parent, file, queue, exists, timer>>
    /\ KeepReport

\* The initial check, after the watch is armed.
InitialStat ==
    /\ watching = "stat"
    /\ watching' = "loop"
    /\ \/ file /\ exists' = TRUE /\ EmitFile("file.created")
       \/ ~file /\ UNCHANGED exists /\ KeepReport
    /\ UNCHANGED <<parent, file, armed, queue, timer>>

\* An event of the file starts the debounce over; Reset drops a tick that was not taken.
FileEvent ==
    /\ watching = "loop"
    /\ queue # <<>> /\ Head(queue) = "file"
    /\ queue' = Tail(queue)
    /\ timer' = "running"
    /\ UNCHANGED <<parent, file, armed, watching, exists>>
    /\ KeepReport

TimerFires ==
    /\ timer = "running"
    /\ timer' = "fired"
    /\ UNCHANGED <<parent, file, armed, queue, watching, exists>>
    /\ KeepReport

\* Mutant: a file that was there and still is needs no event.
DebouncedEdges ==
    /\ watching = "loop"
    /\ timer = "fired"
    /\ timer' = "off"
    /\ exists' = file
    /\ \/ file /\ ~exists /\ EmitFile("file.created")
       \/ ~file /\ exists /\ EmitFile("file.removed")
       \/ file = exists /\ KeepReport
    /\ UNCHANGED <<parent, file, armed, queue, watching>>

\* The burst is over: one event for the state the file is in.
Debounced ==
    /\ watching = "loop"
    /\ timer = "fired"
    /\ timer' = "off"
    /\ exists' = file
    /\ \/ file /\ ~exists /\ EmitFile("file.created")
       \/ file /\ exists /\ EmitFile("file.changed")
       \/ ~file /\ exists /\ EmitFile("file.removed")
       \/ ~file /\ ~exists /\ KeepReport
    /\ UNCHANGED <<parent, file, armed, queue, watching>>

\* rearmParent: the file is reported gone at once ...
ParentEvent ==
    /\ watching = "loop"
    /\ queue # <<>> /\ Head(queue) = "gone"
    /\ queue' = Tail(queue)
    /\ watching' = "rearm"
    /\ exists' = FALSE
    /\ \/ exists /\ EmitFile("file.removed")
       \/ ~exists /\ KeepReport
    /\ UNCHANGED <<parent, file, armed, timer>>

\* ... the watch is armed when the directory is back ...
Rearm ==
    /\ watching = "rearm"
    /\ parent
    /\ armed' = TRUE
    /\ watching' = "restat"
    /\ UNCHANGED <<parent, file, queue, exists, timer>>
    /\ KeepReport

\* Mutant: nobody looks for the file after the watch is armed again.
NoRestat ==
    /\ watching = "restat"
    /\ watching' = "loop"
    /\ UNCHANGED <<parent, file, armed, queue, exists, timer>>
    /\ KeepReport

\* ... and the file is looked for, in case it came back before that.
Restat ==
    /\ watching = "restat"
    /\ watching' = "loop"
    /\ \/ file /\ exists' = TRUE /\ EmitFile("file.created")
       \/ ~file /\ UNCHANGED exists /\ KeepReport
    /\ UNCHANGED <<parent, file, armed, queue, timer>>

FileNext ==
    \/ FileWritten \/ FileRemoved \/ ParentGone \/ ParentCreated
    \/ Arm \/ InitialStat \/ FileEvent \/ TimerFires \/ Debounced
    \/ ParentEvent \/ Rearm \/ Restat

FileSpec == FileInit /\ [][FileNext]_fileVars

----------------------------------------------------------------------------
(* Properties *)

\* The watcher has nothing to do.
FileSettled == watching = "loop" /\ queue = <<>> /\ timer = "off"

\* When the watcher has nothing to do, it is right about the file, whatever was created,
\* removed and renamed while it was arming, re-arming or debouncing (RunFileWatch).
FileConverges == FileSettled => exists = file /\ (parent => armed)

\* When the watcher has nothing to do, the file's last contents have been reported: no
\* write falls between a kernel watch that is gone and the next, or between the watch and
\* the look at the file (RunFileWatch, rearmParent).
ChangesReported == FileSettled => ~unseen

\* An event is true when it is emitted: never a stale file.removed (RunFileWatch).
EventsAreTrue ==
    emitted.type # "none" => emitted.file = (emitted.type # "file.removed")
=============================================================================
