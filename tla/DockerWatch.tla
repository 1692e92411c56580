---------------------------- MODULE DockerWatch ----------------------------
(***************************************************************************)
(* The docker watcher (internal/watch/docker.go): it inspects the          *)
(* container, streams the container's events until the stream ends, and    *)
(* starts over after a backoff.                                            *)
(*                                                                         *)
(* Docker is external: the container, the inspection and the stream of     *)
(* lines, which begins when docker has subscribed the watcher.  A paused   *)
(* container is left out.                                                  *)
(***************************************************************************)
EXTENDS Naturals, Sequences

CONSTANT MaxLines  \* bound: lines of the stream that are not read yet

VARIABLES
    status,     \* the container: "absent", "exited" (created, too) or "running"
    health,     \* of a running container: "none" (starting, too), "healthy", "unhealthy"
    attached,   \* docker writes the container's events to the stream
    lines,      \* the Actions of the lines that were written and not scanned
    streaming,  \* where RunDockerWatch is
    stopped,    \* ctx.Err() # nil
    lastType,   \* the event that was emitted last, "" for none
    doubt       \* history: why lastType may be wrong: a change that nobody heard of and
                \* no inspection has seen yet ("gap") or has failed to see ("blind"), or a
                \* signal that was taken for an end

dockerVars == <<status, health, attached, lines, streaming, stopped, lastType, doubt>>

ASSUME DockerAssumption == MaxLines \in Nat

Actions == {"create", "start", "kill", "die", "stop", "destroy", "healthy", "unhealthy"}
DockerTypes == {"docker.started", "docker.stopped", "docker.healthy", "docker.unhealthy"}

\* What a docker watcher reads and emits is in range (RunDockerWatch).
DockerTypeOK ==
    /\ status \in {"absent", "exited", "running"}
    /\ health \in {"none", "healthy", "unhealthy"}
    /\ attached \in BOOLEAN /\ stopped \in BOOLEAN
    /\ lines \in Seq(Actions)
    /\ streaming \in {"inspect", "start", "scan", "backoff", "done"}
    /\ lastType \in DockerTypes \cup {""}
    /\ doubt \in {"none", "gap", "blind", "signal"}

DockerInit ==
    /\ status \in {"absent", "exited", "running"}
    /\ health = "none"
    /\ attached = FALSE
    /\ lines = <<>>
    /\ streaming = "inspect"
    /\ stopped = FALSE
    /\ lastType = ""
    /\ doubt = IF status = "running" THEN "gap" ELSE "none"

----------------------------------------------------------------------------
(* Docker *)

Written(acts) ==
    /\ lines' = IF attached THEN lines \o acts ELSE lines
    /\ Len(lines') <= MaxLines

KeepDocker == UNCHANGED <<attached, streaming, stopped, lastType>>

\* The container changes: nobody hears of it while the stream is not attached.
Changes(s, h, acts) ==
    /\ status' = s
    /\ health' = h
    /\ Written(acts)
    /\ doubt' = IF attached THEN "none" ELSE IF doubt = "blind" THEN "blind" ELSE "gap"
    /\ KeepDocker

ContainerStarts == status = "exited" /\ Changes("running", "none", <<"start">>)

\* The process ends by itself, or docker stop waits for its end.
ContainerDies ==
    /\ status = "running"
    /\ \/ Changes("exited", "none", <<"die">>)
       \/ Changes("exited", "none", <<"die", "stop">>)

HealthChanges(h) ==
    /\ status = "running"
    /\ health # h
    /\ Changes("running", h, <<h>>)

\* A signal is sent, of docker stop for one: the process need not end at once, or at all.
ContainerSignalled ==
    /\ status = "running"
    /\ Written(<<"kill">>)
    /\ doubt' = IF attached THEN "signal" ELSE doubt
    /\ UNCHANGED <<status, health>>
    /\ KeepDocker

\* A container that does not run comes and goes: the watcher need not know.
ContainerCreated ==
    /\ status = "absent"
    /\ status' = "exited"
    /\ Written(<<"create">>)
    /\ UNCHANGED <<health, doubt>>
    /\ KeepDocker

ContainerDestroyed ==
    /\ status = "exited"
    /\ status' = "absent"
    /\ Written(<<"destroy">>)
    /\ UNCHANGED <<health, doubt>>
    /\ KeepDocker

----------------------------------------------------------------------------
(* RunDockerWatch *)

KeepContainer == UNCHANGED <<status, health>>

\* Mutant: the end of a process that nobody stopped is not a stop.
MapEventCrashIgnored(act) ==
    CASE act = "start" -> "docker.started"
      [] act \in {"stop", "kill"} -> "docker.stopped"
      [] act = "healthy" -> "docker.healthy"
      [] act = "unhealthy" -> "docker.unhealthy"
      [] OTHER -> ""

\* The event type of a line, "" for a line to ignore.
MapDockerEvent(act) ==
    CASE act = "start" -> "docker.started"
      [] act \in {"die", "stop", "kill"} -> "docker.stopped"
      [] act = "healthy" -> "docker.healthy"
      [] act = "unhealthy" -> "docker.unhealthy"
      [] OTHER -> ""

\* The event type of an inspected state.
MapDockerInspect(s, h) ==
    CASE s = "running" /\ h = "healthy" -> "docker.healthy"
      [] s = "running" /\ h = "unhealthy" -> "docker.unhealthy"
      [] s = "running" /\ h = "none" -> "docker.started"
      [] OTHER -> "docker.stopped"

\* Repeats of the same state are suppressed.
EmitOnce(type) == lastType' = IF type = "" THEN lastType ELSE type

\* docker inspect: it fails for a container that is absent, or when docker or ctx is gone.
Inspect ==
    /\ streaming = "inspect"
    /\ streaming' = "start"
    /\ \/ /\ status # "absent" /\ ~stopped
          /\ EmitOnce(MapDockerInspect(status, health))
          /\ doubt' = "none"
       \/ /\ UNCHANGED lastType
          /\ doubt' = IF doubt = "gap" THEN "blind" ELSE doubt
    /\ UNCHANGED <<attached, lines, stopped>>
    /\ KeepContainer

\* docker events runs, and has subscribed.
StartStream ==
    /\ streaming = "start"
    /\ ~stopped
    /\ streaming' = "scan"
    /\ attached' = TRUE
    /\ UNCHANGED <<lines, stopped, lastType, doubt>>
    /\ KeepContainer

\* docker events does not start, or ends before it has subscribed.
StartFails ==
    /\ streaming = "start"
    /\ streaming' = "backoff"
    /\ UNCHANGED <<attached, lines, stopped, lastType, doubt>>
    /\ KeepContainer

\* One line of the stream.
ScanLine ==
    /\ streaming = "scan"
    /\ lines # <<>>
    /\ lines' = Tail(lines)
    /\ EmitOnce(MapDockerEvent(Head(lines)))
    /\ UNCHANGED <<attached, streaming, stopped, doubt>>
    /\ KeepContainer

\* The subprocess exits: the docker daemon restarts, or ctx is done.  Lines may be lost.
StreamEnds ==
    /\ attached
    /\ attached' = FALSE
    /\ \E n \in 0 .. Len(lines) :
          /\ lines' = SubSeq(lines, 1, n)
          /\ doubt' = IF n < Len(lines) THEN "gap" ELSE doubt
    /\ UNCHANGED <<streaming, stopped, lastType>>
    /\ KeepContainer

\* The scanner has read what there was; cmd.Wait.
ScanEnds ==
    /\ streaming = "scan"
    /\ lines = <<>> /\ ~attached
    /\ streaming' = "backoff"
    /\ UNCHANGED <<attached, lines, stopped, lastType, doubt>>
    /\ KeepContainer

Backoff ==
    /\ streaming = "backoff"
    /\ streaming' = "inspect"
    /\ UNCHANGED <<attached, lines, stopped, lastType, doubt>>
    /\ KeepContainer

DockerReturns ==
    /\ streaming = "backoff"
    /\ stopped
    /\ streaming' = "done"
    /\ UNCHANGED <<attached, lines, stopped, lastType, doubt>>
    /\ KeepContainer

DockerCancelled ==
    /\ ~stopped
    /\ stopped' = TRUE
    /\ UNCHANGED <<attached, lines, streaming, lastType, doubt>>
    /\ KeepContainer

DockerNext ==
    \/ ContainerStarts \/ ContainerDies \/ ContainerSignalled
    \/ ContainerCreated \/ ContainerDestroyed
    \/ \E h \in {"healthy", "unhealthy"} : HealthChanges(h)
    \/ Inspect \/ StartStream \/ StartFails \/ ScanLine \/ StreamEnds \/ ScanEnds
    \/ Backoff \/ DockerReturns \/ DockerCancelled

DockerSpec == DockerInit /\ [][DockerNext]_dockerVars

----------------------------------------------------------------------------
(* Properties *)

\* The watcher listens and has read everything.
DockerSettled == streaming = "scan" /\ attached /\ lines = <<>>

\* What was emitted last is so: of a container that does not run, nothing may be known.
SaidIsSo ==
    \/ lastType = MapDockerInspect(status, health)
    \/ status # "running" /\ lastType = ""

\* A watcher that listens is right about the container, over restarts of docker and of
\* the container, lost lines and repeats, unless the last thing that happened fell in the
\* gap before the stream or was a mere signal: one more change, or an inspection that
\* works, always puts it right (RunDockerWatch, MapDockerEvent against MapDockerInspect).
DockerConverges == DockerSettled /\ doubt = "none" => SaidIsSo
=============================================================================
