--------------------------- MODULE WatcherProofs ---------------------------
(***************************************************************************)
(* Proofs about the watchers: what the poller, the file, the docker and    *)
(* the git watcher report, for every queue bound, threshold and set of     *)
(* branches.                                                               *)
(***************************************************************************)
EXTENDS MCWatchers, WatchProofs, Integers, SequenceTheorems

----------------------------------------------------------------------------
(* Queues *)

LEMMA AppendParts ==
    ASSUME NEW S, NEW q \in Seq(S), NEW x \in S, NEW r, r = Append(q, x)
    PROVE  /\ r \in Seq(S) /\ r # <<>> /\ Len(q) \in Nat
           /\ Len(r) = Len(q) + 1 /\ r[Len(q) + 1] = x
           /\ \A i \in 1 .. Len(q) : r[i] = q[i]
  OBVIOUS

LEMMA TailParts ==
    ASSUME NEW S, NEW q \in Seq(S), q # <<>>, NEW r, r = Tail(q)
    PROVE  /\ r \in Seq(S) /\ Len(q) \in Nat \ {0} /\ Len(r) = Len(q) - 1
           /\ Head(q) = q[1] /\ Head(q) \in S
           /\ \A i \in 1 .. Len(r) : r[i] = q[i + 1] /\ i + 1 \in 1 .. Len(q)
  OBVIOUS

----------------------------------------------------------------------------
(* The poller *)

\* A change is pending exactly when the last probe contradicted what is believed; it has
\* then been pending for as long as the probes agreed, and that is not long enough yet.
PendingIsRecent ==
    /\ polling \in {"first", "initial"} => ~pending /\ reported = "none"
    /\ polling \notin {"first", "initial"} => (pending <=> last # current)
    /\ pending => since = streak /\ since < Threshold

\* A probe whose answer is still to be used saw what it says, unless the watch was stopped.
AnswerIsSeen == polling \in {"initial", "got"} => cancelled \/ got = seen

PollInv == PollTypeOK /\ PendingIsRecent /\ AnswerIsSeen

LEMMA CappedType ==
    ASSUME NEW t \in Nat
    PROVE  /\ Capped(t) \in 0 .. Threshold
           /\ t < Threshold => Capped(t) = t
           /\ t >= Threshold => Capped(t) = Threshold
  BY PollAssumption DEF Capped

\* One round of the loop, whatever the probe says.
LEMMA PollKeeps ==
    ASSUME PollInv, NEW d \in Gaps, Poll(d)
    PROVE  /\ PollInv'
           /\ reported # "none" /\ reported' # reported => streak' = Threshold
<1>1. d \in Nat /\ Threshold \in Nat /\ since \in Nat /\ streak \in Nat /\ got \in BOOLEAN
  BY PollAssumption DEF PollInv, PollTypeOK
<1>2. /\ polling = "got" /\ polling' = "wait" /\ up' = up /\ cancelled' = cancelled
      /\ got' = got /\ seen' = seen
      /\ last' = got
      /\ streak' = IF got = last THEN Capped(streak + d) ELSE 0
  BY DEF Poll
<1>3. streak' \in 0 .. Threshold
  BY <1>1, <1>2, CappedType
<1>7. AnswerIsSeen'
  BY <1>2 DEF AnswerIsSeen
<1>4. CASE Agrees(d)
  <2>1. got = current /\ pending' = FALSE /\ since' = 0 /\ current' = current
        /\ reported' = reported
    BY <1>4 DEF Agrees
  <2>2. PollTypeOK'
    <3>1. since' \in 0 .. Threshold
      BY <1>1, <2>1
    <3> QED BY <1>1, <1>2, <1>3, <2>1, <3>1, Zenon DEF PollInv, PollTypeOK
  <2>3. last' = current' /\ pending' = FALSE /\ polling' = "wait"
    BY <1>2, <2>1
  <2> QED BY <1>7, <2>1, <2>2, <2>3 DEF PollInv, PendingIsRecent
<1>5. CASE Contradicts(d) /\ HeldLongEnough(d)
  <2>1. got # current /\ current' = got /\ pending' = FALSE /\ since' = 0
    BY <1>5 DEF Contradicts
  <2>2. reported' \in {"none", "up", "down"}
    BY <1>5 DEF Contradicts, EmitState, PollInv, PollTypeOK
  <2>3. streak' = Threshold
    <3>1. CASE pending
      <4>1. got = last /\ streak + d >= Threshold
        BY <1>1, <1>2, <1>5, <2>1, <3>1
           DEF PollInv, PollTypeOK, PendingIsRecent, HeldLongEnough, Age
      <4> QED BY <1>1, <1>2, <4>1, CappedType
    <3>2. CASE ~pending
      BY <1>1, <1>3, <1>5, <3>2 DEF HeldLongEnough, Age
    <3> QED BY <3>1, <3>2
  <2>4. PollTypeOK'
    <3>1. since' \in 0 .. Threshold
      BY <1>1, <2>1
    <3> QED BY <1>1, <1>2, <1>3, <2>1, <2>2, <3>1, Zenon DEF PollInv, PollTypeOK
  <2>5. last' = current' /\ pending' = FALSE /\ polling' = "wait"
    BY <1>2, <2>1
  <2> QED BY <1>7, <2>3, <2>4, <2>5 DEF PollInv, PendingIsRecent
<1>6. CASE Contradicts(d) /\ ~HeldLongEnough(d)
  <2>1. /\ got # current /\ current' = current /\ pending' = TRUE
        /\ since' = Capped(Age(d)) /\ reported' = reported
    BY <1>6 DEF Contradicts
  <2>2. Age(d) \in Nat /\ Age(d) < Threshold
    BY <1>1, <1>6 DEF HeldLongEnough, Age
  <2>3. since' = Age(d)
    BY <2>1, <2>2, CappedType
  <2>4. streak' = Age(d)
    <3>1. CASE pending
      <4>1. got = last /\ streak + d = Age(d)
        BY <1>1, <1>2, <2>1, <3>1 DEF PollInv, PollTypeOK, PendingIsRecent, Age
      <4> QED BY <1>1, <1>2, <2>2, <4>1, CappedType
    <3>2. CASE ~pending
      BY <1>1, <1>2, <2>1, <3>2 DEF PollInv, PollTypeOK, PendingIsRecent, Age
    <3> QED BY <3>1, <3>2
  <2> QED BY <1>1, <1>2, <1>3, <1>7, <2>1, <2>2, <2>3, <2>4 DEF PollInv, PollTypeOK, PendingIsRecent
<1> QED BY <1>4, <1>5, <1>6 DEF Poll

LEMMA PollInitInv == PollInit => PollInv
<1> SUFFICES ASSUME PollInit PROVE PollTypeOK /\ PendingIsRecent /\ AnswerIsSeen
  BY DEF PollInv
<1>1. 0 \in 0 .. Threshold
  BY PollAssumption
<1>2. PollTypeOK
  BY <1>1 DEF PollInit, PollTypeOK
<1>3. PendingIsRecent /\ AnswerIsSeen
  BY DEF PollInit, PendingIsRecent, AnswerIsSeen
<1> QED BY <1>2, <1>3

\* A step of the poller, and what it may report.
LEMMA PollStep ==
    ASSUME PollInv, [PollNext]_pollVars
    PROVE  /\ PollInv'
           /\ reported # "none" /\ reported' # reported => streak' = Threshold
<1> USE DEF PollInv, PendingIsRecent, AnswerIsSeen
<1>1. CASE InitialCheck
  BY <1>1, PollAssumption DEF InitialCheck, EmitState, PollTypeOK
<1>2. CASE \E d \in Gaps : Poll(d)
  BY <1>2, PollKeeps
<1>3. CASE PollerReturns
  BY <1>3 DEF PollerReturns, PollTypeOK
<1>4. CASE ConditionFlips
  BY <1>4 DEF ConditionFlips, PollTypeOK
<1>5. CASE PollerCancelled
  BY <1>5 DEF PollerCancelled, PollTypeOK
<1>6. CASE Tick
  BY <1>6 DEF Tick, PollTypeOK
<1>7. CASE ProbeReturns
  <2>1. cancelled' = cancelled /\ (cancelled \/ got' = seen')
    BY <1>7 DEF ProbeReturns, Probe, PollTypeOK
  <2>2. PollTypeOK'
    BY <1>7 DEF ProbeReturns, Probe, PollTypeOK
  <2>3. PendingIsRecent' /\ reported' = reported
    BY <1>7 DEF ProbeReturns
  <2> QED BY <2>1, <2>2, <2>3
<1>8. CASE UNCHANGED pollVars
  BY <1>8 DEF pollVars, PollTypeOK
<1> QED BY <1>1, <1>2, <1>3, <1>4, <1>5, <1>6, <1>7, <1>8 DEF PollNext

\* A change that the probes have agreed on for the threshold is believed: RunPoller's
\* pendingSince is never younger than the agreement is.
THEOREM StableBelieved == PollSpec => []StableIsBelieved
<1>1. PollInit => PollInv
  BY PollInitInv
<1>2. PollInv /\ [PollNext]_pollVars => PollInv'
  BY PollStep
<1>3. PollInv => StableIsBelieved
  BY PollAssumption DEF PollInv, PollTypeOK, PendingIsRecent, StableIsBelieved
<1> QED BY <1>1, <1>2, <1>3, PTL DEF PollSpec

\* No flap that is shorter than the threshold is reported: RunPoller's pendingSince is
\* never older than the agreement is.
THEOREM FlapsSuppressed == PollSpec => FlapSuppressed
<1>1. PollInit => PollInv
  BY PollInitInv
<1>2. PollInv /\ [PollNext]_pollVars => PollInv'
  BY PollStep
<1>3. PollInv /\ [PollNext]_pollVars =>
        [reported # "none" /\ reported' # reported => streak' = Threshold]_pollVars
  BY PollStep
<1> QED BY <1>1, <1>2, <1>3, PTL DEF PollSpec, FlapSuppressed

\* Stopping a watch is not an outage, also when the stop comes in the middle of RunPoller's
\* probe or after it: a down whose probe was cut short does not get through wrappedEmit.
THEOREM StopNoOutage == PollSpec => StopIsNoOutage
<1>1. PollInit => PollInv
  BY PollInitInv
<1>2. PollInv /\ [PollNext]_pollVars => PollInv'
  BY PollStep
<1>3. PollInv /\ [PollNext]_pollVars =>
        [reported' = "down" /\ reported # "down" => ~seen]_pollVars
  <2> SUFFICES ASSUME PollInv, PollNext, reported' = "down", reported # "down"
               PROVE  ~seen
    OBVIOUS
  <2>1. EmitState(got) /\ polling \in {"initial", "got"}
    BY DEF PollNext, Tick, ProbeReturns, InitialCheck, Poll, Agrees, Contradicts, PollerReturns,
           ConditionFlips, PollerCancelled
  <2>2. got \in BOOLEAN /\ seen \in BOOLEAN
    BY DEF PollInv, PollTypeOK
  <2>3. ~cancelled /\ ~got
    BY <2>1, <2>2 DEF EmitState
  <2> QED BY <2>1, <2>2, <2>3 DEF PollInv, AnswerIsSeen
<1> QED BY <1>1, <1>2, <1>3, PTL DEF PollSpec, StopIsNoOutage

----------------------------------------------------------------------------
(* The git watcher *)

\* A switch of the branch is still to be read.
HeadQueued == \E i \in 1 .. Len(gitQueue) : gitQueue[i] = "HEAD"

\* The debounce of a branch is over when no branch was reported recently; and a switch
\* that fell in no such debounce is reported, or has its event in the queue and will not
\* be dropped.
SwitchIsQueued ==
    /\ gitLast = "git.branch.changed" /\ recent => near
    /\ lone /\ branch # head => ~near /\ HeadQueued

GitInv == GitTypeOK /\ SwitchIsQueued

GitFiles == {"HEAD", "ref", "other"}

LEMMA GitQueueGrows ==
    ASSUME gitQueue \in Seq(GitFiles), NEW f \in GitFiles, GitWrites(f)
    PROVE  /\ gitQueue' \in Seq(GitFiles)
           /\ f = "HEAD" => HeadQueued'
           /\ HeadQueued => HeadQueued'
<1>1. gitQueue' = Append(gitQueue, f)
  BY DEF GitWrites
<1>2. /\ gitQueue' \in Seq(GitFiles) /\ Len(gitQueue) \in Nat
      /\ Len(gitQueue') = Len(gitQueue) + 1 /\ gitQueue'[Len(gitQueue) + 1] = f
      /\ \A i \in 1 .. Len(gitQueue) : gitQueue'[i] = gitQueue[i]
  BY <1>1
<1>3. Len(gitQueue) + 1 \in 1 .. Len(gitQueue')
  BY <1>2
<1>4. \A i \in 1 .. Len(gitQueue) : i \in 1 .. Len(gitQueue')
  BY <1>2
<1> QED BY <1>2, <1>3, <1>4 DEF HeadQueued

LEMMA GitQueueRead ==
    ASSUME gitQueue \in Seq(GitFiles), gitQueue # <<>>, gitQueue' = Tail(gitQueue)
    PROVE  /\ gitQueue' \in Seq(GitFiles)
           /\ Head(gitQueue) \in GitFiles
           /\ HeadQueued /\ Head(gitQueue) # "HEAD" => HeadQueued'
<1>1. /\ gitQueue' \in Seq(GitFiles) /\ Head(gitQueue) \in GitFiles
      /\ Len(gitQueue') = Len(gitQueue) - 1 /\ Len(gitQueue) \in Nat
      /\ \A i \in 1 .. Len(gitQueue') : gitQueue'[i] = gitQueue[i + 1]
      /\ Head(gitQueue) = gitQueue[1]
  OBVIOUS
<1>2. ASSUME HeadQueued, Head(gitQueue) # "HEAD"
      PROVE  HeadQueued'
  <2>1. PICK i \in 1 .. Len(gitQueue) : gitQueue[i] = "HEAD"
    BY <1>2 DEF HeadQueued
  <2>2. i - 1 \in 1 .. Len(gitQueue') /\ gitQueue'[i - 1] = gitQueue[(i - 1) + 1]
    BY <1>1, <1>2, <2>1
  <2>3. gitQueue'[i - 1] = "HEAD"
    BY <2>1, <2>2
  <2> QED BY <2>2, <2>3 DEF HeadQueued
<1> QED BY <1>1, <1>2

LEMMA GitInitInv == GitInit => GitInv
<1> SUFFICES ASSUME GitInit PROVE GitTypeOK /\ SwitchIsQueued
  BY DEF GitInv
<1>1. GitTypeOK
  <2>1. <<>> \in Seq(GitFiles)
    OBVIOUS
  <2> QED BY <2>1, Zenon DEF GitInit, GitTypeOK, GitFiles
<1>2. SwitchIsQueued
  BY DEF GitInit, SwitchIsQueued
<1> QED BY <1>1, <1>2

LEMMA GitStep ==
    ASSUME GitInv, [GitNext]_gitVars
    PROVE  GitInv'
<1>1. GitTypeOK /\ SwitchIsQueued /\ gitQueue \in Seq(GitFiles)
  BY DEF GitInv, GitTypeOK, GitFiles
<1>2. ASSUME NEW b \in Branches, SwitchBranch(b)
      PROVE  GitInv'
  <2>1. gitQueue' \in Seq(GitFiles) /\ HeadQueued'
    BY <1>1, <1>2, GitQueueGrows DEF SwitchBranch, GitFiles
  <2>2. GitTypeOK'
    BY <1>1, <1>2, <2>1 DEF SwitchBranch, GitTypeOK, GitFiles
  <2>3. SwitchIsQueued'
    BY <1>1, <1>2, <2>1, Zenon DEF SwitchBranch, SwitchIsQueued
  <2> QED BY <2>2, <2>3 DEF GitInv
<1>3. ASSUME NEW f \in {"ref", "other"}, OtherWrite(f)
      PROVE  GitInv'
  <2>1. gitQueue' \in Seq(GitFiles) /\ (HeadQueued => HeadQueued')
    BY <1>1, <1>3, GitQueueGrows DEF OtherWrite, GitFiles
  <2>2. GitTypeOK'
    BY <1>1, <1>3, <2>1 DEF OtherWrite, GitTypeOK, GitFiles
  <2>3. SwitchIsQueued'
    BY <1>1, <1>3, <2>1 DEF OtherWrite, SwitchIsQueued
  <2> QED BY <2>2, <2>3 DEF GitInv
<1>4. CASE GitTimePasses
  <2>1. GitTypeOK'
    BY <1>1, <1>4 DEF GitTimePasses, GitTypeOK
  <2>2. HeadQueued' = HeadQueued
    BY <1>4 DEF GitTimePasses, HeadQueued
  <2>3. SwitchIsQueued'
    BY <1>1, <1>4, <2>2 DEF GitTimePasses, SwitchIsQueued, GitTypeOK
  <2> QED BY <2>1, <2>3 DEF GitInv
<1>5. CASE GitEvent
  <2>1. /\ gitQueue' \in Seq(GitFiles) /\ Head(gitQueue) \in GitFiles /\ head' = head
        /\ HeadQueued /\ Head(gitQueue) # "HEAD" => HeadQueued'
    BY <1>1, <1>5, GitQueueRead DEF GitEvent
  <2>2. CASE Head(gitQueue) = "HEAD" /\ GitEmit("git.branch.changed")
    <3>1. /\ gitLast' = "git.branch.changed" /\ recent' = TRUE /\ branch' = head
          /\ near' = TRUE /\ lone' = lone
      BY <2>2 DEF GitEmit
    <3>2. GitTypeOK'
      BY <1>1, <2>1, <3>1 DEF GitTypeOK, GitFiles
    <3>3. SwitchIsQueued'
      BY <2>1, <3>1 DEF SwitchIsQueued
    <3> QED BY <3>2, <3>3 DEF GitInv
  <2>3. CASE Head(gitQueue) = "ref" /\ GitEmit("git.ref.changed")
    <3>1. /\ gitLast' = "git.ref.changed" /\ recent' = TRUE /\ branch' = branch
          /\ near' = near /\ lone' = lone
      BY <2>3 DEF GitEmit
    <3>2. GitTypeOK'
      BY <1>1, <2>1, <3>1 DEF GitTypeOK, GitFiles
    <3>3. SwitchIsQueued'
      BY <1>1, <2>1, <2>3, <3>1 DEF SwitchIsQueued
    <3> QED BY <3>2, <3>3 DEF GitInv
  <2>4. CASE /\ Head(gitQueue) = "other" \/ Drops(EventType(Head(gitQueue)))
             /\ UNCHANGED <<gitLast, recent, branch, near, lone>>
    <3>1. Head(gitQueue) = "HEAD" => near
      BY <1>1, <2>4 DEF Drops, EventType, SwitchIsQueued
    <3>2. GitTypeOK'
      BY <1>1, <2>1, <2>4 DEF GitTypeOK, GitFiles
    <3>3. SwitchIsQueued'
      BY <1>1, <2>1, <2>4, <3>1 DEF SwitchIsQueued
    <3> QED BY <3>2, <3>3 DEF GitInv
  <2> QED BY <1>5, <2>1, <2>2, <2>3, <2>4 DEF GitEvent, EventType, GitFiles
<1>6. CASE UNCHANGED gitVars
  BY <1>1, <1>6 DEF gitVars, GitInv, GitTypeOK, SwitchIsQueued, HeadQueued
<1> QED BY <1>2, <1>3, <1>4, <1>5, <1>6 DEF GitNext

\* A switch of the branch that falls in no debounce of an earlier one is reported: the
\* debounce of RunGitWatch is one for each type of event.
THEOREM LoneSwitch == GitSpec => []LoneSwitchReported
<1>1. GitInit => GitInv
  BY GitInitInv
<1>2. GitInv /\ [GitNext]_gitVars => GitInv'
  BY GitStep
<1>3. GitInv => LoneSwitchReported
  BY DEF GitInv, SwitchIsQueued, HeadQueued, LoneSwitchReported
<1> QED BY <1>1, <1>2, <1>3, PTL DEF GitSpec

----------------------------------------------------------------------------
(* The file watcher *)

\* The end of the directory is still to be read.
GoneQueued == \E i \in 1 .. Len(queue) : queue[i] = "gone"

\* Nothing is queued after it: the kernel watch ends with the directory.
GoneIsLast == \A i \in 1 .. Len(queue) : queue[i] = "gone" => i = Len(queue)

\* A kernel watch that is gone is one the watcher has yet to arm, or to hear of.
DirectoryIsWatched ==
    /\ file => parent
    /\ armed => parent /\ ~GoneQueued
    /\ watching \in {"arm", "rearm"} => ~armed /\ queue = <<>>
    /\ watching \notin {"arm", "rearm"} => armed \/ GoneQueued
    /\ GoneIsLast

\* With a kernel watch and nothing queued or debounced, the watcher has seen the file as
\* it is; outside its loop it believes that there is none.
FileIsSeen ==
    /\ unseen => file
    /\ watching # "loop" => ~exists
    /\ watching = "loop" /\ armed /\ queue = <<>> /\ timer = "off" => exists = file /\ ~unseen

FileInv == FileTypeOK /\ DirectoryIsWatched /\ FileIsSeen

QueuedEvents == {"file", "gone"}

\* The events of a file system change, under an armed watch and without one.
LEMMA FileQueueGrows ==
    ASSUME queue \in Seq(QueuedEvents), armed => ~GoneQueued, GoneIsLast
    PROVE  /\ Queued(<<"file">>) =>
                /\ queue' \in Seq(QueuedEvents) /\ GoneIsLast'
                /\ (armed /\ ~GoneQueued' /\ queue' # <<>>) \/ (~armed /\ queue' = queue)
           /\ Queued(<<"gone">>) \/ Queued(<<"file", "gone">>) =>
                /\ queue' \in Seq(QueuedEvents) /\ GoneIsLast'
                /\ (armed /\ GoneQueued') \/ (~armed /\ queue' = queue)
<1>1. CASE ~armed
  BY <1>1 DEF Queued, GoneIsLast
<1>2. CASE armed
  <2>0. "file" \in QueuedEvents /\ "gone" \in QueuedEvents /\ "file" # "gone"
    BY DEF QueuedEvents
  <2>1. \A i \in 1 .. Len(queue) : queue[i] # "gone"
    BY <1>2 DEF GoneQueued
  <2>2. /\ queue \o <<"file">> = Append(queue, "file")
        /\ queue \o <<"gone">> = Append(queue, "gone")
        /\ queue \o <<"file", "gone">> = Append(Append(queue, "file"), "gone")
    BY <2>0
  <2>3. ASSUME Queued(<<"file">>)
        PROVE  queue' \in Seq(QueuedEvents) /\ GoneIsLast' /\ ~GoneQueued' /\ queue' # <<>>
    <3>1. queue' = Append(queue, "file")
      BY <1>2, <2>2, <2>3 DEF Queued
    <3>2. /\ queue' \in Seq(QueuedEvents) /\ queue' # <<>> /\ Len(queue) \in Nat
          /\ Len(queue') = Len(queue) + 1 /\ queue'[Len(queue) + 1] = "file"
          /\ \A i \in 1 .. Len(queue) : queue'[i] = queue[i]
      BY <2>0, <3>1, AppendParts
    <3>3. \A i \in 1 .. Len(queue') : queue'[i] # "gone"
      BY <2>0, <2>1, <3>2
    <3> QED BY <3>2, <3>3 DEF GoneIsLast, GoneQueued
  <2>4. ASSUME NEW q \in Seq(QueuedEvents), \A i \in 1 .. Len(q) : q[i] # "gone",
               queue' = Append(q, "gone")
        PROVE  queue' \in Seq(QueuedEvents) /\ GoneIsLast' /\ GoneQueued'
    <3>1. /\ queue' \in Seq(QueuedEvents) /\ Len(q) \in Nat
          /\ Len(queue') = Len(q) + 1 /\ queue'[Len(q) + 1] = "gone"
          /\ \A i \in 1 .. Len(q) : queue'[i] = q[i]
      BY <2>0, <2>4, AppendParts
    <3>2. \A i \in 1 .. Len(queue') : queue'[i] = "gone" => i = Len(queue')
      BY <2>4, <3>1
    <3>3. Len(q) + 1 \in 1 .. Len(queue')
      BY <3>1
    <3> QED BY <3>1, <3>2, <3>3 DEF GoneIsLast, GoneQueued
  <2>5. ASSUME Queued(<<"gone">>)
        PROVE  queue' \in Seq(QueuedEvents) /\ GoneIsLast' /\ GoneQueued'
    <3>1. queue' = Append(queue, "gone")
      BY <1>2, <2>2, <2>5 DEF Queued
    <3> QED BY <2>1, <2>4, <3>1
  <2>6. ASSUME Queued(<<"file", "gone">>)
        PROVE  queue' \in Seq(QueuedEvents) /\ GoneIsLast' /\ GoneQueued'
    <3> DEFINE q == Append(queue, "file")
    <3>1. queue' = Append(q, "gone")
      BY <1>2, <2>2, <2>6 DEF Queued
    <3>2. /\ q \in Seq(QueuedEvents) /\ Len(queue) \in Nat
          /\ Len(q) = Len(queue) + 1 /\ q[Len(queue) + 1] = "file"
          /\ \A i \in 1 .. Len(queue) : q[i] = queue[i]
      BY <2>0, AppendParts
    <3> HIDE DEF q
    <3>3. \A i \in 1 .. Len(q) : q[i] # "gone"
      BY <2>0, <2>1, <3>2
    <3> QED BY <2>4, <3>1, <3>2, <3>3
  <2> QED BY <1>2, <2>3, <2>5, <2>6
<1> QED BY <1>1, <1>2

LEMMA FileQueueRead ==
    ASSUME queue \in Seq(QueuedEvents), GoneIsLast, queue # <<>>, queue' = Tail(queue)
    PROVE  /\ queue' \in Seq(QueuedEvents) /\ GoneIsLast'
           /\ Head(queue) = "file" => (GoneQueued' <=> GoneQueued)
           /\ Head(queue) = "gone" => GoneQueued /\ queue' = <<>>
<1>1. /\ queue' \in Seq(QueuedEvents) /\ Len(queue) \in Nat \ {0}
      /\ Len(queue') = Len(queue) - 1
      /\ \A i \in 1 .. Len(queue') : queue'[i] = queue[i + 1]
      /\ Head(queue) = queue[1]
  OBVIOUS
<1>2. GoneIsLast'
  <2> SUFFICES ASSUME NEW i \in 1 .. Len(queue'), queue'[i] = "gone"
               PROVE  i = Len(queue')
    BY DEF GoneIsLast
  <2>1. i + 1 \in 1 .. Len(queue) /\ queue[i + 1] = "gone"
    BY <1>1
  <2>2. i + 1 = Len(queue)
    BY <2>1 DEF GoneIsLast
  <2>3. i \in Int /\ Len(queue) \in Int /\ Len(queue') = Len(queue) - 1
    BY <1>1
  <2> QED BY <2>2, <2>3
<1>3. ASSUME Head(queue) = "file", GoneQueued'
      PROVE  GoneQueued
  <2>1. PICK i \in 1 .. Len(queue') : queue'[i] = "gone"
    BY <1>3 DEF GoneQueued
  <2>2. i + 1 \in 1 .. Len(queue) /\ queue[i + 1] = "gone"
    BY <1>1, <2>1
  <2> QED BY <2>2 DEF GoneQueued
<1>4. ASSUME Head(queue) = "file", GoneQueued
      PROVE  GoneQueued'
  <2>1. PICK i \in 1 .. Len(queue) : queue[i] = "gone"
    BY <1>4 DEF GoneQueued
  <2>2. i - 1 \in 1 .. Len(queue') /\ queue'[i - 1] = queue[(i - 1) + 1]
    BY <1>1, <1>4, <2>1
  <2>3. queue'[i - 1] = "gone"
    BY <2>1, <2>2
  <2> QED BY <2>2, <2>3 DEF GoneQueued
<1>5. ASSUME Head(queue) = "gone"
      PROVE  GoneQueued /\ queue' = <<>>
  <2>1. 1 \in 1 .. Len(queue) /\ queue[1] = "gone"
    BY <1>1, <1>5
  <2>2. Len(queue) = 1
    BY <2>1 DEF GoneIsLast
  <2>3. queue' = <<>>
    BY <1>1, <2>2
  <2> QED BY <2>1, <2>3 DEF GoneQueued
<1> QED BY <1>1, <1>2, <1>3, <1>4, <1>5

LEMMA FileInitInv == FileInit => FileInv
<1> SUFFICES ASSUME FileInit PROVE FileTypeOK /\ DirectoryIsWatched /\ FileIsSeen
  BY DEF FileInv
<1>1. <<>> \in Seq(QueuedEvents) /\ Len(<<>>) = 0
  OBVIOUS
<1>2. FileTypeOK
  BY <1>1 DEF FileInit, FileTypeOK, QueuedEvents
<1>3. ~GoneQueued /\ GoneIsLast
  BY <1>1 DEF FileInit, GoneQueued, GoneIsLast
<1>4. DirectoryIsWatched
  BY <1>3 DEF FileInit, DirectoryIsWatched
<1>5. FileIsSeen
  BY DEF FileInit, FileIsSeen
<1> QED BY <1>2, <1>4, <1>5

\* What the file system does.
LEMMA FileSystemKeeps ==
    ASSUME FileInv, FileWritten \/ FileRemoved \/ ParentGone \/ ParentCreated
    PROVE  FileInv'
<1>1. /\ FileTypeOK /\ DirectoryIsWatched /\ FileIsSeen /\ queue \in Seq(QueuedEvents)
      /\ (armed => ~GoneQueued) /\ GoneIsLast
  BY DEF FileInv, FileTypeOK, DirectoryIsWatched, QueuedEvents
<1>2. watching' = watching /\ exists' = exists /\ timer' = timer /\ emitted' = emitted
  BY DEF FileWritten, FileRemoved, ParentGone, ParentCreated, KeepWatcher
<1>3. CASE FileWritten \/ FileRemoved
  <2>1. parent /\ parent' = parent /\ armed' = armed /\ Queued(<<"file">>)
    BY <1>1, <1>3 DEF FileWritten, FileRemoved, DirectoryIsWatched
  <2>2. /\ queue' \in Seq(QueuedEvents) /\ GoneIsLast'
        /\ (armed /\ ~GoneQueued' /\ queue' # <<>>) \/ (~armed /\ queue' = queue)
    BY <1>1, <2>1, FileQueueGrows
  <2>3. file' \in BOOLEAN /\ unseen' \in BOOLEAN /\ (unseen' => file')
    BY <1>3 DEF FileWritten, FileRemoved
  <2>4. queue' = queue => GoneQueued' = GoneQueued
    BY DEF GoneQueued
  <2>5. FileTypeOK'
    BY <1>1, <1>2, <2>1, <2>2, <2>3 DEF FileTypeOK, QueuedEvents
  <2>6. DirectoryIsWatched'
    BY <1>1, <1>2, <2>1, <2>2, <2>4 DEF DirectoryIsWatched
  <2>7. FileIsSeen'
    BY <1>1, <1>2, <2>1, <2>2, <2>3 DEF FileIsSeen
  <2> QED BY <2>5, <2>6, <2>7 DEF FileInv
<1>4. CASE ParentGone
  <2>1. /\ parent' = FALSE /\ file' = FALSE /\ armed' = FALSE /\ unseen' = FALSE
        /\ Queued(<<"gone">>) \/ Queued(<<"file", "gone">>)
    BY <1>4 DEF ParentGone
  <2>2. /\ queue' \in Seq(QueuedEvents) /\ GoneIsLast'
        /\ (armed /\ GoneQueued') \/ (~armed /\ queue' = queue)
    BY <1>1, <2>1, FileQueueGrows
  <2>4. queue' = queue => GoneQueued' = GoneQueued
    BY DEF GoneQueued
  <2>5. FileTypeOK'
    BY <1>1, <1>2, <2>1, <2>2 DEF FileTypeOK, QueuedEvents
  <2>6. DirectoryIsWatched'
    BY <1>1, <1>2, <2>1, <2>2, <2>4 DEF DirectoryIsWatched
  <2>7. FileIsSeen'
    BY <1>1, <1>2, <2>1 DEF FileIsSeen
  <2> QED BY <2>5, <2>6, <2>7 DEF FileInv
<1>5. CASE ParentCreated
  <2>1. ~parent /\ parent' = TRUE /\ UNCHANGED <<file, armed, queue, unseen>>
    BY <1>5 DEF ParentCreated
  <2>2. GoneQueued' = GoneQueued /\ (GoneIsLast')
    BY <1>1, <2>1 DEF GoneQueued, GoneIsLast
  <2>3. FileTypeOK'
    BY <1>1, <1>2, <2>1 DEF FileTypeOK
  <2>4. DirectoryIsWatched'
    BY <1>1, <1>2, <2>1, <2>2 DEF DirectoryIsWatched
  <2>5. FileIsSeen'
    BY <1>1, <1>2, <2>1 DEF FileIsSeen
  <2> QED BY <2>3, <2>4, <2>5 DEF FileInv
<1> QED BY <1>3, <1>4, <1>5

\* What is said of a file, and what that makes of its contents.
LEMMA EmitFileType ==
    ASSUME FileTypeOK,
           NEW type \in {"file.created", "file.changed", "file.removed"}, EmitFile(type)
    PROVE  /\ emitted' \in [type: {"none", "file.created", "file.changed", "file.removed"},
                            file: BOOLEAN]
           /\ unseen' \in BOOLEAN
           /\ unseen' => unseen
           /\ type # "file.removed" => ~unseen'
  BY DEF EmitFile, FileTypeOK

\* Steps that arm the watch or look for the file: nothing is queued or read.
LEMMA LookKeeps ==
    ASSUME FileInv, Arm \/ Rearm \/ InitialStat \/ Restat \/ Debounced
    PROVE  FileInv'
<1>1. /\ FileTypeOK /\ DirectoryIsWatched /\ FileIsSeen /\ queue \in Seq(QueuedEvents)
  BY DEF FileInv, FileTypeOK, QueuedEvents
<1>2. parent' = parent /\ file' = file /\ queue' = queue
  BY DEF Arm, Rearm, InitialStat, Restat, Debounced
<1>3. GoneQueued' = GoneQueued /\ GoneIsLast' = GoneIsLast
  BY <1>2 DEF GoneQueued, GoneIsLast
<1>4. CASE Arm \/ Rearm
  <2>1. /\ parent /\ armed' = TRUE /\ watching \in {"arm", "rearm"}
        /\ watching' \in {"stat", "restat"}
        /\ exists' = exists /\ timer' = timer /\ emitted' = emitted /\ unseen' = unseen
    BY <1>4 DEF Arm, Rearm, KeepReport
  <2>2. FileTypeOK'
    BY <1>1, <1>2, <2>1 DEF FileTypeOK
  <2>3. ~GoneQueued
    <3>1. queue = <<>> /\ Len(<<>>) = 0
      BY <1>1, <2>1 DEF DirectoryIsWatched
    <3> QED BY <3>1 DEF GoneQueued
  <2>4. DirectoryIsWatched'
    BY <1>1, <1>2, <1>3, <2>1, <2>3 DEF DirectoryIsWatched
  <2>5. FileIsSeen'
    BY <1>1, <1>2, <2>1 DEF FileIsSeen
  <2> QED BY <2>2, <2>4, <2>5 DEF FileInv
<1>5. CASE InitialStat \/ Restat \/ Debounced
  <2>1. /\ watching \notin {"arm", "rearm"} /\ watching' = "loop" /\ armed' = armed
    BY <1>5 DEF InitialStat, Restat, Debounced
  <2>2. ~exists \/ Debounced
    BY <1>1, <1>5 DEF InitialStat, Restat, FileIsSeen
  <2>3. /\ exists' = file
        /\ timer' \in {"off", "running", "fired"}
    BY <1>1, <1>5, <2>2 DEF InitialStat, Restat, Debounced, FileTypeOK
  <2>4. /\ emitted' \in [type: {"none", "file.created", "file.changed", "file.removed"},
                         file: BOOLEAN]
        /\ unseen' \in BOOLEAN /\ ~unseen'
    <3>1. CASE file
      <4>1. EmitFile("file.created") \/ EmitFile("file.changed")
        BY <1>5, <3>1 DEF InitialStat, Restat, Debounced
      <4> QED BY <1>1, <4>1, EmitFileType
    <3>2. CASE ~file
      <4>1. ~unseen
        BY <1>1, <3>2 DEF FileIsSeen
      <4>2. EmitFile("file.removed") \/ KeepReport
        BY <1>5, <3>2 DEF InitialStat, Restat, Debounced
      <4>3. CASE EmitFile("file.removed")
        BY <1>1, <4>1, <4>3, EmitFileType
      <4>4. CASE KeepReport
        BY <1>1, <4>1, <4>4 DEF KeepReport, FileTypeOK
      <4> QED BY <4>2, <4>3, <4>4
    <3> QED BY <3>1, <3>2
  <2>5. FileTypeOK'
    BY <1>1, <1>2, <2>1, <2>3, <2>4 DEF FileTypeOK
  <2>6. DirectoryIsWatched'
    BY <1>1, <1>2, <1>3, <2>1 DEF DirectoryIsWatched
  <2>7. FileIsSeen'
    BY <1>2, <2>1, <2>3, <2>4 DEF FileIsSeen
  <2> QED BY <2>5, <2>6, <2>7 DEF FileInv
<1> QED BY <1>4, <1>5

\* Steps that read the queue, and the timer.
LEMMA ReadKeeps ==
    ASSUME FileInv, FileEvent \/ ParentEvent \/ TimerFires
    PROVE  FileInv'
<1>1. /\ FileTypeOK /\ DirectoryIsWatched /\ FileIsSeen /\ queue \in Seq(QueuedEvents)
      /\ GoneIsLast
  BY DEF FileInv, FileTypeOK, DirectoryIsWatched, QueuedEvents
<1>2. parent' = parent /\ file' = file /\ armed' = armed
  BY DEF FileEvent, ParentEvent, TimerFires
<1>3. CASE FileEvent
  <2>1. /\ watching = "loop" /\ queue # <<>> /\ Head(queue) = "file" /\ queue' = Tail(queue)
        /\ timer' = "running" /\ watching' = watching /\ exists' = exists
        /\ emitted' = emitted /\ unseen' = unseen
    BY <1>3 DEF FileEvent, KeepReport
  <2>2. queue' \in Seq(QueuedEvents) /\ GoneIsLast' /\ (GoneQueued' <=> GoneQueued)
    BY <1>1, <2>1, FileQueueRead
  <2>3. FileTypeOK'
    BY <1>1, <1>2, <2>1, <2>2 DEF FileTypeOK, QueuedEvents
  <2>4. DirectoryIsWatched'
    BY <1>1, <1>2, <2>1, <2>2 DEF DirectoryIsWatched
  <2>5. FileIsSeen'
    BY <1>1, <1>2, <2>1 DEF FileIsSeen
  <2> QED BY <2>3, <2>4, <2>5 DEF FileInv
<1>4. CASE ParentEvent
  <2>1. /\ watching = "loop" /\ queue # <<>> /\ Head(queue) = "gone" /\ queue' = Tail(queue)
        /\ watching' = "rearm" /\ exists' = FALSE /\ timer' = timer
        /\ EmitFile("file.removed") \/ KeepReport
    BY <1>4 DEF ParentEvent
  <2>2. /\ emitted' \in [type: {"none", "file.created", "file.changed", "file.removed"},
                         file: BOOLEAN]
        /\ unseen' \in BOOLEAN /\ (unseen' => unseen)
    <3>1. CASE EmitFile("file.removed")
      BY <1>1, <3>1, EmitFileType
    <3>2. CASE KeepReport
      BY <1>1, <3>2 DEF KeepReport, FileTypeOK
    <3> QED BY <2>1, <3>1, <3>2
  <2>3. queue' \in Seq(QueuedEvents) /\ GoneIsLast' /\ GoneQueued /\ queue' = <<>>
    BY <1>1, <2>1, FileQueueRead
  <2>4. ~armed
    BY <1>1, <2>3 DEF DirectoryIsWatched
  <2>5. FileTypeOK'
    BY <1>1, <1>2, <2>1, <2>2, <2>3 DEF FileTypeOK, QueuedEvents
  <2>6. DirectoryIsWatched'
    BY <1>1, <1>2, <2>1, <2>3, <2>4 DEF DirectoryIsWatched
  <2>7. FileIsSeen'
    BY <1>1, <1>2, <2>1, <2>2 DEF FileIsSeen
  <2> QED BY <2>5, <2>6, <2>7 DEF FileInv
<1>5. CASE TimerFires
  <2>1. /\ timer = "running" /\ timer' = "fired" /\ queue' = queue /\ watching' = watching
        /\ exists' = exists /\ emitted' = emitted /\ unseen' = unseen
    BY <1>5 DEF TimerFires, KeepReport
  <2>2. GoneQueued' = GoneQueued /\ GoneIsLast' = GoneIsLast
    BY <2>1 DEF GoneQueued, GoneIsLast
  <2>3. FileTypeOK'
    BY <1>1, <1>2, <2>1 DEF FileTypeOK
  <2>4. DirectoryIsWatched'
    BY <1>1, <1>2, <2>1, <2>2 DEF DirectoryIsWatched
  <2>5. FileIsSeen'
    BY <1>1, <1>2, <2>1 DEF FileIsSeen
  <2> QED BY <2>3, <2>4, <2>5 DEF FileInv
<1> QED BY <1>3, <1>4, <1>5

LEMMA FileStep ==
    ASSUME FileInv, [FileNext]_fileVars
    PROVE  FileInv'
<1>1. CASE FileNext
  BY <1>1, FileSystemKeeps, LookKeeps, ReadKeeps DEF FileNext
<1>2. CASE UNCHANGED fileVars
  <2>1. GoneQueued' = GoneQueued /\ GoneIsLast' = GoneIsLast
    BY <1>2 DEF fileVars, GoneQueued, GoneIsLast
  <2> QED BY <1>2, <2>1 DEF fileVars, FileInv, FileTypeOK, DirectoryIsWatched, FileIsSeen
<1> QED BY <1>1, <1>2

LEMMA FileInvariant == FileSpec => []FileInv
<1>1. FileInit => FileInv
  BY FileInitInv
<1>2. FileInv /\ [FileNext]_fileVars => FileInv'
  BY FileStep
<1> QED BY <1>1, <1>2, PTL DEF FileSpec

\* A watcher that has nothing to do has a kernel watch if there is a directory.
LEMMA SettledIsArmed ==
    ASSUME FileInv, FileSettled
    PROVE  (parent => armed) /\ exists = file /\ ~unseen
<1>1. ~GoneQueued
  <2>1. queue = <<>> /\ Len(<<>>) = 0
    BY DEF FileSettled
  <2> QED BY <2>1 DEF GoneQueued
<1>2. armed
  BY <1>1 DEF FileInv, DirectoryIsWatched, FileSettled
<1> QED BY <1>2 DEF FileInv, FileIsSeen, FileSettled

\* A file watcher that has nothing to do is right about the file and listens, however long
\* the queue is: RunFileWatch looks for the file after it arms the watch, never before.
THEOREM FileSettles == FileSpec => []FileConverges
<1>1. FileInv => FileConverges
  BY SettledIsArmed DEF FileConverges
<1> QED BY <1>1, FileInvariant, PTL

\* A file watcher that has nothing to do has reported the file's last contents, over any
\* number of re-armings (rearmParent) and restarts of the debounce.
THEOREM WritesReported == FileSpec => []ChangesReported
<1>1. FileInv => ChangesReported
  BY SettledIsArmed DEF ChangesReported
<1> QED BY <1>1, FileInvariant, PTL

----------------------------------------------------------------------------
(* The docker watcher *)

\* What MapDockerEvent makes of a line to ignore.
Unsaid == ""

\* What the lines q will make of l, the event that was emitted last: the last of them that
\* says anything says t, or there is none and l is one of R already.
Tells(q, l, t, R) ==
    \/ \E i \in 1 .. Len(q) :
          /\ MapDockerEvent(q[i]) = t
          /\ \A j \in i + 1 .. Len(q) : MapDockerEvent(q[j]) = Unsaid
    \/ /\ l \in R
       /\ \A j \in 1 .. Len(q) : MapDockerEvent(q[j]) = Unsaid

\* The event of the container as it is, and the events that are right about it.
Truth == MapDockerInspect(status, health)
Right == {Truth} \cup (IF status = "running" THEN {} ELSE {Unsaid})

\* Lines are there for a watcher that scans; and without a doubt they tell what is so.
DockerInv ==
    /\ DockerTypeOK
    /\ streaming # "scan" => lines = <<>> /\ ~attached
    /\ doubt = "none" => Tells(lines, lastType, Truth, Right)

LEMMA MapDockerTypes ==
    /\ \A act \in Actions : MapDockerEvent(act) \in DockerTypes \cup {Unsaid}
    /\ MapDockerEvent("start") = "docker.started" /\ MapDockerEvent("die") = "docker.stopped"
    /\ MapDockerEvent("stop") = "docker.stopped"
    /\ MapDockerEvent("healthy") = "docker.healthy"
    /\ MapDockerEvent("unhealthy") = "docker.unhealthy"
    /\ MapDockerEvent("create") = Unsaid /\ MapDockerEvent("destroy") = Unsaid
  BY DEF MapDockerEvent, Actions, DockerTypes, Unsaid

LEMMA MapInspectTypes ==
    /\ \A s, h : MapDockerInspect(s, h) \in DockerTypes
    /\ MapDockerInspect("running", "none") = "docker.started"
    /\ MapDockerInspect("running", "healthy") = "docker.healthy"
    /\ MapDockerInspect("running", "unhealthy") = "docker.unhealthy"
    /\ \A s, h : s # "running" => MapDockerInspect(s, h) = "docker.stopped"
    /\ Unsaid \notin DockerTypes
  BY DEF MapDockerInspect, DockerTypes, Unsaid

\* A line that tells t is the last word.
LEMMA LastWord ==
    ASSUME NEW q \in Seq(Actions), NEW act \in Actions, NEW l, NEW t, NEW R,
           MapDockerEvent(act) = t
    PROVE  Tells(Append(q, act), l, t, R)
<1> DEFINE r == Append(q, act)
<1>1. Len(q) \in Nat /\ Len(r) = Len(q) + 1 /\ r[Len(q) + 1] = act
  OBVIOUS
<1> HIDE DEF r
<1>2. /\ Len(q) + 1 \in 1 .. Len(r)
      /\ \A j \in (Len(q) + 1) + 1 .. Len(r) : FALSE
  BY <1>1
<1>3. Tells(r, l, t, R)
  BY <1>1, <1>2 DEF Tells
<1> QED BY <1>3 DEF r

\* A line that tells nothing changes nothing.
LEMMA SilentWord ==
    ASSUME NEW q \in Seq(Actions), NEW act \in Actions, NEW l, NEW t, NEW R,
           MapDockerEvent(act) = Unsaid, Tells(q, l, t, R)
    PROVE  Tells(Append(q, act), l, t, R)
<1> DEFINE r == Append(q, act)
<1>1. /\ Len(q) \in Nat /\ Len(r) = Len(q) + 1 /\ r[Len(q) + 1] = act
      /\ \A i \in 1 .. Len(q) : r[i] = q[i]
  OBVIOUS
<1> HIDE DEF r
<1>2. ASSUME NEW k \in Nat \ {0}, \A j \in k .. Len(q) : MapDockerEvent(q[j]) = Unsaid
      PROVE  \A j \in k .. Len(r) : MapDockerEvent(r[j]) = Unsaid
  <2> SUFFICES ASSUME NEW j \in k .. Len(r) PROVE MapDockerEvent(r[j]) = Unsaid
    OBVIOUS
  <2>1. CASE j = Len(q) + 1
    BY <1>1, <2>1
  <2>2. CASE j # Len(q) + 1
    <3>1. j \in k .. Len(q) /\ j \in 1 .. Len(q)
      BY <1>1, <2>2
    <3> QED BY <1>1, <1>2, <3>1
  <2> QED BY <2>1, <2>2
<1>3. ASSUME NEW i \in 1 .. Len(q), MapDockerEvent(q[i]) = t,
             \A j \in i + 1 .. Len(q) : MapDockerEvent(q[j]) = Unsaid
      PROVE  Tells(r, l, t, R)
  <2>1. i + 1 \in Nat \ {0} /\ i \in 1 .. Len(r) /\ r[i] = q[i]
    BY <1>1
  <2> QED BY <1>2, <1>3, <2>1 DEF Tells
<1>4. ASSUME l \in R, \A j \in 1 .. Len(q) : MapDockerEvent(q[j]) = Unsaid
      PROVE  Tells(r, l, t, R)
  <2>1. \A j \in 1 .. Len(r) : MapDockerEvent(r[j]) = Unsaid
    BY <1>2, <1>4
  <2> QED BY <1>4, <2>1 DEF Tells
<1>5. Tells(r, l, t, R)
  BY <1>3, <1>4 DEF Tells
<1> QED BY <1>5 DEF r

\* Reading a line makes of l what the lines tell.
LEMMA ReadWord ==
    ASSUME NEW q \in Seq(Actions), q # <<>>, NEW l, NEW R, NEW t \in R, Tells(q, l, t, R),
           t # Unsaid, NEW m,
           m = IF MapDockerEvent(Head(q)) = Unsaid THEN l ELSE MapDockerEvent(Head(q))
    PROVE  Tells(Tail(q), m, t, R)
<1> DEFINE r == Tail(q)
<1>1. /\ Len(q) \in Nat \ {0} /\ Len(r) = Len(q) - 1 /\ Head(q) = q[1]
      /\ \A j \in 1 .. Len(r) : r[j] = q[j + 1] /\ j + 1 \in 1 .. Len(q)
  OBVIOUS
<1> HIDE DEF r
<1>2. ASSUME NEW i \in 1 .. Len(q), MapDockerEvent(q[i]) = t,
             \A j \in i + 1 .. Len(q) : MapDockerEvent(q[j]) = Unsaid
      PROVE  Tells(r, m, t, R)
  <2>1. ASSUME NEW j \in i .. Len(r)
        PROVE  MapDockerEvent(r[j]) = Unsaid
    <3>1. j \in 1 .. Len(r) /\ j + 1 \in i + 1 .. Len(q)
      BY <1>1
    <3> QED BY <1>1, <1>2, <3>1
  <2>2. CASE i = 1
    <3>1. m = t
      BY <1>1, <1>2, <2>2
    <3> QED BY <2>1, <2>2, <3>1 DEF Tells
  <2>3. CASE i # 1
    <3>1. i - 1 \in 1 .. Len(r) /\ (i - 1) + 1 = i
      BY <1>1, <2>3
    <3>2. r[i - 1] = q[i]
      BY <1>1, <3>1
    <3> QED BY <1>2, <2>1, <3>1, <3>2 DEF Tells
  <2> QED BY <2>2, <2>3
<1>3. ASSUME l \in R, \A j \in 1 .. Len(q) : MapDockerEvent(q[j]) = Unsaid
      PROVE  Tells(r, m, t, R)
  <2>1. m = l
    BY <1>1, <1>3
  <2>2. \A j \in 1 .. Len(r) : MapDockerEvent(r[j]) = Unsaid
    BY <1>1, <1>3
  <2> QED BY <1>3, <2>1, <2>2 DEF Tells
<1>4. Tells(r, m, t, R)
  BY <1>2, <1>3 DEF Tells
<1> QED BY <1>4 DEF r

LEMMA DockerInitInv == DockerInit => DockerInv
<1> SUFFICES ASSUME DockerInit PROVE DockerInv
  OBVIOUS
<1>1. <<>> \in Seq(Actions) /\ Len(<<>>) = 0
  OBVIOUS
<1>2. DockerTypeOK
  BY <1>1, Zenon DEF DockerInit, DockerTypeOK
<1>3. doubt = "none" => lastType \in Right
  BY Zenon DEF DockerInit, Right, Unsaid
<1>4. lines = <<>>
  BY Zenon DEF DockerInit
<1>5. doubt = "none" => Tells(lines, lastType, Truth, Right)
  BY <1>1, <1>3, <1>4 DEF Tells
<1>6. ~attached
  BY Zenon DEF DockerInit
<1> QED BY <1>2, <1>4, <1>5, <1>6 DEF DockerInv

\* Lines are written to a stream that is attached, to a watcher that scans.
LEMMA WrittenLines ==
    ASSUME DockerInv, NEW acts \in Seq(Actions), Written(acts)
    PROVE  /\ lines' \in Seq(Actions)
           /\ attached => streaming = "scan" /\ lines' = lines \o acts
           /\ ~attached => lines' = lines
<1>1. lines \in Seq(Actions)
  BY Zenon DEF DockerInv, DockerTypeOK
<1>2. lines \o acts \in Seq(Actions)
  BY <1>1
<1>3. attached => streaming = "scan"
  BY DEF DockerInv
<1> QED BY <1>1, <1>2, <1>3 DEF Written

\* The container changes, and a line says so.
LEMMA ChangeKeeps ==
    ASSUME DockerInv, NEW s \in {"absent", "exited", "running"},
           NEW h \in {"none", "healthy", "unhealthy"},
           NEW acts \in Seq(Actions), Changes(s, h, acts),
           NEW q \in Seq(Actions), NEW act \in Actions, lines \o acts = Append(q, act),
           MapDockerEvent(act) = MapDockerInspect(s, h)
    PROVE  DockerInv'
<1>1. /\ status' = s /\ health' = h /\ Written(acts)
      /\ doubt' = IF attached THEN "none" ELSE IF doubt = "blind" THEN "blind" ELSE "gap"
      /\ attached' = attached /\ streaming' = streaming /\ stopped' = stopped
      /\ lastType' = lastType
  BY DEF Changes, KeepDocker
<1>2. /\ lines' \in Seq(Actions)
      /\ attached => streaming = "scan" /\ lines' = lines \o acts
      /\ ~attached => lines' = lines
  BY <1>1, WrittenLines
<1>3. DockerTypeOK'
  BY <1>1, <1>2 DEF DockerInv, DockerTypeOK
<1>4. ASSUME doubt' = "none"
      PROVE  Tells(lines', lastType', Truth', Right')
  <2>1. lines' = Append(q, act)
    BY <1>1, <1>2, <1>4
  <2>2. MapDockerEvent(act) = Truth'
    BY <1>1 DEF Truth
  <2>3. Tells(Append(q, act), lastType', Truth', Right')
    BY <2>2, LastWord
  <2> QED BY <2>1, <2>3
<1>5. streaming' # "scan" => lines' = <<>> /\ ~attached'
  BY <1>1, <1>2 DEF DockerInv
<1> QED BY <1>3, <1>4, <1>5 DEF DockerInv

LEMMA TruthKept ==
    ASSUME UNCHANGED <<status, health>>
    PROVE  Truth' = Truth /\ Right' = Right
  BY DEF Truth, Right

\* The typed parts, for the steps that only move one of them.
LEMMA DockerParts ==
    ASSUME DockerInv
    PROVE  /\ DockerTypeOK /\ lines \in Seq(Actions)
           /\ streaming # "scan" => lines = <<>> /\ ~attached
           /\ doubt = "none" => Tells(lines, lastType, Truth, Right)
           /\ Truth \in Right /\ Truth # Unsaid /\ Truth \in DockerTypes
<1>1. lines \in Seq(Actions)
  BY Zenon DEF DockerInv, DockerTypeOK
<1>2. Truth \in DockerTypes /\ Truth # Unsaid
  BY MapInspectTypes DEF Truth
<1>3. Truth \in Right
  BY DEF Right
<1> QED BY <1>1, <1>2, <1>3 DEF DockerInv

\* What docker does.
LEMMA ContainerKeeps ==
    ASSUME DockerInv,
           \/ ContainerStarts \/ ContainerDies \/ ContainerSignalled
           \/ ContainerCreated \/ ContainerDestroyed
           \/ \E h \in {"healthy", "unhealthy"} : HealthChanges(h)
    PROVE  DockerInv'
<1>1. /\ DockerTypeOK /\ lines \in Seq(Actions)
      /\ streaming # "scan" => lines = <<>> /\ ~attached
      /\ doubt = "none" => Tells(lines, lastType, Truth, Right)
  BY DockerParts
<1>2. /\ "start" \in Actions /\ "die" \in Actions /\ "stop" \in Actions /\ "kill" \in Actions
      /\ "create" \in Actions /\ "destroy" \in Actions
      /\ "healthy" \in Actions /\ "unhealthy" \in Actions
  BY DEF Actions
<1>3. ASSUME NEW act \in Actions
      PROVE  <<act>> \in Seq(Actions) /\ lines \o <<act>> = Append(lines, act)
  BY <1>1, <1>3
<1>4. CASE ContainerStarts
  <2>1. Changes("running", "none", <<"start">>)
    BY <1>4 DEF ContainerStarts
  <2>2. MapDockerEvent("start") = MapDockerInspect("running", "none")
    BY MapDockerTypes, MapInspectTypes
  <2>3. <<"start">> \in Seq(Actions) /\ lines \o <<"start">> = Append(lines, "start")
    BY <1>2, <1>3
  <2> QED BY <1>1, <1>2, <2>1, <2>2, <2>3, ChangeKeeps
<1>5. CASE ContainerDies
  <2>1. /\ MapDockerEvent("die") = MapDockerInspect("exited", "none")
        /\ MapDockerEvent("stop") = MapDockerInspect("exited", "none")
    BY MapDockerTypes, MapInspectTypes
  <2>2. CASE Changes("exited", "none", <<"die">>)
    <3>1. <<"die">> \in Seq(Actions) /\ lines \o <<"die">> = Append(lines, "die")
      BY <1>2, <1>3
    <3> QED BY <1>1, <1>2, <2>1, <2>2, <3>1, ChangeKeeps
  <2>3. CASE Changes("exited", "none", <<"die", "stop">>)
    <3>1. /\ <<"die", "stop">> \in Seq(Actions) /\ Append(lines, "die") \in Seq(Actions)
          /\ lines \o <<"die", "stop">> = Append(Append(lines, "die"), "stop")
      BY <1>1, <1>2
    <3> QED BY <1>2, <2>1, <2>3, <3>1, ChangeKeeps
  <2> QED BY <1>5, <2>2, <2>3 DEF ContainerDies
<1>6. ASSUME NEW h \in {"healthy", "unhealthy"}, HealthChanges(h)
      PROVE  DockerInv'
  <2>1. Changes("running", h, <<h>>)
    BY <1>6 DEF HealthChanges
  <2>2. /\ MapDockerEvent(h) = MapDockerInspect("running", h) /\ h \in Actions
        /\ h \in {"none", "healthy", "unhealthy"}
    BY <1>2, MapDockerTypes, MapInspectTypes
  <2>3. <<h>> \in Seq(Actions) /\ lines \o <<h>> = Append(lines, h)
    BY <1>3, <2>2
  <2> QED BY <1>1, <2>1, <2>2, <2>3, ChangeKeeps
<1>7. CASE ContainerSignalled
  <2>1. /\ Written(<<"kill">>) /\ UNCHANGED <<status, health>>
        /\ doubt' = IF attached THEN "signal" ELSE doubt
        /\ attached' = attached /\ streaming' = streaming /\ stopped' = stopped
        /\ lastType' = lastType
    BY <1>7 DEF ContainerSignalled, KeepDocker
  <2>2. /\ lines' \in Seq(Actions) /\ (attached => streaming = "scan")
        /\ ~attached => lines' = lines
    BY <1>2, <1>3, <2>1, WrittenLines
  <2>3. DockerTypeOK'
    BY <1>1, <2>1, <2>2, Zenon DEF DockerTypeOK
  <2>4. Truth' = Truth /\ Right' = Right
    BY <2>1, TruthKept
  <2> QED BY <1>1, <2>1, <2>2, <2>3, <2>4 DEF DockerInv
<1>8. CASE ContainerCreated \/ ContainerDestroyed
  <2>1. PICK act \in {"create", "destroy"} : Written(<<act>>)
    BY <1>8 DEF ContainerCreated, ContainerDestroyed
  <2>2. /\ status # "running" /\ status' # "running" /\ health' = health /\ doubt' = doubt
        /\ attached' = attached /\ streaming' = streaming /\ stopped' = stopped
        /\ lastType' = lastType /\ status' \in {"absent", "exited", "running"}
    BY <1>8, Zenon DEF ContainerCreated, ContainerDestroyed, KeepDocker
  <2>3. Truth' = Truth /\ Right' = Right
    BY <2>2, MapInspectTypes DEF Truth, Right
  <2>4. act \in Actions /\ MapDockerEvent(act) = Unsaid
    BY <1>2, MapDockerTypes
  <2>5. /\ lines' \in Seq(Actions)
        /\ attached => streaming = "scan" /\ lines' = Append(lines, act)
        /\ ~attached => lines' = lines
    BY <1>3, <2>1, <2>4, WrittenLines
  <2>6. DockerTypeOK'
    BY <1>1, <2>2, <2>5, Zenon DEF DockerTypeOK
  <2>7. ASSUME doubt = "none"
        PROVE  Tells(Append(lines, act), lastType, Truth, Right)
    BY <1>1, <2>4, <2>7, SilentWord
  <2> QED BY <1>1, <2>2, <2>3, <2>5, <2>6, <2>7 DEF DockerInv
<1> QED BY <1>4, <1>5, <1>6, <1>7, <1>8

\* What the watcher does with the lines.
LEMMA StreamKeeps ==
    ASSUME DockerInv, ScanLine \/ StreamEnds
    PROVE  DockerInv'
<1>1. /\ DockerTypeOK /\ lines \in Seq(Actions)
      /\ streaming # "scan" => lines = <<>> /\ ~attached
      /\ doubt = "none" => Tells(lines, lastType, Truth, Right)
      /\ Truth \in Right /\ Truth # Unsaid
  BY DockerParts
<1>2. Truth' = Truth /\ Right' = Right /\ status' = status /\ health' = health
  BY TruthKept DEF ScanLine, StreamEnds, KeepContainer
<1>3. CASE ScanLine
  <2>1. /\ streaming = "scan" /\ lines # <<>> /\ lines' = Tail(lines)
        /\ EmitOnce(MapDockerEvent(Head(lines)))
        /\ UNCHANGED <<attached, streaming, stopped, doubt>>
    BY <1>3 DEF ScanLine
  <2>2. lastType' = IF MapDockerEvent(Head(lines)) = Unsaid THEN lastType
                    ELSE MapDockerEvent(Head(lines))
    BY <2>1, Zenon DEF EmitOnce, Unsaid
  <2>3. lines' \in Seq(Actions) /\ Head(lines) \in Actions
    BY <1>1, <2>1, TailParts
  <2>4. lastType' \in DockerTypes \cup {""}
    <3>1. MapDockerEvent(Head(lines)) \in DockerTypes \cup {Unsaid}
      BY <2>3, MapDockerTypes
    <3>2. lastType \in DockerTypes \cup {Unsaid}
      BY <1>1, Zenon DEF DockerTypeOK, Unsaid
    <3>3. lastType' \in DockerTypes \cup {Unsaid}
      BY <2>2, <3>1, <3>2
    <3> QED BY <3>3, Zenon DEF Unsaid
  <2>5. DockerTypeOK'
    BY <1>1, <1>2, <2>1, <2>3, <2>4, Zenon DEF DockerTypeOK
  <2>6. ASSUME doubt = "none"
        PROVE  Tells(lines', lastType', Truth, Right)
    <3>1. Tells(lines, lastType, Truth, Right)
      BY <1>1, <2>6
    <3>2. Tells(Tail(lines), lastType', Truth, Right)
      BY <1>1, <2>1, <2>2, <3>1, ReadWord
    <3> QED BY <2>1, <3>2
  <2> QED BY <1>2, <2>1, <2>5, <2>6 DEF DockerInv
<1>4. CASE StreamEnds
  <2>1. PICK n \in 0 .. Len(lines) :
          /\ lines' = SubSeq(lines, 1, n)
          /\ doubt' = IF n < Len(lines) THEN "gap" ELSE doubt
    BY <1>4 DEF StreamEnds
  <2>2. /\ attached /\ attached' = FALSE /\ streaming' = streaming /\ stopped' = stopped
        /\ lastType' = lastType
    BY <1>4 DEF StreamEnds
  <2>3. lines' \in Seq(Actions)
    BY <1>1, <2>1, SubSeqProperties
  <2>4. n = Len(lines) => lines' = lines
    BY <1>1, <2>1
  <2>5. DockerTypeOK'
    BY <1>1, <1>2, <2>1, <2>2, <2>3, Zenon DEF DockerTypeOK
  <2>6. doubt' = "none" => doubt = "none" /\ lines' = lines
    BY <1>1, <2>1, <2>4
  <2> QED BY <1>1, <1>2, <2>2, <2>5, <2>6 DEF DockerInv
<1> QED BY <1>3, <1>4

\* The rounds of RunDockerWatch, and its end.
LEMMA RoundKeeps ==
    ASSUME DockerInv,
           \/ Inspect \/ StartStream \/ StartFails \/ ScanEnds
           \/ Backoff \/ DockerReturns \/ DockerCancelled
    PROVE  DockerInv'
<1>1. /\ DockerTypeOK /\ lines \in Seq(Actions)
      /\ streaming # "scan" => lines = <<>> /\ ~attached
      /\ doubt = "none" => Tells(lines, lastType, Truth, Right)
      /\ Truth \in Right /\ Truth # Unsaid /\ Truth \in DockerTypes
  BY DockerParts
<1>2. Truth' = Truth /\ Right' = Right /\ status' = status /\ health' = health /\ lines' = lines
  BY TruthKept DEF Inspect, StartStream, StartFails, ScanEnds, Backoff, DockerReturns,
                   DockerCancelled, KeepContainer
<1>3. CASE Inspect
  <2>1. /\ streaming = "inspect" /\ streaming' = "start" /\ UNCHANGED <<attached, stopped>>
        /\ lines = <<>> /\ ~attached
    BY <1>1, <1>3 DEF Inspect
  <2>2. CASE EmitOnce(Truth) /\ doubt' = "none"
    <3>1. lastType' = Truth
      BY <1>1, <2>2, Zenon DEF EmitOnce, Unsaid
    <3>2. DockerTypeOK'
      BY <1>1, <1>2, <2>1, <2>2, <3>1, Zenon DEF DockerTypeOK
    <3>3. Len(<<>>) = 0
      OBVIOUS
    <3>4. Tells(lines, lastType', Truth, Right)
      BY <1>1, <2>1, <3>1, <3>3 DEF Tells
    <3> QED BY <1>2, <2>1, <3>2, <3>4 DEF DockerInv
  <2>3. CASE lastType' = lastType /\ doubt' = IF doubt = "gap" THEN "blind" ELSE doubt
    <3>1. DockerTypeOK'
      BY <1>1, <1>2, <2>1, <2>3, Zenon DEF DockerTypeOK
    <3> QED BY <1>1, <1>2, <2>1, <2>3, <3>1 DEF DockerInv
  <2> QED BY <1>3, <2>2, <2>3 DEF Inspect, Truth
<1>4. CASE StartStream \/ StartFails \/ ScanEnds \/ Backoff \/ DockerReturns \/ DockerCancelled
  <2>1. /\ lastType' = lastType /\ doubt' = doubt
        /\ streaming' \in {"inspect", "start", "scan", "backoff", "done"}
        /\ attached' \in BOOLEAN /\ stopped' \in BOOLEAN
        /\ streaming' # "scan" => lines = <<>> /\ ~attached'
    <3>1. CASE StartStream
      BY <1>1, <3>1, Zenon DEF StartStream, DockerTypeOK
    <3>2. CASE StartFails
      BY <1>1, <3>2, Zenon DEF StartFails, DockerTypeOK
    <3>3. CASE ScanEnds
      BY <1>1, <3>3, Zenon DEF ScanEnds, DockerTypeOK
    <3>4. CASE Backoff
      BY <1>1, <3>4, Zenon DEF Backoff, DockerTypeOK
    <3>5. CASE DockerReturns
      BY <1>1, <3>5, Zenon DEF DockerReturns, DockerTypeOK
    <3>6. CASE DockerCancelled
      BY <1>1, <3>6, Zenon DEF DockerCancelled, DockerTypeOK
    <3> QED BY <1>4, <3>1, <3>2, <3>3, <3>4, <3>5, <3>6
  <2>2. DockerTypeOK'
    BY <1>1, <1>2, <2>1, Zenon DEF DockerTypeOK
  <2> QED BY <1>1, <1>2, <2>1, <2>2 DEF DockerInv
<1> QED BY <1>3, <1>4

LEMMA DockerStep ==
    ASSUME DockerInv, [DockerNext]_dockerVars
    PROVE  DockerInv'
<1>1. CASE DockerNext
  BY <1>1, ContainerKeeps, StreamKeeps, RoundKeeps DEF DockerNext
<1>2. CASE UNCHANGED dockerVars
  <2>1. Truth' = Truth /\ Right' = Right
    BY <1>2, TruthKept DEF dockerVars
  <2>2. DockerTypeOK'
    BY <1>2, Zenon DEF dockerVars, DockerInv, DockerTypeOK
  <2> QED BY <1>2, <2>1, <2>2 DEF dockerVars, DockerInv
<1> QED BY <1>1, <1>2

\* A docker watcher that listens and has read everything is right about the container
\* unless there is a doubt, over any number of lines, restarts and lost streams: the lines
\* (MapDockerEvent) and the inspections (MapDockerInspect) of RunDockerWatch agree.
THEOREM DockerSettles == DockerSpec => []DockerConverges
<1>1. DockerInit => DockerInv
  BY DockerInitInv
<1>2. DockerInv /\ [DockerNext]_dockerVars => DockerInv'
  BY DockerStep
<1>3. DockerInv => DockerConverges
  <2> SUFFICES ASSUME DockerInv, DockerSettled, doubt = "none"
               PROVE  SaidIsSo
    BY DEF DockerConverges
  <2>1. lines = <<>> /\ Len(<<>>) = 0
    BY DEF DockerSettled
  <2>2. lastType \in Right
    BY <2>1 DEF DockerInv, Tells
  <2> QED BY <2>2, Zenon DEF Right, Truth, Unsaid, SaidIsSo
<1> QED BY <1>1, <1>2, <1>3, PTL DEF DockerSpec

----------------------------------------------------------------------------
(* The manager and the four together *)

\* The manager's and every watcher's variables are in range, the events and the table's
\* UNIQUE(type, target) above all: whichever of them runs, its step keeps its own inductive
\* invariant and the others stay as they began (Manager, RunPoller, RunFileWatch,
\* RunDockerWatch, RunGitWatch).
THEOREM WatcherTypes == Spec => []TypeOK
<1> DEFINE Inv == MapInv /\ PollInv /\ FileInv /\ DockerInv /\ GitInv
<1>1. Init => Inv
  BY MapInit, PollInitInv, FileInitInv, DockerInitInv, GitInitInv DEF Init
<1>2. Inv /\ [Next]_vars => Inv'
  <2> SUFFICES ASSUME Inv, [Next]_vars
               PROVE  Inv'
    OBVIOUS
  <2>1. /\ [ManagerNext]_managerVars /\ [PollNext]_pollVars /\ [FileNext]_fileVars
        /\ [DockerNext]_dockerVars /\ [GitNext]_gitVars
    BY DEF Next, vars
  <2> QED BY <2>1, MapStep, PollStep, FileStep, DockerStep, GitStep
<1>3. Inv => TypeOK
  BY DEF MapInv, PollInv, FileInv, DockerInv, GitInv, TypeOK
<1> QED BY <1>1, <1>2, <1>3, PTL DEF Spec

=============================================================================
