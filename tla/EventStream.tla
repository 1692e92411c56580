---------------------------- MODULE EventStream ----------------------------
(***************************************************************************)
(* The live event stream (internal/bus, Engine.Ingest, Daemon.follow,      *)
(* Client.Follow, the WebSocket server and wait_for_event): ingests commit *)
(* and then publish, the bus offers the event to every subscriber and      *)
(* drops it where the channel is full, and a handler goroutine per         *)
(* connection writes it to a client that waits for a match.                *)
(*                                                                         *)
(* Connections are external: notes that were written are read in order,    *)
(* and the end of either side is an error at the other.                    *)
(***************************************************************************)
EXTENDS Naturals, Sequences, SequencesExt

CONSTANTS
    Ingesters,  \* goroutines that ingest events
    Waiters,    \* streams over the daemon's socket: calls of wait_for_event
    Sockets,    \* streams over the WebSocket server, whose clients only read
    Hits,       \* the events that the waiters wait for; events are numbered by commit
    MaxEvents,  \* bound: events
    Buffer,     \* the capacity of a subscriber's channel: 64 in the code
    MaxWire     \* bound: notes that a connection holds until they are read

VARIABLES
    up,         \* the daemon runs
    committed,  \* how many events are in the store
    publishing, \* what each ingester has committed and not published, 0 for nothing
    published,  \* history: what the bus has offered, in order
    sub,        \* each stream's place in the bus: registered or not, and its channel;
                \* history: the channel was full once
    conn,       \* each stream's connection: where the handler goroutine is, the event in
                \* its hands, what is written and not read, closed by the client or not
    reader      \* each client: where it is, its ctx, the match it has found and what it
                \* returned; history: the events it has read, and how many were published
                \* when it read that its stream is on

streamVars == <<up, committed, publishing, published, sub, conn, reader>>

Streams == Waiters \cup Sockets
Events == 1 .. MaxEvents
Ok == 0   \* the first response on a connection

ASSUME StreamAssumption ==
    /\ MaxEvents \in Nat /\ Buffer \in Nat \ {0} /\ MaxWire \in Nat \ {0}
    /\ Hits \subseteq Events
    /\ Waiters \cap Sockets = {}

Sub == [on: BOOLEAN, channel: Seq(Events), full: BOOLEAN]

Conn == [at: {"none", "begin", "reply", "select", "encode", "gone"}, note: Seq(Events),
         wire: Seq(Events \cup {Ok}), closed: BOOLEAN]

Reader == [at: {"idle", "ack", "read", "over"}, done: BOOLEAN, match: Seq(Events),
           got: Seq(Events), acked: Nat, answer: {"none", "match", "timed out", "error"}]

\* Channels, connections and clients are in range (Bus, follow, Follow).
StreamTypeOK ==
    /\ up \in BOOLEAN
    /\ committed \in 0 .. MaxEvents
    /\ publishing \in [Ingesters -> 0 .. MaxEvents]
    /\ published \in Seq(Events)
    /\ sub \in [Streams -> Sub]
    /\ conn \in [Streams -> Conn]
    /\ reader \in [Streams -> Reader]

StreamInit ==
    /\ up = TRUE
    /\ committed = 0
    /\ publishing = [k \in Ingesters |-> 0]
    /\ published = <<>>
    /\ sub = [s \in Streams |-> [on |-> FALSE, channel |-> <<>>, full |-> FALSE]]
    /\ conn = [s \in Streams |-> [at |-> "none", note |-> <<>>, wire |-> <<>>, closed |-> FALSE]]
    /\ reader = [s \in Streams |-> [at |-> "idle", done |-> FALSE, match |-> <<>>, got |-> <<>>,
                                    acked |-> 0, answer |-> "none"]]

----------------------------------------------------------------------------
(* Engine.Ingest and the bus *)

\* The store has the event: the transaction has committed ...
Commit(k) ==
    /\ up
    /\ publishing[k] = 0
    /\ committed < MaxEvents
    /\ committed' = committed + 1
    /\ publishing' = [publishing EXCEPT ![k] = committed']
    /\ UNCHANGED <<up, published, sub, conn, reader>>

\* ... and it is offered to every subscriber: a full one misses it.
Publish(k) ==
    /\ publishing[k] # 0
    /\ publishing' = [publishing EXCEPT ![k] = 0]
    /\ published' = Append(published, publishing[k])
    /\ sub' = [s \in Streams |->
                 IF ~sub[s].on THEN sub[s]
                 ELSE IF Len(sub[s].channel) = Buffer THEN [sub[s] EXCEPT !.full = TRUE]
                 ELSE [sub[s] EXCEPT !.channel = Append(@, publishing[k])]]
    /\ UNCHANGED <<up, committed, conn, reader>>

----------------------------------------------------------------------------
(* The handler goroutine: Daemon.follow, or the /events handler *)

KeepIngest == UNCHANGED <<up, committed, publishing, published>>

\* Mutant: the client is told that its stream is on, and then the stream subscribes.
ReplyFirst(s) ==
    /\ conn[s].at = "begin"
    /\ \/ /\ reader[s].at = "ack" /\ conn[s].wire = <<>>
          /\ conn' = [conn EXCEPT ![s].wire = <<Ok>>]
          /\ UNCHANGED sub
       \/ /\ reader[s].at # "ack" \/ conn[s].wire # <<>>
          /\ conn' = [conn EXCEPT ![s].at = "select"]
          /\ sub' = [sub EXCEPT ![s].on = TRUE]
    /\ UNCHANGED reader
    /\ KeepIngest

\* A WebSocket client has had its handshake by now; one of the daemon's is told next.
Subscribe(s) ==
    /\ conn[s].at = "begin"
    /\ sub' = [sub EXCEPT ![s].on = TRUE]
    /\ conn' = [conn EXCEPT ![s].at = IF s \in Waiters THEN "reply" ELSE "select"]
    /\ UNCHANGED reader
    /\ KeepIngest

\* Mutant: the handler returns and does not call cancel.
LeaveSubscribed(s) ==
    /\ conn' = [conn EXCEPT ![s].at = "gone", ![s].note = <<>>]
    /\ UNCHANGED sub

\* The handler returns: cancel unregisters the channel, and the connection is closed.
Leave(s) ==
    /\ conn' = [conn EXCEPT ![s].at = "gone", ![s].note = <<>>]
    /\ sub' = [sub EXCEPT ![s].on = FALSE, ![s].channel = <<>>]

\* Encode blocks on a connection that is full, and fails on one that is closed.
Encode(s, n) ==
    \/ /\ ~conn[s].closed
       /\ Len(conn[s].wire) < MaxWire
       /\ conn' = [conn EXCEPT ![s].wire = Append(@, n), ![s].note = <<>>, ![s].at = "select"]
       /\ UNCHANGED sub
    \/ conn[s].closed /\ Leave(s)

Reply(s) ==
    /\ conn[s].at = "reply"
    /\ Encode(s, Ok)
    /\ UNCHANGED reader
    /\ KeepIngest

TakeEvent(s) ==
    /\ conn[s].at = "select"
    /\ sub[s].channel # <<>>
    /\ conn' = [conn EXCEPT ![s].at = "encode", ![s].note = <<Head(sub[s].channel)>>]
    /\ sub' = [sub EXCEPT ![s].channel = Tail(@)]
    /\ UNCHANGED reader
    /\ KeepIngest

WriteEvent(s) ==
    /\ conn[s].at = "encode"
    /\ Encode(s, Head(conn[s].note))
    /\ UNCHANGED reader
    /\ KeepIngest

\* follow reads too, and notices a client that has closed; the WebSocket handler does not.
HangUpSeen(s) ==
    /\ s \in Waiters
    /\ conn[s].at = "select"
    /\ conn[s].closed
    /\ Leave(s)
    /\ UNCHANGED reader
    /\ KeepIngest

\* The daemon's ctx is done, and with it the request's: the WebSocket handler returns.
ContextDone(s) ==
    /\ s \in Sockets
    /\ conn[s].at \in {"select", "encode"}
    /\ Leave(s)
    /\ UNCHANGED reader
    /\ KeepIngest

HandlerStep(s) == Subscribe(s) \/ Reply(s) \/ TakeEvent(s) \/ WriteEvent(s) \/ HangUpSeen(s)

\* The daemon exits, or dies: its connections are closed.
DaemonExits ==
    /\ up
    /\ up' = FALSE
    /\ publishing' = [k \in Ingesters |-> 0]
    /\ conn' = [s \in Streams |-> IF conn[s].at = "none" THEN conn[s]
                                  ELSE [conn[s] EXCEPT !.at = "gone", !.note = <<>>]]
    /\ sub' = [s \in Streams |-> [sub[s] EXCEPT !.on = FALSE, !.channel = <<>>]]
    /\ UNCHANGED <<committed, published, reader>>

----------------------------------------------------------------------------
(* The client: Client.Follow under waitForEventHandler *)

KeepDaemon == UNCHANGED <<up, committed, publishing, published, sub>>

\* Dial, and ask for the stream.
Connect(s) ==
    /\ up
    /\ reader[s].at = "idle"
    /\ reader' = [reader EXCEPT ![s].at = IF s \in Waiters THEN "ack" ELSE "read"]
    /\ conn' = [conn EXCEPT ![s].at = "begin"]
    /\ KeepDaemon

ReadAck(s) ==
    /\ reader[s].at = "ack"
    /\ conn[s].wire # <<>>
    /\ conn' = [conn EXCEPT ![s].wire = Tail(@)]
    /\ reader' = [reader EXCEPT ![s].at = "read", ![s].acked = Len(published)]
    /\ KeepDaemon

\* Mutant: a later match replaces the one that was found.
FoundLast(s, n) == IF s \in Waiters /\ n \in Hits THEN <<n>> ELSE reader[s].match

\* The callback of waitForEventHandler: the first match counts, and ends the stream.
Found(s, n) ==
    IF s \in Waiters /\ n \in Hits /\ reader[s].match = <<>> THEN <<n>> ELSE reader[s].match

\* Even after the connection is closed the decoder may have the note already.
ReadEvent(s) ==
    /\ reader[s].at = "read"
    /\ conn[s].wire # <<>>
    /\ LET n == Head(conn[s].wire)
       IN  reader' = [reader EXCEPT ![s].got = Append(@, n), ![s].match = Found(s, n),
                                    ![s].done = @ \/ Found(s, n) # <<>>]
    /\ conn' = [conn EXCEPT ![s].wire = Tail(@)]
    /\ KeepDaemon

\* The timeout of the wait, or the caller gives up on it.
Expire(s) ==
    /\ s \in Waiters
    /\ reader[s].at \in {"ack", "read"}
    /\ ~reader[s].done
    /\ reader' = [reader EXCEPT ![s].done = TRUE]
    /\ UNCHANGED conn
    /\ KeepDaemon

\* Mutant: only the match ends the stream.
CloseOnMatch(s) ==
    /\ reader[s].at \in {"ack", "read"}
    /\ s \in Waiters => reader[s].match # <<>>
    /\ ~conn[s].closed
    /\ conn' = [conn EXCEPT ![s].closed = TRUE]
    /\ UNCHANGED reader
    /\ KeepDaemon

\* The goroutine of Follow closes the connection when ctx is done.  The client of a
\* WebSocket closes it when it likes.
CloseConn(s) ==
    /\ reader[s].at \in {"ack", "read"}
    /\ s \in Waiters => reader[s].done
    /\ ~conn[s].closed
    /\ conn' = [conn EXCEPT ![s].closed = TRUE]
    /\ UNCHANGED reader
    /\ KeepDaemon

\* A read that fails is the end: of a ctx that is done, once the stream is on; otherwise it
\* is an error.
ReadFails(s) ==
    /\ reader[s].at \in {"ack", "read"}
    /\ conn[s].closed \/ (conn[s].at = "gone" /\ conn[s].wire = <<>>)
    /\ reader' = [reader EXCEPT
          ![s].at = "over",
          ![s].answer = IF reader[s].at = "ack" \/ ~reader[s].done THEN "error"
                        ELSE IF reader[s].match # <<>> THEN "match" ELSE "timed out"]
    /\ conn' = [conn EXCEPT ![s].closed = TRUE]
    /\ KeepDaemon

ReaderStep(s) == ReadAck(s) \/ ReadEvent(s) \/ ReadFails(s)

StreamNext ==
    \/ \E k \in Ingesters : Commit(k) \/ Publish(k)
    \/ \E s \in Streams : HandlerStep(s) \/ ReaderStep(s)
    \/ \E s \in Streams : Connect(s) \/ Expire(s) \/ CloseConn(s) \/ ContextDone(s)
    \/ DaemonExits

StreamSpec == StreamInit /\ [][StreamNext]_streamVars

----------------------------------------------------------------------------
(* Properties *)

\* What has reached stream s and was not dropped, once its client has had the first response.
Delivered(s) == reader[s].got \o conn[s].wire \o conn[s].note \o sub[s].channel

\* A client that was told its stream is on gets every event from then on, in the order
\* of the bus, as long as the stream lasts and its channel was never full: nothing falls
\* between the answer and the subscription (follow: Subscribe, then the response).
NoSilentGap ==
    \A s \in Waiters :
        /\ reader[s].at = "read" /\ ~conn[s].closed
        /\ conn[s].at # "gone"
        /\ ~sub[s].full
        => IsSuffix(SubSeq(published, reader[s].acked + 1, Len(published)), Delivered(s))

\* The n-th event that stream s has read is its first match.
FirstHit(s, n) == reader[s].got[n] \in Hits /\ \A m \in 1 .. n - 1 : reader[s].got[m] \notin Hits

\* A wait that has read a match returns it, the first one it read, whatever ends the
\* stream: the match itself, a timeout at the same time, or the daemon (waitForEventHandler,
\* Follow).
MatchIsKept ==
    \A s \in Waiters : reader[s].at = "over" =>
        \A n \in 1 .. Len(reader[s].got) :
            FirstHit(s, n) => reader[s].answer = "match" /\ reader[s].match = <<reader[s].got[n]>>

\* Goroutines are scheduled, and a timeout passes.
StreamFairness ==
    /\ \A s \in Streams : WF_streamVars(HandlerStep(s)) /\ WF_streamVars(ReaderStep(s))
    /\ \A s \in Waiters : WF_streamVars(Expire(s)) /\ WF_streamVars(CloseConn(s))

\* Every wait ends (waitForEventHandler: the timeout closes the connection).
WaitEnds == \A s \in Waiters : reader[s].at = "ack" ~> reader[s].at = "over"

\* The bus does not keep the channel of a client that has hung up: follow notices by
\* itself, the WebSocket handler with its next event (follow, Bus.Subscribe).
HungUpIsUnsubscribed ==
    \A s \in Streams :
        conn[s].closed /\ sub[s].on /\ (s \in Waiters \/ sub[s].channel # <<>>) ~> ~sub[s].on
=============================================================================
