------------------------------ MODULE StateStream ------------------------------
(***************************************************************************)
(* One client's state stream of one twin: the in-process broker with its   *)
(* bounded queue (BoundedEventBroker, Subscription), the durable           *)
(* replay-then-live subscription above it (DurableSubscription), the       *)
(* session that turns positions into resume cursors (StateStreamSession),  *)
(* the transport loop that drives it (StateWebSocketApp._serve and the     *)
(* gRPC SubscribeState), and a client that acknowledges, loses its         *)
(* connection and resumes from a cursor it was given.                      *)
(*                                                                         *)
(* An event is its sequence number; log[s] says whether it passes the      *)
(* subscription's event-type and plane filter.  The chain hash of a        *)
(* position is a function of its sequence, the ledger being append-only,   *)
(* so a cursor is a sequence number too.                                   *)
(*                                                                         *)
(* Everything here runs on one asyncio event loop: while the subscription  *)
(* is "running" no other task of the process moves.  Only other processes  *)
(* do, and they may commit to the shared ledger at any time.               *)
(***************************************************************************)
EXTENDS Integers, Sequences, SequencesExt

CONSTANTS
    QueueCapacity,   \* BoundedEventBroker's queue_capacity
    ReplayPageSize,  \* SyncLimits.replay_page_size
    MaxInFlight,     \* SyncLimits.max_in_flight, as negotiated
    MaxEvents,       \* bound: length of the ledger
    WireCapacity,    \* bound: frames the transport buffers before send() blocks
    MaxAcks,         \* bound: control frames under way
    MaxDrops         \* bound: connections ended by the client or the network, and
                     \* times the client starts over

ASSUME StreamAssumption ==
    /\ {QueueCapacity, ReplayPageSize, MaxInFlight, WireCapacity} \subseteq Nat \ {0}
    /\ {MaxEvents, MaxAcks, MaxDrops} \subseteq Nat

VARIABLES
    log,                                   \* the ledger
    relayed, elsewhere,                    \* events published; those not to this broker
    registered, liveClosed, after, queue,  \* Subscription, and its place in the broker
    pc,                                    \* the server's stream task
    position, acked, replayHead,           \* DurableSubscription
    buffer, outstanding, deferred,
    wire, acks, connected,                 \* the connection
    seen, resume, got, lastAck, drops      \* the client

ledgerVars == <<log, relayed, elsewhere>>
liveVars == <<registered, liveClosed, after, queue>>
subVars == <<position, acked, replayHead, buffer, outstanding, deferred>>
clientVars == <<seen, resume, got, lastAck>>
vars == <<ledgerVars, liveVars, pc, subVars, wire, acks, connected, clientVars, drops>>

CLOSED == 0      \* the _CLOSED sentinel of a live queue
None == 0        \* no deferred live event

Frame == [type : {"event", "heartbeat", "close"}, seq : Nat]

Init ==
    /\ log = <<>> /\ relayed = {} /\ elsewhere = {}
    /\ registered = FALSE /\ liveClosed = FALSE /\ after = 0 /\ queue = <<>>
    /\ pc = "closed"
    /\ position = 0 /\ acked = 0 /\ replayHead = 0
    /\ buffer = <<>> /\ outstanding = <<>> /\ deferred = None
    /\ wire = <<>> /\ acks = <<>> /\ connected = FALSE
    /\ seen = 0 /\ resume = 0 /\ got = {} /\ lastAck = 0
    /\ drops = 0

-----------------------------------------------------------------------------
(* The ledger and the relay of this process. *)

Commit ==
    /\ Len(log) < MaxEvents
    /\ \E wanted \in BOOLEAN : log' = Append(log, wanted)
    /\ UNCHANGED <<relayed, elsewhere, liveVars, pc, subVars, wire, acks, connected, clientVars, drops>>

\* Mutation: the queue grows without bound.
OfferUnbounded(s) ==
    IF ~registered \/ s <= after
      THEN UNCHANGED liveVars
      ELSE queue' = Append(queue, s) /\ UNCHANGED <<registered, liveClosed, after>>

\* BoundedEventBroker.publish: put the event on the live queue, or disconnect
\* the subscriber whose queue is full (Subscription.close drops one item to
\* make room for the sentinel).
Offer(s) ==
    IF ~registered \/ s <= after
      THEN UNCHANGED liveVars
      ELSE IF Len(queue) < QueueCapacity
             THEN /\ queue' = Append(queue, s)
                  /\ UNCHANGED <<registered, liveClosed, after>>
             ELSE /\ queue' = Append(Tail(queue), CLOSED)
                  /\ registered' = FALSE
                  /\ liveClosed' = TRUE
                  /\ UNCHANGED after

\* OutboxRelay publishes each event at least once, in no fixed order (drains
\* overlap), and again when a lease expired.
Publish(s) ==
    /\ pc # "running"
    /\ Offer(s)
    /\ relayed' = relayed \cup {s}
    /\ elsewhere' = elsewhere \ {s}
    /\ UNCHANGED <<log, pc, subVars, wire, acks, connected, clientVars, drops>>

Relay(s) == s \in 1..Len(log) \ relayed /\ Publish(s)
Republish(s) == s \in relayed /\ Publish(s)

\* Another process claims the event's row: its broker is told, this one is not.
RelayElsewhere(s) ==
    /\ s \in 1..Len(log) \ relayed
    /\ relayed' = relayed \cup {s}
    /\ elsewhere' = elsewhere \cup {s}
    /\ UNCHANGED <<log, liveVars, pc, subVars, wire, acks, connected, clientVars, drops>>

-----------------------------------------------------------------------------
(* Opening and ending a session. *)

\* open_state_stream and DurableSubscription.open: register with the broker,
\* then capture the head up to which the ledger is replayed.
OpenAt(start) ==
    /\ ~connected /\ pc = "closed"
    /\ position' = start /\ acked' = start /\ after' = start
    /\ replayHead' = Len(log)
    /\ registered' = TRUE /\ liveClosed' = FALSE /\ queue' = <<>>
    /\ buffer' = <<>> /\ outstanding' = <<>> /\ deferred' = None
    /\ connected' = TRUE /\ pc' = "idle"
    /\ got' = {} /\ lastAck' = 0
    /\ UNCHANGED <<ledgerVars, wire, acks, seen, resume>>

Open == OpenAt(resume) /\ UNCHANGED drops

\* The client has lost its cursor and starts over.
OpenAfresh ==
    /\ drops < MaxDrops
    /\ OpenAt(0)
    /\ drops' = drops + 1

\* aclose(): leave the broker.
Unsubscribe ==
    /\ registered' = FALSE
    /\ liveClosed' = TRUE
    /\ queue' = <<>>
    /\ UNCHANGED after

\* The session ends on the server: the close frame carries the acknowledged
\* cursor.
EndSession ==
    /\ Unsubscribe
    /\ pc' = "closed"
    /\ wire' = Append(wire, [type |-> "close", seq |-> acked])
    /\ acks' = <<>>

-----------------------------------------------------------------------------
(* DurableSubscription.__anext__ *)

\* The transport asks for the next event as soon as it has sent the last one.
CallNext ==
    /\ pc = "idle"
    /\ Len(outstanding) < MaxInFlight
    /\ pc' = "running"
    /\ UNCHANGED <<ledgerVars, liveVars, subVars, wire, acks, connected, clientVars, drops>>

\* ... and is refused when the window of unacknowledged frames is full.
WindowFull ==
    /\ pc = "idle"
    /\ Len(outstanding) >= MaxInFlight
    /\ EndSession
    /\ UNCHANGED <<ledgerVars, subVars, connected, clientVars, drops>>

\* Mutation: an event counts as acknowledged once it is taken.
AcceptAcknowledged(e) ==
    IF e # position + 1
      THEN pc' = "integrity" /\ UNCHANGED <<position, acked, outstanding>>
      ELSE /\ position' = e
           /\ acked' = e
           /\ outstanding' = IF log[e] THEN Append(outstanding, e) ELSE outstanding
           /\ pc' = IF log[e] THEN "send" ELSE "running"

\* Mutation: the acknowledged position moves over a filtered event although
\* frames are outstanding.
AcceptOverOutstanding(e) ==
    IF e # position + 1
      THEN pc' = "integrity" /\ UNCHANGED <<position, acked, outstanding>>
      ELSE /\ position' = e
           /\ IF log[e]
                THEN /\ outstanding' = Append(outstanding, e)
                     /\ pc' = "send"
                     /\ UNCHANGED acked
                ELSE /\ acked' = e
                     /\ pc' = "running"
                     /\ UNCHANGED outstanding

\* _advance_verified, the filter, and _advance_ack_over_filtered_event.
Accept(e) ==
    IF e # position + 1
      THEN pc' = "integrity" /\ UNCHANGED <<position, acked, outstanding>>
      ELSE /\ position' = e
           /\ IF log[e]
                THEN /\ outstanding' = Append(outstanding, e)
                     /\ pc' = "send"
                     /\ UNCHANGED acked
                ELSE /\ acked' = IF outstanding = <<>> THEN e ELSE acked
                     /\ pc' = "running"
                     /\ UNCHANGED outstanding

\* _next_candidate: the replay buffer comes first.
PopReplay ==
    /\ pc = "running"
    /\ buffer # <<>>
    /\ buffer' = Tail(buffer)
    /\ Accept(Head(buffer))
    /\ UNCHANGED <<ledgerVars, liveVars, replayHead, deferred,
                   wire, acks, connected, clientVars, drops>>

\* The page of the ledger that store.load returns: the events after the position
\* and up to the captured head, no more than the limit.
Page ==
    LET last == IF replayHead < Len(log) THEN replayHead ELSE Len(log)
        size == IF last - position < ReplayPageSize THEN last - position ELSE ReplayPageSize
    IN [i \in 1..size |-> position + i]

\* Below the captured head: read a page from the ledger.
LoadPage ==
    /\ pc = "running"
    /\ buffer = <<>>
    /\ position < replayHead
    /\ buffer' = Page
    /\ pc' = IF Page = <<>> THEN "integrity" ELSE "running"
    /\ UNCHANGED <<ledgerVars, liveVars, position, acked, replayHead, outstanding, deferred,
                   wire, acks, connected, clientVars, drops>>

Replayed == buffer = <<>> /\ position >= replayHead

\* Mutation: an event beyond a gap is taken as it comes.
TakeLiveAcrossGap(e) ==
    /\ deferred' = None
    /\ UNCHANGED replayHead
    /\ IF e <= position
         THEN pc' = "running" /\ UNCHANGED <<position, acked, outstanding>>
         ELSE /\ position' = e
              /\ outstanding' = IF log[e] THEN Append(outstanding, e) ELSE outstanding
              /\ pc' = IF log[e] THEN "send" ELSE "running"
              /\ UNCHANGED acked

\* Mutation: a gap is not taken up from the ledger.
TakeLiveStrict(e) ==
    /\ deferred' = None
    /\ UNCHANGED replayHead
    /\ IF e <= position
         THEN pc' = "running" /\ UNCHANGED <<position, acked, outstanding>>
         ELSE Accept(e)

\* A live event: drop what was replayed already; take up a gap from the
\* ledger, setting the event aside; accept the one that is next.
TakeLive(e) ==
    \/ /\ e <= position
       /\ pc' = "running"
       /\ deferred' = None
       /\ UNCHANGED <<position, acked, outstanding, replayHead>>
    \/ /\ e > position + 1
       /\ pc' = IF Len(log) < e THEN "integrity" ELSE "running"
       /\ deferred' = e
       /\ replayHead' = e
       /\ UNCHANGED <<position, acked, outstanding>>
    \/ /\ e = position + 1
       /\ Accept(e)
       /\ deferred' = None
       /\ UNCHANGED replayHead

TakeDeferred ==
    /\ pc = "running"
    /\ Replayed
    /\ deferred # None
    /\ TakeLive(deferred)
    /\ UNCHANGED <<ledgerVars, liveVars, buffer, wire, acks, connected, clientVars, drops>>

\* Subscription.__anext__ with an empty queue suspends in queue.get().
Wait ==
    /\ pc = "running"
    /\ Replayed /\ deferred = None
    /\ ~liveClosed /\ queue = <<>>
    /\ pc' = "waiting"
    /\ UNCHANGED <<ledgerVars, liveVars, subVars, wire, acks, connected, clientVars, drops>>

\* queue.get() returns an event: at once, or after a wait, in which case it
\* does not look at _closed again.
Dequeue ==
    /\ \/ pc = "running" /\ Replayed /\ deferred = None /\ ~liveClosed
       \/ pc = "waiting"
    /\ queue # <<>> /\ Head(queue) # CLOSED
    /\ queue' = Tail(queue)
    /\ after' = Head(queue)
    /\ TakeLive(Head(queue))
    /\ UNCHANGED <<ledgerVars, registered, liveClosed, buffer,
                   wire, acks, connected, clientVars, drops>>

\* The broker closed the live queue: BackpressureExceeded.
SlowConsumer ==
    /\ \/ pc = "running" /\ Replayed /\ deferred = None /\ liveClosed
       \/ pc = "waiting" /\ queue # <<>> /\ Head(queue) = CLOSED
    /\ EndSession
    /\ UNCHANGED <<ledgerVars, subVars, connected, clientVars, drops>>

-----------------------------------------------------------------------------
(* The transport loop. *)

SendEvent ==
    /\ pc = "send"
    /\ Len(wire) < WireCapacity
    /\ wire' = Append(wire, [type |-> "event", seq |-> Last(outstanding)])
    /\ pc' = "idle"
    /\ UNCHANGED <<ledgerVars, liveVars, subVars, acks, connected, clientVars, drops>>

\* No event within heartbeat_seconds.
Heartbeat ==
    /\ pc = "waiting"
    /\ Len(wire) < WireCapacity
    /\ wire' = Append(wire, [type |-> "heartbeat", seq |-> acked])
    /\ UNCHANGED <<ledgerVars, liveVars, pc, subVars, acks, connected, clientVars, drops>>

\* acknowledgement_candidate finds the acknowledged position or an outstanding
\* frame, and acknowledge does not go back.
Acknowledgeable(s) == s = acked \/ (s > acked /\ s \in ToSet(outstanding))

ReceivesControls == pc \in {"idle", "send", "waiting"} /\ acks # <<>>

\* DurableSubscription.acknowledge: cumulative.  The frames at the left end of the
\* window are dropped up to the first one beyond the acknowledged sequence.
Acknowledge ==
    /\ ReceivesControls
    /\ Acknowledgeable(Head(acks).seq)
    /\ acked' = Head(acks).seq
    /\ \E n \in 0..Len(outstanding) :
          /\ \A k \in 1..n : outstanding[k] <= Head(acks).seq
          /\ n < Len(outstanding) => outstanding[n + 1] > Head(acks).seq
          /\ outstanding' = SubSeq(outstanding, n + 1, Len(outstanding))
    /\ acks' = Tail(acks)
    /\ UNCHANGED <<ledgerVars, liveVars, pc, position, replayHead, buffer, deferred,
                   wire, connected, clientVars, drops>>

\* ProtocolViolation: the session ends.
RefuseAck ==
    /\ ReceivesControls
    /\ ~Acknowledgeable(Head(acks).seq)
    /\ EndSession
    /\ UNCHANGED <<ledgerVars, subVars, connected, clientVars, drops>>

\* A close control frame, or no control frame within the idle timeout.
CloseRequested ==
    /\ drops < MaxDrops
    /\ pc \in {"idle", "send", "waiting"} /\ acks = <<>>
    /\ EndSession
    /\ drops' = drops + 1
    /\ UNCHANGED <<ledgerVars, subVars, connected, clientVars>>

\* The connection breaks: what is under way is lost, the session is closed.
Disconnect ==
    /\ drops < MaxDrops
    /\ connected /\ pc # "running"
    /\ Unsubscribe
    /\ pc' = "closed"
    /\ wire' = <<>> /\ acks' = <<>>
    /\ connected' = FALSE
    /\ drops' = drops + 1
    /\ UNCHANGED <<ledgerVars, subVars, clientVars>>

-----------------------------------------------------------------------------
(* The client: external, constrained only by the protocol. *)

\* It keeps the newest cursor it was given.
Newest(f) == IF f.seq > resume THEN f.seq ELSE resume

Receive ==
    /\ connected /\ wire # <<>>
    /\ LET f == Head(wire) IN
          /\ seen' = IF f.type = "event" /\ f.seq > seen THEN f.seq ELSE seen
          /\ resume' = Newest(f)
          /\ got' = IF f.type = "close" THEN {} ELSE got \cup {f}
          /\ connected' = (f.type # "close")
    /\ wire' = Tail(wire)
    /\ UNCHANGED <<ledgerVars, liveVars, pc, subVars, acks, lastAck, drops>>

\* It acknowledges cursors received on this connection and never goes back:
\* each event frame at most once.
SendAck ==
    /\ connected /\ pc # "closed"
    /\ Len(acks) < MaxAcks
    /\ \E f \in got :
          /\ f.seq >= lastAck
          /\ f.type = "event" => f.seq > lastAck
          /\ acks' = Append(acks, f)
          /\ lastAck' = f.seq
    /\ UNCHANGED <<ledgerVars, liveVars, pc, subVars, wire, connected, seen, resume, got, drops>>

-----------------------------------------------------------------------------

ServerStep ==
    \/ CallNext \/ WindowFull
    \/ PopReplay \/ LoadPage \/ TakeDeferred \/ Wait \/ Dequeue \/ SlowConsumer
    \/ SendEvent

Next ==
    \/ Commit
    \/ \E s \in 1..MaxEvents : Relay(s) \/ Republish(s) \/ RelayElsewhere(s)
    \/ Open \/ OpenAfresh
    \/ ServerStep
    \/ Heartbeat \/ Acknowledge \/ RefuseAck \/ CloseRequested \/ Disconnect
    \/ Receive \/ SendAck

Spec == Init /\ [][Next]_vars

\* The event loop runs every ready task (asyncio's ready queue is first-in
\* first-out, so a relay that is ready again and again gets its turn); the
\* relay publishes every event (OutboxRelay), or another process does; the client
\* reads its connection and comes back when it is closed.
Fairness ==
    /\ WF_vars(ServerStep)
    /\ \A s \in 1..MaxEvents : SF_vars(Relay(s) \/ RelayElsewhere(s))
    /\ WF_vars(Receive)
    /\ WF_vars(Open)

FairSpec == Spec /\ Fairness

-----------------------------------------------------------------------------
(* Properties. *)

\* Every variable has its type; queue, window and replay buffer never exceed
\* the configured limits (DT-INV-017).
TypeOK ==
    /\ log \in Seq(BOOLEAN) /\ Len(log) <= MaxEvents
    /\ elsewhere \subseteq relayed /\ relayed \subseteq 1..Len(log)
    /\ registered \in BOOLEAN /\ liveClosed \in BOOLEAN /\ connected \in BOOLEAN
    /\ pc \in {"closed", "idle", "running", "waiting", "send", "integrity"}
    /\ {after, position, acked, replayHead, deferred, seen, resume, lastAck} \subseteq 0..Len(log)
    /\ queue \in Seq(0..Len(log)) /\ Len(queue) <= QueueCapacity
    /\ buffer \in Seq(1..Len(log)) /\ Len(buffer) <= ReplayPageSize
    /\ outstanding \in Seq(1..Len(log)) /\ Len(outstanding) <= MaxInFlight
    /\ wire \in Seq(Frame) /\ acks \in Seq(Frame) /\ got \subseteq Frame

\* Whatever cursor the client resumes from, no wanted event at or below it is
\* one the client has not seen.  Cursors reach the client in event frames
\* (before their acknowledgement), in heartbeats and in close frames, and the
\* acknowledged position also moves over filtered events on its own.
CursorNeverSkips ==
    \A s \in 1..resume : log[s] => s <= seen

\* The continuity checks of the subscription never fail: duplicated, reordered
\* and dropped live events are all made good from the ledger (DT-INV-021).
NoIntegrityFailure == pc # "integrity"

\* The session is in good order: within its limits, and its continuity checks
\* hold.
SessionInv == TypeOK /\ NoIntegrityFailure

\* The first acknowledgement of an event frame, in order, is never refused,
\* although the acknowledged position may have moved over filtered events
\* while the control frame was under way.
FreshAckAccepted ==
    ReceivesControls /\ Head(acks).type = "event" => Acknowledgeable(Head(acks).seq)

Feed == INSTANCE OrderedFeed WITH log <- log, seen <- seen

\* The stream implements OrderedFeed: over any number of replays, live
\* handoffs, overflows, disconnections and resumptions the client sees every
\* wanted event in order (DT-INV-021).
InOrderNoGap == Feed!Spec

\* Where the processes share one outbox an event that another process relayed
\* waits for a later one to be relayed here, or for the client to reconnect.
\* Then it is made good: again and again the client has seen every wanted event
\* up to the newest one this broker published, so each of them is seen.
SeenUpToPublished ==
    []<>(\A t \in 1..Len(log) :
            log[t] /\ (\E s \in relayed \ elsewhere : t <= s) => t <= seen)

=============================================================================
