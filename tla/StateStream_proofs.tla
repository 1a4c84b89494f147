-------------------------- MODULE StateStream_proofs --------------------------
(***************************************************************************)
(* The safety properties of StateStream for every capacity, page size,     *)
(* window and ledger, and that it implements OrderedFeed; and those of     *)
(* CursorKeys, which its cursors are signed under, for any keys, processes *)
(* and clocks.                                                             *)
(***************************************************************************)
EXTENDS StateStream, CursorKeys, TLAPS

-----------------------------------------------------------------------------
(* The inductive invariant. *)

\* An event frame is under way to the client.
OnWire(s) == \E i \in 1..Len(wire) : wire[i].type = "event" /\ wire[i].seq = s

\* A frame waits for its acknowledgement.
InWindow(s) == \E k \in 1..Len(outstanding) : outstanding[k] = s

\* A frame that the server sent, or is about to send, in this session.
Sent(s) == s <= position /\ (pc = "send" => s < position)

\* Connection and session: a closed session hears no acknowledgement, and a
\* client without connection has nothing to read.
Connection ==
    /\ pc = "closed" => acks = <<>>
    /\ ~connected => pc = "closed" /\ wire = <<>>
    /\ pc # "integrity"

\* The window is in order, beyond the acknowledged position and up to the
\* position; the replay buffer goes on from there.
Window ==
    /\ acked <= position
    /\ \A k \in 1..Len(outstanding) :
          acked < outstanding[k] /\ outstanding[k] <= position /\ log[outstanding[k]]
    /\ \A j, k \in 1..Len(outstanding) : j < k => outstanding[j] < outstanding[k]
    /\ \A i \in 1..Len(buffer) : buffer[i] = position + i
    /\ pc \in {"running", "waiting"} => Len(outstanding) < MaxInFlight
    /\ pc = "send" => outstanding # <<>> /\ outstanding[Len(outstanding)] = position
    /\ pc = "waiting" => buffer = <<>>

\* Up to the cursor of a frame under way the client has seen every wanted event,
\* or will have by then.
WireInOrder ==
    \A i \in 1..Len(wire) :
        /\ wire[i].seq <= Len(log)
        /\ wire[i].type = "event" => wire[i].seq \in 1..Len(log) /\ log[wire[i].seq]
        /\ wire[i].type = "close" => i = Len(wire) /\ pc = "closed"
        /\ \A s \in 1..wire[i].seq :
              log[s] => s <= seen \/ \E j \in 1..i : wire[j].type = "event" /\ wire[j].seq = s

\* Up to the position too, but for the event about to be sent.
Delivered ==
    \A s \in 1..position : log[s] => s <= seen \/ OnWire(s) \/ (pc = "send" /\ s = position)

\* Frames and acknowledgements of this session are of positions it sent.
OfThisSession ==
    /\ \A i \in 1..Len(wire) : Sent(wire[i].seq)
    /\ \A f \in got : Sent(f.seq)
    /\ Sent(lastAck)
    /\ \A i \in 1..Len(acks) : acks[i].seq <= lastAck

\* An event frame that the client has not acknowledged, or whose acknowledgement
\* is under way, is in the window.
AcksExpected ==
    /\ \A i \in 1..Len(wire) : wire[i].type = "event" /\ wire[i].seq > lastAck => InWindow(wire[i].seq)
    /\ \A f \in got : f.type = "event" /\ f.seq > lastAck => InWindow(f.seq)
    /\ \A i \in 1..Len(acks) : acks[i].type = "event" =>
          InWindow(acks[i].seq) /\ \A j \in 1..(i - 1) : acks[j].seq < acks[i].seq

\* What a running session keeps.
Session == Window /\ Delivered /\ OfThisSession /\ AcksExpected

\* The inductive invariant.
Inv ==
    /\ TypeOK
    /\ Connection
    /\ WireInOrder
    /\ CursorNeverSkips
    /\ pc # "closed" => Session

-----------------------------------------------------------------------------
(* Types. *)

LiveType ==
    /\ log \in Seq(BOOLEAN) /\ Len(log) <= MaxEvents
    /\ elsewhere \subseteq relayed /\ relayed \subseteq 1..Len(log)
    /\ registered \in BOOLEAN /\ liveClosed \in BOOLEAN
    /\ after \in 0..Len(log) /\ queue \in Seq(0..Len(log)) /\ Len(queue) <= QueueCapacity

SubType ==
    /\ pc \in {"closed", "idle", "running", "waiting", "send", "integrity"}
    /\ position \in 0..Len(log) /\ acked \in 0..Len(log)
    /\ replayHead \in 0..Len(log) /\ deferred \in 0..Len(log)
    /\ buffer \in Seq(1..Len(log)) /\ Len(buffer) <= ReplayPageSize
    /\ outstanding \in Seq(1..Len(log)) /\ Len(outstanding) <= MaxInFlight

ClientType ==
    /\ connected \in BOOLEAN
    /\ seen \in 0..Len(log) /\ resume \in 0..Len(log) /\ lastAck \in 0..Len(log)
    /\ wire \in Seq(Frame) /\ acks \in Seq(Frame) /\ got \subseteq Frame

\* The type invariant is that of the broker, the subscription and the client.
LEMMA TypeParts == TypeOK <=> LiveType /\ SubType /\ ClientType
BY DEF TypeOK, LiveType, SubType, ClientType

LEMMA TypePartsNext == TypeOK' <=> LiveType' /\ SubType' /\ ClientType'
BY DEF TypeOK, LiveType, SubType, ClientType

\* A sequence over some positions is one over more.
LEMMA SeqMonotone ==
  ASSUME NEW a \in Nat, NEW m \in Nat, NEW n \in Nat, m <= n, NEW s \in Seq(a..m)
  PROVE  s \in Seq(a..n)
OBVIOUS

\* Frames on the wire, received, and in acknowledgements have a type and a number.
LEMMA FrameTypes ==
  ASSUME ClientType
  PROVE  /\ \A i \in 1..Len(wire) : wire[i] \in Frame /\ wire[i].seq \in Nat
         /\ \A i \in 1..Len(acks) : acks[i] \in Frame /\ acks[i].seq \in Nat
         /\ \A f \in got : f \in Frame /\ f.seq \in Nat
         /\ Len(wire) \in Nat /\ Len(acks) \in Nat /\ lastAck \in Nat /\ seen \in Nat /\ resume \in Nat
<1>1. /\ \A i \in 1..Len(wire) : wire[i] \in Frame
      /\ \A i \in 1..Len(acks) : acks[i] \in Frame
      /\ \A f \in got : f \in Frame
      /\ Len(wire) \in Nat /\ Len(acks) \in Nat
  BY DEF ClientType
<1>2. \A f \in Frame : f.seq \in Nat
  BY DEF Frame
<1> QED BY <1>1, <1>2 DEF ClientType

\* The parts that a step leaves alone.
LEMMA KeptParts ==
  ASSUME Inv
  PROVE  /\ UNCHANGED <<ledgerVars, liveVars>> => LiveType'
         /\ UNCHANGED <<log, pc, subVars>> => SubType'
         /\ UNCHANGED <<log, wire, acks, connected, clientVars>> => ClientType'
<1>1. LiveType /\ SubType /\ ClientType
  BY TypeParts DEF Inv
<1>2. UNCHANGED <<ledgerVars, liveVars>> => LiveType'
  BY <1>1 DEF LiveType, ledgerVars, liveVars
<1>3. UNCHANGED <<log, pc, subVars>> => SubType'
  BY <1>1 DEF SubType, subVars
<1>4. UNCHANGED <<log, wire, acks, connected, clientVars>> => ClientType'
  BY <1>1 DEF ClientType, clientVars
<1> QED BY <1>2, <1>3, <1>4

\* The positions of a running session.
LEMMA SessionNumbers ==
  ASSUME Inv, pc # "closed"
  PROVE  /\ Session /\ Len(log) \in Nat /\ position \in Nat /\ acked \in Nat
         /\ acked <= position /\ position <= Len(log)
         /\ pc = "send" => acked < position
         /\ \A s \in 1..position : s \in 1..Len(log)
<1>1. Session /\ LiveType /\ SubType
  BY TypeParts DEF Inv
<1>2. /\ Len(log) \in Nat /\ position \in 0..Len(log) /\ acked \in 0..Len(log) /\ acked <= position
  BY <1>1 DEF LiveType, SubType, Session, Window
<1>3. pc = "send" => acked < position
  <2> SUFFICES ASSUME pc = "send" PROVE acked < position
    OBVIOUS
  <2>1. outstanding # <<>> /\ outstanding[Len(outstanding)] = position
    BY <1>1 DEF Session, Window
  <2>2. Len(outstanding) \in 1..Len(outstanding)
    BY <1>1, <2>1 DEF SubType
  <2> QED BY <1>1, <2>1, <2>2 DEF Session, Window
<1> QED BY <1>1, <1>2, <1>3

\* What a step that changes neither ledger, wire nor client keeps.
LEMMA KeptWire ==
  ASSUME Inv, UNCHANGED <<log, wire, seen, resume>>, pc = "closed" => pc' = "closed"
  PROVE  WireInOrder' /\ CursorNeverSkips'
<1>1. CursorNeverSkips'
  BY DEF Inv, CursorNeverSkips
<1>2. WireInOrder'
  BY DEF Inv, WireInOrder
<1> QED BY <1>1, <1>2

-----------------------------------------------------------------------------
(* The ledger, the relay and the broker. *)

LEMMA InitInv == Init => Inv
<1> SUFFICES ASSUME Init PROVE Inv
  OBVIOUS
<1> USE DEF Init
<1>0. registered \in BOOLEAN /\ liveClosed \in BOOLEAN /\ connected \in BOOLEAN
  BY Zenon
<1>1. LiveType
  <2>1. log \in Seq(BOOLEAN) /\ Len(log) = 0 /\ queue \in Seq(0..Len(log)) /\ Len(queue) = 0
    OBVIOUS
  <2> QED BY <1>0, <2>1, StreamAssumption DEF LiveType
<1>2. SubType
  BY StreamAssumption DEF SubType, None
<1>3. ClientType
  <2>1. Len(log) = 0 /\ wire \in Seq(Frame) /\ acks \in Seq(Frame) /\ got \subseteq Frame
    OBVIOUS
  <2> QED BY <1>0, <2>1 DEF ClientType
<1>4. TypeOK
  BY <1>1, <1>2, <1>3, TypeParts
<1> QED BY <1>4 DEF Inv, Connection, WireInOrder, CursorNeverSkips

\* An event is committed: nothing is at its position yet.
LEMMA CommitInv == ASSUME Inv, Commit PROVE Inv'
<1> DEFINE n == Len(log)
<1>1. PICK wanted \in BOOLEAN : log' = Append(log, wanted)
  BY DEF Commit
<1>2. UNCHANGED <<relayed, elsewhere, liveVars, pc, subVars, wire, acks, connected, clientVars, drops>>
  BY DEF Commit
<1>3. LiveType /\ SubType /\ ClientType
  BY TypeParts DEF Inv
<1>4. /\ n \in Nat /\ Len(log') = n + 1 /\ Len(log') <= MaxEvents /\ log' \in Seq(BOOLEAN)
      /\ \A s \in 1..n : log'[s] = log[s]
      /\ 0..n \subseteq 0..Len(log') /\ 1..n \subseteq 1..Len(log')
  BY <1>1, <1>3, StreamAssumption DEF Commit, LiveType
<1>5. LiveType'
  <2>1. queue \in Seq(0..Len(log'))
    BY <1>3, <1>4, SeqMonotone DEF LiveType
  <2> QED BY <1>2, <1>3, <1>4, <2>1 DEF LiveType, liveVars
<1>6. SubType'
  <2>1. buffer \in Seq(1..Len(log')) /\ outstanding \in Seq(1..Len(log'))
    BY <1>3, <1>4, SeqMonotone DEF SubType
  <2> QED BY <1>2, <1>3, <1>4, <2>1 DEF SubType, subVars
<1>7. ClientType'
  BY <1>2, <1>3, <1>4 DEF ClientType, clientVars
<1>8. WireInOrder'
  <2> SUFFICES ASSUME NEW i \in 1..Len(wire)
               PROVE  /\ wire[i].seq <= Len(log')
                      /\ wire[i].type = "event" => wire[i].seq \in 1..Len(log') /\ log'[wire[i].seq]
                      /\ wire[i].type = "close" => i = Len(wire) /\ pc = "closed"
                      /\ \A s \in 1..wire[i].seq :
                            log'[s] => s <= seen \/ \E j \in 1..i : wire[j].type = "event" /\ wire[j].seq = s
    BY <1>2 DEF WireInOrder, clientVars
  <2>1. wire[i].seq \in Nat /\ wire[i].seq <= n
    BY <1>3, FrameTypes DEF Inv, WireInOrder
  <2>2. wire[i].seq <= Len(log') /\ \A s \in 1..wire[i].seq : s \in 1..n
    BY <1>4, <2>1
  <2> QED BY <1>4, <2>2 DEF Inv, WireInOrder
<1>9. CursorNeverSkips'
  <2>1. \A s \in 1..resume : s \in 1..n
    BY <1>3, <1>4 DEF ClientType
  <2> QED BY <1>2, <1>4, <2>1 DEF Inv, CursorNeverSkips, clientVars
<1>10. ASSUME pc' # "closed" PROVE Session'
  <2>1. Session
    BY <1>2, <1>10 DEF Inv
  <2>2. \A s \in 1..position : s \in 1..n
    BY <1>3, <1>4 DEF SubType
  <2>3. \A k \in 1..Len(outstanding) : outstanding[k] \in 1..n
    BY <1>3 DEF SubType
  <2>4. Window'
    BY <1>2, <1>4, <2>1, <2>3 DEF Session, Window, subVars
  <2>5. Delivered'
    BY <1>2, <1>4, <2>1, <2>2 DEF Session, Delivered, OnWire, subVars, clientVars
  <2>6. OfThisSession' /\ AcksExpected'
    BY <1>2, <2>1 DEF Session, OfThisSession, AcksExpected, Sent, InWindow, subVars, clientVars
  <2> QED BY <2>4, <2>5, <2>6 DEF Session
<1>11. Connection'
  BY <1>2 DEF Inv, Connection
<1> QED BY <1>5, <1>6, <1>7, <1>8, <1>9, <1>10, <1>11, TypePartsNext DEF Inv

\* A step of relay and broker is none of the session's.
LEMMA LiveInv ==
  ASSUME Inv, LiveType', UNCHANGED <<log, pc, subVars, wire, acks, connected, clientVars>>
  PROVE  Inv'
<1>1. TypeOK'
  BY KeptParts, TypePartsNext
<1>2. WireInOrder' /\ CursorNeverSkips'
  BY KeptWire DEF clientVars
<1>3. Connection'
  BY DEF Inv, Connection
<1>4. Session => Session'
  BY DEF Session, Window, Delivered, OfThisSession, AcksExpected, OnWire, InWindow, Sent, subVars, clientVars
<1> QED BY <1>1, <1>2, <1>3, <1>4 DEF Inv

\* Events are published, here or elsewhere; a full queue is closed.
LEMMA RelayInv ==
  ASSUME Inv, NEW s \in 1..MaxEvents, Relay(s) \/ Republish(s) \/ RelayElsewhere(s)
  PROVE  Inv'
<1>1. LiveType
  BY TypeParts DEF Inv
<1>2. s \in 1..Len(log)
  BY <1>1 DEF Relay, Republish, RelayElsewhere, LiveType
<1>3. CASE RelayElsewhere(s)
  <2>1. LiveType'
    BY <1>1, <1>2, <1>3 DEF RelayElsewhere, LiveType, liveVars
  <2> QED BY <1>3, <2>1, LiveInv DEF RelayElsewhere
<1>4. CASE Publish(s)
  <2>1. registered' \in BOOLEAN /\ liveClosed' \in BOOLEAN /\ after' \in 0..Len(log)
    BY <1>1, <1>4 DEF Publish, Offer, LiveType, liveVars
  <2>2. queue' \in Seq(0..Len(log)) /\ Len(queue') <= QueueCapacity
    <3>1. CASE UNCHANGED queue
      BY <1>1, <3>1 DEF LiveType
    <3>2. CASE Len(queue) < QueueCapacity /\ queue' = Append(queue, s)
      BY <1>1, <1>2, <3>2, StreamAssumption DEF LiveType
    <3>3. CASE ~(Len(queue) < QueueCapacity) /\ queue' = Append(Tail(queue), CLOSED)
      <4>1. Len(queue) = QueueCapacity /\ queue # <<>> /\ CLOSED \in 0..Len(log)
        BY <1>1, <3>3, StreamAssumption DEF LiveType, CLOSED
      <4>2. Tail(queue) \in Seq(0..Len(log)) /\ Len(Tail(queue)) = Len(queue) - 1
        BY <1>1, <4>1 DEF LiveType
      <4> QED BY <1>1, <3>3, <4>1, <4>2, StreamAssumption
    <3> QED BY <1>4, <3>1, <3>2, <3>3 DEF Publish, Offer, liveVars
  <2>3. LiveType'
    BY <1>1, <1>2, <1>4, <2>1, <2>2 DEF Publish, LiveType
  <2> QED BY <1>4, <2>3, LiveInv DEF Publish
<1> QED BY <1>3, <1>4 DEF Relay, Republish

-----------------------------------------------------------------------------
(* Opening and ending a session. *)

\* A session opens at a cursor the client holds, or at the beginning.
LEMMA OpenInv == ASSUME Inv, Open \/ OpenAfresh PROVE Inv'
<1>1. PICK start \in {0, resume} : OpenAt(start)
  BY DEF Open, OpenAfresh
<1>2. LiveType /\ SubType /\ ClientType
  BY TypeParts DEF Inv
<1>3. start \in 0..Len(log) /\ Len(log) \in 0..Len(log) /\ \A s \in 1..start : log[s] => s <= seen
  BY <1>2 DEF LiveType, ClientType, Inv, CursorNeverSkips
<1>4. wire = <<>> /\ acks = <<>> /\ pc = "closed"
  BY <1>1 DEF OpenAt, Inv, Connection
<1>5. /\ position' = start /\ acked' = start /\ after' = start /\ replayHead' = Len(log)
      /\ queue' = <<>> /\ buffer' = <<>> /\ outstanding' = <<>> /\ deferred' = None
      /\ pc' = "idle" /\ got' = {} /\ lastAck' = 0
      /\ UNCHANGED <<log, relayed, elsewhere, wire, acks, seen, resume>>
  BY <1>1 DEF OpenAt, ledgerVars
<1>6. registered' \in BOOLEAN /\ liveClosed' \in BOOLEAN /\ connected' \in BOOLEAN /\ connected'
  BY <1>1, Zenon DEF OpenAt
<1>7. LiveType'
  BY <1>2, <1>3, <1>5, <1>6, StreamAssumption DEF LiveType
<1>8. SubType'
  BY <1>2, <1>3, <1>5, StreamAssumption DEF SubType, None
<1>9. ClientType'
  BY <1>2, <1>3, <1>5, <1>6 DEF ClientType
<1>10. WireInOrder' /\ CursorNeverSkips' /\ Connection'
  BY <1>4, <1>5, <1>6 DEF Inv, WireInOrder, CursorNeverSkips, Connection
<1>11. Window' /\ AcksExpected'
  BY <1>2, <1>3, <1>4, <1>5 DEF Window, AcksExpected, LiveType
<1>12. Delivered'
  BY <1>3, <1>5 DEF Delivered
<1>13. OfThisSession'
  BY <1>3, <1>4, <1>5 DEF OfThisSession, Sent
<1> QED BY <1>7, <1>8, <1>9, <1>10, <1>11, <1>12, <1>13, TypePartsNext DEF Inv, Session

\* A frame is appended to the wire: its cursor is covered.
LEMMA WireAppend ==
  ASSUME Inv, NEW f \in Frame, wire' = Append(wire, f), UNCHANGED <<log, seen>>,
         pc # "closed", f.type = "close" => pc' = "closed",
         f.seq <= Len(log), f.type = "event" => f.seq \in 1..Len(log) /\ log[f.seq],
         \A s \in 1..f.seq : log[s] => s <= seen \/ OnWire(s) \/ (f.type = "event" /\ s = f.seq)
  PROVE  /\ WireInOrder' /\ wire' \in Seq(Frame)
         /\ Len(wire') = Len(wire) + 1 /\ wire'[Len(wire) + 1] = f
         /\ \A i \in 1..Len(wire) : wire'[i] = wire[i]
         /\ \A i \in 1..Len(wire') : i \in 1..Len(wire) \/ i = Len(wire) + 1
<1> DEFINE n == Len(wire) + 1
<1>1. wire \in Seq(Frame) /\ Len(wire) \in Nat
  BY DEF Inv, TypeOK
<1>2. /\ Len(wire') = n /\ wire'[n] = f /\ wire' \in Seq(Frame)
      /\ \A i \in 1..Len(wire) : wire'[i] = wire[i] /\ i \in 1..n
      /\ \A i \in 1..n : i \in 1..Len(wire) \/ i = n
      /\ n \in 1..n
  BY <1>1
<1>3. \A i \in 1..Len(wire) : wire[i].type # "close"
  BY DEF Inv, WireInOrder
<1>4. ASSUME NEW i \in 1..n
      PROVE  /\ wire'[i].seq <= Len(log)
             /\ wire'[i].type = "event" => wire'[i].seq \in 1..Len(log) /\ log[wire'[i].seq]
             /\ wire'[i].type = "close" => i = n /\ pc' = "closed"
             /\ \A s \in 1..wire'[i].seq :
                   log[s] => s <= seen \/ \E j \in 1..i : wire'[j].type = "event" /\ wire'[j].seq = s
  <2>1. CASE i = n
    <3>1. \A s : OnWire(s) => \E j \in 1..n : wire'[j].type = "event" /\ wire'[j].seq = s
      BY <1>2 DEF OnWire
    <3> QED BY <1>2, <2>1, <3>1
  <2>2. CASE i \in 1..Len(wire)
    <3>1. \A j \in 1..i : j \in 1..Len(wire)
      BY <1>1, <2>2
    <3> QED BY <1>2, <1>3, <2>2, <3>1 DEF Inv, WireInOrder
  <2> QED BY <1>2, <2>1, <2>2
<1>5. WireInOrder'
  BY <1>2, <1>4 DEF WireInOrder
<1> QED BY <1>2, <1>5

\* A session ends on the server; the client still reads what is on the wire, and
\* may resume from the acknowledged position.
LEMMA EndInv ==
  ASSUME Inv, pc # "closed", EndSession, UNCHANGED <<ledgerVars, subVars, connected, clientVars>>
  PROVE  Inv'
<1>1. LiveType /\ SubType /\ ClientType /\ Session
  BY TypeParts DEF Inv
<1>2. /\ pc' = "closed" /\ wire' = Append(wire, [type |-> "close", seq |-> acked]) /\ acks' = <<>>
      /\ queue' = <<>> /\ UNCHANGED <<after, log, relayed, elsewhere, seen, resume, got, lastAck>>
  BY DEF EndSession, Unsubscribe, ledgerVars, clientVars
<1>3. registered' \in BOOLEAN /\ liveClosed' \in BOOLEAN
  BY Zenon DEF EndSession, Unsubscribe
<1>4. PICK f \in Frame : f = [type |-> "close", seq |-> acked]
  <2>1. [type |-> "close", seq |-> acked] \in Frame
    BY SessionNumbers DEF Frame
  <2> QED BY <2>1
<1>5. f.type = "close" /\ f.seq = acked
  BY <1>4
<1>6. acked <= Len(log) /\ \A s \in 1..acked : log[s] => s <= seen \/ OnWire(s)
  <2>1. \A s \in 1..acked : s \in 1..position /\ (pc = "send" => s # position)
    BY SessionNumbers
  <2>2. acked <= Len(log)
    BY SessionNumbers
  <2> QED BY <1>1, <2>1, <2>2 DEF Session, Delivered
<1>7. WireInOrder' /\ wire' \in Seq(Frame) /\ Len(wire') = Len(wire) + 1
  <2>1. f.type # "event"
    BY <1>5
  <2> QED BY <1>2, <1>4, <1>5, <1>6, <2>1, WireAppend
<1>8. LiveType'
  BY <1>1, <1>2, <1>3, StreamAssumption DEF LiveType
<1>9. SubType'
  BY <1>1, <1>2 DEF SubType, subVars
<1>10. ClientType'
  BY <1>1, <1>2, <1>7 DEF ClientType
<1>11. CursorNeverSkips'
  BY <1>2 DEF Inv, CursorNeverSkips
<1>12. Connection'
  BY <1>2 DEF Inv, Connection
<1> QED BY <1>2, <1>7, <1>8, <1>9, <1>10, <1>11, <1>12, TypePartsNext DEF Inv

LEMMA EndingInv == ASSUME Inv, WindowFull \/ SlowConsumer \/ RefuseAck \/ CloseRequested PROVE Inv'
<1>1. /\ pc # "closed" /\ EndSession /\ UNCHANGED <<ledgerVars, subVars, connected, clientVars>>
  BY DEF WindowFull, SlowConsumer, RefuseAck, CloseRequested, ReceivesControls
<1> QED BY <1>1, EndInv

\* The connection breaks.
LEMMA DisconnectInv == ASSUME Inv, Disconnect PROVE Inv'
<1>1. LiveType /\ SubType /\ ClientType
  BY TypeParts DEF Inv
<1>2. /\ pc' = "closed" /\ wire' = <<>> /\ acks' = <<>> /\ queue' = <<>>
      /\ UNCHANGED <<after, log, relayed, elsewhere, seen, resume, got, lastAck, subVars>>
  BY DEF Disconnect, Unsubscribe, ledgerVars, clientVars
<1>3. registered' \in BOOLEAN /\ liveClosed' \in BOOLEAN /\ connected' \in BOOLEAN
  BY Zenon DEF Disconnect, Unsubscribe
<1>4. LiveType'
  BY <1>1, <1>2, <1>3, StreamAssumption DEF LiveType
<1>5. SubType'
  BY <1>1, <1>2 DEF SubType, subVars
<1>6. ClientType'
  BY <1>1, <1>2, <1>3 DEF ClientType
<1>7. WireInOrder' /\ CursorNeverSkips' /\ Connection'
  BY <1>2 DEF Inv, WireInOrder, CursorNeverSkips, Connection
<1> QED BY <1>2, <1>4, <1>5, <1>6, <1>7, TypePartsNext DEF Inv

-----------------------------------------------------------------------------
(* DurableSubscription.__anext__ *)

\* A step of __anext__ that takes no event.
LEMMA StayInv ==
  ASSUME Inv, pc \in {"idle", "running", "waiting"}, pc' \in {"running", "waiting"},
         UNCHANGED <<log, position, acked, outstanding, wire, acks, connected, clientVars>>,
         LiveType', SubType', Len(outstanding) < MaxInFlight,
         \A i \in 1..Len(buffer') : buffer'[i] = position + i, pc' = "waiting" => buffer' = <<>>
  PROVE  Inv'
<1>1. ClientType'
  BY KeptParts
<1>2. WireInOrder' /\ CursorNeverSkips'
  BY KeptWire DEF clientVars
<1>3. Connection'
  BY DEF Inv, Connection
<1>4. Session
  BY DEF Inv
<1>5. Window'
  BY <1>4 DEF Session, Window
<1>6. Delivered' /\ OfThisSession' /\ AcksExpected'
  BY <1>4 DEF Session, Delivered, OfThisSession, AcksExpected, OnWire, InWindow, Sent, clientVars
<1> QED BY <1>1, <1>2, <1>3, <1>5, <1>6, TypePartsNext DEF Inv, Session

\* The next event is taken: it goes into the window, or is filtered out.
LEMMA AcceptInv ==
  ASSUME Inv, pc \in {"running", "waiting"}, NEW e \in 1..Len(log), e = position + 1, Accept(e),
         UNCHANGED <<log, wire, acks, connected, clientVars>>, LiveType',
         replayHead' \in 0..Len(log), deferred' \in 0..Len(log),
         buffer' \in Seq(1..Len(log)), Len(buffer') <= ReplayPageSize,
         \A i \in 1..Len(buffer') : buffer'[i] = e + i
  PROVE  Inv'
<1>1. Session /\ SubType /\ ClientType /\ Len(outstanding) < MaxInFlight
  BY TypeParts DEF Inv, Session, Window
<1>2. /\ position \in Nat /\ acked \in Nat /\ acked <= position /\ Len(log) \in Nat
      /\ \A s \in 1..e : s \in 1..position \/ s = e
  BY SessionNumbers
<1>3. position' = e /\ pc' \in {"send", "running"} /\ acked' \in {acked, e}
  BY DEF Accept
<1>4. \A s \in Nat : Sent(s) => Sent(s)'
  BY <1>2, <1>3 DEF Sent
<1>5. ClientType'
  BY KeptParts
<1>6. WireInOrder' /\ CursorNeverSkips' /\ Connection'
  BY <1>3, KeptWire DEF clientVars, Inv, Connection
<1>7. OfThisSession'
  BY <1>1, <1>4, FrameTypes DEF Session, OfThisSession, clientVars
<1>8. CASE log[e]
  <2>1. outstanding' = Append(outstanding, e) /\ pc' = "send" /\ UNCHANGED acked
    BY <1>8 DEF Accept
  <2> DEFINE n == Len(outstanding) + 1
  <2>2. /\ outstanding' \in Seq(1..Len(log)) /\ Len(outstanding') = n /\ outstanding'[n] = e
        /\ Len(outstanding) \in Nat /\ n <= MaxInFlight
        /\ \A k \in 1..Len(outstanding) : outstanding'[k] = outstanding[k] /\ k \in 1..n /\ k < n
        /\ \A k \in 1..n : k \in 1..Len(outstanding) \/ k = n
    <3>1. outstanding \in Seq(1..Len(log)) /\ Len(outstanding) \in Nat
      BY <1>1 DEF SubType
    <3>2. /\ outstanding' \in Seq(1..Len(log)) /\ Len(outstanding') = n /\ outstanding'[n] = e
          /\ \A k \in 1..Len(outstanding) : outstanding'[k] = outstanding[k]
      BY <2>1, <3>1
    <3>3. MaxInFlight \in Nat
      BY StreamAssumption
    <3>4. n <= MaxInFlight
      BY <1>1, <3>1, <3>3
    <3>5. /\ \A k \in 1..Len(outstanding) : k \in 1..n /\ k < n
          /\ \A k \in 1..n : k \in 1..Len(outstanding) \/ k = n
      BY <3>1
    <3> QED BY <3>1, <3>2, <3>4, <3>5
  <2> HIDE DEF n
  <2>3. SubType'
    BY <1>1, <1>3, <2>1, <2>2 DEF SubType
  <2>4. /\ outstanding' # <<>>
        /\ \A k \in 1..n : acked < outstanding'[k] /\ outstanding'[k] <= e /\ log[outstanding'[k]]
    <3>1. \A k \in 1..Len(outstanding) :
             /\ acked < outstanding[k] /\ outstanding[k] <= position /\ log[outstanding[k]]
             /\ outstanding[k] \in Nat
      BY <1>1 DEF Session, Window, SubType
    <3>2. acked < e /\ e <= e /\ \A k \in 1..Len(outstanding) : outstanding[k] <= e
      BY <1>2, <3>1
    <3>3. Len(outstanding') # 0
      BY <2>2 DEF n
    <3>4. outstanding' # <<>>
      BY <3>3
    <3>5. ASSUME NEW k \in 1..n
          PROVE  acked < outstanding'[k] /\ outstanding'[k] <= e /\ log[outstanding'[k]]
      <4>1. CASE k = n
        BY <1>8, <2>2, <3>2, <4>1
      <4>2. CASE k \in 1..Len(outstanding)
        BY <2>2, <3>1, <3>2, <4>2
      <4> QED BY <2>2, <4>1, <4>2
    <3> QED BY <3>4, <3>5
  <2>5. \A j, k \in 1..n : j < k => outstanding'[j] < outstanding'[k]
    <3>1. \A k \in 1..Len(outstanding) : outstanding[k] \in Nat /\ outstanding[k] <= position
      BY <1>1 DEF Session, Window, SubType
    <3>2. ASSUME NEW j \in 1..n, NEW k \in 1..n, j < k PROVE outstanding'[j] < outstanding'[k]
      <4>1. j \in 1..Len(outstanding)
        BY <2>2, <3>2 DEF n
      <4>2. CASE k = n
        BY <1>2, <2>2, <3>1, <4>1, <4>2
      <4>3. CASE k \in 1..Len(outstanding)
        BY <1>1, <2>2, <3>2, <4>1, <4>3 DEF Session, Window
      <4> QED BY <2>2, <4>2, <4>3
    <3> QED BY <3>2
  <2>6. Window'
    <3>1. acked <= e
      BY <1>2
    <3> QED BY <1>3, <2>1, <2>2, <2>4, <2>5, <3>1 DEF Window
  <2>7. Delivered'
    BY <1>1, <1>2, <1>3, <2>1 DEF Session, Delivered, OnWire, clientVars
  <2>8. \A s : InWindow(s) => InWindow(s)'
    BY <2>2 DEF InWindow
  <2>9. AcksExpected'
    BY <1>1, <2>8 DEF Session, AcksExpected, clientVars
  <2> QED BY <1>3, <1>5, <1>6, <1>7, <2>3, <2>6, <2>7, <2>9, TypePartsNext DEF Inv, Session
<1>9. CASE ~log[e]
  <2>1. /\ UNCHANGED outstanding /\ pc' = "running"
        /\ acked' = IF outstanding = <<>> THEN e ELSE acked
    BY <1>9 DEF Accept
  <2>2. SubType'
    BY <1>1, <1>3, <2>1 DEF SubType
  <2>3. Window'
    <3>1. CASE outstanding = <<>>
      BY <1>1, <1>2, <1>3, <2>1, <3>1 DEF Session, Window
    <3>2. CASE outstanding # <<>>
      <4>1. \A k \in 1..Len(outstanding) : outstanding[k] \in Nat
        BY <1>1 DEF SubType
      <4> QED BY <1>1, <1>2, <1>3, <2>1, <3>2, <4>1 DEF Session, Window
    <3> QED BY <3>1, <3>2
  <2>4. Delivered'
    BY <1>1, <1>2, <1>3, <1>9, <2>1 DEF Session, Delivered, OnWire, clientVars
  <2>5. AcksExpected'
    BY <1>1, <2>1 DEF Session, AcksExpected, InWindow, clientVars
  <2> QED BY <1>3, <1>5, <1>6, <1>7, <2>2, <2>3, <2>4, <2>5, TypePartsNext DEF Inv, Session
<1> QED BY <1>8, <1>9

\* The transport asks, the subscription waits.
LEMMA CallNextInv == ASSUME Inv, CallNext \/ Wait PROVE Inv'
<1>1. /\ pc \in {"idle", "running", "waiting"} /\ pc' \in {"running", "waiting"}
      /\ UNCHANGED <<ledgerVars, liveVars, subVars, wire, acks, connected, clientVars>>
      /\ pc = "running" \/ Len(outstanding) < MaxInFlight
      /\ pc' = "waiting" => buffer = <<>>
  BY DEF CallNext, Wait, Replayed
<1>2. LiveType'
  BY <1>1, KeptParts
<1>3. SubType'
  BY <1>1, TypeParts DEF Inv, SubType, subVars, ledgerVars
<1>4. Session
  BY <1>1 DEF Inv
<1>5. Len(outstanding) < MaxInFlight /\ \A i \in 1..Len(buffer) : buffer[i] = position + i
  BY <1>1, <1>4 DEF Session, Window
<1> QED BY <1>1, <1>2, <1>3, <1>5, StayInv DEF subVars, ledgerVars

\* A page of the ledger is read: it goes on from the position and is not empty.
LEMMA LoadPageInv == ASSUME Inv, LoadPage PROVE Inv'
<1>1. /\ pc = "running" /\ buffer' = Page /\ position < replayHead
      /\ UNCHANGED <<ledgerVars, liveVars, position, acked, replayHead, outstanding, deferred,
                     wire, acks, connected, clientVars>>
      /\ pc' = IF Page = <<>> THEN "integrity" ELSE "running"
  BY DEF LoadPage
<1>2. SubType /\ LiveType
  BY TypeParts DEF Inv
<1> DEFINE last == IF replayHead < Len(log) THEN replayHead ELSE Len(log)
           size == IF last - position < ReplayPageSize THEN last - position ELSE ReplayPageSize
<1>3. /\ size \in Nat /\ size >= 1 /\ size <= ReplayPageSize /\ position + size <= Len(log)
      /\ position \in Nat /\ Len(log) \in Nat
  <2>1. /\ position \in Nat /\ replayHead \in Nat /\ Len(log) \in Nat
        /\ position < replayHead /\ replayHead <= Len(log)
    BY <1>1, <1>2 DEF SubType, LiveType
  <2>2. ReplayPageSize \in Nat /\ ReplayPageSize >= 1
    BY StreamAssumption
  <2>3. last = replayHead
    BY <2>1
  <2> HIDE DEF last
  <2> QED BY <2>1, <2>2, <2>3
<1>4. Page = [i \in 1..size |-> position + i]
  BY DEF Page
<1> HIDE DEF size
<1>5. /\ Page \in Seq(1..Len(log)) /\ Len(Page) = size /\ Page # <<>>
      /\ \A i \in 1..Len(Page) : Page[i] = position + i
  <2>1. \A i \in 1..size : position + i \in 1..Len(log)
    BY <1>3
  <2>2. Page \in Seq(1..Len(log)) /\ Len(Page) = size
    BY <1>3, <1>4, <2>1
  <2> QED BY <1>3, <1>4, <2>2
<1>6. SubType'
  BY <1>1, <1>2, <1>3, <1>5 DEF SubType, ledgerVars
<1>7. LiveType'
  BY <1>1, KeptParts
<1>8. Len(outstanding) < MaxInFlight
  BY <1>1 DEF Inv, Session, Window
<1> QED BY <1>1, <1>5, <1>6, <1>7, <1>8, StayInv DEF ledgerVars

\* The next event of the replay buffer.
LEMMA PopReplayInv == ASSUME Inv, PopReplay PROVE Inv'
<1>1. /\ pc = "running" /\ buffer # <<>> /\ buffer' = Tail(buffer) /\ Accept(Head(buffer))
      /\ UNCHANGED <<ledgerVars, liveVars, replayHead, deferred, wire, acks, connected, clientVars>>
  BY DEF PopReplay
<1>2. SubType /\ LiveType /\ Session
  BY <1>1, TypeParts DEF Inv
<1>3. /\ buffer \in Seq(1..Len(log)) /\ Len(buffer) \in Nat /\ Len(buffer) >= 1 /\ position \in Nat
      /\ Len(buffer) <= ReplayPageSize
      /\ \A i \in 1..Len(buffer) : buffer[i] = position + i
  BY <1>1, <1>2 DEF SubType, LiveType, Session, Window
<1>4. PICK e \in 1..Len(log) : e = Head(buffer) /\ e = position + 1
  BY <1>1, <1>3
<1>5. /\ buffer' \in Seq(1..Len(log)) /\ Len(buffer') = Len(buffer) - 1
      /\ \A i \in 1..Len(buffer') : buffer'[i] = buffer[i + 1] /\ i + 1 \in 1..Len(buffer)
  BY <1>1, <1>3
<1>6. Len(buffer') <= ReplayPageSize /\ \A i \in 1..Len(buffer') : buffer'[i] = e + i
  <2>1. ReplayPageSize \in Nat
    BY StreamAssumption
  <2>2. Len(buffer') <= ReplayPageSize
    BY <1>3, <1>5, <2>1
  <2>3. \A i \in 1..Len(buffer') : buffer'[i] = position + (i + 1)
    BY <1>3, <1>5
  <2>4. \A i \in 1..Len(buffer') : buffer'[i] = e + i
    BY <1>3, <1>4, <1>5, <2>3
  <2> QED BY <2>2, <2>4
<1>7. LiveType' /\ replayHead' \in 0..Len(log) /\ deferred' \in 0..Len(log)
  BY <1>1, <1>2, KeptParts DEF SubType
<1> QED BY <1>1, <1>4, <1>5, <1>6, <1>7, AcceptInv DEF ledgerVars

\* A live event is dropped, taken up after what is missing, or accepted.
LEMMA TakeLiveInv ==
  ASSUME Inv, pc \in {"running", "waiting"}, buffer = <<>>, NEW e \in 1..Len(log), TakeLive(e),
         LiveType', UNCHANGED <<log, buffer, wire, acks, connected, clientVars>>
  PROVE  Inv'
<1>1. SubType /\ Session /\ Len(outstanding) < MaxInFlight /\ Len(log) \in Nat /\ position \in Nat
  BY SessionNumbers, TypeParts DEF Inv, Session, Window
<1>2. buffer' \in Seq(1..Len(log)) /\ Len(buffer') = 0 /\ Len(buffer') <= ReplayPageSize
  BY StreamAssumption
<1>3. CASE e = position + 1
  <2>1. Accept(e) /\ replayHead' \in 0..Len(log) /\ deferred' \in 0..Len(log)
    BY <1>1, <1>3 DEF TakeLive, SubType, None
  <2> QED BY <1>2, <1>3, <2>1, AcceptInv
<1>4. CASE e # position + 1
  <2>1. /\ pc' = "running" /\ UNCHANGED <<position, acked, outstanding>>
        /\ replayHead' \in 0..Len(log) /\ deferred' \in 0..Len(log)
    BY <1>1, <1>4 DEF TakeLive, SubType, None
  <2>2. SubType'
    BY <1>1, <1>2, <2>1 DEF SubType
  <2> QED BY <1>1, <1>2, <2>1, <2>2, StayInv
<1> QED BY <1>3, <1>4

LEMMA TakeDeferredInv == ASSUME Inv, TakeDeferred PROVE Inv'
<1>1. /\ pc = "running" /\ buffer = <<>> /\ deferred # 0 /\ TakeLive(deferred)
      /\ UNCHANGED <<ledgerVars, liveVars, buffer, wire, acks, connected, clientVars>>
  BY DEF TakeDeferred, Replayed, None
<1>2. PICK e \in 1..Len(log) : e = deferred
  BY <1>1, TypeParts DEF Inv, SubType, LiveType
<1> QED BY <1>1, <1>2, KeptParts, TakeLiveInv DEF ledgerVars

LEMMA DequeueInv == ASSUME Inv, Dequeue PROVE Inv'
<1>1. /\ pc \in {"running", "waiting"}
      /\ pc = "running" => buffer = <<>>
      /\ queue # <<>> /\ Head(queue) # 0 /\ queue' = Tail(queue) /\ after' = Head(queue)
      /\ TakeLive(Head(queue))
      /\ UNCHANGED <<ledgerVars, registered, liveClosed, buffer, wire, acks, connected, clientVars>>
  BY DEF Dequeue, Replayed, CLOSED
<1>2. LiveType /\ Session
  BY <1>1, TypeParts DEF Inv
<1>3. buffer = <<>>
  BY <1>1, <1>2 DEF Session, Window
<1>4. PICK e \in 1..Len(log) : e = Head(queue)
  BY <1>1, <1>2 DEF LiveType
<1>5. LiveType'
  <2>1. queue' \in Seq(0..Len(log)) /\ Len(queue') = Len(queue) - 1 /\ Len(queue) \in Nat
    BY <1>1, <1>2 DEF LiveType
  <2>2. Len(queue') <= QueueCapacity
    BY <1>2, <2>1, StreamAssumption DEF LiveType
  <2> QED BY <1>1, <1>2, <1>4, <2>1, <2>2 DEF LiveType, ledgerVars
<1> QED BY <1>1, <1>3, <1>4, <1>5, TakeLiveInv DEF ledgerVars

-----------------------------------------------------------------------------
(* The transport loop. *)

\* A frame goes out: an event of the window, or a heartbeat.
LEMMA SendInv ==
  ASSUME Inv, pc \in {"send", "waiting"}, pc' \in {"idle", "waiting"}, pc' = "waiting" => pc = "waiting",
         NEW f \in Frame, wire' = Append(wire, f), f.type # "close", f.seq <= position,
         f.type = "event" => InWindow(f.seq),
         \A s \in 1..position : log[s] => s <= seen \/ OnWire(s) \/ (f.type = "event" /\ s = f.seq),
         UNCHANGED <<ledgerVars, liveVars, subVars, acks, connected, clientVars>>
  PROVE  Inv'
<1>1. LiveType /\ SubType /\ ClientType /\ Session
  BY TypeParts DEF Inv
<1>2. /\ f.seq \in Nat /\ position \in Nat /\ position <= Len(log) /\ Len(log) \in Nat
      /\ UNCHANGED <<log, position, acked, buffer, outstanding, seen, resume, got, lastAck>>
  BY SessionNumbers DEF Frame, ledgerVars, subVars, clientVars
<1>3. /\ f.seq <= Len(log) /\ \A s \in 1..f.seq : s \in 1..position
      /\ f.type = "event" => f.seq \in 1..Len(log) /\ log[f.seq]
  <2>1. f.seq <= Len(log) /\ \A s \in 1..f.seq : s \in 1..position
    BY <1>2
  <2>2. ASSUME InWindow(f.seq) PROVE f.seq \in 1..Len(log) /\ log[f.seq]
    BY <1>1, <2>2 DEF InWindow, SubType, Session, Window
  <2> QED BY <2>1, <2>2
<1>4. /\ WireInOrder' /\ wire' \in Seq(Frame)
      /\ Len(wire') = Len(wire) + 1 /\ wire'[Len(wire) + 1] = f
      /\ \A i \in 1..Len(wire) : wire'[i] = wire[i]
      /\ \A i \in 1..Len(wire') : i \in 1..Len(wire) \/ i = Len(wire) + 1
  BY <1>2, <1>3, WireAppend
<1>5. LiveType'
  BY KeptParts
<1>6. SubType'
  BY <1>1 DEF SubType, ledgerVars, subVars
<1>7. ClientType'
  BY <1>1, <1>2, <1>4 DEF ClientType
<1>8. CursorNeverSkips' /\ Connection'
  BY <1>2 DEF Inv, CursorNeverSkips, Connection
<1>9. Window'
  BY <1>1, <1>2 DEF Session, Window
<1>10. Delivered'
  <2>1. Len(wire) \in Nat /\ Len(wire) + 1 \in 1..Len(wire') /\ \A i \in 1..Len(wire) : i \in 1..Len(wire')
    BY <1>1, <1>4, FrameTypes
  <2>2. \A s : OnWire(s) => OnWire(s)'
    BY <1>4, <2>1 DEF OnWire
  <2>3. f.type = "event" => OnWire(f.seq)'
    BY <1>2, <1>4, <2>1 DEF OnWire
  <2> QED BY <1>2, <2>2, <2>3 DEF Delivered
<1>11. OfThisSession'
  <2>1. \A i \in 1..Len(wire) : wire[i].seq <= position
    BY <1>1 DEF Session, OfThisSession, Sent
  <2>2. \A i \in 1..Len(wire') : wire'[i].seq <= position
    BY <1>4, <2>1
  <2>3. (\A g \in got : g.seq <= position) /\ lastAck <= position /\ \A i \in 1..Len(acks) : acks[i].seq <= lastAck
    BY <1>1 DEF Session, OfThisSession, Sent
  <2> QED BY <1>2, <2>2, <2>3 DEF OfThisSession, Sent
<1>12. AcksExpected'
  <2>1. \A s : InWindow(s)' <=> InWindow(s)
    BY <1>2 DEF InWindow
  <2>2. \A i \in 1..Len(wire') : wire'[i].type = "event" /\ wire'[i].seq > lastAck => InWindow(wire'[i].seq)
    BY <1>1, <1>4 DEF Session, AcksExpected
  <2> QED BY <1>1, <1>2, <2>1, <2>2 DEF Session, AcksExpected
<1> QED BY <1>4, <1>5, <1>6, <1>7, <1>8, <1>9, <1>10, <1>11, <1>12, TypePartsNext DEF Inv, Session

\* The event taken last is sent.
LEMMA SendEventInv == ASSUME Inv, SendEvent PROVE Inv'
<1>1. /\ pc = "send" /\ pc' = "idle" /\ wire' = Append(wire, [type |-> "event", seq |-> Last(outstanding)])
      /\ UNCHANGED <<ledgerVars, liveVars, subVars, acks, connected, clientVars>>
  BY DEF SendEvent
<1>2. Session /\ SubType /\ position \in Nat
  BY <1>1, SessionNumbers, TypeParts DEF Inv
<1>3. Last(outstanding) = position /\ InWindow(position)
  <2>1. outstanding # <<>> /\ outstanding[Len(outstanding)] = position
    BY <1>1, <1>2 DEF Session, Window
  <2>2. Len(outstanding) \in 1..Len(outstanding)
    BY <1>2, <2>1 DEF SubType
  <2> QED BY <2>1, <2>2 DEF Last, InWindow
<1>4. PICK f \in Frame : f = [type |-> "event", seq |-> position]
  <2>1. [type |-> "event", seq |-> position] \in Frame
    BY <1>2 DEF Frame
  <2> QED BY <2>1
<1>5. f.type = "event" /\ f.seq = position /\ wire' = Append(wire, f)
  BY <1>1, <1>3, <1>4
<1>6. \A s \in 1..position : log[s] => s <= seen \/ OnWire(s) \/ (f.type = "event" /\ s = f.seq)
  BY <1>2, <1>5 DEF Session, Delivered
<1>7. f.seq <= position /\ f.type # "close"
  BY <1>2, <1>5
<1> QED BY <1>1, <1>3, <1>5, <1>6, <1>7, SendInv

\* A heartbeat carries the acknowledged position.
LEMMA HeartbeatInv == ASSUME Inv, Heartbeat PROVE Inv'
<1>1. /\ pc = "waiting" /\ pc' = "waiting" /\ wire' = Append(wire, [type |-> "heartbeat", seq |-> acked])
      /\ UNCHANGED <<ledgerVars, liveVars, subVars, acks, connected, clientVars>>
  BY DEF Heartbeat
<1>2. Session /\ acked \in Nat /\ acked <= position
  BY <1>1, SessionNumbers
<1>3. PICK f \in Frame : f = [type |-> "heartbeat", seq |-> acked]
  <2>1. [type |-> "heartbeat", seq |-> acked] \in Frame
    BY <1>2 DEF Frame
  <2> QED BY <2>1
<1>4. f.type = "heartbeat" /\ f.seq = acked /\ wire' = Append(wire, f)
  BY <1>1, <1>3
<1>5. \A s \in 1..position : log[s] => s <= seen \/ OnWire(s)
  BY <1>1, <1>2 DEF Session, Delivered
<1>6. f.seq <= position /\ f.type # "close" /\ f.type # "event"
  BY <1>2, <1>4
<1> QED BY <1>1, <1>4, <1>5, <1>6, SendInv

\* A cumulative acknowledgement drops the left end of the window.  It is of a
\* position already sent, so the event about to be sent stays in the window.
LEMMA AcknowledgeInv == ASSUME Inv, Acknowledge PROVE Inv'
<1> DEFINE s == acks[1].seq
           len == Len(outstanding)
           Kept(t) == \E k \in 1..Len(outstanding') : outstanding'[k] = t
<1>1. /\ pc \in {"idle", "send", "waiting"} /\ acks # <<>> /\ pc # "closed"
      /\ acks' = Tail(acks)
      /\ UNCHANGED <<ledgerVars, liveVars, pc, position, replayHead, buffer, deferred,
                     wire, connected, clientVars>>
  BY DEF Acknowledge, ReceivesControls
<1>2. LiveType /\ SubType /\ ClientType /\ Session
  BY <1>1, TypeParts DEF Inv
<1>3. /\ acks \in Seq(Frame) /\ Len(acks) \in Nat /\ Len(acks) >= 1 /\ Head(acks) = acks[1]
      /\ acks' \in Seq(Frame) /\ Len(acks') = Len(acks) - 1
      /\ \A i \in 1..Len(acks') : acks'[i] = acks[i + 1] /\ i + 1 \in 1..Len(acks)
      /\ 1 \in 1..Len(acks)
  BY <1>1, <1>2 DEF ClientType
<1>4. s \in Nat /\ lastAck \in Nat /\ s <= lastAck /\ Sent(lastAck)
  BY <1>2, <1>3, FrameTypes DEF Session, OfThisSession
<1>5. /\ position \in Nat /\ position <= Len(log) /\ Len(log) \in Nat /\ acked \in Nat
  BY <1>1, SessionNumbers
<1>6. Sent(s) /\ s \in 0..Len(log)
  BY <1>4, <1>5 DEF Sent
<1>7. acked' = s /\ acked <= s
  <2>1. acked' = s /\ Acknowledgeable(s)
    BY <1>3 DEF Acknowledge
  <2> QED BY <1>4, <1>5, <2>1 DEF Acknowledgeable
<1>8. PICK n \in 0..len :
         /\ \A k \in 1..n : outstanding[k] <= s
         /\ n < len => outstanding[n + 1] > s
         /\ outstanding' = SubSeq(outstanding, n + 1, len)
  BY <1>3 DEF Acknowledge
<1>9. /\ outstanding \in Seq(1..Len(log)) /\ len \in Nat /\ len <= MaxInFlight
      /\ \A k \in 1..len : outstanding[k] \in Nat
      /\ \A j, k \in 1..len : j < k => outstanding[j] < outstanding[k]
  BY <1>2 DEF SubType, Session, Window
<1>10. /\ outstanding' \in Seq(1..Len(log)) /\ Len(outstanding') = len - n
       /\ \A k \in 1..(len - n) : outstanding'[k] = outstanding[n + k] /\ n + k \in 1..len
  <2>1. n \in Nat /\ n <= len /\ n + 1 \in Nat
    BY <1>9
  <2>2. Len(outstanding') = len - n
    BY <1>8, <1>9, <2>1
  <2>3. \A k \in 1..(len - n) : n + k \in 1..len
    BY <1>9, <2>1
  <2>4. \A k \in 1..(len - n) : outstanding'[k] = outstanding[n + k]
    BY <1>8, <1>9, <2>1
  <2>5. outstanding' \in Seq(1..Len(log))
    <3>1. \A k \in (n + 1)..len : outstanding[k] \in 1..Len(log)
      BY <1>9, <2>1
    <3> QED BY <1>8, <1>9, <2>1, <3>1
  <2> QED BY <2>2, <2>3, <2>4, <2>5
<1>11. \A k \in 1..(len - n) : outstanding[n + k] > s
  <2> SUFFICES ASSUME NEW k \in 1..(len - n) PROVE outstanding[n + k] > s
    OBVIOUS
  <2>1. n + 1 \in 1..len /\ n + k \in 1..len /\ n < len
    BY <1>9
  <2>2. k = 1 \/ n + 1 < n + k
    BY <1>9
  <2>3. outstanding[n + 1] > s /\ outstanding[n + 1] \in Nat /\ outstanding[n + k] \in Nat
    BY <1>8, <1>9, <2>1
  <2>4. CASE k = 1
    BY <2>3, <2>4
  <2>5. CASE n + 1 < n + k
    <3>1. outstanding[n + 1] < outstanding[n + k]
      BY <1>9, <2>1, <2>5
    <3> QED BY <1>4, <2>3, <3>1
  <2> QED BY <2>2, <2>4, <2>5
<1>12. \A t \in Nat : InWindow(t) /\ t > s => Kept(t)
  <2> SUFFICES ASSUME NEW t \in Nat, NEW k \in 1..len, outstanding[k] = t, t > s
               PROVE  Kept(t)
    BY DEF InWindow
  <2>1. ~(k \in 1..n)
    BY <1>4, <1>8
  <2>2. k - n \in 1..(len - n) /\ n + (k - n) = k
    BY <1>9, <2>1
  <2> QED BY <1>10, <2>2
<1>13. Len(outstanding') <= len /\ Len(outstanding') <= MaxInFlight
  <2>1. MaxInFlight \in Nat
    BY StreamAssumption
  <2> QED BY <1>9, <1>10, <2>1
<1>14. LiveType' /\ SubType'
  BY <1>1, <1>2, <1>6, <1>7, <1>10, <1>13, KeptParts DEF SubType, ledgerVars
<1>15. ClientType'
  BY <1>1, <1>2, <1>3 DEF ClientType, ledgerVars, clientVars
<1>16. WireInOrder' /\ CursorNeverSkips' /\ Connection'
  BY <1>1, KeptWire DEF Inv, Connection, ledgerVars, clientVars
<1>17. Window'
  <2>1. s <= position
    BY <1>6 DEF Sent
  <2>2. \A k \in 1..Len(outstanding') :
           s < outstanding'[k] /\ outstanding'[k] <= position /\ log[outstanding'[k]]
    BY <1>2, <1>9, <1>10, <1>11 DEF Session, Window
  <2>3. \A j, k \in 1..Len(outstanding') : j < k => outstanding'[j] < outstanding'[k]
    <3> SUFFICES ASSUME NEW j \in 1..(len - n), NEW k \in 1..(len - n), j < k
                 PROVE  outstanding'[j] < outstanding'[k]
      BY <1>10
    <3>1. n + j < n + k /\ n + j \in 1..len /\ n + k \in 1..len
      BY <1>9
    <3>2. outstanding[n + j] < outstanding[n + k]
      BY <1>9, <3>1
    <3> QED BY <1>10, <3>2
  <2>4. pc = "waiting" => Len(outstanding') < MaxInFlight
    <3>1. MaxInFlight \in Nat
      BY StreamAssumption
    <3>2. pc = "waiting" => len < MaxInFlight
      BY <1>2 DEF Session, Window
    <3> QED BY <1>9, <1>10, <1>13, <3>1, <3>2
  <2>5. ASSUME pc = "send" PROVE outstanding' # <<>> /\ outstanding'[Len(outstanding')] = position
    <3>1. outstanding # <<>> /\ outstanding[len] = position
      BY <1>2, <2>5 DEF Session, Window
    <3>2. len \in 1..len /\ s < position
      BY <1>6, <1>9, <2>5, <3>1 DEF Sent
    <3>3. n # len
      BY <1>4, <1>5, <1>8, <3>1, <3>2
    <3>4. len - n \in 1..(len - n) /\ n + (len - n) = len
      BY <1>9, <3>3
    <3>5. outstanding'[len - n] = outstanding[len] /\ Len(outstanding') # 0
      BY <1>10, <3>4
    <3> QED BY <1>10, <3>1, <3>5
  <2>6. pc # "running" /\ pc' = pc /\ position' = position /\ buffer' = buffer /\ log' = log
    BY <1>1 DEF ledgerVars
  <2>7. /\ \A i \in 1..Len(buffer) : buffer[i] = position + i
        /\ pc = "waiting" => buffer = <<>>
    BY <1>2 DEF Session, Window
  <2> QED BY <1>7, <2>1, <2>2, <2>3, <2>4, <2>5, <2>6, <2>7 DEF Window
<1>18. Delivered'
  BY <1>1, <1>2 DEF Session, Delivered, OnWire, ledgerVars, clientVars
<1>19. OfThisSession'
  <2>1. \A i \in 1..Len(acks') : acks'[i].seq <= lastAck
    BY <1>2, <1>3 DEF Session, OfThisSession
  <2> QED BY <1>1, <1>2, <2>1 DEF Session, OfThisSession, Sent, clientVars
<1>20. AcksExpected'
  <2> HIDE DEF Kept
  <2>1. \A t \in Nat : t > lastAck /\ InWindow(t) => Kept(t)
    BY <1>4, <1>12
  <2>2. ASSUME NEW i \in 1..Len(acks'), acks'[i].type = "event"
        PROVE  Kept(acks'[i].seq) /\ \A j \in 1..(i - 1) : acks'[j].seq < acks'[i].seq
    <3>1. /\ i + 1 \in 1..Len(acks) /\ acks'[i] = acks[i + 1] /\ 1 \in 1..i
          /\ \A j \in 1..(i - 1) : j \in 1..Len(acks') /\ j + 1 \in 1..i /\ acks'[j] = acks[j + 1]
      BY <1>3
    <3>2. InWindow(acks[i + 1].seq) /\ \A j \in 1..((i + 1) - 1) : acks[j].seq < acks[i + 1].seq
      BY <1>2, <2>2, <3>1 DEF Session, AcksExpected
    <3>3. (i + 1) - 1 = i
      OBVIOUS
    <3>4. acks[i + 1].seq \in Nat /\ acks[i + 1].seq > s
      BY <1>2, <1>4, <3>1, <3>2, <3>3, FrameTypes
    <3>5. Kept(acks[i + 1].seq)
      BY <1>12, <3>2, <3>4
    <3> QED BY <3>1, <3>2, <3>3, <3>5
  <2>3. UNCHANGED <<wire, got, lastAck>>
    BY <1>1 DEF clientVars
  <2>4. \A i \in 1..Len(wire) : wire[i].type = "event" /\ wire[i].seq > lastAck => Kept(wire[i].seq)
    BY <1>2, <2>1, FrameTypes DEF Session, AcksExpected
  <2>5. \A f \in got : f.type = "event" /\ f.seq > lastAck => Kept(f.seq)
    BY <1>2, <2>1, FrameTypes DEF Session, AcksExpected
  <2> QED BY <2>2, <2>3, <2>4, <2>5 DEF Kept, AcksExpected, InWindow
<1> QED BY <1>14, <1>15, <1>16, <1>17, <1>18, <1>19, <1>20, TypePartsNext DEF Inv, Session

-----------------------------------------------------------------------------
(* The client. *)

\* A frame arrives: what it carried is seen, and the rest of the wire moves up.
LEMMA ReceiveInv == ASSUME Inv, Receive PROVE Inv'
<1> DEFINE f == wire[1]
<1>1. /\ connected /\ wire # <<>> /\ wire' = Tail(wire)
      /\ UNCHANGED <<ledgerVars, liveVars, pc, subVars, acks, lastAck>>
  BY DEF Receive
<1>2. LiveType /\ SubType /\ ClientType
  BY TypeParts DEF Inv
<1>3. /\ wire \in Seq(Frame) /\ Len(wire) \in Nat /\ Len(wire) >= 1 /\ Head(wire) = f
      /\ 1 \in 1..Len(wire)
      /\ wire' \in Seq(Frame) /\ Len(wire') = Len(wire) - 1
      /\ \A i \in 1..Len(wire') : wire'[i] = wire[i + 1] /\ i + 1 \in 1..Len(wire)
  BY <1>1, <1>2 DEF ClientType
<1>4. f \in Frame /\ f.seq \in Nat /\ f.seq <= Len(log) /\ Len(log) \in Nat /\ seen \in Nat /\ resume \in Nat
  BY <1>2, <1>3, FrameTypes DEF Inv, WireInOrder, LiveType
<1>5. /\ seen' \in {seen, f.seq} /\ seen <= seen' /\ seen' \in Nat
      /\ f.type = "event" => f.seq <= seen'
      /\ resume' \in {resume, f.seq}
      /\ got' \in {{}, got \cup {f}}
      /\ f.type # "close" => got' = got \cup {f}
  BY <1>3, <1>4 DEF Receive, Newest
<1>6. connected' = (f.type # "close")
  BY <1>3 DEF Receive
<1>7. connected' \in BOOLEAN
  BY <1>6, Zenon
<1>8. f.type = "close" => Len(wire) = 1 /\ pc = "closed"
  BY <1>3 DEF Inv, WireInOrder
<1>9. \A t \in 1..f.seq : log[t] => t <= seen'
  <2> SUFFICES ASSUME NEW t \in 1..f.seq, log[t] PROVE t <= seen'
    OBVIOUS
  <2>1. t <= seen \/ \E j \in 1..1 : wire[j].type = "event" /\ wire[j].seq = t
    BY <1>3 DEF Inv, WireInOrder
  <2>2. t <= seen \/ (f.type = "event" /\ f.seq = t)
    BY <2>1
  <2> QED BY <1>4, <1>5, <2>2
<1>10. LiveType' /\ SubType'
  BY <1>1, KeptParts DEF ledgerVars
<1>11. ClientType'
  BY <1>1, <1>2, <1>3, <1>4, <1>5, <1>7 DEF ClientType, ledgerVars
<1>12. CursorNeverSkips'
  <2>1. \A t \in 1..resume : log[t] => t <= seen'
    BY <1>4, <1>5 DEF Inv, CursorNeverSkips
  <2> QED BY <1>1, <1>5, <1>9, <2>1 DEF CursorNeverSkips, ledgerVars
<1>13. ASSUME NEW i \in Nat, NEW t, \E j \in 1..(i + 1) : j \in 1..Len(wire) /\ wire[j].type = "event" /\ wire[j].seq = t
       PROVE  t <= seen' \/ \E j \in 1..i : j \in 1..Len(wire') /\ wire'[j].type = "event" /\ wire'[j].seq = t
  <2>1. PICK j \in 1..(i + 1) : j \in 1..Len(wire) /\ wire[j].type = "event" /\ wire[j].seq = t
    BY <1>13
  <2>2. CASE j = 1
    BY <1>5, <2>1, <2>2
  <2>3. CASE j # 1
    <3>1. j - 1 \in 1..i /\ j - 1 \in 1..Len(wire') /\ (j - 1) + 1 = j
      BY <1>3, <2>1, <2>3
    <3>2. wire'[j - 1] = wire[j]
      BY <1>3, <3>1
    <3> QED BY <2>1, <3>1, <3>2
  <2> QED BY <2>2, <2>3
<1>14. WireInOrder'
  <2> SUFFICES ASSUME NEW i \in 1..Len(wire')
               PROVE  /\ wire'[i].seq <= Len(log)
                      /\ wire'[i].type = "event" => wire'[i].seq \in 1..Len(log) /\ log[wire'[i].seq]
                      /\ wire'[i].type = "close" => i = Len(wire') /\ pc = "closed"
                      /\ \A t \in 1..wire'[i].seq :
                            log[t] => t <= seen' \/ \E j \in 1..i : wire'[j].type = "event" /\ wire'[j].seq = t
    BY <1>1 DEF WireInOrder, ledgerVars
  <2>1. wire'[i] = wire[i + 1] /\ i + 1 \in 1..Len(wire) /\ i \in Nat
    BY <1>3
  <2>2. /\ wire[i + 1].seq <= Len(log)
        /\ wire[i + 1].type = "event" => wire[i + 1].seq \in 1..Len(log) /\ log[wire[i + 1].seq]
        /\ wire[i + 1].type = "close" => i + 1 = Len(wire) /\ pc = "closed"
        /\ \A t \in 1..wire[i + 1].seq :
              log[t] => t <= seen \/ \E j \in 1..(i + 1) : wire[j].type = "event" /\ wire[j].seq = t
    BY <2>1 DEF Inv, WireInOrder
  <2>3. i + 1 = Len(wire) => i = Len(wire')
    BY <1>3
  <2>4. ASSUME NEW t \in 1..wire[i + 1].seq, log[t]
        PROVE  t <= seen' \/ \E j \in 1..i : wire'[j].type = "event" /\ wire'[j].seq = t
    <3>1. CASE t <= seen
      <4>1. wire[i + 1].seq \in Nat
        BY <1>2, <2>1, FrameTypes
      <4> QED BY <1>4, <1>5, <3>1, <4>1
    <3>2. CASE \E j \in 1..(i + 1) : wire[j].type = "event" /\ wire[j].seq = t
      <4>1. \A j \in 1..(i + 1) : j \in 1..Len(wire)
        BY <1>3, <2>1
      <4>2. \E j \in 1..(i + 1) : j \in 1..Len(wire) /\ wire[j].type = "event" /\ wire[j].seq = t
        BY <3>2, <4>1
      <4> QED BY <1>13, <2>1, <4>2
    <3> QED BY <2>2, <2>4, <3>1, <3>2
  <2> QED BY <2>1, <2>2, <2>3, <2>4
<1>15. Connection'
  <2>1. f.type = "close" => wire' = <<>> /\ pc = "closed"
    BY <1>3, <1>8
  <2> QED BY <1>1, <1>6, <2>1 DEF Inv, Connection
<1>16. ASSUME pc # "closed" PROVE Session'
  <2>1. Session /\ f.type # "close" /\ position \in Nat
    BY <1>8, <1>16, SessionNumbers DEF Inv
  <2>2. got' = got \cup {f} /\ UNCHANGED <<log, pc, position, acked, buffer, outstanding, acks, lastAck>>
    BY <1>1, <1>5, <2>1 DEF ledgerVars, subVars
  <2>3. Window'
    BY <2>1, <2>2 DEF Session, Window
  <2>4. Delivered'
    <3>1. ASSUME NEW t \in 1..position, OnWire(t) PROVE t <= seen' \/ OnWire(t)'
      <4>1. Len(wire') + 1 = Len(wire) /\ Len(wire') \in Nat
        BY <1>3
      <4>2. \E j \in 1..(Len(wire') + 1) : j \in 1..Len(wire) /\ wire[j].type = "event" /\ wire[j].seq = t
        BY <3>1, <4>1 DEF OnWire
      <4>3. t <= seen' \/ \E j \in 1..Len(wire') : j \in 1..Len(wire') /\ wire'[j].type = "event" /\ wire'[j].seq = t
        BY <1>13, <4>1, <4>2
      <4> QED BY <4>3 DEF OnWire
    <3>2. \A t \in 1..position : t <= seen => t <= seen'
      BY <1>4, <1>5, <2>1
    <3> QED BY <2>1, <2>2, <3>1, <3>2 DEF Session, Delivered
  <2>5. \A t : (Sent(t)' <=> Sent(t)) /\ (InWindow(t)' <=> InWindow(t))
    BY <2>2 DEF Sent, InWindow
  <2>6. OfThisSession'
    <3>1. Sent(f.seq) /\ \A i \in 1..Len(wire') : Sent(wire'[i].seq)
      BY <1>3, <2>1 DEF Session, OfThisSession
    <3> QED BY <2>1, <2>2, <2>5, <3>1 DEF Session, OfThisSession
  <2>7. AcksExpected'
    <3>1. /\ f.type = "event" /\ f.seq > lastAck => InWindow(f.seq)
          /\ \A i \in 1..Len(wire') : wire'[i].type = "event" /\ wire'[i].seq > lastAck => InWindow(wire'[i].seq)
      BY <1>3, <2>1 DEF Session, AcksExpected
    <3> QED BY <2>1, <2>2, <2>5, <3>1 DEF Session, AcksExpected
  <2> QED BY <2>3, <2>4, <2>6, <2>7 DEF Session
<1> QED BY <1>1, <1>10, <1>11, <1>12, <1>14, <1>15, <1>16, TypePartsNext DEF Inv

\* An acknowledgement is sent: of an event beyond all that were acknowledged, so it
\* is in the window.
LEMMA SendAckInv == ASSUME Inv, SendAck PROVE Inv'
<1>1. /\ connected /\ pc # "closed"
      /\ UNCHANGED <<ledgerVars, liveVars, pc, subVars, wire, connected, seen, resume, got>>
  BY DEF SendAck
<1>2. PICK f \in got :
         /\ f.seq >= lastAck
         /\ f.type = "event" => f.seq > lastAck
         /\ acks' = Append(acks, f) /\ lastAck' = f.seq
  BY DEF SendAck
<1>3. LiveType /\ SubType /\ ClientType /\ Session
  BY <1>1, TypeParts DEF Inv
<1> DEFINE n == Len(acks) + 1
<1>4. /\ f \in Frame /\ f.seq \in Nat /\ lastAck \in Nat /\ Len(acks) \in Nat
      /\ \A i \in 1..Len(wire) : wire[i].seq \in Nat
      /\ \A g \in got : g.seq \in Nat
      /\ \A i \in 1..Len(acks) : acks[i].seq \in Nat
  BY <1>3, FrameTypes
<1>5. /\ acks' \in Seq(Frame) /\ Len(acks') = n /\ acks'[n] = f
      /\ \A i \in 1..Len(acks) : acks'[i] = acks[i]
  BY <1>2, <1>3, <1>4 DEF ClientType
<1>6. \A i \in 1..n : i \in 1..Len(acks) \/ i = n
  BY <1>4
<1>7. Sent(f.seq) /\ f.seq \in 0..Len(log)
  <2>1. Sent(f.seq)
    BY <1>3 DEF Session, OfThisSession
  <2> QED BY <1>1, <1>4, <2>1, SessionNumbers DEF Sent
<1>8. LiveType' /\ SubType'
  BY <1>1, KeptParts DEF ledgerVars
<1>9. ClientType'
  BY <1>1, <1>2, <1>3, <1>5, <1>7 DEF ClientType, ledgerVars
<1>10. WireInOrder' /\ CursorNeverSkips' /\ Connection'
  BY <1>1, KeptWire DEF Inv, Connection, ledgerVars
<1>11. /\ UNCHANGED <<log, pc, position, acked, buffer, outstanding, wire, seen, got>>
       /\ \A t : (Sent(t)' <=> Sent(t)) /\ (InWindow(t)' <=> InWindow(t))
  BY <1>1 DEF ledgerVars, subVars, Sent, InWindow
<1>12. Window' /\ Delivered'
  BY <1>3, <1>11 DEF Session, Window, Delivered, OnWire
<1>13. OfThisSession'
  <2>1. \A i \in 1..n : acks'[i].seq <= f.seq
    <3>1. \A i \in 1..Len(acks) : acks[i].seq <= f.seq
      BY <1>2, <1>3, <1>4 DEF Session, OfThisSession
    <3> QED BY <1>4, <1>5, <1>6, <3>1
  <2> HIDE DEF n
  <2> QED BY <1>2, <1>3, <1>5, <1>7, <1>11, <2>1 DEF Session, OfThisSession
<1>14. AcksExpected'
  <2>1. /\ \A i \in 1..Len(wire) : wire[i].seq > f.seq => wire[i].seq > lastAck
        /\ \A g \in got : g.seq > f.seq => g.seq > lastAck
    BY <1>2, <1>4
  <2>2. ASSUME NEW i \in 1..n, acks'[i].type = "event"
        PROVE  InWindow(acks'[i].seq) /\ \A j \in 1..(i - 1) : acks'[j].seq < acks'[i].seq
    <3>1. CASE i = n
      <4>1. \A j \in 1..(i - 1) : j \in 1..Len(acks) /\ acks[j].seq <= lastAck
        BY <1>3, <1>4, <3>1 DEF Session, OfThisSession
      <4>2. f.seq > lastAck /\ InWindow(f.seq)
        BY <1>2, <1>3, <1>5, <2>2, <3>1 DEF Session, AcksExpected
      <4>3. \A j \in 1..(i - 1) : acks'[j].seq < f.seq
        BY <1>4, <1>5, <4>1, <4>2
      <4> QED BY <1>5, <3>1, <4>2, <4>3
    <3>2. CASE i \in 1..Len(acks)
      <4>1. \A j \in 1..(i - 1) : j \in 1..Len(acks)
        BY <1>4, <3>2
      <4> QED BY <1>3, <1>5, <2>2, <3>2, <4>1 DEF Session, AcksExpected
    <3> QED BY <1>6, <3>1, <3>2
  <2> HIDE DEF n
  <2> QED BY <1>2, <1>3, <1>5, <1>11, <2>1, <2>2 DEF Session, AcksExpected
<1> QED BY <1>8, <1>9, <1>10, <1>12, <1>13, <1>14, TypePartsNext DEF Inv, Session

-----------------------------------------------------------------------------
(* The theorems. *)

LEMMA NextInv == Inv /\ [Next]_vars => Inv'
<1> SUFFICES ASSUME Inv, [Next]_vars PROVE Inv'
  OBVIOUS
<1>1. CASE Commit
  BY <1>1, CommitInv
<1>2. ASSUME NEW s \in 1..MaxEvents, Relay(s) \/ Republish(s) \/ RelayElsewhere(s) PROVE Inv'
  BY <1>2, RelayInv
<1>3. CASE Open \/ OpenAfresh
  BY <1>3, OpenInv
<1>4. CASE ServerStep
  BY <1>4, CallNextInv, EndingInv, PopReplayInv, LoadPageInv, TakeDeferredInv, DequeueInv, SendEventInv
     DEF ServerStep
<1>5. CASE Heartbeat \/ Acknowledge \/ RefuseAck \/ CloseRequested \/ Disconnect
  BY <1>5, HeartbeatInv, AcknowledgeInv, EndingInv, DisconnectInv
<1>6. CASE Receive \/ SendAck
  BY <1>6, ReceiveInv, SendAckInv
<1>7. CASE UNCHANGED vars
  <2>1. UNCHANGED <<ledgerVars, liveVars, pc, subVars, wire, acks, connected, clientVars>>
    BY <1>7 DEF vars
  <2>2. LiveType'
    BY <2>1, KeptParts
  <2> QED BY <2>1, <2>2, LiveInv DEF ledgerVars
<1> QED BY <1>1, <1>2, <1>3, <1>4, <1>5, <1>6, <1>7 DEF Next

LEMMA Invariance == Spec => []Inv
<1> QED BY InitInv, NextInv, PTL DEF Spec

\* Queue, window and replay buffer stay within the configured limits, and no
\* continuity check of DurableSubscription fails, whatever the relays publish twice,
\* out of order, to another process or not at all (_advance_verified, _next_candidate).
THEOREM SessionSound == Spec => []SessionInv
<1>1. Inv => SessionInv
  BY DEF Inv, Connection, SessionInv, NoIntegrityFailure
<1> QED BY <1>1, Invariance, PTL

\* No cursor that a client may resume from lies beyond a wanted event that it has
\* not seen (StateStreamSession's event, heartbeat and close cursors).
THEOREM CursorsNeverSkip == Spec => []CursorNeverSkips
<1>1. Inv => CursorNeverSkips
  BY DEF Inv
<1> QED BY <1>1, Invariance, PTL

\* The first acknowledgement of an event frame is accepted, although the acknowledged
\* position may move over filtered events while it is under way
\* (acknowledgement_candidate, acknowledge).
THEOREM FreshAcksAccepted == Spec => []FreshAckAccepted
<1>1. ASSUME Inv PROVE FreshAckAccepted
  <2> SUFFICES ASSUME ReceivesControls, Head(acks).type = "event"
               PROVE  Acknowledgeable(Head(acks).seq)
    BY DEF FreshAckAccepted
  <2>1. pc # "closed" /\ acks # <<>>
    BY DEF ReceivesControls
  <2>2. Session /\ SubType /\ ClientType
    BY <1>1, <2>1, TypeParts DEF Inv
  <2>3. 1 \in 1..Len(acks) /\ Head(acks) = acks[1]
    BY <2>1, <2>2 DEF ClientType
  <2>4. PICK k \in 1..Len(outstanding) : outstanding[k] = acks[1].seq
    BY <2>2, <2>3 DEF Session, AcksExpected, InWindow
  <2>5. acked < outstanding[k] /\ k \in DOMAIN outstanding
    BY <2>2 DEF Session, Window, SubType
  <2>6. outstanding[k] > acked
    BY <2>2, <2>5 DEF SubType
  <2> QED BY <2>3, <2>4, <2>5, <2>6 DEF Acknowledgeable, ToSet
<1> QED BY <1>1, Invariance, PTL

\* The client sees no event but the next wanted one.
LEMMA StepFeeds == Inv /\ [Next]_vars => [Feed!Next]_(Feed!feedVars)
<1> SUFFICES ASSUME Inv, [Next]_vars PROVE [Feed!Next]_(Feed!feedVars)
  OBVIOUS
<1>1. CASE Commit
  <2>1. \E wanted \in BOOLEAN : log' = Append(log, wanted)
    BY <1>1 DEF Commit
  <2>2. UNCHANGED seen
    BY <1>1 DEF Commit, clientVars
  <2> QED BY <2>1, <2>2 DEF Feed!Next, Feed!Commit
<1>2. CASE Receive
  <2> DEFINE f == wire[1]
  <2>1. LiveType /\ ClientType
    BY TypeParts DEF Inv
  <2>2. /\ wire # <<>> /\ UNCHANGED log
        /\ seen' = IF Head(wire).type = "event" /\ Head(wire).seq > seen THEN Head(wire).seq ELSE seen
    BY <1>2 DEF Receive, ledgerVars
  <2>3. Head(wire) = f /\ 1 \in 1..Len(wire)
    BY <2>1, <2>2 DEF ClientType
  <2>4. f.seq \in Nat /\ seen \in Nat /\ DOMAIN log = 1..Len(log) /\ Len(log) \in Nat
    BY <2>1, <2>3, FrameTypes DEF LiveType
  <2>5. CASE f.type = "event" /\ f.seq > seen
    <3>1. f.seq \in DOMAIN log /\ log[f.seq]
      BY <2>3, <2>4, <2>5 DEF Inv, WireInOrder
    <3>2. \A r \in 1..f.seq : log[r] => r <= seen \/ \E j \in 1..1 : wire[j].type = "event" /\ wire[j].seq = r
      BY <2>3 DEF Inv, WireInOrder
    <3>3. ASSUME NEW r \in DOMAIN log, r > seen, log[r] PROVE f.seq <= r
      <4>1. SUFFICES ASSUME ~(f.seq <= r) PROVE FALSE
        OBVIOUS
      <4>2. r \in 1..f.seq /\ ~(r <= seen) /\ r # f.seq
        BY <2>4, <3>3, <4>1
      <4> QED BY <3>2, <3>3, <4>2
    <3>4. seen' = f.seq
      BY <2>2, <2>3, <2>5
    <3>5. Feed!See
      BY <2>2, <2>5, <3>1, <3>3, <3>4 DEF Feed!See
    <3> QED BY <3>5 DEF Feed!Next
  <2>6. CASE ~(f.type = "event" /\ f.seq > seen)
    BY <2>2, <2>3, <2>6 DEF Feed!feedVars
  <2> QED BY <2>5, <2>6
<1>3. CASE UNCHANGED <<log, seen>>
  BY <1>3 DEF Feed!feedVars
<1>4. Commit \/ Receive \/ UNCHANGED <<log, seen>>
  <2>1. CASE \E s \in 1..MaxEvents : Relay(s) \/ Republish(s) \/ RelayElsewhere(s)
    BY <2>1 DEF Relay, Republish, Publish, RelayElsewhere, clientVars
  <2>2. CASE Open \/ OpenAfresh
    BY <2>2 DEF Open, OpenAfresh, OpenAt, ledgerVars
  <2>3. CASE ServerStep
    BY <2>3 DEF ServerStep, CallNext, WindowFull, PopReplay, LoadPage, TakeDeferred, Wait, Dequeue,
                SlowConsumer, SendEvent, ledgerVars, clientVars
  <2>4. CASE Heartbeat \/ Acknowledge \/ RefuseAck \/ CloseRequested \/ Disconnect
    BY <2>4 DEF Heartbeat, Acknowledge, RefuseAck, CloseRequested, Disconnect, ledgerVars, clientVars
  <2>5. CASE SendAck
    BY <2>5 DEF SendAck, ledgerVars
  <2>6. CASE UNCHANGED vars
    BY <2>6 DEF vars, ledgerVars, clientVars
  <2> QED BY <2>1, <2>2, <2>3, <2>4, <2>5, <2>6 DEF Next
<1> QED BY <1>1, <1>2, <1>3, <1>4

\* The stream implements OrderedFeed: over replays, live handoffs, overflows,
\* disconnections and resumptions the client sees every wanted event in ledger order,
\* none left out (DurableSubscription, StateStreamSession).
THEOREM KeepsFeedPromise == Spec => InOrderNoGap
<1>1. Init => Feed!Init
  BY DEF Init, Feed!Init
<1> QED BY <1>1, StepFeeds, Invariance, PTL DEF Spec, InOrderNoGap, Feed!Spec

-----------------------------------------------------------------------------
(* The keys that resume cursors are signed with: module CursorKeys. *)

\* What rotations may have done to the key of a cursor issued at `since` with the
\* active key: each moved it one place back at most, and it was dropped only after
\* Retain of them.
KeyKept(c) ==
    \/ \E i \in 1..Len(ring) :
          ring[i] = c.key /\ (i = 1 \/ rotated >= c.since + (i - 2) * Interval)
    \/ rotated >= c.since + Retain * Interval

\* A cursor is dated by a clock that is ahead by the skew at most.
CursorKept(c) ==
    /\ c.since <= c.stamp /\ c.stamp <= c.since + Skew
    /\ c.current => KeyKept(c)

\* The inductive invariant of CursorKeys.
SignerInv == CursorTypeOK /\ \A c \in cursors : CursorKept(c)

\* The parameters, and that keys are retained for longer than cursors live.
LEMMA SignerParameters ==
  /\ MaxKeys \in Nat \ {0} /\ MaxAge \in Nat \ {0} /\ Interval \in Nat \ {0} /\ Skew \in Nat
  /\ MaxTime \in Nat /\ Retain \in Nat /\ Retain <= MaxKeys - 1
  /\ Retain * Interval > MaxAge + Skew /\ Retain * Interval \in Nat
  /\ \A p \in Procs : Offset[p] \in 0..Skew
BY CursorAssumption

\* Time a key is kept at one place more in the ring.
LEMMA OnePlaceMore ==
  ASSUME NEW a \in Int, NEW k \in Nat
  PROVE  (a + 1) * k = a * k + k
OBVIOUS

LEMMA MorePlaces ==
  ASSUME NEW a \in Nat, NEW b \in Nat, NEW k \in Nat, a <= b
  PROVE  a * k <= b * k /\ a * k \in Nat /\ b * k \in Nat
<1>1. PICK d \in Nat : b = a + d
  <2>1. b - a \in Nat /\ b = a + (b - a)
    OBVIOUS
  <2> QED BY <2>1
<1>2. b * k = a * k + d * k
  BY <1>1
<1>3. a * k \in Nat /\ d * k \in Nat
  OBVIOUS
<1> QED BY <1>1, <1>2, <1>3

LEMMA StillAfter ==
  ASSUME NEW time \in Nat, NEW since \in Nat, NEW a \in Nat, NEW b \in Nat,
         a <= b, time >= since + b
  PROVE  time >= since + a
OBVIOUS

\* Two sequences put together.
LEMMA Joined ==
  ASSUME NEW S, NEW a \in Seq(S), NEW b \in Seq(S), NEW r, r = a \o b
  PROVE  /\ r \in Seq(S) /\ Len(r) = Len(a) + Len(b)
         /\ \A j \in 1..Len(a) : r[j] = a[j]
         /\ \A j \in 1..Len(b) : r[Len(a) + j] = b[j]
OBVIOUS

\* Without a key the others stay in order, one place nearer at most.
LEMMA LeavingOut ==
  ASSUME NEW s \in Seq(Keys), NEW k \in Keys,
         \A i, j \in 1..Len(s) : s[i] = s[j] => i = j
  PROVE  LET r == RemoveFirst(s, k) IN
         /\ r \in Seq(Keys) /\ Len(r) <= Len(s)
         /\ \A i \in 1..Len(r) : r[i] # k
         /\ \A i, j \in 1..Len(r) : r[i] = r[j] => i = j
         /\ \A i \in 1..Len(s) :
               s[i] # k => \/ i \in 1..Len(r) /\ r[i] = s[i]
                           \/ i > 1 /\ i - 1 \in 1..Len(r) /\ r[i - 1] = s[i]
<1> DEFINE r == RemoveFirst(s, k)
<1>1. CASE \E i \in 1..Len(s) : s[i] = k
  <2>1. PICK i \in 1..Len(s) : s[i] = k
    BY <1>1
  <2>2. {j \in 1..Len(s) : s[j] = k} = {i}
    BY <2>1
  <2>3. SelectInSeq(s, LAMBDA v : v = k) = i
    BY <2>2 DEF SelectInSeq, Min
  <2>4. r = SubSeq(s, 1, i - 1) \o SubSeq(s, i + 1, Len(s))
    BY <1>1, <2>3 DEF RemoveFirst, RemoveAt
  <2> HIDE DEF r
  <2>5. /\ Len(s) \in Nat /\ i \in 1..Len(s)
        /\ SubSeq(s, 1, i - 1) \in Seq(Keys) /\ Len(SubSeq(s, 1, i - 1)) = i - 1
        /\ SubSeq(s, i + 1, Len(s)) \in Seq(Keys) /\ Len(SubSeq(s, i + 1, Len(s))) = Len(s) - i
        /\ \A j \in 1..(i - 1) : SubSeq(s, 1, i - 1)[j] = s[j]
        /\ \A j \in 1..(Len(s) - i) : SubSeq(s, i + 1, Len(s))[j] = s[i + j]
    OBVIOUS
  <2>6. /\ r \in Seq(Keys) /\ Len(r) = Len(s) - 1
        /\ \A j \in 1..(i - 1) : r[j] = s[j]
        /\ \A j \in i..(Len(s) - 1) : r[j] = s[j + 1]
    <3> DEFINE before == SubSeq(s, 1, i - 1)
               behind == SubSeq(s, i + 1, Len(s))
    <3>1. before \in Seq(Keys) /\ behind \in Seq(Keys) /\ r = before \o behind
      BY <2>4, <2>5
    <3>2. Len(before) = i - 1 /\ Len(behind) = Len(s) - i
      BY <2>5
    <3>3. /\ \A j \in 1..(i - 1) : before[j] = s[j]
          /\ \A j \in 1..(Len(s) - i) : behind[j] = s[i + j]
      BY <2>5
    <3> HIDE DEF before, behind
    <3>4. /\ r \in Seq(Keys) /\ Len(r) = Len(before) + Len(behind)
          /\ \A j \in 1..Len(before) : r[j] = before[j]
          /\ \A j \in 1..Len(behind) : r[Len(before) + j] = behind[j]
      BY <3>1, Joined
    <3>5. ASSUME NEW j \in i..(Len(s) - 1) PROVE r[j] = s[j + 1]
      <4>1. j - (i - 1) \in 1..(Len(s) - i) /\ i + (j - (i - 1)) = j + 1
            /\ (i - 1) + (j - (i - 1)) = j
        BY <2>5
      <4>2. r[(i - 1) + (j - (i - 1))] = behind[j - (i - 1)]
        BY <3>2, <3>4, <4>1
      <4> QED BY <3>3, <4>1, <4>2
    <3>6. Len(r) = Len(s) - 1
      BY <2>5, <3>2, <3>4
    <3> QED BY <3>2, <3>3, <3>4, <3>5, <3>6
  <2>7. ASSUME NEW j \in 1..Len(r)
        PROVE  \/ j \in 1..(i - 1) /\ r[j] = s[j]
               \/ j \in i..(Len(s) - 1) /\ r[j] = s[j + 1]
    BY <2>5, <2>6
  <2>8. ASSUME NEW j \in 1..Len(r) PROVE r[j] # k
    <3>1. \A h \in 1..Len(s) : h # i => s[h] # k
      BY <2>1
    <3>2. CASE j \in 1..(i - 1) /\ r[j] = s[j]
      BY <2>5, <3>1, <3>2
    <3>3. CASE j \in i..(Len(s) - 1) /\ r[j] = s[j + 1]
      <4>1. j + 1 \in 1..Len(s) /\ j + 1 # i
        BY <2>5, <3>3
      <4> QED BY <3>1, <3>3, <4>1
    <3> QED BY <2>7, <3>2, <3>3
  <2>9. \A j, h \in 1..Len(r) : r[j] = r[h] => j = h
    BY <2>5, <2>7
  <2>10. ASSUME NEW j \in 1..Len(s), s[j] # k
         PROVE  \/ j \in 1..Len(r) /\ r[j] = s[j]
                \/ j > 1 /\ j - 1 \in 1..Len(r) /\ r[j - 1] = s[j]
    <3>1. CASE j < i
      BY <2>5, <2>6, <3>1
    <3>2. CASE j > i
      <4>1. j - 1 \in i..(Len(s) - 1) /\ (j - 1) + 1 = j
        BY <2>5, <3>2
      <4> QED BY <2>5, <2>6, <3>2, <4>1
    <3> QED BY <2>1, <2>10, <3>1, <3>2
  <2>11. r \in Seq(Keys) /\ Len(r) <= Len(s)
    BY <2>5, <2>6
  <2>12. /\ \A j \in 1..Len(r) : r[j] # k
         /\ \A j \in 1..Len(s) :
               s[j] # k => \/ j \in 1..Len(r) /\ r[j] = s[j]
                           \/ j > 1 /\ j - 1 \in 1..Len(r) /\ r[j - 1] = s[j]
    BY <2>8, <2>10
  <2> QED BY <2>9, <2>11, <2>12, Zenon DEF r
<1>2. CASE ~\E i \in 1..Len(s) : s[i] = k
  <2>1. r = s
    BY <1>2 DEF RemoveFirst
  <2> QED BY <1>2, <2>1
<1> QED BY <1>1, <1>2

\* A rotation: the new key is first, the ring has Retain more at most, a key moves
\* one place back at most, or is dropped from a place beyond Retain.
LEMMA Rotation ==
  ASSUME CursorTypeOK, NEW k \in Keys
  PROVE  LET new == Rotated(ring, k) IN
         /\ new \in Seq(Keys) /\ Len(new) \in 1..MaxKeys
         /\ \A i, j \in 1..Len(new) : new[i] = new[j] => i = j
         /\ new[1] = k
         /\ \A i \in 1..Len(ring) :
               \/ \E j \in 1..Len(new) : new[j] = ring[i] /\ (j = 1 \/ j <= i + 1)
               \/ i > Retain
<1> DEFINE previous == RemoveFirst(ring, k)
           n == IF Len(previous) < Retain THEN Len(previous) ELSE Retain
           new == Rotated(ring, k)
<1>1. /\ ring \in Seq(Keys) /\ \A i, j \in 1..Len(ring) : ring[i] = ring[j] => i = j
  BY DEF CursorTypeOK, IsInjective
<1>2. /\ previous \in Seq(Keys)
      /\ \A i \in 1..Len(previous) : previous[i] # k
      /\ \A i, j \in 1..Len(previous) : previous[i] = previous[j] => i = j
      /\ \A i \in 1..Len(ring) :
            ring[i] # k => \/ i \in 1..Len(previous) /\ previous[i] = ring[i]
                           \/ i > 1 /\ i - 1 \in 1..Len(previous) /\ previous[i - 1] = ring[i]
  BY <1>1, LeavingOut
<1>3. new = <<k>> \o SubSeq(previous, 1, n)
  BY DEF Rotated
<1> HIDE DEF previous, new
<1>4. /\ n \in 0..Len(previous) /\ n <= Retain /\ Len(previous) \in Nat /\ Len(ring) \in Nat
      /\ Retain \in Nat /\ MaxKeys \in Nat /\ Retain <= MaxKeys - 1
      /\ n < Len(previous) => n = Retain
  BY <1>1, <1>2, SignerParameters
<1> HIDE DEF n
<1>5. /\ new \in Seq(Keys) /\ Len(new) = n + 1 /\ new[1] = k
      /\ \A j \in 2..(n + 1) : new[j] = previous[j - 1]
  <2>1. /\ SubSeq(previous, 1, n) \in Seq(Keys) /\ Len(SubSeq(previous, 1, n)) = n
        /\ \A j \in 1..n : SubSeq(previous, 1, n)[j] = previous[j]
    BY <1>2, <1>4
  <2>2. <<k>> \in Seq(Keys) /\ Len(<<k>>) = 1 /\ <<k>>[1] = k
    OBVIOUS
  <2> QED BY <1>3, <1>4, <2>1, <2>2
<1>6. Len(new) \in 1..MaxKeys
  BY <1>4, <1>5
<1>7. ASSUME NEW i \in 1..Len(new), NEW j \in 1..Len(new), new[i] = new[j] PROVE i = j
  <2>1. \A h \in 1..Len(new) : h = 1 \/ (h \in 2..(n + 1) /\ h - 1 \in 1..Len(previous))
    BY <1>4, <1>5
  <2>2. ASSUME NEW h \in 1..Len(new), h # 1
        PROVE  h - 1 \in 1..Len(previous) /\ new[h] = previous[h - 1] /\ new[h] # k
    <3>1. h - 1 \in 1..Len(previous) /\ h \in 2..(n + 1)
      BY <2>1, <2>2
    <3>2. new[h] = previous[h - 1]
      BY <1>5, <3>1
    <3>3. previous[h - 1] # k
      BY <1>2, <3>1
    <3> QED BY <3>1, <3>2, <3>3
  <2>3. CASE i = 1 \/ j = 1
    BY <1>5, <1>7, <2>2, <2>3
  <2>4. CASE i # 1 /\ j # 1
    <3>1. previous[i - 1] = previous[j - 1]
      BY <1>7, <2>2, <2>4
    <3>2. i - 1 = j - 1
      BY <1>2, <2>2, <2>4, <3>1
    <3> QED BY <1>4, <1>5, <3>2
  <2> QED BY <2>3, <2>4
<1>8. ASSUME NEW i \in 1..Len(ring), i <= Retain
      PROVE  \E j \in 1..Len(new) : new[j] = ring[i] /\ (j = 1 \/ j <= i + 1)
  <2>1. CASE ring[i] = k
    BY <1>5, <1>6, <2>1
  <2>2. CASE i \in 1..Len(previous) /\ previous[i] = ring[i]
    <3>1. i <= n
      BY <1>4, <1>8, <2>2
    <3>2. i + 1 \in 2..(n + 1) /\ i + 1 \in 1..Len(new) /\ (i + 1) - 1 = i
      BY <1>4, <1>5, <3>1
    <3> QED BY <1>5, <2>2, <3>2
  <2>3. CASE i > 1 /\ i - 1 \in 1..Len(previous) /\ previous[i - 1] = ring[i]
    <3>1. i \in 2..(n + 1) /\ i \in 1..Len(new) /\ i <= i + 1
      BY <1>4, <1>5, <1>8, <2>3
    <3> QED BY <1>5, <2>3, <3>1
  <2> QED BY <1>2, <2>1, <2>2, <2>3
<1>9. \A i \in 1..Len(ring) : i <= Retain \/ i > Retain
  BY <1>4
<1> QED BY <1>5, <1>6, <1>7, <1>8, <1>9 DEF new

\* A rotation keeps what is known of the key of a cursor.
LEMMA RotationKeeps ==
  ASSUME CursorTypeOK, NEW k \in Keys, Swap(k),
         NEW c \in cursors, KeyKept(c)
  PROVE  KeyKept(c)'
<1>1. /\ ring' = Rotated(ring, k) /\ rotated' = now /\ now - rotated >= Interval
  BY DEF Swap
<1>2. /\ now \in Nat /\ rotated \in Nat /\ rotated <= now /\ c.since \in Nat /\ c.since <= now
      /\ Len(ring) \in Nat
  BY SignerParameters DEF CursorTypeOK
<1>3. /\ Interval \in Nat /\ Retain \in Nat /\ Retain * Interval \in Nat
  BY SignerParameters
<1>4. CASE rotated >= c.since + Retain * Interval
  BY <1>1, <1>2, <1>3, <1>4 DEF KeyKept
<1>5. ASSUME NEW i \in 1..Len(ring),
             ring[i] = c.key, i = 1 \/ rotated >= c.since + (i - 2) * Interval
      PROVE  KeyKept(c)'
  <2>1. now >= c.since + (i - 1) * Interval /\ (i - 1) * Interval \in Nat
    <3>1. CASE i = 1
      BY <1>2, <1>3, <3>1
    <3>2. CASE i # 1
      <4>1. i - 2 \in Nat /\ i - 1 = (i - 2) + 1
        BY <3>2
      <4>2. (i - 1) * Interval = (i - 2) * Interval + Interval /\ (i - 2) * Interval \in Nat
        BY <1>3, <4>1, OnePlaceMore
      <4>3. rotated >= c.since + (i - 2) * Interval
        BY <1>5, <3>2
      <4> HIDE DEF Swap
      <4> QED BY <1>1, <1>2, <1>3, <4>2, <4>3
    <3> QED BY <3>1, <3>2
  <2>2. CASE i > Retain
    <3>1. Retain * Interval <= (i - 1) * Interval
      <4>1. i - 1 \in Nat /\ Retain <= i - 1
        BY <1>3, <2>2
      <4> QED BY <1>3, <4>1, MorePlaces
    <3>2. now >= c.since + Retain * Interval
      BY <1>2, <1>3, <2>1, <3>1, StillAfter
    <3> QED BY <1>1, <3>2 DEF KeyKept
  <2>3. CASE ~(i > Retain)
    <3>1. PICK j \in 1..Len(ring') : ring'[j] = ring[i] /\ (j = 1 \/ j <= i + 1)
      BY <1>1, <2>3, Rotation
    <3>2. CASE j = 1
      BY <1>5, <3>1, <3>2 DEF KeyKept
    <3>3. CASE j # 1
      <4>1. j - 2 \in Nat /\ i - 1 \in Nat /\ j - 2 <= i - 1
        <5>1. j \in Nat /\ j >= 1 /\ j <= i + 1 /\ i \in Nat /\ i >= 1
          <6>1. Len(ring') \in Nat
            BY <1>1, Rotation
          <6> QED BY <1>2, <3>1, <3>3, <6>1
        <5> QED BY <3>3, <5>1
      <4>2. (j - 2) * Interval <= (i - 1) * Interval /\ (j - 2) * Interval \in Nat
        BY <1>3, <4>1, MorePlaces
      <4>3. rotated' >= c.since + (j - 2) * Interval
        <5>1. now >= c.since + (j - 2) * Interval
          BY <1>2, <2>1, <4>2, StillAfter
        <5> QED BY <1>1, <5>1
      <4> QED BY <1>5, <3>1, <4>3 DEF KeyKept
    <3> QED BY <3>2, <3>3
  <2> QED BY <2>2, <2>3
<1> QED BY <1>4, <1>5 DEF KeyKept

\* A cursor that is issued is dated by a clock, and signed with the active key if
\* it says so.
LEMMA IssuedKept ==
  ASSUME CursorTypeOK, NEW p \in Procs,
         NEW keys \in Seq(Keys), keys # <<>>, UNCHANGED <<now, ring, rotated>>,
         NEW c, c = Issued(keys, p)
  PROVE  /\ c \in [key : Keys, stamp : 0..(MaxTime + Skew), since : 0..now, current : BOOLEAN]
         /\ CursorKept(c)'
<1>1. /\ now \in 0..MaxTime /\ MaxTime \in Nat /\ Skew \in Nat /\ Offset[p] \in 0..Skew
      /\ ring \in Seq(Keys) /\ Len(ring) >= 1
  BY SignerParameters DEF CursorTypeOK
<1>2. /\ c.key = Head(keys) /\ c.stamp = now + Offset[p] /\ c.since = now
      /\ c.current <=> Head(keys) = Head(ring)
  BY DEF Issued, Clock
<1>3. c \in [key : Keys, stamp : 0..(MaxTime + Skew), since : 0..now, current : BOOLEAN]
  <2>1. Head(keys) \in Keys
    OBVIOUS
  <2>2. now + Offset[p] \in 0..(MaxTime + Skew) /\ now \in 0..now
    BY <1>1
  <2> QED BY <2>1, <2>2 DEF Issued, Clock
<1>4. c.since <= c.stamp /\ c.stamp <= c.since + Skew
  BY <1>1, <1>2
<1>5. c.current => KeyKept(c)'
  <2>1. Head(ring) = ring[1] /\ 1 \in 1..Len(ring)
    BY <1>1
  <2> QED BY <1>2, <2>1 DEF KeyKept
<1> QED BY <1>3, <1>4, <1>5 DEF CursorKept

\* The initial state satisfies the invariant.
LEMMA SignerInit ==
  ASSUME InitCursors
  PROVE  SignerInv
<1>1. PICK k \in Keys : ring = <<k>>
  BY DEF InitCursors
<1>2. ring \in Seq(Keys) /\ Len(ring) = 1 /\ IsInjective(ring)
  BY <1>1 DEF IsInjective
<1>3. MaxTime \in Nat /\ MaxKeys \in Nat \ {0}
  BY SignerParameters
<1> QED BY <1>2, <1>3 DEF InitCursors, CursorTypeOK, NoRing, SignerInv

\* Every step preserves the invariant.
LEMMA SignerStep ==
  ASSUME SignerInv, [NextCursors]_cursorVars
  PROVE  SignerInv'
<1>1. CursorTypeOK /\ \A c \in cursors : CursorKept(c)
  BY DEF SignerInv
<1>2. ASSUME NEW p \in Procs, OpenSession(p) PROVE SignerInv'
  BY <1>1, <1>2 DEF OpenSession, SignerInv, CursorTypeOK, CursorKept, KeyKept
<1>3. ASSUME NEW p \in Procs, Close(p) PROVE SignerInv'
  <2>1. <<>> \in Seq(Keys) /\ Len(<<>>) = 0 /\ MaxKeys \in Nat
    BY SignerParameters
  <2> QED BY <1>1, <1>3, <2>1
          DEF Close, NoRing, SignerInv, CursorTypeOK, CursorKept, KeyKept
<1>4. ASSUME NEW p \in Procs, NEW keys \in Seq(Keys), keys # <<>>,
             cursors' = cursors \cup {Issued(keys, p)},
             UNCHANGED <<now, ring, rotated, session>>
      PROVE  SignerInv'
  <2>0. PICK c : c = Issued(keys, p)
    OBVIOUS
  <2>1. /\ c \in [key : Keys, stamp : 0..(MaxTime + Skew), since : 0..now, current : BOOLEAN]
        /\ CursorKept(c)'
    BY <1>1, <1>4, <2>0, IssuedKept
  <2>2. CursorTypeOK'
    BY <1>1, <1>4, <2>0, <2>1 DEF CursorTypeOK
  <2>3. \A d \in cursors' : CursorKept(d)'
    <3>1. ASSUME NEW d \in cursors PROVE CursorKept(d)'
      BY <1>1, <1>4 DEF CursorKept, KeyKept
    <3> QED BY <1>4, <2>0, <2>1, <3>1
  <2> QED BY <2>2, <2>3 DEF SignerInv
<1>5. ASSUME NEW p \in Procs, Send(p) \/ SendStatus(p) PROVE SignerInv'
  <2>1. /\ ring \in Seq(Keys) /\ ring # <<>> /\ session[p] \in Seq(Keys)
    BY <1>1 DEF CursorTypeOK
  <2> QED BY <1>4, <1>5, <2>1 DEF Send, SendStatus, Hand, NoRing
<1>6. ASSUME NEW c \in cursors, Forget(c) PROVE SignerInv'
  BY <1>1, <1>6 DEF Forget, SignerInv, CursorTypeOK, CursorKept, KeyKept
<1>7. ASSUME NEW k \in Keys, Swap(k) PROVE SignerInv'
  <2>1. /\ ring' = Rotated(ring, k) /\ rotated' = now
        /\ UNCHANGED <<now, session, cursors>>
    BY <1>7 DEF Swap
  <2>2. /\ ring' \in Seq(Keys) /\ Len(ring') \in 1..MaxKeys
        /\ \A i, j \in 1..Len(ring') : ring'[i] = ring'[j] => i = j
    BY <1>1, <2>1, Rotation
  <2>3. CursorTypeOK'
    <3>1. IsInjective(ring')
      BY <2>2 DEF IsInjective
    <3>2. now \in 0..now
      BY <1>1, SignerParameters DEF CursorTypeOK
    <3> QED BY <1>1, <2>1, <2>2, <3>1, <3>2 DEF CursorTypeOK
  <2>4. \A c \in cursors : CursorKept(c)'
    BY <1>1, <1>7, RotationKeeps DEF CursorKept
  <2> QED BY <2>1, <2>3, <2>4 DEF SignerInv
<1>8. CASE Tick
  <2>1. now' = now + 1 /\ now < MaxTime /\ UNCHANGED <<ring, rotated, session, cursors>>
    BY <1>8 DEF Tick
  <2>2. now \in Nat /\ now' \in 0..MaxTime /\ 0..now \subseteq 0..now' /\ rotated \in 0..now'
    BY <1>1, <2>1, SignerParameters DEF CursorTypeOK
  <2>3. CursorTypeOK'
    BY <1>1, <2>1, <2>2 DEF CursorTypeOK
  <2> QED BY <1>1, <2>1, <2>3 DEF SignerInv, CursorKept, KeyKept
<1>9. CASE UNCHANGED cursorVars
  BY <1>1, <1>9 DEF cursorVars, SignerInv, CursorTypeOK, CursorKept, KeyKept
<1> QED BY <1>2, <1>3, <1>5, <1>6, <1>7, <1>8, <1>9 DEF NextCursors, Resume, RefuseCursor

\* The invariant holds in every reachable state.
LEMMA SignerInvariance == SpecCursors => []SignerInv
<1>1. InitCursors => SignerInv
  BY SignerInit
<1>2. SignerInv /\ [NextCursors]_cursorVars => SignerInv'
  BY SignerStep
<1> QED BY <1>1, <1>2, PTL DEF SpecCursors

\* RingInv: every variable has its type, the constructor accepts every ring that
\* rotate makes, and no cursor is accepted for longer than its age and the skew.
THEOREM RingSound == SpecCursors => []RingInv
<1>1. SignerInv => RingInv
  <2> SUFFICES ASSUME SignerInv, NEW c \in cursors, NEW p \in Procs, Verifies(ring, p, c)
               PROVE  now - c.since <= MaxAge + Skew
    BY DEF SignerInv, RingInv, CursorsExpire
  <2>1. /\ now \in Nat /\ c.since \in Nat /\ c.stamp \in Nat /\ c.stamp <= c.since + Skew
        /\ Offset[p] \in 0..Skew /\ MaxAge \in Nat /\ Skew \in Nat
    BY SignerParameters DEF SignerInv, CursorKept, CursorTypeOK
  <2>2. (now + Offset[p]) - c.stamp <= MaxAge
    BY DEF Verifies, Timely, Clock
  <2> QED BY <2>1, <2>2
<1> QED BY <1>1, SignerInvariance, PTL

\* FreshCursorsAccepted: within its age a cursor signed with the service's active
\* key is accepted by every process, however often the keys were rotated since.
THEOREM FreshAccepted == SpecCursors => []FreshCursorsAccepted
<1>1. SignerInv => FreshCursorsAccepted
  <2> SUFFICES ASSUME SignerInv, NEW c \in cursors, NEW p \in Procs,
                      c.current, Clock(p) - c.stamp <= MaxAge
               PROVE  Verifies(ring, p, c)
    BY DEF FreshCursorsAccepted
  <2>1. /\ now \in Nat /\ rotated \in Nat /\ rotated <= now
        /\ c.since \in Nat /\ c.since <= now /\ c.stamp \in Nat
        /\ c.since <= c.stamp /\ c.stamp <= c.since + Skew /\ KeyKept(c)
    BY SignerParameters DEF SignerInv, CursorKept, CursorTypeOK
  <2>2. /\ Offset[p] \in 0..Skew /\ MaxAge \in Nat /\ Skew \in Nat
        /\ Retain * Interval \in Nat /\ Retain * Interval > MaxAge + Skew
    BY SignerParameters
  <2>3. (now + Offset[p]) - c.stamp <= MaxAge /\ Clock(p) = now + Offset[p]
    BY DEF Clock
  <2>4. c.stamp <= (now + Offset[p]) + Skew
    BY <2>1, <2>2
  <2>5. ~(rotated >= c.since + Retain * Interval)
    BY <2>1, <2>2, <2>3
  <2>6. \E i \in 1..Len(ring) : ring[i] = c.key
    BY <2>1, <2>5 DEF KeyKept
  <2>7. c.key \in ToSet(ring)
    BY <2>6 DEF ToSet, SignerInv, CursorTypeOK
  <2> QED BY <2>3, <2>4, <2>7 DEF Verifies, Timely
<1> QED BY <1>1, SignerInvariance, PTL
=============================================================================
