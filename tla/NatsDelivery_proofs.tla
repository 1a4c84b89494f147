-------------------------- MODULE NatsDelivery_proofs --------------------------
(***************************************************************************)
(* The safety properties of NatsDelivery for any number of consumers,      *)
(* events, deliveries and faults.                                          *)
(***************************************************************************)
EXTENDS NatsDelivery, FiniteSetTheorems, TLAPS

\* What is on the stream is an event or the marker of one; only a consumer
\* that sees markers can produce a marker of no event.
StreamOK ==
    /\ \A m \in 1..Len(stream) : stream[m].kind = "event" => stream[m].seq \in Events
    /\ PlaneFilter => MarkersNameEvents
    /\ PlaneFilter => \A c \in Consumers : at[c] # 0 => stream[at[c]].kind = "event"

\* A consumer about to acknowledge a message has handled its event; one about
\* to terminate it has published the marker.
OutcomeBeforeSettling ==
    \A c \in Consumers :
        /\ pc[c] = "ack" => stream[at[c]].kind = "event" /\ stream[at[c]].seq \in handled
        /\ pc[c] = "term" /\ stream[at[c]].kind = "event" => Marked(stream[at[c]].seq)

\* Every delivery of a message has a number of its own.
NumbersAreUnique ==
    \A c, d \in Consumers : at[c] # 0 /\ at[c] = at[d] /\ count[c] = count[d] => c = d

\* The numbers, below max_deliver, of the deliveries of a message under way.
Numbers(m) == {n \in 1..(MaxDeliver - 1) : \E c \in Consumers : at[c] = m /\ count[c] = n}

\* A message was sent back at most as often as it was delivered, but for the
\* deliveries under way and those that give up.
Accounted ==
    \A m \in 1..Len(stream) :
        /\ naks[m] + Cardinality(Numbers(m)) <= deliveries[m]
        /\ naks[m] + Cardinality(Numbers(m)) <= MaxDeliver - 1

\* The inductive invariant.
Inv ==
    /\ TypeOK
    /\ StreamOK
    /\ OutcomeBeforeSettling
    /\ SettledHasOutcome
    /\ NumbersAreUnique
    /\ Accounted

-----------------------------------------------------------------------------
(* Lemmas about the operators. *)

\* Putting a message on the stream leaves the ones before it as they are.
LEMMA PutFacts ==
  ASSUME TypeOK, NEW message \in Message, Put(message)
  PROVE  /\ Len(stream) \in Nat
         /\ stream' \in Seq(Message) /\ Len(stream') = Len(stream) + 1 /\ Len(stream') <= MaxMessages
         /\ status' \in Seq({"ready", "pending", "settled"}) /\ Len(status') = Len(stream')
         /\ deliveries' \in Seq(Nat) /\ Len(deliveries') = Len(stream')
         /\ naks' \in Seq(Nat) /\ Len(naks') = Len(stream')
         /\ \A m \in 1..Len(stream) :
               /\ stream'[m] = stream[m] /\ status'[m] = status[m]
               /\ deliveries'[m] = deliveries[m] /\ naks'[m] = naks[m]
         /\ stream'[Len(stream) + 1] = message /\ status'[Len(stream) + 1] = "ready"
         /\ deliveries'[Len(stream) + 1] = 0 /\ naks'[Len(stream) + 1] = 0
BY NatsAssumption DEF TypeOK, Put

\* The numbers under way are finitely many.
LEMMA NumbersFinite ==
  ASSUME NEW m
  PROVE  /\ IsFiniteSet(Numbers(m)) /\ Cardinality(Numbers(m)) \in Nat
         /\ Numbers(m) \subseteq 1..(MaxDeliver - 1)
<1>1. Numbers(m) \subseteq 1..(MaxDeliver - 1)
  BY DEF Numbers
<1>2. IsFiniteSet(1..(MaxDeliver - 1))
  BY NatsAssumption, FS_Interval
<1> QED BY <1>1, <1>2, FS_Subset, FS_CardinalityType

\* A consumer at work holds a message of the stream.
LEMMA AtMessage ==
  ASSUME TypeOK, NEW c \in Consumers, pc[c] # "idle"
  PROVE  Len(stream) \in Nat /\ at[c] \in 1..Len(stream)
<1>1. at[c] \in 0..Len(stream) /\ at[c] # 0 /\ Len(stream) \in Nat
  BY DEF TypeOK
<1> QED BY <1>1

\* The initial state satisfies the invariant.
LEMMA InitInv == Init => Inv
<1> SUFFICES ASSUME Init PROVE Inv
  OBVIOUS
<1> USE NatsAssumption DEF Init
<1>1. TypeOK
  BY DEF TypeOK
<1> QED BY <1>1 DEF Inv, StreamOK, MarkersNameEvents, OutcomeBeforeSettling, SettledHasOutcome,
                    NumbersAreUnique, Accounted

\* A message more on the stream, while the consumers hold what they held.
LEMMA PutInv ==
  ASSUME Inv, NEW message \in Message, Put(message), UNCHANGED <<at, count>>,
         message.kind = "event" => message.seq \in Events,
         PlaneFilter /\ message.kind = "marker" => message.seq \in Events
  PROVE  /\ StreamOK' /\ NumbersAreUnique' /\ Accounted'
         /\ \A e : Marked(e) => Marked(e)'
<1> USE DEF Inv
<1> DEFINE h == Len(stream) + 1
<1>1. TypeOK
  OBVIOUS
<1> HIDE DEF h
<1>2. /\ Len(stream) \in Nat /\ Len(stream') = h
      /\ h = Len(stream) + 1
      /\ \A m \in 1..Len(stream) : /\ stream'[m] = stream[m]
                                   /\ deliveries'[m] = deliveries[m] /\ naks'[m] = naks[m]
      /\ stream'[h] = message /\ deliveries'[h] = 0 /\ naks'[h] = 0
  BY <1>1, PutFacts DEF h
<1>3. \A m \in 1..h : m \in 1..Len(stream) \/ m = h
  BY <1>2
<1>4. \A c \in Consumers : at[c] \in 0..Len(stream)
  BY DEF TypeOK
<1>5. StreamOK'
  <2>1. \A m \in 1..Len(stream') : stream'[m].kind = "event" => stream'[m].seq \in Events
    BY <1>2, <1>3 DEF StreamOK
  <2>2. PlaneFilter => \A m \in 1..Len(stream') : stream'[m].kind = "marker" => stream'[m].seq \in Events
    BY <1>2, <1>3 DEF StreamOK, MarkersNameEvents
  <2>3. PlaneFilter => \A c \in Consumers : at'[c] # 0 => stream'[at'[c]].kind = "event"
    BY <1>2, <1>4 DEF StreamOK
  <2> QED BY <2>1, <2>2, <2>3 DEF StreamOK, MarkersNameEvents
<1>6. \A m : Numbers(m)' = Numbers(m)
  BY DEF Numbers
<1>7. Cardinality(Numbers(h)) = 0
  <2>1. Numbers(h) = {}
    BY <1>2, <1>4 DEF Numbers
  <2> QED BY <2>1, FS_EmptySet
<1>8. Accounted'
  <2> SUFFICES ASSUME NEW m \in 1..h
               PROVE  /\ naks'[m] + Cardinality(Numbers(m)) <= deliveries'[m]
                      /\ naks'[m] + Cardinality(Numbers(m)) <= MaxDeliver - 1
    BY <1>2, <1>6 DEF Accounted
  <2>1. CASE m \in 1..Len(stream)
    BY <2>1, <1>2 DEF Accounted
  <2>2. CASE m = h
    BY <2>2, <1>2, <1>7, NatsAssumption
  <2> QED BY <1>3, <2>1, <2>2
<1>9. \A e : Marked(e) => Marked(e)'
  BY <1>2 DEF Marked
<1> QED BY <1>5, <1>8, <1>9 DEF NumbersAreUnique

\* The publisher puts an event on the stream.
LEMMA PublishInv == ASSUME Inv, NEW e \in Events, Publish(e) PROVE Inv'
<1> USE DEF Inv, Publish
<1> DEFINE message == [kind |-> "event", seq |-> e]
<1>1. TypeOK /\ message \in Message /\ Put(message) /\ UNCHANGED <<at, count>>
  BY NatsAssumption DEF Message
<1>2. message.kind = "event" /\ message.seq \in Events
  OBVIOUS
<1> HIDE DEF message
<1>3. StreamOK' /\ NumbersAreUnique' /\ Accounted' /\ \A x : Marked(x) => Marked(x)'
  BY <1>1, <1>2, PutInv
<1>4. /\ Len(stream) \in Nat
      /\ stream' \in Seq(Message) /\ Len(stream') = Len(stream) + 1 /\ Len(stream') <= MaxMessages
      /\ status' \in Seq({"ready", "pending", "settled"}) /\ Len(status') = Len(stream')
      /\ deliveries' \in Seq(Nat) /\ Len(deliveries') = Len(stream')
      /\ naks' \in Seq(Nat) /\ Len(naks') = Len(stream')
      /\ \A m \in 1..Len(stream) : stream'[m] = stream[m] /\ status'[m] = status[m]
                                   /\ deliveries'[m] = deliveries[m]
      /\ status'[Len(stream) + 1] = "ready"
  BY <1>1, PutFacts
<1>5. TypeOK'
  <2>1. faults' \in 0..MaxFaults
    BY NatsAssumption DEF TypeOK
  <2>2. at' \in [Consumers -> 0..Len(stream')]
    BY <1>4 DEF TypeOK
  <2>3. ASSUME NEW c \in Consumers, at'[c] # 0 PROVE count'[c] \in 1..deliveries'[at'[c]]
    <3>1. at[c] \in 1..Len(stream) /\ count[c] \in 1..deliveries[at[c]]
      BY <2>3 DEF TypeOK
    <3> QED BY <1>4, <3>1
  <2> QED BY <1>4, <2>1, <2>2, <2>3 DEF TypeOK
<1>6. \A c \in Consumers : pc[c] # "idle" => at[c] \in 1..Len(stream)
  BY DEF TypeOK
<1>7. OutcomeBeforeSettling'
  BY <1>3, <1>4, <1>6 DEF OutcomeBeforeSettling
<1>8. SettledHasOutcome'
  BY <1>3, <1>4 DEF SettledHasOutcome
<1> QED BY <1>3, <1>5, <1>7, <1>8

\* The server delivers a message under the next number.
LEMMA DeliverInv ==
  ASSUME Inv, NEW c \in Consumers, NEW m \in 1..Len(stream), Deliver(c, m)
  PROVE  Inv'
<1> USE DEF Inv, Deliver, Goto
<1>1. /\ status' \in Seq({"ready", "pending", "settled"}) /\ Len(status') = Len(stream)
      /\ deliveries' \in Seq(Nat) /\ Len(deliveries') = Len(stream)
      /\ deliveries[m] \in Nat /\ deliveries'[m] = deliveries[m] + 1
      /\ \A k \in 1..Len(stream) : k # m => deliveries'[k] = deliveries[k] /\ status'[k] = status[k]
      /\ status'[m] = "pending"
  BY DEF TypeOK
<1>2. /\ at[c] = 0
      /\ at'[c] = m /\ count'[c] = deliveries[m] + 1 /\ pc'[c] = "handle"
      /\ \A d \in Consumers \ {c} : at'[d] = at[d] /\ count'[d] = count[d] /\ pc'[d] = pc[d]
  BY DEF TypeOK
<1>3. \A d \in Consumers : at[d] # 0 => at[d] \in 1..Len(stream) /\ count[d] \in 1..deliveries[at[d]]
  BY DEF TypeOK
<1>4. TypeOK'
  <2>1. \A d \in Consumers : at'[d] # 0 => count'[d] \in 1..deliveries'[at'[d]]
    <3> SUFFICES ASSUME NEW d \in Consumers, at'[d] # 0 PROVE count'[d] \in 1..deliveries'[at'[d]]
      OBVIOUS
    <3>1. CASE d = c
      BY <1>1, <1>2, <3>1
    <3>2. CASE d # c
      <4>1. at'[d] = at[d] /\ count'[d] = count[d]
        BY <1>2, <3>2
      <4>2. at[d] \in 1..Len(stream) /\ count[d] \in 1..deliveries[at[d]]
        BY <1>3, <4>1
      <4>3. deliveries[at[d]] \in Nat
        BY <4>2 DEF TypeOK
      <4>4. deliveries'[at[d]] \in Nat /\ deliveries'[at[d]] >= deliveries[at[d]]
        BY <1>1, <4>2, <4>3
      <4> QED BY <4>1, <4>2, <4>3, <4>4
    <3> QED BY <3>1, <3>2
  <2>2. \A d \in Consumers : at'[d] = 0 <=> pc'[d] = "idle"
    BY <1>2 DEF TypeOK
  <2>3. /\ pc' \in [Consumers -> {"idle", "handle", "ack", "deadletter", "term"}]
        /\ at' \in [Consumers -> 0..Len(stream)] /\ count' \in [Consumers -> Nat]
    BY <1>1 DEF TypeOK
  <2> QED BY <1>1, <2>1, <2>2, <2>3 DEF TypeOK
<1>5. StreamOK'
  BY <1>2 DEF StreamOK, MarkersNameEvents, Matches
<1>6. OutcomeBeforeSettling'
  BY <1>2 DEF OutcomeBeforeSettling, Marked
<1>7. SettledHasOutcome'
  BY <1>1 DEF SettledHasOutcome, Marked
<1>8. NumbersAreUnique'
  BY <1>1, <1>2, <1>3 DEF NumbersAreUnique
<1>9. Accounted'
  <2> SUFFICES ASSUME NEW k \in 1..Len(stream)
               PROVE  /\ naks[k] + Cardinality(Numbers(k)') <= deliveries'[k]
                      /\ naks[k] + Cardinality(Numbers(k)') <= MaxDeliver - 1
    BY DEF Accounted
  <2> DEFINE n == deliveries[m] + 1
  <2>1. naks[k] \in Nat /\ deliveries[k] \in Nat /\ MaxDeliver \in Nat \ {0}
    BY NatsAssumption DEF TypeOK
  <2>2. /\ naks[k] + Cardinality(Numbers(k)) <= deliveries[k]
        /\ naks[k] + Cardinality(Numbers(k)) <= MaxDeliver - 1
        /\ IsFiniteSet(Numbers(k)) /\ Cardinality(Numbers(k)) \in Nat
    BY NumbersFinite DEF Accounted
  <2>3. CASE k # m
    <3>1. Numbers(k)' = Numbers(k)
      BY <2>3, <1>2 DEF Numbers
    <3> QED BY <2>2, <2>3, <3>1, <1>1
  <2>4. CASE k = m /\ n < MaxDeliver
    <3>1. \A d \in Consumers : at[d] = m => count[d] \in Int /\ count[d] < n
      BY <1>1, <1>3
    <3>a. n \notin Numbers(k)
      BY <2>4, <3>1 DEF Numbers
    <3>2. Numbers(k)' = Numbers(k) \cup {n}
      BY <1>1, <1>2, <2>1, <2>4 DEF Numbers
    <3>3. Cardinality(Numbers(k)') = Cardinality(Numbers(k)) + 1
      BY <2>2, <3>a, <3>2, FS_AddElement
    <3> QED BY <1>1, <2>1, <2>2, <2>4, <3>3
  <2>5. CASE k = m /\ ~(n < MaxDeliver)
    <3>1. Numbers(k)' = Numbers(k)
      BY <1>1, <1>2, <2>1, <2>5 DEF Numbers
    <3> QED BY <1>1, <2>1, <2>2, <2>5, <3>1
  <2> QED BY <2>3, <2>4, <2>5
<1> QED BY <1>4, <1>5, <1>6, <1>7, <1>8, <1>9

\* A step of a consumer that keeps its message.
LEMMA GotoInv ==
  ASSUME Inv, NEW c \in Consumers,
         HandlerReturns(c) \/ Refuse(c) \/ GiveUp(c)
  PROVE  Inv'
<1> USE DEF Inv
<1>1. /\ UNCHANGED <<stream, status, deliveries, at, count, naks>>
      /\ pc[c] = "handle"
      /\ \E label \in {"ack", "deadletter"} : pc' = [pc EXCEPT ![c] = label]
      /\ \/ UNCHANGED handled
         \/ Decodes(c) /\ handled' = handled \cup {stream[at[c]].seq}
      /\ pc'[c] = "ack" => Decodes(c) /\ stream[at[c]].seq \in handled'
      /\ faults' \in 0..MaxFaults
  BY NatsAssumption DEF HandlerReturns, Refuse, GiveUp, HandlerRaises, Goto, messageVars, TypeOK
<1>2. at[c] \in 1..Len(stream)
  BY <1>1, AtMessage
<1>3. handled' \subseteq Events /\ handled \subseteq handled'
  BY <1>1, <1>2 DEF TypeOK, StreamOK, Decodes
<1>4. TypeOK'
  BY <1>1, <1>3 DEF TypeOK
<1>5. StreamOK' /\ NumbersAreUnique'
  BY <1>1 DEF StreamOK, MarkersNameEvents, NumbersAreUnique
<1>6. OutcomeBeforeSettling' /\ SettledHasOutcome'
  BY <1>1, <1>3 DEF OutcomeBeforeSettling, SettledHasOutcome, Marked, Decodes, TypeOK
<1>7. Accounted'
  BY <1>1 DEF Accounted, Numbers
<1> QED BY <1>4, <1>5, <1>6, <1>7

\* A consumer is done with its message.
LEMMA ReleaseInv ==
  ASSUME Inv, NEW c \in Consumers, pc[c] # "idle", Release(c), UNCHANGED <<stream, deliveries, handled>>
  PROVE  /\ StreamOK' /\ OutcomeBeforeSettling' /\ NumbersAreUnique'
         /\ naks' = naks => Accounted'
         /\ pc' \in [Consumers -> {"idle", "handle", "ack", "deadletter", "term"}]
         /\ at' \in [Consumers -> 0..Len(stream)] /\ count' \in [Consumers -> Nat]
         /\ \A d \in Consumers : IF pc'[d] = "idle" THEN at'[d] = 0
                                 ELSE at'[d] # 0 /\ count'[d] \in 1..deliveries'[at'[d]]
<1> USE DEF Inv, Release, Goto
<1>1. /\ at'[c] = 0 /\ count'[c] = 0 /\ pc'[c] = "idle"
      /\ \A d \in Consumers \ {c} : at'[d] = at[d] /\ count'[d] = count[d] /\ pc'[d] = pc[d]
  BY DEF TypeOK
<1>2. StreamOK' /\ OutcomeBeforeSettling' /\ NumbersAreUnique'
  BY <1>1 DEF StreamOK, MarkersNameEvents, OutcomeBeforeSettling, NumbersAreUnique, Marked
<1>3. ASSUME naks' = naks PROVE Accounted'
  <2> SUFFICES ASSUME NEW m \in 1..Len(stream)
               PROVE  /\ naks[m] + Cardinality(Numbers(m)') <= deliveries[m]
                      /\ naks[m] + Cardinality(Numbers(m)') <= MaxDeliver - 1
    BY <1>3 DEF Accounted
  <2>1. Numbers(m)' \subseteq Numbers(m)
    BY <1>1 DEF Numbers
  <2>2. Cardinality(Numbers(m)') <= Cardinality(Numbers(m)) /\ Cardinality(Numbers(m)') \in Nat
    BY <2>1, NumbersFinite, FS_Subset, FS_CardinalityType
  <2>3. naks[m] \in Nat /\ deliveries[m] \in Nat /\ MaxDeliver \in Nat \ {0}
    BY NatsAssumption DEF TypeOK
  <2> QED BY <2>2, <2>3, NumbersFinite DEF Accounted
<1>4. /\ pc' \in [Consumers -> {"idle", "handle", "ack", "deadletter", "term"}]
      /\ at' \in [Consumers -> 0..Len(stream)] /\ count' \in [Consumers -> Nat]
  BY DEF TypeOK
<1>5. \A d \in Consumers : IF pc'[d] = "idle" THEN at'[d] = 0
                           ELSE at'[d] # 0 /\ count'[d] \in 1..deliveries'[at'[d]]
  BY <1>1 DEF TypeOK
<1> QED BY <1>2, <1>3, <1>4, <1>5

\* The message is settled, its outcome being there.
LEMMA SettleInv ==
  ASSUME Inv, NEW c \in Consumers, Ack(c) \/ Term(c)
  PROVE  Inv'
<1> USE DEF Inv
<1>1. /\ pc[c] \in {"ack", "term"} /\ Release(c)
      /\ status' = [status EXCEPT ![at[c]] = "settled"]
      /\ UNCHANGED <<stream, deliveries, handled, naks, faults>>
  <2>1. /\ pc[c] \in {"ack", "term"} /\ Leave(c, "settled") /\ UNCHANGED <<handled, naks, faults>>
    BY DEF Ack, Term
  <2> QED BY <2>1 DEF Leave
<1>2. at[c] \in 1..Len(stream)
  BY <1>1, AtMessage
<1>3. StreamOK' /\ OutcomeBeforeSettling' /\ NumbersAreUnique' /\ Accounted'
  BY <1>1, ReleaseInv
<1>4. /\ status' \in Seq({"ready", "pending", "settled"}) /\ Len(status') = Len(stream)
      /\ \A m \in 1..Len(stream) : status'[m] = IF m = at[c] THEN "settled" ELSE status[m]
  BY <1>1, <1>2 DEF TypeOK
<1>5. TypeOK'
  <2>1. /\ pc' \in [Consumers -> {"idle", "handle", "ack", "deadletter", "term"}]
        /\ at' \in [Consumers -> 0..Len(stream)] /\ count' \in [Consumers -> Nat]
        /\ \A d \in Consumers : IF pc'[d] = "idle" THEN at'[d] = 0
                                ELSE at'[d] # 0 /\ count'[d] \in 1..deliveries'[at'[d]]
    BY <1>1, ReleaseInv
  <2> QED BY <1>1, <1>4, <2>1 DEF TypeOK
<1>6. SettledHasOutcome'
  BY <1>1, <1>2, <1>4 DEF SettledHasOutcome, OutcomeBeforeSettling, Marked
<1> QED BY <1>3, <1>5, <1>6

\* A message that is sent back has used up one of its deliveries.
LEMMA NakInv == ASSUME Inv, NEW c \in Consumers, Nak(c) PROVE Inv'
<1> USE DEF Inv
<1>1. /\ pc[c] = "handle" /\ ~(count[c] >= MaxDeliver) /\ Release(c)
      /\ status' = [status EXCEPT ![at[c]] = IF @ = "settled" THEN @ ELSE "ready"]
      /\ naks' = [naks EXCEPT ![at[c]] = @ + 1]
      /\ UNCHANGED <<stream, deliveries, handled>>
      /\ faults' \in 0..MaxFaults
  BY NatsAssumption DEF Nak, HandlerRaises, Leave, Exhausted, TypeOK
<1>2. at[c] \in 1..Len(stream)
  BY <1>1, AtMessage
<1>3. StreamOK' /\ OutcomeBeforeSettling' /\ NumbersAreUnique'
  BY <1>1, ReleaseInv
<1>4. /\ status' \in Seq({"ready", "pending", "settled"}) /\ Len(status') = Len(stream)
      /\ \A m \in 1..Len(stream) : status'[m] = "settled" => status[m] = "settled"
      /\ naks' \in Seq(Nat) /\ Len(naks') = Len(stream)
      /\ \A m \in 1..Len(stream) : naks'[m] = IF m = at[c] THEN naks[m] + 1 ELSE naks[m]
  BY <1>1, <1>2 DEF TypeOK
<1>5. TypeOK'
  <2>1. /\ pc' \in [Consumers -> {"idle", "handle", "ack", "deadletter", "term"}]
        /\ at' \in [Consumers -> 0..Len(stream)] /\ count' \in [Consumers -> Nat]
        /\ \A d \in Consumers : IF pc'[d] = "idle" THEN at'[d] = 0
                                ELSE at'[d] # 0 /\ count'[d] \in 1..deliveries'[at'[d]]
    BY <1>1, ReleaseInv
  <2> QED BY <1>1, <1>4, <2>1 DEF TypeOK
<1>6. SettledHasOutcome'
  BY <1>1, <1>4 DEF SettledHasOutcome, Marked
<1>7. Accounted'
  <2> SUFFICES ASSUME NEW m \in 1..Len(stream)
               PROVE  /\ naks'[m] + Cardinality(Numbers(m)') <= deliveries[m]
                      /\ naks'[m] + Cardinality(Numbers(m)') <= MaxDeliver - 1
    BY <1>1 DEF Accounted
  <2>1. naks[m] \in Nat /\ deliveries[m] \in Nat /\ MaxDeliver \in Nat \ {0}
    BY NatsAssumption DEF TypeOK
  <2>2. /\ naks[m] + Cardinality(Numbers(m)) <= deliveries[m]
        /\ naks[m] + Cardinality(Numbers(m)) <= MaxDeliver - 1
        /\ IsFiniteSet(Numbers(m)) /\ Cardinality(Numbers(m)) \in Nat
    BY NumbersFinite DEF Accounted
  <2>3. /\ at'[c] = 0
        /\ \A d \in Consumers \ {c} : at'[d] = at[d] /\ count'[d] = count[d]
    BY <1>1 DEF Release, TypeOK
  <2>4. CASE m = at[c]
    <3>1. count[c] \in 1..(MaxDeliver - 1)
      <4>1. count[c] \in 1..deliveries[at[c]]
        BY <1>1 DEF TypeOK
      <4> QED BY <1>1, <2>1, <2>4, <4>1
    <3>2. count[c] \in Numbers(m)
      BY <2>4, <3>1 DEF Numbers
    <3>3. Numbers(m)' = Numbers(m) \ {count[c]}
      <4>1. \A d \in Consumers \ {c} : at[d] = m => count[d] # count[c]
        BY <1>2, <2>4 DEF NumbersAreUnique
      <4> QED BY <1>2, <2>3, <2>4, <4>1 DEF Numbers
    <3>4. Cardinality(Numbers(m)') = Cardinality(Numbers(m)) - 1
      BY <2>2, <3>2, <3>3, FS_RemoveElement
    <3>5. naks'[m] = naks[m] + 1
      BY <1>4, <2>4
    <3> QED BY <2>1, <2>2, <3>4, <3>5
  <2>5. CASE m # at[c]
    <3>1. Numbers(m)' = Numbers(m)
      BY <2>3, <2>5 DEF Numbers
    <3> QED BY <1>4, <2>2, <2>5, <3>1
  <2> QED BY <2>4, <2>5
<1> QED BY <1>3, <1>5, <1>6, <1>7

\* The marker is on the stream before the message is terminated.
LEMMA PublishMarkerInv == ASSUME Inv, NEW c \in Consumers, PublishMarker(c) PROVE Inv'
<1> USE DEF Inv
<1> DEFINE message == [kind |-> "marker", seq |-> IF Decodes(c) THEN stream[at[c]].seq ELSE 0]
<1>1. /\ pc[c] = "deadletter" /\ pc' = [pc EXCEPT ![c] = "term"]
      /\ Put(message) /\ UNCHANGED <<at, count, handled, faults>>
  BY DEF PublishMarker, Goto
<1>2. at[c] \in 1..Len(stream)
  BY <1>1, AtMessage
<1>3. message \in Message /\ message.kind = "marker"
  <2>1. stream[at[c]] \in Message
    BY <1>2 DEF TypeOK
  <2>2. stream[at[c]].seq \in Nat
    BY <2>1 DEF Message
  <2> QED BY <2>2 DEF Message
<1>4. PlaneFilter => message.seq \in Events
  BY <1>2 DEF StreamOK, Decodes
<1>5. stream[at[c]].kind = "event" => message.seq = stream[at[c]].seq
  BY DEF Decodes
<1>6. message = [kind |-> "marker", seq |-> message.seq]
  OBVIOUS
<1> HIDE DEF message
<1>7. StreamOK' /\ NumbersAreUnique' /\ Accounted' /\ \A x : Marked(x) => Marked(x)'
  BY <1>1, <1>3, <1>4, PutInv
<1>8. /\ Len(stream) \in Nat
      /\ stream' \in Seq(Message) /\ Len(stream') = Len(stream) + 1 /\ Len(stream') <= MaxMessages
      /\ status' \in Seq({"ready", "pending", "settled"}) /\ Len(status') = Len(stream')
      /\ deliveries' \in Seq(Nat) /\ Len(deliveries') = Len(stream')
      /\ naks' \in Seq(Nat) /\ Len(naks') = Len(stream')
      /\ \A m \in 1..Len(stream) : stream'[m] = stream[m] /\ status'[m] = status[m]
                                   /\ deliveries'[m] = deliveries[m]
      /\ stream'[Len(stream) + 1] = message /\ status'[Len(stream) + 1] = "ready"
  BY <1>1, <1>3, PutFacts
<1>9. TypeOK'
  <2>1. at' \in [Consumers -> 0..Len(stream')]
    BY <1>1, <1>8 DEF TypeOK
  <2>2. ASSUME NEW d \in Consumers
        PROVE  IF pc'[d] = "idle" THEN at'[d] = 0 ELSE at'[d] # 0 /\ count'[d] \in 1..deliveries'[at'[d]]
    <3>1. pc'[d] = "idle" <=> pc[d] = "idle"
      BY <1>1 DEF TypeOK
    <3>2. CASE pc[d] = "idle"
      BY <1>1, <3>1, <3>2 DEF TypeOK
    <3>3. CASE pc[d] # "idle"
      <4>1. at[d] \in 1..Len(stream) /\ count[d] \in 1..deliveries[at[d]]
        BY <3>3, AtMessage DEF TypeOK
      <4> QED BY <1>1, <1>8, <3>1, <3>3, <4>1
    <3> QED BY <3>2, <3>3
  <2> QED BY <1>1, <1>8, <2>1, <2>2 DEF TypeOK
<1>10. OutcomeBeforeSettling'
  <2> DEFINE MarkedNow(x) == \E i \in 1..Len(stream') : stream'[i] = [kind |-> "marker", seq |-> x]
  <2> SUFFICES ASSUME NEW d \in Consumers
               PROVE /\ pc'[d] = "ack" => stream'[at[d]].kind = "event" /\ stream'[at[d]].seq \in handled
                     /\ pc'[d] = "term" /\ stream'[at[d]].kind = "event" => MarkedNow(stream'[at[d]].seq)
    BY <1>1 DEF OutcomeBeforeSettling, Marked
  <2>1. CASE d = c
    <3>1. stream'[at[d]] = stream[at[d]] /\ pc'[d] = "term"
      BY <1>1, <1>2, <1>8, <2>1 DEF TypeOK
    <3>2. MarkedNow(message.seq)
      BY <1>6, <1>8
    <3> QED BY <1>5, <2>1, <3>1, <3>2
  <2>2. CASE d # c
    <3>1. pc'[d] = pc[d]
      BY <1>1, <2>2 DEF TypeOK
    <3>2. pc[d] # "idle" => stream'[at[d]] = stream[at[d]]
      BY <1>8, AtMessage
    <3>3. \A x : Marked(x) => MarkedNow(x)
      BY <1>7 DEF Marked
    <3> HIDE DEF MarkedNow
    <3> QED BY <3>1, <3>2, <3>3 DEF OutcomeBeforeSettling
  <2> QED BY <2>1, <2>2
<1>11. SettledHasOutcome'
  BY <1>1, <1>7, <1>8 DEF SettledHasOutcome
<1> QED BY <1>7, <1>9, <1>10, <1>11

\* A consumer dies or an acknowledgement is lost: the server knows nothing of it.
LEMMA FailInv == ASSUME Inv, NEW c \in Consumers, Fail(c) PROVE Inv'
<1> USE DEF Inv
<1>1. /\ pc[c] # "idle" /\ Release(c)
      /\ UNCHANGED <<stream, status, deliveries, handled, naks>>
      /\ faults' \in 0..MaxFaults
  BY NatsAssumption DEF Fail, messageVars, TypeOK
<1>2. StreamOK' /\ OutcomeBeforeSettling' /\ NumbersAreUnique' /\ Accounted'
  BY <1>1, ReleaseInv
<1>3. TypeOK'
  <2>1. /\ pc' \in [Consumers -> {"idle", "handle", "ack", "deadletter", "term"}]
        /\ at' \in [Consumers -> 0..Len(stream)] /\ count' \in [Consumers -> Nat]
        /\ \A d \in Consumers : IF pc'[d] = "idle" THEN at'[d] = 0
                                ELSE at'[d] # 0 /\ count'[d] \in 1..deliveries'[at'[d]]
    BY <1>1, ReleaseInv
  <2> QED BY <1>1, <2>1 DEF TypeOK
<1>4. SettledHasOutcome'
  BY <1>1 DEF SettledHasOutcome, Marked
<1> QED BY <1>2, <1>3, <1>4

\* The server makes a message that is not settled ready again.
LEMMA RedeliverInv ==
  ASSUME Inv, NEW m \in 1..Len(stream), Redeliver(m) \/ RedeliverEarly(m)
  PROVE  Inv'
<1> USE DEF Inv
<1>1. /\ status' = [status EXCEPT ![m] = "ready"]
      /\ UNCHANGED <<stream, deliveries, pc, at, count, handled, naks>>
      /\ faults' \in 0..MaxFaults
  BY NatsAssumption DEF Redeliver, RedeliverEarly, TypeOK
<1>2. /\ status' \in Seq({"ready", "pending", "settled"}) /\ Len(status') = Len(stream)
      /\ \A k \in 1..Len(stream) : status'[k] = "settled" => status[k] = "settled"
  BY <1>1 DEF TypeOK
<1>3. TypeOK'
  BY <1>1, <1>2 DEF TypeOK
<1>4. SettledHasOutcome'
  BY <1>1, <1>2 DEF SettledHasOutcome, Marked
<1>5. Accounted'
  BY <1>1 DEF Accounted, Numbers
<1> QED BY <1>1, <1>3, <1>4, <1>5 DEF StreamOK, MarkersNameEvents, OutcomeBeforeSettling,
                                      NumbersAreUnique, Marked

\* Every step preserves the invariant.
LEMMA NextInv == Inv /\ [Next]_vars => Inv'
<1> SUFFICES ASSUME Inv, [Next]_vars PROVE Inv'
  OBVIOUS
<1>1. ASSUME NEW e \in Events, Publish(e) PROVE Inv'
  BY <1>1, PublishInv
<1>2. ASSUME NEW c \in Consumers, Process(c) PROVE Inv'
  BY <1>2, GotoInv, NakInv, SettleInv, PublishMarkerInv DEF Process
<1>3. ASSUME NEW c \in Consumers, Fail(c) PROVE Inv'
  BY <1>3, FailInv
<1>4. ASSUME NEW m \in 1..Len(stream), NEW c \in Consumers, Deliver(c, m) PROVE Inv'
  BY <1>4, DeliverInv
<1>5. ASSUME NEW m \in 1..Len(stream), Redeliver(m) \/ RedeliverEarly(m) PROVE Inv'
  BY <1>5, RedeliverInv
<1>6. CASE UNCHANGED vars
  <2> USE <1>6 DEF vars
  <2>1. TypeOK'
    BY DEF Inv, TypeOK
  <2>2. Accounted'
    BY DEF Inv, Accounted, Numbers
  <2> QED BY <2>1, <2>2 DEF Inv, StreamOK, MarkersNameEvents, OutcomeBeforeSettling,
                           SettledHasOutcome, NumbersAreUnique, Marked
<1> QED BY <1>1, <1>2, <1>3, <1>4, <1>5, <1>6 DEF Next

\* The invariant holds in every reachable state.
LEMMA Invariance == Spec => []Inv
BY InitInv, NextInv, PTL DEF Spec

-----------------------------------------------------------------------------
(* Theorems. *)

\* No message leaves the server unless its event was handled or its marker is
\* in the dead-letter lane, for any number of consumers and faults, and whether
\* or not the filter names a plane.
THEOREM SettledOutcome == Spec => []SettledHasOutcome
BY Invariance, PTL DEF Inv

\* However many consumers hold deliveries of it at once, a message is sent back
\* fewer than max_deliver times.
THEOREM RetryBounded == Spec => []BoundedRetry
<1>1. Inv => BoundedRetry
  <2> SUFFICES ASSUME Inv, NEW m \in 1..Len(stream) PROVE naks[m] < MaxDeliver
    BY DEF BoundedRetry
  <2>1. naks[m] \in Nat /\ MaxDeliver \in Nat \ {0}
    BY NatsAssumption DEF Inv, TypeOK
  <2> QED BY <2>1, NumbersFinite DEF Inv, Accounted
<1> QED BY <1>1, Invariance, PTL

\* With a plane in the consumer's filter, also every marker names a committed
\* event.  Without one the consumer dead-letters its own markers.
THEOREM DeliverySound == PlaneFilter => (Spec => []DeliveryInv)
<1> SUFFICES ASSUME PlaneFilter PROVE Spec => []DeliveryInv
  OBVIOUS
<1>1. Inv => TypeOK /\ MarkersNameEvents
  BY DEF Inv, StreamOK
<1>2. TypeOK /\ MarkersNameEvents /\ BoundedRetry => DeliveryInv
  BY DEF DeliveryInv
<1> QED BY <1>1, <1>2, Invariance, RetryBounded, PTL
=============================================================================
