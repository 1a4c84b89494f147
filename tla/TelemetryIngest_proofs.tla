------------------------ MODULE TelemetryIngest_proofs ------------------------
(***************************************************************************)
(* The safety properties of TelemetryIngest for any number of tasks, any   *)
(* batches, any guesses and any crashes, and that it implements            *)
(* IdempotentLedger.                                                       *)
(***************************************************************************)
EXTENDS TelemetryIngest, FiniteSetTheorems, TLAPS

-----------------------------------------------------------------------------
(* The inductive invariant. *)

\* The ledger up to n meets no event that creates an evidence again.
ReplayableTo(n) == \A s \in 1..n : events[s].src \notin EvidenceAt(s - 1)

\* What a task reported as stored is in the ledger.
ReportedTrue(t) ==
    \A i \in 1..Len(task[t].acks) :
        task[t].acks[i].seq > 0 =>
            /\ task[t].batch.records[i].valid
            /\ events[task[t].acks[i].seq] = EventOf(task[t].batch, i)

\* A task in ingest_evidence is at a valid record; what it reported before was in
\* the ledger when it read the head.
AtWork(t) ==
    pc[t] \in {"preview", "store", "drain"} =>
        /\ ~task[t].blocked
        /\ task[t].next <= Len(task[t].batch.records) /\ Current(t).valid
        /\ \A i \in 1..Len(task[t].acks) : task[t].acks[i].seq <= task[t].headBefore

\* Past the preview, the ledger could be replayed up to that head.
Previewed(t) == pc[t] \in {"store", "drain"} => ReplayableTo(task[t].headBefore)

\* Once persisted, the record is where append says.
PersistedIsThere(t) ==
    pc[t] = "drain" => task[t].seq \in 1..Len(events) /\ events[task[t].seq] = CurrentEvent(t)

\* Unless a conflict blocked the batch, the valid records a task has passed are
\* evidence, or the ledger cannot be replayed and no preview succeeds any more.
Passed(t) ==
    pc[t] # "idle" /\ ~task[t].blocked =>
        \A i \in 1..(task[t].next - 1) :
            task[t].batch.records[i].valid =>
                \/ task[t].batch.records[i].src \in EvidenceAt(Len(events))
                \/ ~Replayable /\ pc[t] \in {"record", "preview"}

\* The sequences reported to one batch rise.
AcksRise(t) ==
    VersionsAgree => \A i, j \in 1..Len(task[t].acks) :
        i < j /\ task[t].acks[i].seq > 0 /\ task[t].acks[j].seq > 0
            => task[t].acks[i].seq < task[t].acks[j].seq

TaskOK(t) ==
    /\ ReportedTrue(t) /\ AtWork(t) /\ Previewed(t) /\ PersistedIsThere(t)
    /\ Passed(t) /\ AcksRise(t)

\* When a record was committed, the valid ones before it were evidence already.
PrefixBefore ==
    VersionsAgree =>
        \A s \in 1..Len(events), b \in Batches : \A i, j \in 1..Len(b.records) :
            /\ i < j /\ b.records[i].valid
            /\ events[s].batch = b.id /\ events[s].src = b.records[j].src
            => b.records[i].src \in EvidenceAt(s - 1)

\* The events of other callers are numbered.
OthersNumbered ==
    \A s \in 1..Len(events) : events[s].batch = Other => events[s].content <= Others

\* What clients were told is in the ledger.
ToldTrue == \A a \in told : events[a.seq] = a.req

\* The inductive invariant.
Inv ==
    /\ TypeOK
    /\ PrefixBefore
    /\ OthersNumbered
    /\ ToldTrue
    /\ \A t \in Tasks : TaskOK(t)

-----------------------------------------------------------------------------
(* Types, and what a growing ledger keeps. *)

\* The task records over a ledger of n events.
AckUpTo(n) == [status : {"committed", "duplicate", "rejected"}, seq : 0..n, retryable : BOOLEAN]

TaskUpTo(n) ==
    [batch : Batches, expected : 0..(n + MaxAhead), next : Nat \ {0}, headBefore : 0..n,
     blocked : BOOLEAN, seq : 0..n, acks : Seq(AckUpTo(n))]

Fits(x) == x.next <= Len(x.batch.records) + 1 /\ Len(x.acks) = x.next - 1

Labels == {"idle", "record", "preview", "store", "drain"}

\* The type invariant by its parts.
LEMMA TypeParts ==
  /\ TypeOK <=> /\ events \in Seq(Event) /\ pc \in [Tasks -> Labels]
                /\ task \in [Tasks -> TaskUpTo(Len(events))] /\ \A t \in Tasks : Fits(task[t])
                /\ told \subseteq [req : Event, seq : 1..Len(events)]
                /\ crashes \in 0..MaxCrashes
  /\ TypeOK' <=> /\ events' \in Seq(Event) /\ pc' \in [Tasks -> Labels]
                 /\ task' \in [Tasks -> TaskUpTo(Len(events'))] /\ \A t \in Tasks : Fits(task'[t])
                 /\ told' \subseteq [req : Event, seq : 1..Len(events')]
                 /\ crashes' \in 0..MaxCrashes
BY DEF TypeOK, TaskUpTo, AckUpTo, Ack, Fits, Labels

\* A longer ledger has more task records.
LEMMA TaskMonotone ==
  ASSUME NEW m \in Nat, NEW n \in Nat, m <= n
  PROVE  TaskUpTo(m) \subseteq TaskUpTo(n)
<1>1. MaxAhead \in Nat
  BY TelemetryAssumption
<1>2. AckUpTo(m) \subseteq AckUpTo(n)
  BY DEF AckUpTo
<1>3. Seq(AckUpTo(m)) \subseteq Seq(AckUpTo(n))
  BY <1>2
<1>4. 0..m \subseteq 0..n /\ 0..(m + MaxAhead) \subseteq 0..(n + MaxAhead)
  BY <1>1
<1> QED BY <1>3, <1>4 DEF TaskUpTo

\* The parts of a task record.
LEMMA TaskParts ==
  ASSUME TypeOK, NEW t \in Tasks
  PROVE  /\ Len(events) \in Nat /\ MaxAhead \in Nat
         /\ task[t] \in TaskUpTo(Len(events)) /\ Fits(task[t])
         /\ task[t].batch \in Batches /\ task[t].batch.records \in Seq(Record)
         /\ Len(task[t].batch.records) \in Nat
         /\ task[t].next \in Nat \ {0} /\ task[t].expected \in 0..(Len(events) + MaxAhead)
         /\ task[t].headBefore \in 0..Len(events) /\ task[t].seq \in 0..Len(events)
         /\ task[t].blocked \in BOOLEAN
         /\ task[t].acks \in Seq(AckUpTo(Len(events))) /\ Len(task[t].acks) = task[t].next - 1
         /\ \A i \in 1..Len(task[t].acks) :
               i <= Len(task[t].batch.records) /\ task[t].acks[i].seq \in 0..Len(events)
<1>1. task[t] \in TaskUpTo(Len(events)) /\ Fits(task[t]) /\ Len(events) \in Nat
  BY TypeParts
<1>2. /\ task[t].batch \in Batches /\ task[t].next \in Nat \ {0}
      /\ task[t].expected \in 0..(Len(events) + MaxAhead)
      /\ task[t].headBefore \in 0..Len(events) /\ task[t].seq \in 0..Len(events)
      /\ task[t].blocked \in BOOLEAN /\ task[t].acks \in Seq(AckUpTo(Len(events)))
  BY <1>1 DEF TaskUpTo
<1>3. task[t].batch.records \in Seq(Record) /\ MaxAhead \in Nat
  BY <1>2, TelemetryAssumption
<1>4. /\ task[t].next <= Len(task[t].batch.records) + 1 /\ Len(task[t].acks) = task[t].next - 1
      /\ Len(task[t].batch.records) \in Nat /\ Len(task[t].acks) \in Nat
  BY <1>1, <1>2, <1>3 DEF Fits
<1>5. ASSUME NEW i \in 1..Len(task[t].acks)
      PROVE  i <= Len(task[t].batch.records) /\ task[t].acks[i].seq \in 0..Len(events)
  <2>1. task[t].acks[i] \in AckUpTo(Len(events))
    BY <1>2
  <2>2. task[t].acks[i].seq \in 0..Len(events)
    BY <2>1 DEF AckUpTo
  <2>3. i <= Len(task[t].batch.records)
    BY <1>2, <1>4
  <2> QED BY <2>2, <2>3
<1> HIDE DEF TaskUpTo, Fits
<1> QED BY <1>1, <1>2, <1>3, <1>4, <1>5

\* The records of a batch, and the events made of them.
LEMMA RecordParts ==
  ASSUME NEW b \in Batches, NEW i \in 1..Len(b.records)
  PROVE  /\ b.records[i].src \in Sources /\ b.records[i].src # NoSource
         /\ b.id # Other /\ EventOf(b, i) \in Event
         /\ EventOf(b, i).batch = b.id /\ EventOf(b, i).src = b.records[i].src
<1>1. b.records[i] \in Record
  BY TelemetryAssumption
<1> QED BY <1>1, TelemetryAssumption DEF Record, Event, EventOf

\* The ledger is left alone or one event longer.
Grows == events' = events \/ \E e \in Event : events' = Append(events, e)

LEMMA GrowFacts ==
  ASSUME TypeOK, Grows
  PROVE  /\ events' \in Seq(Event) /\ Len(events) \in Nat /\ Len(events') \in Nat
         /\ Len(events) <= Len(events') /\ Len(events') <= Len(events) + 1
         /\ \A s \in 1..Len(events) : events'[s] = events[s]
         /\ \A n \in 0..Len(events) : EvidenceAt(n)' = EvidenceAt(n)
         /\ EvidenceAt(Len(events)) \subseteq EvidenceAt(Len(events))'
         /\ \A n \in 0..Len(events) : ReplayableTo(n) => ReplayableTo(n)'
         /\ ~Replayable => ~Replayable'
<1>1. events \in Seq(Event)
  BY DEF TypeOK
<1>2. /\ events' \in Seq(Event) /\ Len(events) \in Nat /\ Len(events') \in Nat
      /\ Len(events) <= Len(events') /\ Len(events') <= Len(events) + 1
      /\ \A s \in 1..Len(events) : events'[s] = events[s]
  BY <1>1 DEF Grows
<1>3. \A n \in 0..Len(events) : EvidenceAt(n)' = EvidenceAt(n)
  <2> TAKE n \in 0..Len(events)
  <2>1. \A s \in 1..n : events'[s].src = events[s].src
    BY <1>2
  <2> QED BY <2>1 DEF EvidenceAt
<1>4. EvidenceAt(Len(events)) \subseteq EvidenceAt(Len(events))'
  <2>1. \A s \in 1..Len(events) : s \in 1..Len(events') /\ events'[s].src = events[s].src
    BY <1>2
  <2> QED BY <2>1 DEF EvidenceAt
<1>5. \A s \in 1..Len(events) :
         events[s].src \notin EvidenceAt(s - 1) <=> events'[s].src \notin EvidenceAt(s - 1)'
  <2> TAKE s \in 1..Len(events)
  <2>1. s - 1 \in 0..Len(events)
    BY <1>2
  <2>2. EvidenceAt(s - 1)' = EvidenceAt(s - 1)
    BY <1>3, <2>1
  <2> QED BY <1>2, <2>2
<1>6. \A n \in 0..Len(events) : ReplayableTo(n) => ReplayableTo(n)'
  <2> SUFFICES ASSUME NEW n \in 0..Len(events), ReplayableTo(n), NEW s \in 1..n
               PROVE  events'[s].src \notin EvidenceAt(s - 1)'
    BY DEF ReplayableTo
  <2>1. s \in 1..Len(events)
    BY <1>2
  <2> QED BY <1>5, <2>1 DEF ReplayableTo
<1>7. ~Replayable => ~Replayable'
  <2> SUFFICES ASSUME Replayable', NEW s \in 1..Len(events)
               PROVE  events[s].src \notin EvidenceAt(s - 1)
    BY DEF Replayable
  <2>1. s \in 1..Len(events')
    BY <1>2
  <2> QED BY <1>5, <2>1 DEF Replayable
<1> QED BY <1>2, <1>3, <1>4, <1>6, <1>7

\* A task at the same record keeps what holds of it while the ledger grows, but
\* for where a persisted record is; past the preview the ledger was replayed.
LEMMA TaskKeeps ==
  ASSUME Inv, Grows, NEW t \in Tasks,
         /\ task'[t].batch = task[t].batch /\ task'[t].next = task[t].next
         /\ task'[t].headBefore = task[t].headBefore /\ task'[t].blocked = task[t].blocked
         /\ task'[t].acks = task[t].acks,
         \/ pc'[t] = pc[t]
         \/ pc[t] = "preview" /\ pc'[t] = "store" /\ Replayable
         \/ pc[t] = "store" /\ pc'[t] = "drain",
         PersistedIsThere(t)'
  PROVE  TaskOK(t)'
<1>1. TypeOK /\ TaskOK(t)
  BY DEF Inv
<1> USE <1>1, TaskParts, GrowFacts
<1>2. ReportedTrue(t)'
  <2> SUFFICES ASSUME NEW i \in 1..Len(task[t].acks), task[t].acks[i].seq > 0
               PROVE  /\ task[t].batch.records[i].valid
                      /\ events'[task[t].acks[i].seq] = EventOf(task[t].batch, i)
    BY DEF ReportedTrue, EventOf
  <2>1. task[t].acks[i].seq \in 1..Len(events)
    OBVIOUS
  <2> QED BY <2>1 DEF TaskOK, ReportedTrue
<1>3. AtWork(t)'
  BY DEF TaskOK, AtWork, Current
<1>4. Previewed(t)'
  <2>1. pc'[t] \in {"store", "drain"} => ReplayableTo(task[t].headBefore)
    BY DEF TaskOK, Previewed, Replayable, ReplayableTo
  <2>2. pc'[t] \in {"store", "drain"} => ReplayableTo(task[t].headBefore)'
    BY <2>1
  <2> QED BY <2>2 DEF Previewed, ReplayableTo, EvidenceAt
<1>5. Passed(t)'
  BY DEF TaskOK, Passed
<1>6. AcksRise(t)'
  BY DEF TaskOK, AcksRise
<1> QED BY <1>2, <1>3, <1>4, <1>5, <1>6 DEF TaskOK

\* So does a task that does nothing.
LEMMA OthersKeep ==
  ASSUME Inv, Grows, NEW t \in Tasks, pc'[t] = pc[t], task'[t] = task[t]
  PROVE  TaskOK(t)'
<1>1. TypeOK /\ TaskOK(t)
  BY DEF Inv
<1>2. PersistedIsThere(t)'
  BY <1>1, GrowFacts DEF TaskOK, PersistedIsThere, CurrentEvent, EventOf
<1> QED BY <1>2, TaskKeeps

\* The initial state satisfies the invariant.
LEMMA InitInv == Init => Inv
<1> SUFFICES ASSUME Init PROVE Inv
  OBVIOUS
<1>1. NoTask \in TaskUpTo(0) /\ Fits(NoTask) /\ NoTask.acks = <<>> /\ NoTask.next = 1
  BY TelemetryAssumption DEF NoTask, TaskUpTo, Fits
<1>2. /\ events = <<>> /\ Len(events) = 0 /\ told = {} /\ crashes = 0
      /\ \A t \in Tasks : pc[t] = "idle" /\ task[t] = NoTask
  BY DEF Init
<1>3. TypeOK
  BY <1>1, <1>2, TypeParts, TelemetryAssumption DEF Init, Labels
<1>4. \A t \in Tasks : TaskOK(t)
  BY <1>1, <1>2 DEF TaskOK, ReportedTrue, AtWork, Previewed, PersistedIsThere, Passed, AcksRise
<1> QED BY <1>2, <1>3, <1>4 DEF Inv, PrefixBefore, OthersNumbered, ToldTrue

-----------------------------------------------------------------------------
(* The steps of a task. *)

\* A task moves on and the ledger stays: the task's part is all there is to show.
LEMMA TaskStep ==
  ASSUME Inv, NEW t \in Tasks, NEW label \in Labels, NEW x \in TaskUpTo(Len(events)), Fits(x),
         pc' = [pc EXCEPT ![t] = label], task' = [task EXCEPT ![t] = x],
         UNCHANGED events, crashes' \in 0..MaxCrashes,
         told' = told \/ (told' \subseteq [req : Event, seq : 1..Len(events)] /\ ToldTrue'),
         pc'[t] = label /\ task'[t] = x => TaskOK(t)'
  PROVE  Inv'
<1>1. TypeOK
  BY DEF Inv
<1>2. /\ pc'[t] = label /\ task'[t] = x
      /\ \A u \in Tasks \ {t} : pc'[u] = pc[u] /\ task'[u] = task[u]
  BY <1>1, TypeParts
<1>3. TypeOK'
  BY <1>1, TypeParts
<1>4. \A u \in Tasks : TaskOK(u)'
  BY <1>2, OthersKeep DEF Grows
<1>5. ToldTrue'
  BY DEF Inv, ToldTrue
<1>6. PrefixBefore' /\ OthersNumbered'
  BY DEF Inv, PrefixBefore, OthersNumbered, EvidenceAt, Others
<1> QED BY <1>3, <1>4, <1>5, <1>6 DEF Inv

\* A task takes up a batch, or lets go of one.
LEMMA FreshTask ==
  ASSUME TypeOK, NEW t \in Tasks, NEW x \in TaskUpTo(Len(events)),
         x.acks = <<>>, x.next = 1, pc'[t] \in {"idle", "record"}, task'[t] = x
  PROVE  TaskOK(t)'
BY DEF TaskOK, ReportedTrue, AtWork, Previewed, PersistedIsThere, Passed, AcksRise

\* Without a batch there is nothing to hold.
LEMMA NoTaskType ==
  ASSUME TypeOK
  PROVE  /\ NoTask \in TaskUpTo(Len(events)) /\ Fits(NoTask) /\ NoTask.acks = <<>> /\ NoTask.next = 1
         /\ \A b \in Batches, n \in 0..(Len(events) + MaxAhead) :
               LET x == [NoTask EXCEPT !.batch = b, !.expected = n] IN
               x \in TaskUpTo(Len(events)) /\ Fits(x) /\ x.acks = <<>> /\ x.next = 1
<1>1. MaxAhead \in Nat /\ Len(events) \in Nat /\ (CHOOSE b \in Batches : TRUE) \in Batches
      /\ \A b \in Batches : Len(b.records) \in Nat
  BY TelemetryAssumption DEF TypeOK
<1>2. NoTask \in TaskUpTo(Len(events)) /\ Fits(NoTask) /\ NoTask.acks = <<>> /\ NoTask.next = 1
  BY <1>1 DEF NoTask, TaskUpTo, Fits
<1>3. ASSUME NEW b \in Batches, NEW n \in 0..(Len(events) + MaxAhead)
      PROVE  LET x == [NoTask EXCEPT !.batch = b, !.expected = n] IN
             x \in TaskUpTo(Len(events)) /\ Fits(x) /\ x.acks = <<>> /\ x.next = 1
  <2> DEFINE x == [NoTask EXCEPT !.batch = b, !.expected = n]
  <2>1. x \in TaskUpTo(Len(events))
    BY <1>2 DEF TaskUpTo
  <2>2. x.batch = b /\ x.acks = <<>> /\ x.next = 1
    BY <1>2 DEF TaskUpTo
  <2> HIDE DEF x
  <2>3. Fits(x)
    BY <1>1, <2>2 DEF Fits
  <2> QED BY <2>1, <2>2, <2>3 DEF x
<1> QED BY <1>2, <1>3

\* A batch arrives.
LEMMA SubmitInv ==
  ASSUME Inv, NEW t \in Tasks, NEW b \in Batches, NEW n \in 0..(Len(events) + MaxAhead),
         Submit(t, b, n)
  PROVE  Inv'
<1> DEFINE x == [NoTask EXCEPT !.batch = b, !.expected = n]
<1>1. TypeOK
  BY DEF Inv
<1>2. x \in TaskUpTo(Len(events)) /\ Fits(x) /\ x.acks = <<>> /\ x.next = 1
  BY <1>1, NoTaskType
<1>3. /\ task' = [task EXCEPT ![t] = x] /\ pc' = [pc EXCEPT ![t] = "record"]
      /\ UNCHANGED <<events, told, crashes>>
  BY DEF Submit
<1> HIDE DEF x
<1>4. crashes' \in 0..MaxCrashes
  BY <1>1, <1>3 DEF TypeOK
<1>5. pc'[t] = "record" /\ task'[t] = x => TaskOK(t)'
  BY <1>1, <1>2, FreshTask
<1> QED BY <1>2, <1>3, <1>4, <1>5, TaskStep DEF Labels

\* The call ends: the process dies, or the drain raises.
LEMMA AbortInv ==
  ASSUME Inv, NEW t \in Tasks, DrainFails(t) \/ Crash(t)
  PROVE  Inv'
<1>1. TypeOK
  BY DEF Inv
<1>2. /\ task' = [task EXCEPT ![t] = NoTask] /\ pc' = [pc EXCEPT ![t] = "idle"]
      /\ UNCHANGED <<events, told>> /\ crashes' \in 0..MaxCrashes
  BY <1>1, TelemetryAssumption DEF DrainFails, Crash, TypeOK
<1>3. pc'[t] = "idle" /\ task'[t] = NoTask => TaskOK(t)'
  BY <1>1, NoTaskType, FreshTask
<1> QED BY <1>1, <1>2, <1>3, NoTaskType, TaskStep DEF Labels

\* A record is reported.  A stored one is at the position told, beyond those told
\* before; a valid one that does not block the rest is evidence, or the ledger
\* cannot be replayed.
LEMMA ReportInv ==
  ASSUME Inv, NEW t \in Tasks, pc[t] # "idle", task[t].next <= Len(task[t].batch.records),
         NEW ack \in AckUpTo(Len(events)), NEW expected \in 0..(Len(events) + MaxAhead),
         NEW blocked \in BOOLEAN,
         Report(t, ack, expected, blocked), UNCHANGED <<events, told, crashes>>,
         ack.seq > 0 => Current(t).valid /\ events[ack.seq] = CurrentEvent(t),
         VersionsAgree /\ ack.seq > 0 =>
             \A i \in 1..Len(task[t].acks) : task[t].acks[i].seq < ack.seq,
         ~blocked =>
             /\ ~task[t].blocked
             /\ Current(t).valid => Current(t).src \in EvidenceAt(Len(events)) \/ ~Replayable
  PROVE  Inv'
<1> DEFINE x == [batch |-> task[t].batch, expected |-> expected, next |-> task[t].next + 1,
                 headBefore |-> 0, blocked |-> blocked, seq |-> 0,
                 acks |-> Append(task[t].acks, ack)]
<1>1. TypeOK /\ TaskOK(t)
  BY DEF Inv
<1> USE <1>1, TaskParts
<1>2. task' = [task EXCEPT ![t] = x] /\ pc' = [pc EXCEPT ![t] = "record"]
  BY DEF Report
<1>3. x \in TaskUpTo(Len(events)) /\ Fits(x)
  <2>1. /\ Append(task[t].acks, ack) \in Seq(AckUpTo(Len(events)))
        /\ Len(Append(task[t].acks, ack)) = task[t].next
        /\ task[t].next + 1 \in Nat \ {0} /\ 0 \in 0..Len(events)
    <3>1. task[t].acks \in Seq(AckUpTo(Len(events))) /\ Len(task[t].acks) = task[t].next - 1
          /\ task[t].next \in Nat \ {0} /\ Len(events) \in Nat
      OBVIOUS
    <3> HIDE <1>1, TaskParts
    <3> QED BY <3>1
  <2>2. x \in TaskUpTo(Len(events))
    BY <2>1 DEF TaskUpTo
  <2>3. Fits(x)
    <3>1. /\ x.next = task[t].next + 1 /\ x.batch = task[t].batch
          /\ x.acks = Append(task[t].acks, ack)
      OBVIOUS
    <3>2. task[t].next \in Nat /\ Len(task[t].batch.records) \in Nat
      OBVIOUS
    <3> HIDE DEF x
    <3> HIDE <1>1, TaskParts
    <3> QED BY <2>1, <3>1, <3>2 DEF Fits
  <2> QED BY <2>2, <2>3
<1>4. /\ x.batch = task[t].batch /\ x.next = task[t].next + 1 /\ x.blocked = blocked
      /\ Len(x.acks) = task[t].next
      /\ \A i \in 1..(task[t].next - 1) : x.acks[i] = task[t].acks[i]
      /\ x.acks[task[t].next] = ack
  OBVIOUS
<1> HIDE DEF x
<1>5. \A i \in 1..task[t].next : i \in 1..(task[t].next - 1) \/ i = task[t].next
  OBVIOUS
<1>6. ASSUME pc'[t] = "record", task'[t] = x PROVE TaskOK(t)'
  <2> USE <1>4, <1>6
  <2>1. ReportedTrue(t)'
    <3> SUFFICES ASSUME NEW i \in 1..task[t].next, x.acks[i].seq > 0
                 PROVE  /\ task[t].batch.records[i].valid
                        /\ events[x.acks[i].seq] = EventOf(task[t].batch, i)
      BY DEF ReportedTrue, EventOf
    <3>1. CASE i \in 1..(task[t].next - 1)
      BY <3>1 DEF TaskOK, ReportedTrue
    <3>2. CASE i = task[t].next
      BY <3>2 DEF Current, CurrentEvent
    <3> QED BY <1>5, <3>1, <3>2
  <2>2. AtWork(t)' /\ Previewed(t)' /\ PersistedIsThere(t)'
    BY DEF AtWork, Previewed, PersistedIsThere
  <2>3. Passed(t)'
    <3> SUFFICES ASSUME ~blocked, NEW i \in 1..task[t].next, task[t].batch.records[i].valid
                 PROVE  task[t].batch.records[i].src \in EvidenceAt(Len(events)) \/ ~Replayable
      <4>1. task'[t].next - 1 = task[t].next /\ task'[t].batch = task[t].batch
            /\ task'[t].blocked = blocked
        OBVIOUS
      <4>2. EvidenceAt(Len(events))' = EvidenceAt(Len(events)) /\ (Replayable' <=> Replayable)
        BY DEF EvidenceAt, Replayable
      <4> QED BY <4>1, <4>2 DEF Passed
    <3>1. CASE i \in 1..(task[t].next - 1)
      BY <3>1 DEF TaskOK, Passed
    <3>2. CASE i = task[t].next
      BY <3>2 DEF Current
    <3> QED BY <1>5, <3>1, <3>2
  <2>4. AcksRise(t)'
    <3> SUFFICES ASSUME VersionsAgree, NEW i \in 1..task[t].next, NEW j \in 1..task[t].next,
                        i < j, x.acks[i].seq > 0, x.acks[j].seq > 0
                 PROVE  x.acks[i].seq < x.acks[j].seq
      BY DEF AcksRise
    <3>1. i \in 1..(task[t].next - 1)
      OBVIOUS
    <3>2. CASE j \in 1..(task[t].next - 1)
      BY <3>1, <3>2 DEF TaskOK, AcksRise
    <3>3. CASE j = task[t].next
      BY <3>1, <3>3
    <3> QED BY <1>5, <3>2, <3>3
  <2> QED BY <2>1, <2>2, <2>3, <2>4 DEF TaskOK
<1>7. crashes' \in 0..MaxCrashes
  BY DEF TypeOK
<1> QED BY <1>2, <1>3, <1>6, <1>7, TaskStep DEF Labels

\* A record is refused, or may be tried again.
LEMMA RejectInv ==
  ASSUME Inv, NEW t \in Tasks, pc[t] # "idle", task[t].next <= Len(task[t].batch.records),
         UNCHANGED <<events, told, crashes>>,
         \/ Conflict(t)
         \/ /\ Reject(t)
            /\ ~task[t].blocked /\ Current(t).valid =>
                  Current(t).src \in EvidenceAt(Len(events)) \/ ~Replayable
  PROVE  Inv'
<1>1. PICK blocked \in BOOLEAN, retryable \in BOOLEAN :
         /\ Report(t, [status |-> "rejected", seq |-> 0, retryable |-> retryable],
                   task[t].expected, blocked)
         /\ ~blocked => /\ ~task[t].blocked
                        /\ Current(t).valid => Current(t).src \in EvidenceAt(Len(events)) \/ ~Replayable
  BY TaskParts DEF Inv, Conflict, Reject
<1>2. /\ [status |-> "rejected", seq |-> 0, retryable |-> retryable] \in AckUpTo(Len(events))
      /\ task[t].expected \in 0..(Len(events) + MaxAhead)
  BY TaskParts DEF Inv, AckUpTo
<1> QED BY <1>1, <1>2, ReportInv

\* What is stored under the key of a record is that source's evidence.
LEMMA StoredIsEvidence ==
  ASSUME TypeOK, NEW t \in Tasks, task[t].next <= Len(task[t].batch.records),
         NEW s \in 1..Len(events), events[s].src = Current(t).src
  PROVE  Current(t).src \in EvidenceAt(Len(events))
<1>1. task[t].batch \in Batches /\ task[t].next \in 1..Len(task[t].batch.records)
  BY TaskParts
<1>2. Current(t).src # NoSource
  BY <1>1, RecordParts DEF Current
<1> QED BY <1>2 DEF EvidenceAt

\* The steps that refuse a record.
LEMMA RefusingInv ==
  ASSUME Inv, NEW t \in Tasks,
         \/ SkipBlocked(t) \/ RejectInvalid(t) \/ (Preview(t) /\ Refused(t))
         \/ KeyReused(t) \/ HeadMoved(t)
  PROVE  Inv'
<1>1. TypeOK /\ AtWork(t)
  BY DEF Inv, TaskOK
<1>2. CASE SkipBlocked(t)
  BY <1>2, RejectInv DEF SkipBlocked, AtRecord
<1>3. CASE RejectInvalid(t)
  BY <1>3, RejectInv DEF RejectInvalid, AtRecord
<1>4. CASE Preview(t) /\ Refused(t)
  BY <1>1, <1>4, RejectInv DEF Preview, Refused, AtWork
<1>5. CASE KeyReused(t)
  <2>1. PICK s \in 1..Len(events) : events[s].src = Current(t).src
    BY <1>5 DEF KeyReused, StoredRecord, Stored
  <2>2. task[t].next <= Len(task[t].batch.records) /\ pc[t] = "store" /\ Reject(t)
        /\ UNCHANGED <<events, told, crashes>>
    BY <1>1, <1>5 DEF KeyReused, AtWork
  <2> QED BY <1>1, <2>1, <2>2, StoredIsEvidence, RejectInv
<1>6. CASE HeadMoved(t)
  BY <1>1, <1>6, RejectInv DEF HeadMoved, AtWork
<1> QED BY <1>2, <1>3, <1>4, <1>5, <1>6

\* A task record with another head or another position.
LEMMA RecordUpdates ==
  ASSUME NEW n \in Nat, NEW x \in TaskUpTo(n), NEW m \in 0..n, Fits(x), NEW y,
         y \in {[x EXCEPT !.headBefore = m], [x EXCEPT !.seq = m]}
  PROVE  /\ y \in TaskUpTo(n) /\ Fits(y)
         /\ y.batch = x.batch /\ y.next = x.next /\ y.blocked = x.blocked /\ y.acks = x.acks
         /\ y = [x EXCEPT !.headBefore = m] => y.headBefore = m
         /\ y = [x EXCEPT !.seq = m] => y.seq = m /\ y.headBefore = x.headBefore
<1>1. /\ y \in TaskUpTo(n)
      /\ y.batch = x.batch /\ y.next = x.next /\ y.blocked = x.blocked /\ y.acks = x.acks
      /\ y = [x EXCEPT !.headBefore = m] => y.headBefore = m
      /\ y = [x EXCEPT !.seq = m] => y.seq = m /\ y.headBefore = x.headBefore
  <2>1. CASE y = [x EXCEPT !.headBefore = m]
    BY <2>1 DEF TaskUpTo
  <2>2. CASE y = [x EXCEPT !.seq = m]
    BY <2>2 DEF TaskUpTo
  <2> QED BY <2>1, <2>2
<1> QED BY <1>1 DEF Fits

\* The head is read.
LEMMA ReadHeadInv ==
  ASSUME Inv, NEW t \in Tasks, ReadHead(t)
  PROVE  Inv'
<1> DEFINE x == [task[t] EXCEPT !.headBefore = Len(events)]
<1>1. TypeOK /\ TaskOK(t)
  BY DEF Inv
<1>2. /\ pc[t] = "record" /\ task[t].next <= Len(task[t].batch.records)
      /\ ~task[t].blocked /\ Current(t).valid
      /\ task' = [task EXCEPT ![t] = x] /\ pc' = [pc EXCEPT ![t] = "preview"]
      /\ UNCHANGED <<events, told, crashes>>
  BY DEF ReadHead, AtRecord
<1>3. /\ x \in TaskUpTo(Len(events)) /\ Fits(x) /\ x.headBefore = Len(events)
      /\ x.batch = task[t].batch /\ x.next = task[t].next /\ x.blocked = task[t].blocked
      /\ x.acks = task[t].acks
  <2>1. Len(events) \in Nat /\ task[t] \in TaskUpTo(Len(events)) /\ Fits(task[t])
        /\ Len(events) \in 0..Len(events)
    BY <1>1, TaskParts
  <2>2. x = [task[t] EXCEPT !.headBefore = Len(events)]
    OBVIOUS
  <2> HIDE DEF x
  <2> QED BY <2>1, <2>2, RecordUpdates
<1> HIDE DEF x
<1>6. ASSUME pc'[t] = "preview", task'[t] = x PROVE TaskOK(t)'
  <2>0. /\ task'[t].batch = task[t].batch /\ task'[t].next = task[t].next
        /\ task'[t].blocked = task[t].blocked /\ task'[t].acks = task[t].acks
        /\ task'[t].headBefore = Len(events)
    BY <1>3, <1>6
  <2>1. ReportedTrue(t)' /\ AcksRise(t)'
    BY <1>1, <1>2, <2>0 DEF TaskOK, ReportedTrue, AcksRise, EventOf
  <2>2. AtWork(t)'
    <3>1. \A i \in 1..Len(task[t].acks) : task[t].acks[i].seq <= Len(events)
      BY <1>1, TaskParts
    <3> QED BY <1>2, <2>0, <3>1 DEF AtWork, Current
  <2>3. Previewed(t)' /\ PersistedIsThere(t)'
    BY <1>6 DEF Previewed, PersistedIsThere
  <2>4. Passed(t)'
    <3>1. EvidenceAt(Len(events))' = EvidenceAt(Len(events)) /\ (Replayable' <=> Replayable)
      BY <1>2 DEF EvidenceAt, Replayable
    <3>2. \A i \in 1..(task[t].next - 1) :
             task[t].batch.records[i].valid =>
                task[t].batch.records[i].src \in EvidenceAt(Len(events)) \/ ~Replayable
      BY <1>1, <1>2 DEF TaskOK, Passed
    <3> QED BY <1>6, <2>0, <3>1, <3>2 DEF Passed
  <2> QED BY <2>1, <2>2, <2>3, <2>4 DEF TaskOK
<1>7. crashes' \in 0..MaxCrashes
  BY <1>1, <1>2 DEF TypeOK
<1> QED BY <1>2, <1>3, <1>6, <1>7, TaskStep DEF Labels

\* The preview lets the record through.
LEMMA PreviewInv ==
  ASSUME Inv, NEW t \in Tasks, Preview(t), ~Refused(t)
  PROVE  Inv'
<1>1. TypeOK
  BY DEF Inv
<1>2. /\ pc[t] = "preview" /\ pc' = [pc EXCEPT ![t] = "store"] /\ Replayable
      /\ UNCHANGED <<events, task, told, crashes>>
  BY DEF Preview, Refused
<1>3. task[t] \in TaskUpTo(Len(events)) /\ Fits(task[t]) /\ task' = [task EXCEPT ![t] = task[t]]
  BY <1>1, <1>2, TypeParts
<1>4. ASSUME pc'[t] = "store" PROVE TaskOK(t)'
  BY <1>2, <1>4, TaskKeeps DEF Grows, PersistedIsThere
<1>5. crashes' \in 0..MaxCrashes
  BY <1>1, <1>2 DEF TypeOK
<1> QED BY <1>2, <1>3, <1>4, <1>5, TaskStep DEF Labels

\* The record is found in the ledger.
LEMMA DuplicateInv ==
  ASSUME Inv, NEW t \in Tasks, Duplicate(t)
  PROVE  Inv'
<1>1. TypeOK
  BY DEF Inv
<1>2. PICK s \in 1..Len(events) :
         /\ pc[t] = "store" /\ events[s] = CurrentEvent(t)
         /\ task' = [task EXCEPT ![t].seq = s] /\ pc' = [pc EXCEPT ![t] = "drain"]
         /\ UNCHANGED <<events, told, crashes>>
  BY DEF Duplicate, StoredRecord, Stored
<1> DEFINE x == [task[t] EXCEPT !.seq = s]
<1>3. /\ x \in TaskUpTo(Len(events)) /\ Fits(x) /\ x.seq = s
      /\ x.batch = task[t].batch /\ x.next = task[t].next /\ x.blocked = task[t].blocked
      /\ x.acks = task[t].acks /\ x.headBefore = task[t].headBefore
  <2>1. Len(events) \in Nat /\ task[t] \in TaskUpTo(Len(events)) /\ Fits(task[t])
        /\ s \in 0..Len(events)
    BY <1>1, TaskParts
  <2>2. x = [task[t] EXCEPT !.seq = s]
    OBVIOUS
  <2> HIDE DEF x
  <2> QED BY <2>1, <2>2, RecordUpdates
<1>4. task' = [task EXCEPT ![t] = x]
  BY <1>2
<1> HIDE DEF x
<1>6. ASSUME pc'[t] = "drain", task'[t] = x PROVE TaskOK(t)'
  <2>1. PersistedIsThere(t)'
    BY <1>2, <1>3, <1>6 DEF PersistedIsThere, CurrentEvent, EventOf
  <2> QED BY <1>2, <1>3, <1>6, <2>1, TaskKeeps DEF Grows
<1>7. crashes' \in 0..MaxCrashes
  BY <1>1, <1>2 DEF TypeOK
<1> QED BY <1>2, <1>3, <1>4, <1>6, <1>7, TaskStep DEF Labels

\* ingest_evidence returned.  A record stored after the head was read is beyond all
\* that were reported before; a duplicate was there when the head was read, and
\* so were, before it, the valid records before it.
LEMMA AcknowledgeInv ==
  ASSUME Inv, NEW t \in Tasks, Acknowledge(t)
  PROVE  Inv'
<1> DEFINE seq == task[t].seq
           head == task[t].headBefore
           b == task[t].batch
           expected == IF task[t].seq > task[t].expected THEN task[t].seq ELSE task[t].expected
           ack == [status |-> IF seq <= head THEN "duplicate" ELSE "committed",
                   seq |-> seq, retryable |-> FALSE]
<1>1. TypeOK /\ TaskOK(t)
  BY DEF Inv
<1>2. pc[t] = "drain" /\ Report(t, ack, expected, FALSE) /\ UNCHANGED <<events, told, crashes>>
  BY DEF Acknowledge
<1>3. /\ ~task[t].blocked /\ task[t].next <= Len(b.records) /\ Current(t).valid
      /\ \A i \in 1..Len(task[t].acks) : task[t].acks[i].seq <= head
      /\ seq \in 1..Len(events) /\ events[seq] = CurrentEvent(t)
      /\ ReplayableTo(head)
  BY <1>1, <1>2 DEF TaskOK, AtWork, Previewed, PersistedIsThere
<1>4. /\ Len(events) \in Nat /\ b \in Batches /\ head \in 0..Len(events)
      /\ task[t].next \in 1..Len(b.records) /\ Len(task[t].acks) = task[t].next - 1
      /\ Len(b.records) \in Nat
      /\ \A i \in 1..Len(task[t].acks) : task[t].acks[i].seq \in 0..Len(events)
  BY <1>1, <1>3, TaskParts
<1>5. ack \in AckUpTo(Len(events)) /\ ack.seq = seq
  BY <1>3, <1>4 DEF AckUpTo
<1>6. expected \in 0..(Len(events) + MaxAhead)
  BY <1>1, <1>3, TaskParts
<1>7. Current(t).src \in EvidenceAt(Len(events))
  <2>1. events[seq].src = Current(t).src
    BY <1>3, <1>4, RecordParts DEF CurrentEvent, Current
  <2> QED BY <1>1, <1>3, <2>1, StoredIsEvidence
<1>8. ASSUME VersionsAgree, NEW i \in 1..Len(task[t].acks)
      PROVE  task[t].acks[i].seq < seq
  <2> DEFINE p == task[t].acks[i].seq
  <2>1. CASE p = 0
    BY <1>3, <2>1
  <2>2. CASE seq > head
    BY <1>3, <1>4, <2>2
  <2>3. CASE p > 0 /\ seq <= head
    <3>1. b.records[i].valid /\ events[p] = EventOf(b, i)
      BY <1>1, <2>3 DEF TaskOK, ReportedTrue
    <3>2. i \in 1..Len(b.records) /\ i < task[t].next
      BY <1>4
    <3>3. events[p].src = b.records[i].src /\ events[p].src # NoSource
      BY <1>4, <3>1, <3>2, RecordParts
    <3>4. events[seq].batch = b.id /\ events[seq].src = b.records[task[t].next].src
      BY <1>3, <1>4, RecordParts DEF CurrentEvent
    <3>5. b.records[i].src \in EvidenceAt(seq - 1)
      BY <1>3, <1>4, <1>8, <3>1, <3>2, <3>4 DEF Inv, PrefixBefore
    <3>6. PICK q \in 1..(seq - 1) : events[q].src = b.records[i].src
      BY <3>5 DEF EvidenceAt
    <3>7. p \in 1..head
      BY <1>3, <1>4, <2>3
    <3>8. events[p].src \notin EvidenceAt(p - 1)
      BY <1>3, <3>7 DEF ReplayableTo
    <3>9. ~(q \in 1..(p - 1))
      BY <3>3, <3>6, <3>8 DEF EvidenceAt
    <3>10. p \in Nat /\ seq \in Nat /\ q \in Nat /\ p >= 1 /\ 1 <= q /\ q < seq
      BY <1>3, <1>4, <3>6, <3>7
    <3>11. q >= p
      BY <3>9, <3>10
    <3>12. p < seq
      <4> HIDE DEF p, seq
      <4> QED BY <3>10, <3>11
    <3> QED BY <3>12
  <2> QED BY <1>3, <1>4, <2>1, <2>2, <2>3
<1> HIDE DEF ack, expected
<1> QED BY <1>1, <1>2, <1>3, <1>5, <1>6, <1>7, <1>8, ReportInv

-----------------------------------------------------------------------------
(* The steps that append. *)

\* What an event that is not one of the other callers' leaves alone of theirs.
LEMMA OthersStay ==
  ASSUME TypeOK, NEW e \in Event, events' = Append(events, e), e.batch # Other
  PROVE  Others' = Others
<1>1. Len(events') = Len(events) + 1 /\ Len(events) \in Nat /\ events'[Len(events) + 1] = e
      /\ \A s \in 1..Len(events) : events'[s] = events[s]
  BY DEF TypeOK
<1>2. {s \in 1..Len(events') : events'[s].batch = Other}
        = {s \in 1..Len(events) : events[s].batch = Other}
  BY <1>1
<1> QED BY <1>2 DEF Others

\* The other callers' events are counted.
LEMMA OthersCount ==
  ASSUME TypeOK, NEW e \in Event, events' = Append(events, e), e.batch = Other
  PROVE  Others \in Nat /\ Others' = Others + 1
<1> DEFINE S == {s \in 1..Len(events) : events[s].batch = Other}
           T == {s \in 1..Len(events') : events'[s].batch = Other}
<1>1. Len(events') = Len(events) + 1 /\ Len(events) \in Nat /\ events'[Len(events) + 1] = e
      /\ \A s \in 1..Len(events) : events'[s] = events[s]
  BY DEF TypeOK
<1>2. IsFiniteSet(S)
  <2>1. IsFiniteSet(1..Len(events))
    BY <1>1, FS_Interval
  <2> QED BY <2>1, FS_Subset
<1>3. T = S \cup {Len(events) + 1} /\ Len(events) + 1 \notin S
  BY <1>1
<1>4. Cardinality(S) \in Nat /\ Cardinality(T) = Cardinality(S) + 1
  BY <1>2, <1>3, FS_CardinalityType, FS_AddElement
<1> QED BY <1>4 DEF Others

\* The record is committed.
LEMMA CommitInv ==
  ASSUME Inv, NEW t \in Tasks, Commit(t)
  PROVE  Inv'
<1> DEFINE e == CurrentEvent(t)
           n == Len(events)
           c == task[t].batch
           x == [task[t] EXCEPT !.seq = n + 1]
<1>1. TypeOK /\ TaskOK(t) /\ n \in Nat
  <2>1. TypeOK /\ TaskOK(t)
    BY DEF Inv
  <2> QED BY <2>1, TaskParts
<1>2. /\ pc[t] = "store" /\ events' = Append(events, e)
      /\ task' = [task EXCEPT ![t] = x] /\ pc' = [pc EXCEPT ![t] = "drain"]
      /\ UNCHANGED <<told, crashes>>
  BY DEF Commit
<1>3. ~task[t].blocked /\ Current(t).valid /\ task[t].next \in 1..Len(c.records) /\ c \in Batches
  BY <1>1, <1>2, TaskParts DEF TaskOK, AtWork
<1>4. /\ e \in Event /\ e.batch = c.id /\ e.batch # Other
      /\ e.src = c.records[task[t].next].src
  BY <1>3, RecordParts DEF CurrentEvent
<1>5. Grows /\ Len(events') = n + 1 /\ events'[n + 1] = e
      /\ \A s \in 1..n : events'[s] = events[s]
  BY <1>1, <1>2, <1>4 DEF Grows, TypeOK
<1>6. /\ x \in TaskUpTo(n + 1) /\ Fits(x) /\ x.seq = n + 1 /\ x.headBefore = task[t].headBefore
      /\ x.batch = c /\ x.next = task[t].next /\ x.blocked = task[t].blocked
      /\ x.acks = task[t].acks
  <2>1. task[t] \in TaskUpTo(n + 1) /\ Fits(task[t]) /\ n + 1 \in Nat /\ n + 1 \in 0..(n + 1)
    BY <1>1, TaskParts, TaskMonotone
  <2>2. x = [task[t] EXCEPT !.seq = n + 1]
    OBVIOUS
  <2> HIDE DEF x, n
  <2> QED BY <2>1, <2>2, RecordUpdates
<1> HIDE DEF x, e
<1>7. TypeOK'
  <2>1. events' \in Seq(Event) /\ told' \subseteq [req : Event, seq : 1..Len(events')]
        /\ crashes' \in 0..MaxCrashes /\ pc' \in [Tasks -> Labels]
    BY <1>1, <1>2, <1>4, <1>5 DEF TypeOK, Labels
  <2>2. task' \in [Tasks -> TaskUpTo(n + 1)]
    <3>1. task \in [Tasks -> TaskUpTo(n + 1)]
      BY <1>1, TypeParts, TaskMonotone
    <3> QED BY <1>2, <1>6, <3>1
  <2>3. \A u \in Tasks : Fits(task'[u])
    BY <1>1, <1>2, <1>6, TypeParts
  <2> QED BY <1>5, <2>1, <2>2, <2>3, TypeParts
<1>8. /\ pc'[t] = "drain" /\ task'[t] = x
      /\ \A u \in Tasks \ {t} : pc'[u] = pc[u] /\ task'[u] = task[u]
  BY <1>1, <1>2, TypeParts
<1>9. \A u \in Tasks : TaskOK(u)'
  <2>1. PersistedIsThere(t)'
    <3>1. CurrentEvent(t)' = e
      BY <1>6, <1>8 DEF CurrentEvent, EventOf, e
    <3> QED BY <1>5, <1>6, <1>8, <1>1, <3>1 DEF PersistedIsThere
  <2>2. TaskOK(t)'
    BY <1>2, <1>5, <1>6, <1>8, <2>1, TaskKeeps
  <2> QED BY <1>5, <1>8, <2>2, OthersKeep
<1>10. PrefixBefore'
  <2> SUFFICES ASSUME VersionsAgree, NEW s \in 1..(n + 1), NEW b \in Batches,
                      NEW i \in 1..Len(b.records), NEW j \in 1..Len(b.records),
                      i < j, b.records[i].valid,
                      events'[s].batch = b.id, events'[s].src = b.records[j].src
               PROVE  b.records[i].src \in EvidenceAt(s - 1)'
    BY <1>5 DEF PrefixBefore
  <2>1. s - 1 \in 0..n /\ EvidenceAt(s - 1)' = EvidenceAt(s - 1)
    <3>1. s - 1 \in 0..n
      BY <1>1
    <3> QED BY <1>1, <1>5, <3>1, GrowFacts
  <2>2. CASE s \in 1..n
    BY <1>5, <2>1, <2>2 DEF Inv, PrefixBefore
  <2>3. CASE s = n + 1
    <3>1. b.id = c.id /\ b.records[j].src = c.records[task[t].next].src
      BY <1>4, <1>5, <2>3
    <3>2. i \in 1..(j - 1) /\ Len(b.records) \in Nat
      BY TelemetryAssumption
    <3>3. PICK h \in 1..(task[t].next - 1) :
             c.records[h].valid /\ c.records[h].src = b.records[i].src
      BY <1>3, <3>1, <3>2 DEF VersionsAgree, Current
    <3>4. c.records[h].src \in EvidenceAt(n)
      BY <1>1, <1>2, <1>3, <3>3 DEF TaskOK, Passed
    <3>5. s - 1 = n
      BY <1>1, <2>3
    <3> QED BY <2>1, <3>3, <3>4, <3>5
  <2> QED BY <1>1, <2>2, <2>3
<1>11. OthersNumbered'
  BY <1>1, <1>2, <1>4, <1>5, OthersStay DEF Inv, OthersNumbered
<1>12. ToldTrue'
  <2> SUFFICES ASSUME NEW a \in told PROVE events'[a.seq] = a.req
    BY <1>2 DEF ToldTrue
  <2>1. a.seq \in 1..n
    BY <1>1 DEF TypeOK
  <2> QED BY <1>5, <2>1 DEF Inv, ToldTrue
<1> QED BY <1>7, <1>9, <1>10, <1>11, <1>12 DEF Inv

\* Another caller's event is none of a batch.
LEMMA OtherAppendInv ==
  ASSUME Inv, NEW src \in Sources \cup {NoSource}, OtherAppend(src)
  PROVE  Inv'
<1> DEFINE n == Len(events)
           e == [batch |-> Other, src |-> src, content |-> Others + 1]
<1>1. TypeOK /\ n \in Nat
  BY DEF Inv, TypeOK
<1>2. events' = Append(events, e) /\ UNCHANGED <<pc, task, told, crashes>>
  BY DEF OtherAppend
<1>3. Others \in Nat
  <2>1. n \in Nat /\ IsFiniteSet(1..n)
    BY <1>1, FS_Interval
  <2>2. IsFiniteSet({s \in 1..n : events[s].batch = Other})
    BY <2>1, FS_Subset
  <2> QED BY <2>2, FS_CardinalityType DEF Others
<1>4. e \in Event /\ e.batch = Other /\ e.content = Others + 1
  BY <1>3 DEF Event
<1> HIDE DEF e
<1>5. Grows /\ Len(events') = n + 1 /\ events'[n + 1] = e
      /\ \A s \in 1..n : events'[s] = events[s]
  BY <1>1, <1>2, <1>4 DEF Grows, TypeOK
<1>6. Others' = Others + 1
  BY <1>1, <1>2, <1>4, OthersCount
<1>7. TypeOK'
  <2>1. events' \in Seq(Event) /\ told' \subseteq [req : Event, seq : 1..Len(events')]
        /\ crashes' \in 0..MaxCrashes /\ pc' \in [Tasks -> Labels]
    BY <1>1, <1>2, <1>4, <1>5 DEF TypeOK, Labels
  <2>2. task' \in [Tasks -> TaskUpTo(n + 1)] /\ \A u \in Tasks : Fits(task'[u])
    BY <1>1, <1>2, TypeParts, TaskMonotone
  <2> QED BY <1>5, <2>1, <2>2, TypeParts
<1>8. \A u \in Tasks : TaskOK(u)'
  BY <1>2, <1>5, OthersKeep
<1>9. PrefixBefore'
  <2> SUFFICES ASSUME VersionsAgree, NEW s \in 1..(n + 1), NEW b \in Batches,
                      NEW i \in 1..Len(b.records), NEW j \in 1..Len(b.records),
                      i < j, b.records[i].valid,
                      events'[s].batch = b.id, events'[s].src = b.records[j].src
               PROVE  b.records[i].src \in EvidenceAt(s - 1)'
    BY <1>5 DEF PrefixBefore
  <2>1. s \in 1..n
    BY <1>1, <1>4, <1>5, RecordParts
  <2>2. s - 1 \in 0..n
    BY <1>1, <2>1
  <2>3. EvidenceAt(s - 1)' = EvidenceAt(s - 1)
    BY <1>1, <1>5, <2>2, GrowFacts
  <2> QED BY <1>5, <2>1, <2>3 DEF Inv, PrefixBefore
<1>10. OthersNumbered'
  <2> SUFFICES ASSUME NEW s \in 1..(n + 1), events'[s].batch = Other
               PROVE  events'[s].content <= Others + 1
    BY <1>5, <1>6 DEF OthersNumbered
  <2>1. CASE s \in 1..n
    <3>1. events[s].content \in Nat /\ events[s].content <= Others
      <4>1. events[s] \in Event /\ events[s].batch = Other
        BY <1>1, <1>5, <2>1 DEF TypeOK
      <4> QED BY <2>1, <4>1 DEF Inv, OthersNumbered, Event
    <3> QED BY <1>3, <1>5, <2>1, <3>1
  <2>2. CASE s = n + 1
    BY <1>3, <1>4, <1>5, <2>2
  <2> QED BY <1>1, <2>1, <2>2
<1>11. ToldTrue'
  <2> SUFFICES ASSUME NEW a \in told PROVE events'[a.seq] = a.req
    BY <1>2 DEF ToldTrue
  <2>1. a.seq \in 1..n
    BY <1>1 DEF TypeOK
  <2> QED BY <1>5, <2>1 DEF Inv, ToldTrue
<1> QED BY <1>7, <1>8, <1>9, <1>10, <1>11 DEF Inv

-----------------------------------------------------------------------------
(* The client is told; all steps together. *)

\* What a finished task tells is what it reported, and that is in the ledger.
LEMMA FinishTells ==
  ASSUME Inv, NEW t \in Tasks, Finish(t)
  PROVE  \A a \in told' \ told :
            /\ a.req \in Event /\ a.seq \in 1..Len(events) /\ events[a.seq] = a.req
            /\ a \in [req : Event, seq : 1..Len(events)]
<1>1. TypeOK /\ ReportedTrue(t)
  BY DEF Inv, TaskOK
<1> SUFFICES ASSUME NEW a \in told' \ told
             PROVE  /\ a.req \in Event /\ a.seq \in 1..Len(events) /\ events[a.seq] = a.req
                    /\ a \in [req : Event, seq : 1..Len(events)]
  OBVIOUS
<1>2. PICK i \in 1..Len(task[t].acks) :
         /\ task[t].acks[i].seq > 0
         /\ a = [req |-> EventOf(task[t].batch, i), seq |-> task[t].acks[i].seq]
  BY DEF Finish
<1>3. task[t].batch \in Batches /\ i \in 1..Len(task[t].batch.records)
      /\ task[t].acks[i].seq \in 0..Len(events) /\ Len(events) \in Nat
  BY <1>1, TaskParts
<1>4. EventOf(task[t].batch, i) \in Event
  BY <1>3, RecordParts
<1>5. task[t].acks[i].seq \in 1..Len(events)
  BY <1>2, <1>3
<1>6. events[task[t].acks[i].seq] = EventOf(task[t].batch, i)
  BY <1>1, <1>2 DEF ReportedTrue
<1> QED BY <1>2, <1>4, <1>5, <1>6

\* The client learns of every record.
LEMMA FinishInv ==
  ASSUME Inv, NEW t \in Tasks, Finish(t)
  PROVE  Inv'
<1>1. TypeOK
  BY DEF Inv
<1>2. /\ task' = [task EXCEPT ![t] = NoTask] /\ pc' = [pc EXCEPT ![t] = "idle"]
      /\ UNCHANGED <<events, crashes>> /\ crashes' \in 0..MaxCrashes
  BY <1>1 DEF Finish, TypeOK
<1>3. pc'[t] = "idle" /\ task'[t] = NoTask => TaskOK(t)'
  BY <1>1, NoTaskType, FreshTask
<1>4. told' \subseteq [req : Event, seq : 1..Len(events)]
  BY <1>1, FinishTells DEF TypeOK
<1>5. ToldTrue'
  <2> SUFFICES ASSUME NEW a \in told' PROVE events[a.seq] = a.req
    BY <1>2 DEF ToldTrue
  <2>1. CASE a \in told
    BY <2>1 DEF Inv, ToldTrue
  <2>2. CASE a \notin told
    BY <2>2, FinishTells
  <2> QED BY <2>1, <2>2
<1> QED BY <1>1, <1>2, <1>3, <1>4, <1>5, NoTaskType, TaskStep DEF Labels

\* Every step preserves the invariant.
LEMMA NextInv == Inv /\ [Next]_vars => Inv'
<1> SUFFICES ASSUME Inv, [Next]_vars PROVE Inv'
  OBVIOUS
<1>1. ASSUME NEW t \in Tasks, Step(t) PROVE Inv'
  <2>1. CASE Preview(t)
    BY <2>1, PreviewInv, RefusingInv
  <2>2. CASE ~Preview(t)
    BY <1>1, <2>2, RefusingInv, ReadHeadInv, DuplicateInv, CommitInv, AcknowledgeInv, FinishInv
       DEF Step
  <2> QED BY <2>1, <2>2
<1>2. CASE UNCHANGED vars
  <2> USE <1>2
  <2>1. TypeOK'
    BY DEF vars, Inv, TypeOK, Ack
  <2>2. \A t \in Tasks : TaskOK(t)'
    BY OthersKeep DEF vars, Grows
  <2>3. PrefixBefore' /\ OthersNumbered' /\ ToldTrue'
    BY DEF vars, Inv, PrefixBefore, OthersNumbered, ToldTrue, EvidenceAt, Others
  <2> QED BY <2>1, <2>2, <2>3 DEF Inv
<1> QED BY <1>1, <1>2, SubmitInv, AbortInv, OtherAppendInv DEF Next

\* The invariant holds in every reachable state.
LEMMA Invariance == Spec => []Inv
BY InitInv, NextInv, PTL DEF Spec

-----------------------------------------------------------------------------
(* The theorems. *)

\* BatchInv: every variable has its type, and the sequences reported to one batch
\* rise with its records, so that IngestAck's first and last are those of its
\* first and last successful records.
THEOREM BatchesSound == Spec => []BatchInv
<1>1. Inv => BatchInv
  BY DEF Inv, TaskOK, AcksRise, BatchInv, AcksInOrder
<1> QED BY <1>1, Invariance, PTL

\* CommittedPrefix: a record of a batch gets in only after the valid ones before
\* it, over conflicts with other writers, retries, aborted calls and crashes.
THEOREM PrefixCommitted == Spec => []CommittedPrefix
<1>1. Inv => CommittedPrefix
  <2> SUFFICES ASSUME Inv, VersionsAgree, NEW b \in Batches,
                      NEW i \in 1..Len(b.records), NEW j \in 1..Len(b.records),
                      i < j, b.records[i].valid, Stored(b.id, b.records[j].src) # {}
               PROVE  b.records[i].src \in EvidenceAt(Len(events))
    BY DEF CommittedPrefix
  <2>1. PICK s \in 1..Len(events) : events[s].batch = b.id /\ events[s].src = b.records[j].src
    BY DEF Stored
  <2>2. b.records[i].src \in EvidenceAt(s - 1)
    BY <2>1 DEF Inv, PrefixBefore
  <2>3. Len(events) \in Nat
    BY DEF Inv, TypeOK
  <2> QED BY <2>2, <2>3 DEF EvidenceAt
<1> QED BY <1>1, Invariance, PTL

\* A record that is committed has a key of its own: that of another caller's event
\* is the event itself.
LEMMA StepRefines == Inv /\ [Next]_vars => [Ledger!Next]_(Ledger!ledgerVars)
<1> SUFFICES ASSUME Inv, [Next]_vars PROVE Ledger!Next \/ UNCHANGED <<events, told>>
  BY DEF Ledger!ledgerVars
<1>1. TypeOK
  BY DEF Inv
<1>2. ASSUME NEW e \in Event, events' = Append(events, e), UNCHANGED told,
             \A s \in 1..Len(events) : TelemetryKey(events[s]) # TelemetryKey(e)
      PROVE  Ledger!Next
  <2>1. Len(events') > Len(events) /\ events'[Len(events')] = e
    BY <1>1, <1>2 DEF TypeOK
  <2> QED BY <1>2, <2>1 DEF Ledger!Next, Ledger!Append1
<1>3. ASSUME NEW t \in Tasks, Commit(t) PROVE Ledger!Next
  <2> DEFINE e == CurrentEvent(t)
  <2>1. task[t].batch \in Batches /\ task[t].next \in 1..Len(task[t].batch.records)
    BY <1>1, <1>3, TaskParts DEF Inv, TaskOK, AtWork, Commit
  <2>2. /\ e \in Event /\ e.batch = task[t].batch.id /\ e.batch # Other
        /\ e.src = Current(t).src
    BY <2>1, RecordParts DEF CurrentEvent, Current
  <2>3. /\ \A s \in 1..Len(events) : ~(events[s].batch = e.batch /\ events[s].src = e.src)
        /\ events' = Append(events, e) /\ UNCHANGED told
    BY <1>3, <2>2 DEF Commit, StoredRecord, Stored
  <2> HIDE DEF e
  <2>4. \A s \in 1..Len(events) : TelemetryKey(events[s]) # TelemetryKey(e)
    <3> SUFFICES ASSUME NEW s \in 1..Len(events), TelemetryKey(events[s]) = TelemetryKey(e)
                 PROVE  FALSE
      OBVIOUS
    <3>1. TelemetryKey(e) = [batch |-> e.batch, src |-> e.src]
      BY <2>2 DEF TelemetryKey
    <3>2. CASE events[s].batch = Other
      <4>1. events[s] = [batch |-> e.batch, src |-> e.src]
        BY <3>1, <3>2 DEF TelemetryKey
      <4> QED BY <2>2, <3>2, <4>1
    <3>3. CASE events[s].batch # Other
      <4>1. [batch |-> events[s].batch, src |-> events[s].src] = [batch |-> e.batch, src |-> e.src]
        BY <3>1, <3>3 DEF TelemetryKey
      <4> QED BY <2>3, <4>1
    <3> QED BY <3>2, <3>3
  <2> QED BY <1>2, <2>2, <2>3, <2>4
<1>4. ASSUME NEW src \in Sources \cup {NoSource}, OtherAppend(src) PROVE Ledger!Next
  <2> DEFINE e == [batch |-> Other, src |-> src, content |-> Others + 1]
  <2>1. Others \in Nat
    <3>1. IsFiniteSet(1..Len(events))
      BY <1>1, FS_Interval DEF TypeOK
    <3>2. IsFiniteSet({s \in 1..Len(events) : events[s].batch = Other})
      BY <3>1, FS_Subset
    <3> QED BY <3>2, FS_CardinalityType DEF Others
  <2>2. e \in Event /\ e.batch = Other /\ e.content = Others + 1 /\ TelemetryKey(e) = e
    BY <2>1 DEF Event, TelemetryKey
  <2>3. events' = Append(events, e) /\ UNCHANGED told
    BY <1>4 DEF OtherAppend
  <2> HIDE DEF e
  <2>4. \A s \in 1..Len(events) : TelemetryKey(events[s]) # TelemetryKey(e)
    <3> SUFFICES ASSUME NEW s \in 1..Len(events), TelemetryKey(events[s]) = e
                 PROVE  FALSE
      BY <2>2
    <3>1. CASE events[s].batch = Other
      <4>1. events[s] = e
        BY <3>1 DEF TelemetryKey
      <4>2. events[s].content <= Others
        BY <3>1 DEF Inv, OthersNumbered
      <4> QED BY <2>1, <2>2, <4>1, <4>2
    <3>2. CASE events[s].batch # Other
      <4>1. [batch |-> events[s].batch, src |-> events[s].src] = e
        BY <3>2 DEF TelemetryKey
      <4> QED BY <2>2, <3>2, <4>1
    <3> QED BY <3>1, <3>2
  <2> QED BY <1>2, <2>2, <2>3, <2>4
<1>5. ASSUME NEW t \in Tasks, Finish(t) PROVE Ledger!Next
  <2>1. told \subseteq told' /\ UNCHANGED events
    BY <1>5 DEF Finish
  <2>2. \A a \in told' \ told : a.seq \in 1..Len(events) /\ events[a.seq] = a.req
    BY <1>5, FinishTells
  <2> QED BY <2>1, <2>2 DEF Ledger!Next, Ledger!Answer
<1>6. ASSUME NEW t \in Tasks,
             \/ Step(t) /\ ~Commit(t) /\ ~Finish(t)
             \/ \E b \in Batches, n \in 0..(Len(events) + MaxAhead) : Submit(t, b, n)
             \/ DrainFails(t) \/ Crash(t)
      PROVE  UNCHANGED <<events, told>>
  BY <1>6 DEF Step, SkipBlocked, RejectInvalid, ReadHead, Preview, Duplicate, KeyReused, HeadMoved,
              Acknowledge, Submit, DrainFails, Crash
<1>7. CASE UNCHANGED vars
  BY <1>7 DEF vars
<1> QED BY <1>3, <1>4, <1>5, <1>6, <1>7 DEF Next

\* Telemetry implements IdempotentLedger: no record of a batch is committed twice,
\* and a position is told only for the record it holds, over retries, conflicts,
\* aborted batches and crashes.
THEOREM TelemetryKeepsPromise == Spec => LedgerPromise
<1>1. Init => Ledger!Init
  BY DEF Init, Ledger!Init
<1> QED BY <1>1, StepRefines, Invariance, PTL DEF Spec, LedgerPromise, Ledger!Spec
=============================================================================
