---------------------------- MODULE TelemetryIngest ----------------------------
(***************************************************************************)
(* Telemetry batches of one twin: TelemetryBatchProcessor.process commits  *)
(* a batch record by record through DigitalTwinService.ingest_evidence,    *)
(* under an expected sequence it moves along, and reports each record as   *)
(* committed, duplicate or rejected.  Several tasks of several service     *)
(* processes handle batches of the same ledger; a task may die at any      *)
(* point; clients send a batch again, with the expected sequence they had  *)
(* or the one the last acknowledgement told them.                          *)
(*                                                                         *)
(* A record is a source record id, its content, and whether                *)
(* _validate_record accepts it.  Its idempotency key is the batch's id and *)
(* the source record id; the evidence it creates is identified by the      *)
(* source record id alone, so it exists once however many batches, or      *)
(* other callers of ingest_evidence, carry it.  The steps inside append    *)
(* that only concern its cache and snapshots are module TwinService.       *)
(***************************************************************************)
EXTENDS Integers, Sequences, FiniteSets

CONSTANTS
    Tasks,         \* stream handlers, each in a process of its own
    Batches,       \* what clients send: records [id, records]
    Sources,       \* source record ids
    Other,         \* the batch id of events other callers append
    NoSource,      \* the source of an event that is no evidence
    MaxAhead,      \* how far beyond the head a client may guess expected_sequence
    MaxOthers,     \* bound: events appended by other callers
    MaxCrashes     \* bound: tasks that die

Record == [src : Sources, content : {1, 2}, valid : BOOLEAN]

\* SyncLimits.validate_batch and _validate_batch_header refuse, as a whole and
\* with no effect, the batches that are not of this kind.
ASSUME TelemetryAssumption ==
    /\ Batches # {}
    /\ \A b \in Batches :
          /\ b.id # Other
          /\ b.records \in Seq(Record) /\ b.records # <<>>
          /\ \A i, j \in 1..Len(b.records) : b.records[i].src = b.records[j].src => i = j
    /\ NoSource \notin Sources
    /\ {MaxAhead, MaxOthers, MaxCrashes} \subseteq Nat

VARIABLES
    events,     \* the ledger: records [batch, src, content]
    pc, task,   \* the process() call of each task
    told,       \* history: the events clients were told are committed, with the
                \* sequences they were told
    crashes

vars == <<events, pc, task, told, crashes>>

-----------------------------------------------------------------------------
(* The ledger, as ingest_evidence sees it. *)

Stored(id, src) == {s \in 1..Len(events) : events[s].batch = id /\ events[s].src = src}

\* TwinState.evidence after the first n events.
EvidenceAt(n) == {events[s].src : s \in 1..n} \ {NoSource}

\* TwinAggregate.rebuild meets no event that creates an evidence again.
Replayable == \A s \in 1..Len(events) : events[s].src \notin EvidenceAt(s - 1)

-----------------------------------------------------------------------------

NoTask == [batch |-> CHOOSE b \in Batches : TRUE, expected |-> 0, next |-> 1, headBefore |-> 0,
           blocked |-> FALSE, seq |-> 0, acks |-> <<>>]

Init ==
    /\ events = <<>>
    /\ pc = [t \in Tasks |-> "idle"]
    /\ task = [t \in Tasks |-> NoTask]
    /\ told = {}
    /\ crashes = 0

\* The record a task is at, and the event that ingest_evidence makes of it.
Current(t) == task[t].batch.records[task[t].next]

EventOf(b, i) == [batch |-> b.id, src |-> b.records[i].src, content |-> b.records[i].content]

CurrentEvent(t) == EventOf(task[t].batch, task[t].next)

\* A batch arrives at StreamTelemetry.
Submit(t, b, expected) ==
    /\ pc[t] = "idle"
    /\ task' = [task EXCEPT ![t] = [NoTask EXCEPT !.batch = b, !.expected = expected]]
    /\ pc' = [pc EXCEPT ![t] = "record"]
    /\ UNCHANGED <<events, told, crashes>>

AtRecord(t) == pc[t] = "record" /\ task[t].next <= Len(task[t].batch.records)

\* TelemetryRecordAck of the current record; the loop goes on.
Report(t, ack, expected, blocked) ==
    /\ task' = [task EXCEPT ![t] = [batch |-> @.batch, expected |-> expected, next |-> @.next + 1,
                                    headBefore |-> 0, blocked |-> blocked, seq |-> 0,
                                    acks |-> Append(@.acks, ack)]]
    /\ pc' = [pc EXCEPT ![t] = "record"]

\* Mutation: a rejected record stops the batch, as a conflict does.
RejectAndStop(t) ==
    Report(t, [status |-> "rejected", seq |-> 0, retryable |-> FALSE], task[t].expected, TRUE)

\* InvariantViolation or ValueError: this record is refused, the next is tried.
Reject(t) ==
    Report(t, [status |-> "rejected", seq |-> 0, retryable |-> FALSE],
           task[t].expected, task[t].blocked)

\* Mutation: the records after a conflict are tried all the same.
ConflictGoesOn(t) ==
    Report(t, [status |-> "rejected", seq |-> 0, retryable |-> TRUE], task[t].expected, FALSE)

\* ConcurrencyConflict: this record and all that follow may be tried again.
Conflict(t) ==
    Report(t, [status |-> "rejected", seq |-> 0, retryable |-> TRUE], task[t].expected, TRUE)

SkipBlocked(t) ==
    /\ AtRecord(t) /\ task[t].blocked
    /\ Conflict(t)
    /\ UNCHANGED <<events, told, crashes>>

RejectInvalid(t) ==
    /\ AtRecord(t) /\ ~task[t].blocked
    /\ ~Current(t).valid
    /\ Reject(t)
    /\ UNCHANGED <<events, told, crashes>>

\* The head before ingest_evidence, from which the status is told later.
ReadHead(t) ==
    /\ AtRecord(t) /\ ~task[t].blocked
    /\ Current(t).valid
    /\ task' = [task EXCEPT ![t].headBefore = Len(events)]
    /\ pc' = [pc EXCEPT ![t] = "preview"]
    /\ UNCHANGED <<events, told, crashes>>

\* ingest_evidence takes the latest state, which a ledger that cannot be
\* replayed does not have; append previews the transition if the head is where
\* the task expects it.
Refused(t) ==
    \/ ~Replayable
    \/ Len(events) = task[t].expected /\ Current(t).src \in EvidenceAt(Len(events))

Preview(t) ==
    /\ pc[t] = "preview"
    /\ IF Refused(t) THEN Reject(t)
       ELSE pc' = [pc EXCEPT ![t] = "store"] /\ UNCHANGED task
    /\ UNCHANGED <<events, told, crashes>>

\* _record_idempotency_key looked up in the ledger.
StoredRecord(t) == Stored(task[t].batch.id, Current(t).src)

\* store.append finds the key with the same content, ...
Duplicate(t) ==
    /\ pc[t] = "store"
    /\ \E s \in StoredRecord(t) :
          /\ events[s] = CurrentEvent(t)
          /\ task' = [task EXCEPT ![t].seq = s]
    /\ pc' = [pc EXCEPT ![t] = "drain"]
    /\ UNCHANGED <<events, told, crashes>>

\* ... or with other content: InvariantViolation; ...
KeyReused(t) ==
    /\ pc[t] = "store"
    /\ \E s \in StoredRecord(t) : events[s] # CurrentEvent(t)
    /\ Reject(t)
    /\ UNCHANGED <<events, told, crashes>>

\* ... or the head is elsewhere; ...
HeadMoved(t) ==
    /\ pc[t] = "store"
    /\ StoredRecord(t) = {} /\ Len(events) # task[t].expected
    /\ Conflict(t)
    /\ UNCHANGED <<events, told, crashes>>

\* Mutation: the key is not looked up.
CommitAgain(t) ==
    /\ pc[t] = "store"
    /\ Len(events) = task[t].expected
    /\ events' = Append(events, CurrentEvent(t))
    /\ task' = [task EXCEPT ![t].seq = Len(events) + 1]
    /\ pc' = [pc EXCEPT ![t] = "drain"]
    /\ UNCHANGED <<told, crashes>>

\* ... or the record is committed.
Commit(t) ==
    /\ pc[t] = "store"
    /\ StoredRecord(t) = {} /\ Len(events) = task[t].expected
    /\ events' = Append(events, CurrentEvent(t))
    /\ task' = [task EXCEPT ![t].seq = Len(events) + 1]
    /\ pc' = [pc EXCEPT ![t] = "drain"]
    /\ UNCHANGED <<told, crashes>>

\* Mutation: the sequence is worked out from the head read before.
AcknowledgeAfterHead(t) ==
    /\ pc[t] = "drain"
    /\ Report(t, [status |-> "committed", seq |-> task[t].headBefore + 1, retryable |-> FALSE],
              IF task[t].seq > task[t].expected THEN task[t].seq ELSE task[t].expected,
              FALSE)
    /\ UNCHANGED <<events, told, crashes>>

\* ingest_evidence returns: tell the status from the head read before, and
\* expect the next record right after this one.
Acknowledge(t) ==
    /\ pc[t] = "drain"
    /\ Report(t, [status |-> IF task[t].seq <= task[t].headBefore THEN "duplicate" ELSE "committed",
                  seq |-> task[t].seq, retryable |-> FALSE],
              IF task[t].seq > task[t].expected THEN task[t].seq ELSE task[t].expected,
              FALSE)
    /\ UNCHANGED <<events, told, crashes>>

\* The drain inside append raises IntegrityError, which process does not
\* catch: the record is committed and nothing is reported.
DrainFails(t) ==
    /\ pc[t] = "drain"
    /\ crashes < MaxCrashes
    /\ pc' = [pc EXCEPT ![t] = "idle"]
    /\ task' = [task EXCEPT ![t] = NoTask]
    /\ crashes' = crashes + 1
    /\ UNCHANGED <<events, told>>

\* TelemetryStreamAck: the client learns of every record.
Finish(t) ==
    /\ pc[t] = "record"
    /\ task[t].next > Len(task[t].batch.records)
    /\ LET successes == {i \in 1..Len(task[t].acks) : task[t].acks[i].seq > 0}
       IN told' = told \cup {[req |-> EventOf(task[t].batch, i), seq |-> task[t].acks[i].seq] :
                                i \in successes}
    /\ pc' = [pc EXCEPT ![t] = "idle"]
    /\ task' = [task EXCEPT ![t] = NoTask]
    /\ UNCHANGED <<events, crashes>>

\* The process dies.
Crash(t) ==
    /\ pc[t] \notin {"idle", "drain"}
    /\ crashes < MaxCrashes
    /\ pc' = [pc EXCEPT ![t] = "idle"]
    /\ task' = [task EXCEPT ![t] = NoTask]
    /\ crashes' = crashes + 1
    /\ UNCHANGED <<events, told>>

Others == Cardinality({s \in 1..Len(events) : events[s].batch = Other})

\* Another caller of the service appends an event: evidence, or any other.
OtherAppend(src) ==
    /\ Others < MaxOthers
    /\ Replayable /\ src \notin EvidenceAt(Len(events))
    /\ events' = Append(events, [batch |-> Other, src |-> src, content |-> Others + 1])
    /\ UNCHANGED <<pc, task, told, crashes>>

Step(t) ==
    \/ SkipBlocked(t) \/ RejectInvalid(t) \/ ReadHead(t) \/ Preview(t)
    \/ Duplicate(t) \/ KeyReused(t) \/ HeadMoved(t) \/ Commit(t)
    \/ Acknowledge(t) \/ Finish(t)

Next ==
    \/ \E t \in Tasks :
          \/ \E b \in Batches, expected \in 0..(Len(events) + MaxAhead) : Submit(t, b, expected)
          \/ Step(t)
          \/ DrainFails(t) \/ Crash(t)
    \/ \E src \in Sources \cup {NoSource} : OtherAppend(src)

Spec == Init /\ [][Next]_vars

\* The event loop runs every task that is ready.  A client sends its batch
\* again, now and then with the sequence the last acknowledgement told it.
Fairness ==
    /\ \A t \in Tasks : WF_vars(Step(t))
    /\ \A t \in Tasks, b \in Batches : SF_vars(Submit(t, b, Len(events)))

FairSpec == Spec /\ Fairness

-----------------------------------------------------------------------------
(* Properties. *)

Event == [batch : {b.id : b \in Batches} \cup {Other}, src : Sources \cup {NoSource}, content : Nat]

Ack == [status : {"committed", "duplicate", "rejected"}, seq : 0..Len(events), retryable : BOOLEAN]

\* Every variable has its type.
TypeOK ==
    /\ events \in Seq(Event)
    /\ pc \in [Tasks -> {"idle", "record", "preview", "store", "drain"}]
    /\ task \in [Tasks -> [batch : Batches, expected : 0..(Len(events) + MaxAhead), next : Nat \ {0},
                          headBefore : 0..Len(events), blocked : BOOLEAN, seq : 0..Len(events),
                          acks : Seq(Ack)]]
    /\ \A t \in Tasks :
          /\ task[t].next <= Len(task[t].batch.records) + 1
          /\ Len(task[t].acks) = task[t].next - 1
    /\ told \subseteq [req : Event, seq : 1..Len(events)]
    /\ crashes \in 0..MaxCrashes

\* A batch is sent again with the same sources in the same order: where a source
\* may be committed, the ones that are valid before it elsewhere are valid before
\* it there as well.
VersionsAgree ==
    \A b, c \in Batches : \A j \in 1..Len(b.records), k \in 1..Len(c.records) :
        b.id = c.id /\ b.records[j].src = c.records[k].src /\ c.records[k].valid
            => \A i \in 1..(j - 1) : b.records[i].valid
                   => \E h \in 1..(k - 1) :
                         c.records[h].valid /\ c.records[h].src = b.records[i].src

\* What is committed of a batch is a prefix of it: a record gets in only if the
\* valid ones before it are in the ledger already, however attempts, conflicts
\* with other writers and crashes interleave.
CommittedPrefix ==
    VersionsAgree => \A b \in Batches : \A i, j \in 1..Len(b.records) :
        /\ i < j /\ b.records[i].valid
        /\ Stored(b.id, b.records[j].src) # {}
        => b.records[i].src \in EvidenceAt(Len(events))

\* The sequences reported to one batch rise with the records, so the first and
\* the last of IngestAck are those of its first and last successful records.
AcksInOrder ==
    VersionsAgree => \A t \in Tasks : \A i, j \in 1..Len(task[t].acks) :
        LET early == task[t].acks[i]  late == task[t].acks[j]
        IN i < j /\ early.seq > 0 /\ late.seq > 0 => early.seq < late.seq

\* Types, and acknowledgements that follow the ledger.
BatchInv == TypeOK /\ AcksInOrder

\* The ledger and what clients were told as IdempotentLedger has them.
TelemetryKey(e) == IF e.batch = Other THEN e ELSE [batch |-> e.batch, src |-> e.src]

Ledger == INSTANCE IdempotentLedger WITH
              ledger <- events, answers <- told, KeyOf <- TelemetryKey

\* Telemetry implements IdempotentLedger: over retries, conflicts, aborted
\* batches and crashes no record of a batch is committed twice, and a position
\* is told only for the record it holds.
LedgerPromise == Ledger!Spec

\* Every valid record of every batch gets into the ledger, although other
\* writers, invalid records and earlier attempts are in the way.
BatchCompletes ==
    \A b \in Batches : \A i \in 1..Len(b.records) :
        b.records[i].valid =>
            <>(b.records[i].src \in EvidenceAt(Len(events)) \/ ~Replayable)

=============================================================================
