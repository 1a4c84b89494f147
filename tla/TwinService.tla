------------------------------ MODULE TwinService ------------------------------
(***************************************************************************)
(* DigitalTwinService.append over SQLiteEventStore: several service        *)
(* processes share the ledger file of one twin.  Each call reads the head, *)
(* validates the transition against the process's cached state, appends    *)
(* with idempotency and compare-and-swap, and keeps the cache and the      *)
(* snapshots up to date.  A process runs one call at a time up to the      *)
(* final drain (there is no await before it); calls of different processes *)
(* interleave at every access to SQLite.                                   *)
(*                                                                         *)
(* An event is an idempotency key and a body.  The body stands for the     *)
(* identity the event creates (an evidence, claim, link, contradiction,    *)
(* correction or projection id): TwinAggregate.apply refuses to create it  *)
(* twice.  Free bodies (degradation notices, say) are always applicable.   *)
(* A TwinState is the sequence of the events applied to it, oldest first.  *)
(* Most commands hand their event straight to append.  delete_evidence,    *)
(* issue_projection and revoke_projection compare the head with            *)
(* expected_sequence first, and their events are stamped anew by every     *)
(* attempt (the time, the projection's id), so no retry of theirs is the   *)
(* same request to the store.  Their check that the evidence or projection *)
(* they name is known only refuses what apply would refuse.                *)
(* What the final drain does to the outbox is module OutboxRelay; here it  *)
(* returns or raises.                                                      *)
(***************************************************************************)
EXTENDS Integers, Sequences, SequencesExt

CONSTANTS
    Procs,          \* service processes
    Requests,       \* the requests clients submit: records [key, body]
    Free,           \* the body that creates no identity
    Stamped,        \* the keys that delete, issue and revoke commands carry
    Habits,         \* what the clients may do: see Habit
    SnapshotInterval, SnapshotRetention,
    NoState,        \* no TwinState object
    MaxEvents       \* bound: length of the ledger

\* Which requests are sent and to which processes each key may go, how far beyond
\* the head a client may guess expected_sequence, and whether it may retry a
\* stored request with a newer one.
Habit ==
    [requests : SUBSET Requests, routes : [{r.key : r \in Requests} -> SUBSET Procs],
     ahead : Nat, refresh : BOOLEAN]

ASSUME ServiceAssumption ==
    /\ Requests # {}
    /\ \A r \in Requests : r = [key |-> r.key, body |-> r.body]
    /\ Stamped \subseteq {r.key : r \in Requests}
    /\ Habits \subseteq Habit
    /\ SnapshotInterval \in Nat /\ SnapshotRetention \in Nat \ {0}
    /\ MaxEvents \in Nat
    /\ NoState \notin Seq(Nat)

VARIABLES
    events,      \* dt_events of the twin
    snapshots,   \* dt_snapshots: the states saved, each filed under its sequence
    cache,       \* _state_cache entry of each process
    pc, call,    \* the append call each process runs
    acked,       \* history: requests acknowledged, with the sequence returned
    habit        \* the habits of the clients, which do not change

vars == <<events, snapshots, cache, pc, call, acked, habit>>

-----------------------------------------------------------------------------
(* TwinState, TwinAggregate *)

\* TwinState.sequence.
SequenceOf(state) == IF state = <<>> THEN 0 ELSE Last(state)

\* TwinAggregate.apply accepts the event: it does not create an identity the
\* state already has.
Applicable(state, body) ==
    body = Free \/ \A s \in ToSet(state) : events[s].body # body

\* The state that the first n events, each applied once and in order, lead to.
Prefix(n) == [i \in 1..n |-> i]

\* TwinAggregate.rebuild gets through the ledger without a refused transition.
Replayable ==
    \A s \in 1..Len(events) : Applicable(Prefix(s - 1), events[s].body)

\* load_snapshot: the newest snapshot, or the empty state.
LatestSnapshot ==
    IF snapshots = {} THEN <<>>
    ELSE CHOOSE sn \in snapshots : \A other \in snapshots : SequenceOf(other) <= SequenceOf(sn)

\* rebuild: a starting state and the events after its sequence.
RebuiltFrom(state) ==
    state \o [i \in 1..(Len(events) - SequenceOf(state)) |-> SequenceOf(state) + i]

-----------------------------------------------------------------------------
(* SQLiteEventStore.append: one IMMEDIATE transaction. *)

Stored(key) == {s \in 1..Len(events) : events[s].key = key}

\* A client sent the request before, and it is stored.
IsRetry(req) == \E s \in Stored(req.key) : events[s] = req

\* The idempotency key is there and the event is the same.
IsReplay(req) == req.key \notin Stamped /\ IsRetry(req)

\* The key is there with a different request: InvariantViolation.
IsKeyReuse(req) == Stored(req.key) # {} /\ ~IsReplay(req)

\* Mutation: the head is compared before the key is looked up.
IsConflictFirst(req, expected) == Len(events) # expected

\* The key is new, the head is not where the caller expects it.
IsConflict(req, expected) == Stored(req.key) = {} /\ Len(events) # expected

\* Mutation: the key is not looked up.
AcceptsAnyKey(req, expected) == Len(events) = expected

Accepts(req, expected) == Stored(req.key) = {} /\ Len(events) = expected

-----------------------------------------------------------------------------

NoCall == [req |-> CHOOSE r \in Requests : TRUE, expected |-> 0, head |-> 0,
           state |-> NoState, seq |-> 0, outcome |-> "none", retry |-> FALSE]

Init ==
    /\ events = <<>>
    /\ snapshots = {}
    /\ cache = [p \in Procs |-> NoState]
    /\ pc = [p \in Procs |-> "idle"]
    /\ call = [p \in Procs |-> NoCall]
    /\ acked = {}
    /\ habit \in Habits

\* The call returns or raises.
Finish(p, outcome) ==
    /\ pc' = [pc EXCEPT ![p] = "done"]
    /\ call' = [call EXCEPT ![p].outcome = outcome, ![p].state = NoState]

\* What clients may send: an expected sequence they observed, or guess; a retry
\* of a stored request with its old one, or a newer one.
MaySubmit(p, req, expected) ==
    /\ req \in habit.requests /\ p \in habit.routes[req.key]
    /\ expected <= Len(events) + habit.ahead
    /\ IsRetry(req) /\ ~habit.refresh => \A s \in Stored(req.key) : expected < s

\* append reads the head.
ReadHead(p) ==
    /\ pc[p] = "head"
    /\ call' = [call EXCEPT ![p].head = Len(events)]
    /\ pc' = [pc EXCEPT ![p] = IF Len(events) = call[p].expected THEN "validate" ELSE "append"]
    /\ UNCHANGED <<events, snapshots, cache, acked, habit>>

\* _latest_state trusts a cached state whose sequence and hash are the head's.
CacheHit(p) == cache[p] # NoState /\ SequenceOf(cache[p]) = Len(events)

\* Mutation: a stale cached state is brought forward by the newest event only.
LatestStateForward(p) ==
    IF CacheHit(p) THEN cache[p]
    ELSE IF cache[p] # NoState THEN Append(cache[p], Len(events))
    ELSE RebuiltFrom(LatestSnapshot)

LatestState(p) == IF CacheHit(p) THEN cache[p] ELSE RebuiltFrom(LatestSnapshot)

Called(p, req, expected) ==
    [call EXCEPT ![p] = [NoCall EXCEPT !.req = req, !.expected = expected, !.retry = IsRetry(req)]]

\* A command is called and hands its event to append, whose first step reads
\* the head.
Submit(p, req, expected) ==
    /\ pc[p] = "idle"
    /\ MaySubmit(p, req, expected) /\ req.key \notin Stamped
    /\ call' = [Called(p, req, expected) EXCEPT ![p].head = Len(events)]
    /\ pc' = [pc EXCEPT ![p] = IF Len(events) = expected THEN "validate" ELSE "append"]
    /\ UNCHANGED <<events, snapshots, cache, acked, habit>>

\* A command that takes the latest state first and refuses any other
\* expected_sequence than its own, before append sees the event.
SubmitAtHead(p, req, expected) ==
    /\ pc[p] = "idle"
    /\ MaySubmit(p, req, expected) /\ req.key \in Stamped
    /\ CacheHit(p) \/ Replayable
    /\ cache' = [cache EXCEPT ![p] = LatestState(p)]
    /\ IF SequenceOf(LatestState(p)) = expected
         THEN /\ pc' = [pc EXCEPT ![p] = "head"]
              /\ call' = Called(p, req, expected)
         ELSE /\ pc' = [pc EXCEPT ![p] = "done"]
              /\ call' = [Called(p, req, expected) EXCEPT ![p].outcome = "conflict"]
    /\ UNCHANGED <<events, snapshots, acked, habit>>

\* Mutation: the transition is not previewed.
ValidateHeadOnly(p) ==
    /\ pc[p] = "validate"
    /\ CacheHit(p) \/ Replayable
    /\ LET state == LatestState(p) IN
          /\ cache' = [cache EXCEPT ![p] = state]
          /\ IF SequenceOf(state) # call[p].head
               THEN Finish(p, "conflict")
               ELSE /\ pc' = [pc EXCEPT ![p] = "append"]
                    /\ call' = [call EXCEPT ![p].state = state]
    /\ UNCHANGED <<events, snapshots, acked, habit>>

\* The head equals expected_sequence: take the latest state, check that it
\* still is the one at the head that was read, and preview the transition.
Validate(p) ==
    /\ pc[p] = "validate"
    /\ CacheHit(p) \/ Replayable
    /\ LET state == LatestState(p) IN
          /\ cache' = [cache EXCEPT ![p] = state]
          /\ IF SequenceOf(state) # call[p].head
               THEN Finish(p, "conflict")
             ELSE IF ~Applicable(state, call[p].req.body)
               THEN Finish(p, "invalid")
             ELSE /\ pc' = [pc EXCEPT ![p] = "append"]
                  /\ call' = [call EXCEPT ![p].state = state]
    /\ UNCHANGED <<events, snapshots, acked, habit>>

\* The rebuild raises: the ledger holds a transition that apply refuses.
RebuildFails(p) ==
    /\ pc[p] = "validate"
    /\ ~CacheHit(p) /\ ~Replayable
    /\ cache' = [cache EXCEPT ![p] = NoState]
    /\ Finish(p, "invalid")
    /\ UNCHANGED <<events, snapshots, acked, habit>>

\* store.append raises.
Rejected(p) ==
    /\ pc[p] = "append"
    /\ \/ IsKeyReuse(call[p].req) /\ Finish(p, "reused")
       \/ IsConflict(call[p].req, call[p].expected) /\ Finish(p, "conflict")
    /\ UNCHANGED <<events, snapshots, cache, acked, habit>>

\* After store.append: a persisted event beyond the head that was read goes
\* into the state that was validated, which becomes the cached one; without
\* such a state the cached one is dropped.
CacheAfter(p, seq) ==
    IF seq <= call[p].head THEN cache[p]
    ELSE IF call[p].state = NoState THEN NoState
    ELSE Append(call[p].state, seq)

SnapshotDue(p, seq) ==
    /\ seq > call[p].head
    /\ SnapshotInterval > 0 /\ seq % SnapshotInterval = 0

Persisted(p, seq) ==
    /\ cache' = [cache EXCEPT ![p] = CacheAfter(p, seq)]
    /\ pc' = [pc EXCEPT ![p] = IF SnapshotDue(p, seq) THEN "rebuild" ELSE "drain"]
    /\ call' = [call EXCEPT ![p].seq = seq, ![p].state = NoState]

\* store.append commits the event.
Commit(p) ==
    /\ pc[p] = "append"
    /\ Len(events) < MaxEvents
    /\ Accepts(call[p].req, call[p].expected)
    /\ events' = Append(events, call[p].req)
    /\ Persisted(p, Len(events) + 1)
    /\ UNCHANGED <<snapshots, acked, habit>>

\* store.append finds the request stored and returns the stored event, which
\* the service applies if the state it validated is older; apply may refuse.
Replay(p) ==
    /\ pc[p] = "append"
    /\ IsReplay(call[p].req)
    /\ \E s \in Stored(call[p].req.key) :
          IF /\ s > call[p].head /\ call[p].state # NoState
             /\ ~Applicable(call[p].state, events[s].body)
            THEN /\ cache' = [cache EXCEPT ![p] = NoState]
                 /\ Finish(p, "invalid")
            ELSE Persisted(p, s)
    /\ UNCHANGED <<events, snapshots, acked, habit>>

\* Mutation: the snapshot is taken of the cached state.
SnapshotOfCache(p) ==
    /\ pc[p] = "rebuild"
    /\ pc' = [pc EXCEPT ![p] = "save"]
    /\ call' = [call EXCEPT ![p].state = IF cache[p] = NoState THEN RebuiltFrom(<<>>)
                                                               ELSE cache[p]]
    /\ UNCHANGED <<events, snapshots, cache, acked, habit>>

\* A snapshot is due: rebuild from the first event, without older snapshots.
SnapshotRebuild(p) ==
    /\ pc[p] = "rebuild"
    /\ IF Replayable
         THEN /\ pc' = [pc EXCEPT ![p] = "save"]
              /\ call' = [call EXCEPT ![p].state = RebuiltFrom(<<>>)]
         ELSE Finish(p, "invalid")
    /\ UNCHANGED <<events, snapshots, cache, acked, habit>>

\* save_snapshot: the sequence may have one already, which must be the same.
SnapshotSave(p) ==
    /\ pc[p] = "save"
    /\ LET state == call[p].state
           existing == {sn \in snapshots : SequenceOf(sn) = SequenceOf(state)}
       IN IF existing \subseteq {state}
            THEN /\ snapshots' = snapshots \cup {state}
                 /\ pc' = [pc EXCEPT ![p] = "prune"]
                 /\ call' = [call EXCEPT ![p].state = NoState]
            ELSE Finish(p, "error") /\ UNCHANGED snapshots
    /\ UNCHANGED <<events, cache, acked, habit>>

\* prune_snapshots: keep the newest SnapshotRetention.  The prune_outbox after
\* it is OutboxRelay's Prune.
SnapshotPrune(p) ==
    /\ pc[p] = "prune"
    /\ LET newer(sn) == {other \in snapshots : SequenceOf(other) > SequenceOf(sn)}
       IN snapshots' = {sn \in snapshots : Cardinality(newer(sn)) < SnapshotRetention}
    /\ pc' = [pc EXCEPT ![p] = "drain"]
    /\ UNCHANGED <<events, cache, call, acked, habit>>

\* The drain returns and the caller gets the event, ...
Acknowledge(p) ==
    /\ pc[p] = "drain"
    /\ Finish(p, "ok")
    /\ acked' = acked \cup {[req |-> call[p].req, seq |-> call[p].seq]}
    /\ UNCHANGED <<events, snapshots, cache, habit>>

\* ... or raises IntegrityError, although the event is committed.
DrainFails(p) ==
    /\ pc[p] = "drain"
    /\ Finish(p, "error")
    /\ UNCHANGED <<events, snapshots, cache, acked, habit>>

Return(p) ==
    /\ pc[p] = "done"
    /\ pc' = [pc EXCEPT ![p] = "idle"]
    /\ call' = [call EXCEPT ![p] = NoCall]
    /\ UNCHANGED <<events, snapshots, cache, acked, habit>>

-----------------------------------------------------------------------------

\* service.state(): a reader fills the cache.
ReadState(p) ==
    /\ pc[p] = "idle"
    /\ CacheHit(p) \/ Replayable
    /\ cache' = [cache EXCEPT ![p] = LatestState(p)]
    /\ UNCHANGED <<events, snapshots, pc, call, acked, habit>>

\* _cache_state of another twin evicts this one.
Evict(p) ==
    /\ pc[p] = "idle"
    /\ cache' = [cache EXCEPT ![p] = NoState]
    /\ UNCHANGED <<events, snapshots, pc, call, acked, habit>>

\* The process dies; SQLite keeps what was committed.
Crash(p) ==
    /\ pc[p] # "idle"
    /\ cache' = [cache EXCEPT ![p] = NoState]
    /\ pc' = [pc EXCEPT ![p] = "idle"]
    /\ call' = [call EXCEPT ![p] = NoCall]
    /\ UNCHANGED <<events, snapshots, acked, habit>>

Step(p) ==
    \/ \E req \in Requests, expected \in 0..MaxEvents :
          Submit(p, req, expected) \/ SubmitAtHead(p, req, expected)
    \/ ReadHead(p) \/ Validate(p) \/ RebuildFails(p)
    \/ Rejected(p) \/ Commit(p) \/ Replay(p)
    \/ SnapshotRebuild(p) \/ SnapshotSave(p) \/ SnapshotPrune(p)
    \/ Acknowledge(p) \/ DrainFails(p) \/ Return(p)
    \/ ReadState(p) \/ Evict(p) \/ Crash(p)

Next == \E p \in Procs : Step(p)

Spec == Init /\ [][Next]_vars

-----------------------------------------------------------------------------
(* Properties. *)

States == Seq(1..Len(events)) \cup {NoState}

Call ==
    [req : Requests, expected : Nat, head : 0..Len(events), state : States, seq : 0..Len(events),
     outcome : {"none", "ok", "conflict", "invalid", "reused", "error"}, retry : BOOLEAN]

\* Every variable has its type.
TypeOK ==
    /\ events \in Seq(Requests) /\ Len(events) <= MaxEvents
    /\ snapshots \subseteq Seq(1..Len(events))
    /\ cache \in [Procs -> States]
    /\ pc \in [Procs -> {"idle", "head", "validate", "append", "rebuild", "save", "prune", "drain", "done"}]
    /\ call \in [Procs -> Call]
    /\ habit \in Habits
    /\ acked \subseteq [req : Requests, seq : 1..Len(events)]

\* A snapshot holds exactly the events up to its sequence, also when a process
\* that saves one has a cached state that is not: the service rebuilds from
\* the first event before it saves.
SnapshotsFaithful ==
    \A sn \in snapshots : sn = Prefix(SequenceOf(sn))

\* Types, and snapshots that are prefixes of the ledger.
StorageInv == TypeOK /\ SnapshotsFaithful

\* The retries of a key reach the process that the first attempt reached.
Sticky == \A k \in DOMAIN habit.routes : \A p, q \in habit.routes[k] : p = q

\* A cached state that _latest_state may hand out is the replay of the ledger
\* up to its sequence (DT-INV-032), as long as retries reach the process that
\* the first attempt reached.
CacheCoherent ==
    Sticky => \A p \in Procs : cache[p] # NoState => cache[p] = Prefix(SequenceOf(cache[p]))

\* Invalid transitions are rejected before persistence (DT-INV-014): the
\* ledger can always be replayed.
InvalidNeverPersisted == Replayable

\* Invalid transitions are rejected before persistence, so the ledger can be
\* replayed, as long as clients expect sequences they have observed and their
\* retries reach the process that the first attempt reached: a state that lacks
\* events, see CacheCoherent, lets through what they would refuse.
LedgerReplayable == Sticky /\ habit.ahead = 0 => Replayable

\* append answers a retry of a stored request, with the expected sequence it had
\* and of a command that does not stamp its event anew, with the stored event,
\* unless the drain after it fails.
RetryReturnsOriginal ==
    ~habit.refresh => \A p \in Procs :
        pc[p] = "done" /\ call[p].retry /\ call[p].req.key \notin Stamped =>
            \/ call[p].outcome = "ok" /\ events[call[p].seq] = call[p].req
            \/ call[p].outcome = "error"

\* The ledger and the answers as IdempotentLedger has them.
Ledger == INSTANCE IdempotentLedger WITH
              ledger <- events, answers <- acked, KeyOf <- LAMBDA req : req.key

\* The service implements IdempotentLedger, whatever clients do: no interleaving
\* of processes, crashes, guesses and retries changes what is committed, commits
\* a key twice (DT-INV-004), or tells a caller a position that holds another
\* request.
LedgerPromise == Ledger!Spec

=============================================================================
