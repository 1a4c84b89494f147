------------------------------ MODULE OutboxRelay ------------------------------
(***************************************************************************)
(* The transactional outbox of SQLiteEventStore and the at-least-once      *)
(* relay that drains it (OutboxRelay.drain).                               *)
(*                                                                         *)
(* An event is its position in the ledger: the outbox row of event s is    *)
(* outbox[s].  A drain is one running call of OutboxRelay.drain(); several *)
(* run at once, because every DigitalTwinService.append ends in one and    *)
(* each suspends while it publishes.  Two drains of the same process share *)
(* their relay's lease owner, two drains of different processes do not.    *)
(* Wall-clock time is abstracted to the one fact the code asks of it: has  *)
(* the lease of this row expired?                                          *)
(***************************************************************************)
EXTENDS Naturals, FiniteSets

CONSTANTS
    Drains,      \* identities of concurrently running drain() calls
    Owners,      \* lease owners, one per relay object
    OwnerOf,     \* the relay each drain belongs to
    NoOwner,     \* lease_owner IS NULL
    Limit,       \* the `limit` of claim_outbox
    MaxEvents,   \* bound: length of the ledger
    MaxFaults    \* bound: failed publications, cancelled drains, slow leases

ASSUME OutboxAssumption ==
    /\ OwnerOf \in [Drains -> Owners]
    /\ NoOwner \notin Owners
    /\ Limit \in Nat \ {0}
    /\ MaxEvents \in Nat
    /\ MaxFaults \in Nat

VARIABLES
    head,        \* sequence of the last committed event
    outbox,      \* dt_outbox: one row per event, by sequence
    pc,          \* where each drain stands
    claim,       \* claim[d][s]: the attempts value of d's OutboxRecord for s, or 0
    delivered,   \* events the publisher has accepted at least once
    faults

vars == <<head, outbox, pc, claim, delivered, faults>>

Seqs == 1..MaxEvents

\* The states of a dt_outbox row: not (or no longer) there, published_at NULL,
\* published_at set.  lease_until is NULL exactly when owner is NoOwner.
Row == [status : {"none", "pending", "published"},
        owner : Owners \cup {NoOwner},
        expired : BOOLEAN,
        attempts : Nat]

NoRow == [status |-> "none", owner |-> NoOwner, expired |-> FALSE, attempts |-> 0]

InsertedRow == [NoRow EXCEPT !.status = "pending"]

Init ==
    /\ head = 0
    /\ outbox = [s \in Seqs |-> NoRow]
    /\ pc = [d \in Drains |-> "idle"]
    /\ claim = [d \in Drains |-> [s \in Seqs |-> 0]]
    /\ delivered = {}
    /\ faults = 0

-----------------------------------------------------------------------------
(* The ledger side. *)

\* SQLiteEventStore.append, the committing branch: the event and its outbox
\* row are inserted in one transaction.
Append ==
    /\ head < MaxEvents
    /\ head' = head + 1
    /\ outbox' = [outbox EXCEPT ![head + 1] = InsertedRow]
    /\ UNCHANGED <<pc, claim, delivered, faults>>

\* prune_outbox: a row leaves the table only after its publication.
Prune(s) ==
    /\ outbox[s].status = "published"
    /\ outbox' = [outbox EXCEPT ![s] = NoRow]
    /\ UNCHANGED <<head, pc, claim, delivered, faults>>

-----------------------------------------------------------------------------
(* claim_outbox: lease the oldest `limit` rows that are unpublished and not   *)
(* under a live lease.                                                       *)

\* Mutation: an expired lease is never taken over.
ClaimableUnleased ==
    {s \in Seqs : outbox[s].status = "pending" /\ outbox[s].owner = NoOwner}

Claimable ==
    {s \in Seqs : /\ outbox[s].status = "pending"
                  /\ outbox[s].owner = NoOwner \/ outbox[s].expired}

Selected ==
    {s \in Claimable : Cardinality({r \in Claimable : r < s}) < Limit}

ClaimedRow(s, d) ==
    [outbox[s] EXCEPT !.owner = OwnerOf[d], !.expired = FALSE, !.attempts = @ + 1]

Claim(d) ==
    /\ pc[d] = "idle"
    /\ Selected # {}
    /\ outbox' = [s \in Seqs |-> IF s \in Selected THEN ClaimedRow(s, d) ELSE outbox[s]]
    /\ claim' = [claim EXCEPT ![d] =
                    [s \in Seqs |-> IF s \in Selected THEN outbox[s].attempts + 1 ELSE 0]]
    /\ pc' = [pc EXCEPT ![d] = "publish"]
    /\ UNCHANGED <<head, delivered, faults>>

-----------------------------------------------------------------------------
(* The loop of drain() over the records it claimed, oldest first. *)

Batch(d) == {s \in Seqs : claim[d][s] > 0}

\* s is the record the drain is working on.
Current(d, s) == s \in Batch(d) /\ \A r \in Batch(d) : s <= r

\* Mutation: the record's attempts are not compared.
HoldsByOwner(d, s) ==
    outbox[s].status = "pending" /\ outbox[s].owner = OwnerOf[d]

\* The WHERE clause of mark_outbox_published and release_outbox: the row is
\* still the one this record was claimed as.
Holds(d, s) ==
    /\ outbox[s].status = "pending"
    /\ outbox[s].owner = OwnerOf[d]
    /\ outbox[s].attempts = claim[d][s]

\* The record is dealt with; the loop goes on to the next one, or returns.
Advance(d, s) ==
    /\ claim' = [claim EXCEPT ![d][s] = 0]
    /\ pc' = [pc EXCEPT ![d] = IF Batch(d) = {s} THEN "idle" ELSE "publish"]

\* The call ends with an exception: the records it still had are forgotten,
\* their rows stay leased.
Abandon(d) ==
    /\ claim' = [claim EXCEPT ![d] = [s \in Seqs |-> 0]]
    /\ pc' = [pc EXCEPT ![d] = "idle"]

\* await publisher.publish(record.event) returns.
Publish(d, s) ==
    /\ pc[d] = "publish"
    /\ Current(d, s)
    /\ delivered' = delivered \cup {s}
    /\ pc' = [pc EXCEPT ![d] = "mark"]
    /\ UNCHANGED <<head, outbox, claim, faults>>

\* Mutation: the exception is swallowed and the row marked.
PublishFailsMarked(d, s) ==
    /\ faults < MaxFaults
    /\ pc[d] = "publish"
    /\ Current(d, s)
    /\ pc' = [pc EXCEPT ![d] = "mark"]
    /\ faults' = faults + 1
    /\ UNCHANGED <<head, outbox, claim, delivered>>

\* It raises.  The publisher may have taken the event all the same (a lost
\* broker acknowledgement).
PublishFails(d, s) ==
    /\ faults < MaxFaults
    /\ pc[d] = "publish"
    /\ Current(d, s)
    /\ delivered' \in {delivered, delivered \cup {s}}
    /\ pc' = [pc EXCEPT ![d] = "release"]
    /\ faults' = faults + 1
    /\ UNCHANGED <<head, outbox, claim>>

\* mark_outbox_published matched the row.
Mark(d, s) ==
    /\ pc[d] = "mark"
    /\ Current(d, s)
    /\ Holds(d, s)
    /\ outbox' = [outbox EXCEPT ![s].status = "published",
                                ![s].owner = NoOwner, ![s].expired = FALSE]
    /\ Advance(d, s)
    /\ UNCHANGED <<head, delivered, faults>>

\* Mutation: the row is released whoever holds it.
ReleaseAnyway(d, s) ==
    /\ pc[d] = "release"
    /\ Current(d, s)
    /\ outbox' = [outbox EXCEPT ![s].owner = NoOwner, ![s].expired = FALSE]
    /\ Advance(d, s)
    /\ UNCHANGED <<head, delivered, faults>>

\* release_outbox matched the row.
Release(d, s) ==
    /\ pc[d] = "release"
    /\ Current(d, s)
    /\ Holds(d, s)
    /\ outbox' = [outbox EXCEPT ![s].owner = NoOwner, ![s].expired = FALSE]
    /\ Advance(d, s)
    /\ UNCHANGED <<head, delivered, faults>>

\* The UPDATE matched no row: drain() raises IntegrityError.
LoseLease(d, s) ==
    /\ pc[d] \in {"mark", "release"}
    /\ Current(d, s)
    /\ ~Holds(d, s)
    /\ Abandon(d)
    /\ UNCHANGED <<head, outbox, delivered, faults>>

-----------------------------------------------------------------------------
(* The environment. *)

\* The task is cancelled while it waits for the publisher, or its process dies.
Cancel(d) ==
    /\ faults < MaxFaults
    /\ pc[d] # "idle"
    /\ Abandon(d)
    /\ faults' = faults + 1
    /\ UNCHANGED <<head, outbox, delivered>>

\* lease_until passes.  This counts as a fault when the claimant still works
\* on the row: its publication outlasts the lease.
LeaseExpires(s) ==
    /\ outbox[s].owner # NoOwner
    /\ ~outbox[s].expired
    /\ outbox' = [outbox EXCEPT ![s].expired = TRUE]
    /\ IF \E d \in Drains : s \in Batch(d) /\ Holds(d, s)
         THEN faults < MaxFaults /\ faults' = faults + 1
         ELSE faults' = faults
    /\ UNCHANGED <<head, pc, claim, delivered>>

-----------------------------------------------------------------------------

Next ==
    \/ Append
    \/ \E s \in Seqs : Prune(s) \/ LeaseExpires(s)
    \/ \E d \in Drains : Claim(d) \/ Cancel(d)
    \/ \E d \in Drains, s \in Seqs :
          \/ Publish(d, s)
          \/ PublishFails(d, s)
          \/ Mark(d, s)
          \/ Release(d, s)
          \/ LoseLease(d, s)

Spec == Init /\ [][Next]_vars

\* A running drain() is driven on by the event loop; drain() is called again
\* (by the next append, or by flush_publications); time passes.
Fairness ==
    /\ WF_vars(\E d \in Drains : Claim(d))
    /\ \A d \in Drains :
          WF_vars(\E s \in Seqs : Publish(d, s) \/ Mark(d, s) \/ Release(d, s)
                                                \/ LoseLease(d, s))
    /\ \A s \in Seqs : WF_vars(LeaseExpires(s))

FairSpec == Spec /\ Fairness

-----------------------------------------------------------------------------
(* Properties. *)

\* Every variable has its type, and only committed events have outbox rows.
TypeOK ==
    /\ head \in 0..MaxEvents
    /\ outbox \in [Seqs -> Row]
    /\ \A s \in Seqs : outbox[s].status # "none" => s <= head
    /\ pc \in [Drains -> {"idle", "publish", "mark", "release"}]
    /\ claim \in [Drains -> [Seqs -> Nat]]
    /\ \A d \in Drains : pc[d] = "idle" <=> Batch(d) = {}
    /\ delivered \subseteq 1..head
    /\ faults \in 0..MaxFaults

\* A committed event that the publisher has not accepted still has its pending
\* row, whatever drains failed, were cancelled, lost their lease or were
\* pruned: append inserts the row with the event, and only a publication that
\* returned may set published_at.
NoEventLost ==
    \A s \in 1..head : s \in delivered \/ outbox[s].status = "pending"

\* A drain loses a row it claimed only when its lease expired and another
\* drain claimed the row anew (or had by now published and pruned it): no
\* other drain's mark or release touches it, not even one of the same relay
\* that was claimed before.  This is what the `attempts` column is for.
OnlyReclaimTakesALease ==
    \A d \in Drains : \A s \in Batch(d) :
        \/ Holds(d, s)
        \/ outbox[s].status = "pending" /\ outbox[s].attempts > claim[d][s]
        \/ outbox[s].status # "pending" /\ s \in delivered

\* Two drains never hold the same row: at most one of them can mark or
\* release it.
NoSharedLease ==
    \A c, d \in Drains : \A s \in Batch(c) \cap Batch(d) :
        Holds(c, s) /\ Holds(d, s) => c = d

\* Under Fairness every committed event's row is eventually published: a crash
\* or cancellation between commit and publication, a failed publication or a
\* lost lease delays it and nothing else.
EveryEventIsPublished ==
    \A s \in Seqs : (s <= head) ~> (outbox[s].status # "pending")

=============================================================================
