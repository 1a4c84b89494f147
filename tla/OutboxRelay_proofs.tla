-------------------------- MODULE OutboxRelay_proofs --------------------------
(***************************************************************************)
(* The safety properties of OutboxRelay for any number of drains, relays,  *)
(* events and faults.                                                      *)
(***************************************************************************)
EXTENDS OutboxRelay, TLAPS

\* A drain that is about to mark a record has had it accepted by the publisher.
MarkedWasDelivered ==
    \A d \in Drains, s \in Seqs : pc[d] = "mark" /\ Current(d, s) => s \in delivered

\* Each claim of a row gets an attempts value of its own.
ClaimsAreUnique ==
    \A c, d \in Drains : \A s \in Batch(c) \cap Batch(d) :
        claim[c][s] = claim[d][s] => c = d

\* The inductive invariant.
Inv ==
    /\ TypeOK
    /\ NoEventLost
    /\ MarkedWasDelivered
    /\ OnlyReclaimTakesALease
    /\ ClaimsAreUnique

-----------------------------------------------------------------------------

\* The initial state satisfies the invariant.
LEMMA InitInv == Init => Inv
<1> SUFFICES ASSUME Init PROVE Inv
  OBVIOUS
<1> USE OutboxAssumption DEF Init
<1>1. \A d \in Drains : Batch(d) = {}
  BY DEF Batch
<1>2. TypeOK
  BY <1>1 DEF TypeOK, Row, NoRow, Seqs
<1>3. NoEventLost /\ MarkedWasDelivered
  BY DEF NoEventLost, MarkedWasDelivered
<1>4. OnlyReclaimTakesALease /\ ClaimsAreUnique
  BY <1>1 DEF OnlyReclaimTakesALease, ClaimsAreUnique
<1> QED BY <1>2, <1>3, <1>4 DEF Inv

\* append inserts a pending row beyond the head, which no drain has claimed.
LEMMA AppendInv == Inv /\ Append => Inv'
<1> SUFFICES ASSUME Inv, Append PROVE Inv'
  OBVIOUS
<1> USE OutboxAssumption DEF Inv, Append
<1> DEFINE h == head + 1
<1>1. h \in Seqs /\ head \in Nat /\ outbox[h].status = "none" /\ h \notin delivered
  BY DEF TypeOK, Seqs, Row
<1>2. \A d \in Drains : h \notin Batch(d)
  BY <1>1 DEF OnlyReclaimTakesALease, Holds
<1>3. \A s \in Seqs \ {h} : outbox'[s] = outbox[s]
  BY DEF TypeOK
<1>4. outbox'[h] = InsertedRow
  BY <1>1 DEF TypeOK
<1>5. TypeOK'
  <2>1. outbox' \in [Seqs -> Row]
    BY <1>1, <1>4 DEF TypeOK, Row, NoRow, InsertedRow
  <2>2. \A d \in Drains : pc'[d] = "idle" <=> Batch(d)' = {}
    BY DEF TypeOK, Batch
  <2>3. head' \in 0..MaxEvents /\ delivered' \subseteq 1..head'
    BY <1>1 DEF TypeOK, Seqs
  <2>4. \A s \in Seqs : outbox'[s].status # "none" => s <= head'
    BY <1>1, <1>3 DEF TypeOK, Seqs
  <2> QED BY <2>1, <2>2, <2>3, <2>4 DEF TypeOK
<1>6. NoEventLost'
  BY <1>1, <1>3, <1>4 DEF NoEventLost, TypeOK, InsertedRow, NoRow, Seqs
<1>7. OnlyReclaimTakesALease'
  BY <1>2, <1>3 DEF OnlyReclaimTakesALease, Holds, Batch
<1> QED BY <1>5, <1>6, <1>7 DEF MarkedWasDelivered, ClaimsAreUnique, Current, Batch

\* Pruning touches published rows only.
LEMMA PruneInv == ASSUME NEW s \in Seqs, Inv, Prune(s) PROVE Inv'
<1> USE OutboxAssumption DEF Inv, Prune
<1>1. s \in 1..head /\ s \in delivered
  BY DEF TypeOK, NoEventLost, Seqs
<1>2. \A r \in Seqs \ {s} : outbox'[r] = outbox[r]
  BY DEF TypeOK
<1>3. outbox'[s] = NoRow
  BY DEF TypeOK
<1>4. TypeOK'
  BY <1>1, <1>2, <1>3 DEF TypeOK, Row, NoRow, Seqs, Batch
<1>5. NoEventLost'
  BY <1>1, <1>2 DEF NoEventLost, Seqs, TypeOK
<1>6. OnlyReclaimTakesALease'
  BY <1>1, <1>2, <1>3 DEF OnlyReclaimTakesALease, Holds, NoRow, Batch
<1> QED BY <1>4, <1>5, <1>6 DEF MarkedWasDelivered, ClaimsAreUnique, Current, Batch

\* An expired lease is still the claimant's until someone claims the row.
LEMMA LeaseExpiresInv == ASSUME NEW s \in Seqs, Inv, LeaseExpires(s) PROVE Inv'
<1> USE OutboxAssumption DEF Inv, LeaseExpires
<1>1. \A r \in Seqs : /\ outbox'[r].status = outbox[r].status
                      /\ outbox'[r].owner = outbox[r].owner
                      /\ outbox'[r].attempts = outbox[r].attempts
                      /\ outbox'[r] \in Row
  BY DEF TypeOK, Row
<1>2. faults' \in 0..MaxFaults
  BY DEF TypeOK
<1>3. TypeOK'
  BY <1>1, <1>2 DEF TypeOK, Batch
<1>4. NoEventLost'
  BY <1>1 DEF NoEventLost, TypeOK, Seqs
<1>5. OnlyReclaimTakesALease'
  BY <1>1 DEF OnlyReclaimTakesALease, Holds, Batch
<1> QED BY <1>3, <1>4, <1>5 DEF MarkedWasDelivered, ClaimsAreUnique, Current, Batch

\* Publishing, whether it returns or raises, moves only the delivered events on.
LEMMA PublishInv ==
  ASSUME NEW d \in Drains, NEW s \in Seqs, Inv, Publish(d, s) \/ PublishFails(d, s)
  PROVE  Inv'
<1> USE OutboxAssumption DEF Inv
<1>1. /\ UNCHANGED <<head, outbox, claim>>
      /\ pc[d] = "publish" /\ Current(d, s)
      /\ delivered \subseteq delivered' /\ delivered' \subseteq delivered \cup {s}
      /\ \E v \in {"mark", "release"} : pc' = [pc EXCEPT ![d] = v]
      /\ pc'[d] = "mark" => s \in delivered'
      /\ faults' \in 0..MaxFaults
  BY DEF Publish, PublishFails, TypeOK
<1>2. s \in 1..head
  <2>1. s \in Batch(d)
    BY <1>1 DEF Current
  <2>2. outbox[s].status # "none" \/ s \in delivered
    BY <2>1 DEF OnlyReclaimTakesALease, Holds
  <2> QED BY <2>2 DEF TypeOK, Seqs
<1>3. TypeOK'
  <2>1. \A c \in Drains : Batch(c)' = Batch(c)
    BY <1>1 DEF Batch
  <2>2. Batch(d) # {}
    BY <1>1 DEF Current
  <2>3. \A c \in Drains : pc'[c] = "idle" <=> Batch(c)' = {}
    BY <1>1, <2>1, <2>2 DEF TypeOK
  <2> QED BY <1>1, <1>2, <2>3 DEF TypeOK
<1>4. NoEventLost' /\ OnlyReclaimTakesALease' /\ ClaimsAreUnique'
  BY <1>1 DEF NoEventLost, OnlyReclaimTakesALease, ClaimsAreUnique, Holds, Batch
<1>5. MarkedWasDelivered'
  <2> SUFFICES ASSUME NEW c \in Drains, NEW r \in Seqs, pc'[c] = "mark", Current(c, r)'
               PROVE  r \in delivered'
    BY DEF MarkedWasDelivered
  <2>1. Current(c, r)
    BY <1>1 DEF Current, Batch
  <2>2. CASE c = d
    BY <1>1, <2>1, <2>2 DEF Current, Batch, Seqs
  <2>3. CASE c # d
    BY <1>1, <2>1, <2>3 DEF MarkedWasDelivered, TypeOK
  <2> QED BY <2>2, <2>3
<1> QED BY <1>3, <1>4, <1>5

\* What claim_outbox selects is pending and not under a live lease.
LEMMA SelectedIsPending ==
    Selected \subseteq Seqs /\ \A s \in Selected : outbox[s].status = "pending"
BY DEF Selected, Claimable

\* The row that claim_outbox writes.
LEMMA ClaimedRowIs ==
  ASSUME NEW s \in Seqs, NEW d \in Drains, outbox[s] \in Row
  PROVE  /\ ClaimedRow(s, d) \in Row
         /\ ClaimedRow(s, d).status = outbox[s].status
         /\ ClaimedRow(s, d).owner = OwnerOf[d]
         /\ ClaimedRow(s, d).attempts = outbox[s].attempts + 1
<1>1. OwnerOf[d] \in Owners
  BY OutboxAssumption
<1>2. PICK r \in Row : r = outbox[s]
  OBVIOUS
<1>3. ClaimedRow(s, d) = [r EXCEPT !.owner = OwnerOf[d], !.expired = FALSE,
                                   !.attempts = r.attempts + 1]
  BY <1>2 DEF ClaimedRow
<1>4. r.attempts \in Nat /\ r.attempts + 1 \in Nat
  BY DEF Row
<1>5. ClaimedRow(s, d) \in Row
  <2>1. [r EXCEPT !.owner = OwnerOf[d]] \in Row
    BY <1>1 DEF Row
  <2>2. PICK q \in Row : q = [r EXCEPT !.owner = OwnerOf[d]]
    BY <2>1
  <2>3. [q EXCEPT !.expired = FALSE] \in Row
    BY DEF Row
  <2>4. PICK z \in Row : z = [q EXCEPT !.expired = FALSE]
    BY <2>3
  <2>5. [z EXCEPT !.attempts = r.attempts + 1] \in Row
    BY <1>4 DEF Row
  <2> QED BY <1>3, <2>2, <2>4, <2>5
<1> QED BY <1>2, <1>3, <1>4, <1>5 DEF Row

\* A claim gives its rows a larger attempts value than any drain's record of
\* them has: earlier claimants lose the row, and know it.
LEMMA ClaimInv == ASSUME NEW d \in Drains, Inv, Claim(d) PROVE Inv'
<1> USE OutboxAssumption, SelectedIsPending DEF Inv, Claim
<1>1. \A s \in Seqs : outbox[s] \in Row /\ outbox[s].attempts \in Nat
  BY DEF TypeOK, Row
<1>2. \A s \in Seqs :
         /\ outbox'[s].status = outbox[s].status
         /\ s \in Selected => outbox'[s] = ClaimedRow(s, d)
         /\ s \notin Selected => outbox'[s] = outbox[s]
  BY <1>1 DEF ClaimedRow, Row
<1>3. \A s \in Selected : /\ outbox'[s].owner = OwnerOf[d]
                          /\ outbox'[s].attempts = outbox[s].attempts + 1
                          /\ outbox'[s] \in Row
  BY <1>1, <1>2, ClaimedRowIs
<1>4. \A s \in Seqs : claim'[d][s] = IF s \in Selected THEN outbox[s].attempts + 1 ELSE 0
  BY DEF TypeOK
<1>5. \A c \in Drains \ {d} : claim'[c] = claim[c] /\ Batch(c)' = Batch(c) /\ pc'[c] = pc[c]
  BY DEF TypeOK, Batch
<1>6. Batch(d)' = Selected /\ pc'[d] = "publish"
  BY <1>1, <1>4 DEF TypeOK, Batch
<1>7. \A c \in Drains \ {d} : \A s \in Batch(c) \cap Selected :
         claim'[c][s] < outbox'[s].attempts
  <2> SUFFICES ASSUME NEW c \in Drains \ {d}, NEW s \in Batch(c) \cap Selected
               PROVE  claim'[c][s] < outbox'[s].attempts
    OBVIOUS
  <2>1. Holds(c, s) \/ outbox[s].attempts > claim[c][s]
    BY DEF OnlyReclaimTakesALease
  <2>2. claim'[c][s] = claim[c][s] /\ claim[c][s] \in Nat
    BY <1>5 DEF TypeOK
  <2>3. outbox'[s].attempts = outbox[s].attempts + 1 /\ outbox[s].attempts \in Nat
    BY <1>1, <1>3
  <2>4. claim[c][s] <= outbox[s].attempts
    <3> HIDE DEF Inv, Claim
    <3> QED BY <2>1, <2>2, <2>3 DEF Holds
  <2> HIDE DEF Inv, Claim
  <2> QED BY <2>2, <2>3, <2>4
<1>8. TypeOK'
  <2>1. outbox' \in [Seqs -> Row]
    BY <1>1, <1>2, <1>3 DEF TypeOK
  <2>2. claim' \in [Drains -> [Seqs -> Nat]]
    BY <1>1 DEF TypeOK
  <2>3. \A c \in Drains : pc'[c] = "idle" <=> Batch(c)' = {}
    BY <1>5, <1>6 DEF TypeOK
  <2> QED BY <1>2, <2>1, <2>2, <2>3 DEF TypeOK
<1>9. NoEventLost'
  BY <1>2 DEF NoEventLost, TypeOK, Seqs
<1>10. MarkedWasDelivered'
  BY <1>5, <1>6 DEF MarkedWasDelivered, Current
<1>11. OnlyReclaimTakesALease'
  <2> SUFFICES ASSUME NEW c \in Drains, NEW s \in Batch(c)'
               PROVE  \/ Holds(c, s)'
                      \/ outbox'[s].status = "pending" /\ outbox'[s].attempts > claim'[c][s]
                      \/ outbox'[s].status # "pending" /\ s \in delivered'
    BY DEF OnlyReclaimTakesALease
  <2>1. CASE c = d
    BY <1>2, <1>3, <1>4, <1>6, <2>1 DEF Holds
  <2>2. CASE c # d /\ s \in Selected
    <3>1. s \in Batch(c) \cap Selected /\ outbox'[s].status = "pending"
      BY <1>2, <1>5, <2>2
    <3>2. claim'[c][s] < outbox'[s].attempts
      BY <1>7, <2>2, <3>1
    <3>3. claim'[c][s] \in Nat /\ outbox'[s].attempts \in Nat
      BY <1>8, <3>1 DEF TypeOK, Row
    <3> HIDE DEF Inv, Claim
    <3> QED BY <3>1, <3>2, <3>3
  <2>3. CASE c # d /\ s \notin Selected
    <3>1. s \in Batch(c) /\ s \in Seqs /\ outbox'[s] = outbox[s] /\ claim'[c] = claim[c]
      BY <1>2, <1>5, <2>3 DEF Batch
    <3> QED BY <3>1 DEF OnlyReclaimTakesALease, Holds
  <2> QED BY <2>1, <2>2, <2>3
<1>12. ClaimsAreUnique'
  <2> SUFFICES ASSUME NEW c \in Drains, NEW e \in Drains, NEW s \in Batch(c)' \cap Batch(e)',
                      claim'[c][s] = claim'[e][s], c # e
               PROVE  FALSE
    BY DEF ClaimsAreUnique
  <2>1. \A x \in Drains \ {d} : s \in Batch(x)' /\ s \in Batch(d)'
                                 => claim'[x][s] # claim'[d][s]
    <3> SUFFICES ASSUME NEW x \in Drains \ {d}, s \in Batch(x)', s \in Batch(d)'
                 PROVE  claim'[x][s] # claim'[d][s]
      OBVIOUS
    <3>1. s \in Selected /\ s \in Batch(x)
      BY <1>5, <1>6
    <3>2. claim'[d][s] = outbox'[s].attempts
      BY <1>3, <1>4, <3>1
    <3>3. claim'[d][s] \in Nat /\ claim'[x][s] \in Nat
      BY <1>8, <3>1 DEF TypeOK
    <3>4. claim'[x][s] < outbox'[s].attempts
      BY <1>7, <3>1
    <3> HIDE DEF Inv, Claim
    <3> QED BY <3>2, <3>3, <3>4
  <2>2. CASE c = d
    BY <2>1, <2>2
  <2>3. CASE e = d
    BY <2>1, <2>3
  <2>4. CASE c # d /\ e # d
    BY <1>5, <2>4 DEF ClaimsAreUnique
  <2> QED BY <2>2, <2>3, <2>4
<1> QED BY <1>8, <1>9, <1>10, <1>11, <1>12

\* When the loop of drain() goes on, or the call ends, the drain gives up
\* records and nobody else's change.
LEMMA GiveUpRecords ==
  ASSUME NEW d \in Drains, NEW s \in Seqs, Inv, s \in Batch(d),
         Advance(d, s) \/ Abandon(d)
  PROVE  /\ \A c \in Drains : Batch(c)' \subseteq Batch(c)
         /\ \A c \in Drains : \A r \in Batch(c)' : claim'[c][r] = claim[c][r]
         /\ \A c \in Drains \ {d} : pc'[c] = pc[c] /\ claim'[c] = claim[c]
         /\ pc'[d] # "mark"
         /\ s \notin Batch(d)'
         /\ pc' \in [Drains -> {"idle", "publish", "mark", "release"}]
         /\ claim' \in [Drains -> [Seqs -> Nat]]
         /\ \A c \in Drains : pc'[c] = "idle" <=> Batch(c)' = {}
<1> USE DEF Inv
<1>1. CASE Advance(d, s)
  <2> USE <1>1 DEF Advance
  <2>1. Batch(d)' = Batch(d) \ {s} /\ \A c \in Drains \ {d} : Batch(c)' = Batch(c)
    BY DEF Batch, TypeOK
  <2>2. pc'[d] = (IF Batch(d) = {s} THEN "idle" ELSE "publish")
    BY DEF TypeOK
  <2>3. \A c \in Drains \ {d} : pc'[c] = pc[c] /\ claim'[c] = claim[c]
    BY DEF TypeOK
  <2>4. \A c \in Drains : pc'[c] = "idle" <=> Batch(c)' = {}
    BY <2>1, <2>2, <2>3 DEF TypeOK
  <2>5. \A c \in Drains : \A r \in Batch(c)' : claim'[c][r] = claim[c][r]
    BY <2>1, <2>3 DEF TypeOK, Batch
  <2>6. claim' \in [Drains -> [Seqs -> Nat]]
    BY DEF TypeOK
  <2> QED BY <2>1, <2>2, <2>3, <2>4, <2>5, <2>6 DEF TypeOK
<1>2. CASE Abandon(d)
  <2> USE <1>2 DEF Abandon
  <2>1. Batch(d)' = {} /\ \A c \in Drains \ {d} : Batch(c)' = Batch(c)
    BY DEF Batch, TypeOK
  <2>2. \A c \in Drains \ {d} : pc'[c] = pc[c] /\ claim'[c] = claim[c]
    BY DEF TypeOK
  <2>3. \A c \in Drains : pc'[c] = "idle" <=> Batch(c)' = {}
    BY <2>1, <2>2 DEF TypeOK
  <2> QED BY <2>1, <2>2, <2>3 DEF TypeOK
<1> QED BY <1>1, <1>2

\* A drain marks a row only once the publisher has accepted the event.
LEMMA MarkInv == ASSUME NEW d \in Drains, NEW s \in Seqs, Inv, Mark(d, s) PROVE Inv'
<1> USE OutboxAssumption DEF Inv, Mark
<1>1. s \in Batch(d) /\ s \in delivered
  BY DEF Current, MarkedWasDelivered
<1>2. s <= head
  BY DEF TypeOK, Holds
<1>3. \A r \in Seqs \ {s} : outbox'[r] = outbox[r]
  BY DEF TypeOK
<1>4. outbox'[s].status = "published" /\ outbox'[s] \in Row
  BY DEF TypeOK, Row
<1>5. TypeOK'
  <2>1. outbox' \in [Seqs -> Row]
    BY <1>3, <1>4 DEF TypeOK
  <2> QED BY <1>1, <1>2, <1>3, <2>1, GiveUpRecords DEF TypeOK
<1>6. NoEventLost'
  BY <1>1, <1>3 DEF NoEventLost, TypeOK, Seqs
<1>7. MarkedWasDelivered' /\ ClaimsAreUnique'
  <2>1. \A c \in Drains \ {d} : Batch(c)' = Batch(c)
    BY <1>1, GiveUpRecords DEF Batch
  <2>2. MarkedWasDelivered'
    BY <1>1, <2>1, GiveUpRecords DEF MarkedWasDelivered, Current
  <2>3. ClaimsAreUnique'
    BY <1>1, GiveUpRecords DEF ClaimsAreUnique
  <2> QED BY <2>2, <2>3
<1>8. OnlyReclaimTakesALease'
  <2> SUFFICES ASSUME NEW c \in Drains, NEW r \in Batch(c)'
               PROVE  \/ Holds(c, r)'
                      \/ outbox'[r].status = "pending" /\ outbox'[r].attempts > claim'[c][r]
                      \/ outbox'[r].status # "pending" /\ r \in delivered'
    BY DEF OnlyReclaimTakesALease
  <2>1. r \in Batch(c) /\ r \in Seqs /\ claim'[c][r] = claim[c][r]
    BY <1>1, GiveUpRecords DEF Batch
  <2>2. CASE r = s
    BY <1>1, <1>4, <2>2
  <2>3. CASE r # s
    BY <1>3, <2>1, <2>3 DEF OnlyReclaimTakesALease, Holds
  <2> QED BY <2>2, <2>3
<1> QED BY <1>5, <1>6, <1>7, <1>8

\* A drain that still holds a row is the only one that does, so its release
\* takes the row from nobody else.
LEMMA ReleaseInv == ASSUME NEW d \in Drains, NEW s \in Seqs, Inv, Release(d, s) PROVE Inv'
<1> USE OutboxAssumption DEF Inv, Release
<1>1. s \in Batch(d)
  BY DEF Current
<1>2. \A r \in Seqs \ {s} : outbox'[r] = outbox[r]
  BY DEF TypeOK
<1>3. /\ outbox'[s].status = "pending" /\ outbox[s].status = "pending"
      /\ outbox'[s].attempts = outbox[s].attempts /\ outbox'[s] \in Row
      /\ outbox[s].attempts = claim[d][s] /\ claim[d][s] \in Nat
  BY DEF TypeOK, Row, Holds
<1>4. TypeOK'
  <2>1. outbox' \in [Seqs -> Row]
    BY <1>2, <1>3 DEF TypeOK
  <2>2. s <= head
    BY <1>3 DEF TypeOK
  <2> QED BY <1>1, <1>2, <2>1, <2>2, GiveUpRecords DEF TypeOK
<1>5. NoEventLost'
  BY <1>2, <1>3 DEF NoEventLost, TypeOK, Seqs
<1>6. MarkedWasDelivered' /\ ClaimsAreUnique'
  <2>1. \A c \in Drains \ {d} : Batch(c)' = Batch(c)
    BY <1>1, GiveUpRecords DEF Batch
  <2>2. MarkedWasDelivered'
    BY <1>1, <2>1, GiveUpRecords DEF MarkedWasDelivered, Current
  <2>3. ClaimsAreUnique'
    BY <1>1, GiveUpRecords DEF ClaimsAreUnique
  <2> QED BY <2>2, <2>3
<1>7. OnlyReclaimTakesALease'
  <2> SUFFICES ASSUME NEW c \in Drains, NEW r \in Batch(c)'
               PROVE  \/ Holds(c, r)'
                      \/ outbox'[r].status = "pending" /\ outbox'[r].attempts > claim'[c][r]
                      \/ outbox'[r].status # "pending" /\ r \in delivered'
    BY DEF OnlyReclaimTakesALease
  <2>1. r \in Batch(c) /\ r \in Seqs /\ claim'[c][r] = claim[c][r]
    BY <1>1, GiveUpRecords DEF Batch
  <2>2. CASE r = s
    <3>1. c # d
      BY <1>1, <2>2, GiveUpRecords
    <3>2. claim[c][s] # claim[d][s]
      BY <1>1, <2>1, <2>2, <3>1 DEF ClaimsAreUnique
    <3>3. outbox[s].attempts > claim[c][s]
      BY <1>3, <2>1, <2>2, <3>2 DEF OnlyReclaimTakesALease, Holds
    <3> QED BY <1>3, <2>1, <2>2, <3>3
  <2>3. CASE r # s
    BY <1>2, <2>1, <2>3 DEF OnlyReclaimTakesALease, Holds
  <2> QED BY <2>2, <2>3
<1> QED BY <1>4, <1>5, <1>6, <1>7

\* A call that ends with an exception leaves the rows as they are.
LEMMA AbandonInv ==
  ASSUME NEW d \in Drains, NEW s \in Seqs, Inv, s \in Batch(d), Abandon(d),
         UNCHANGED <<head, outbox, delivered>>, faults' \in 0..MaxFaults
  PROVE  Inv'
<1> USE OutboxAssumption, GiveUpRecords DEF Inv
<1>1. TypeOK' /\ NoEventLost'
  BY DEF TypeOK, NoEventLost
<1>2. MarkedWasDelivered' /\ ClaimsAreUnique'
  BY DEF MarkedWasDelivered, ClaimsAreUnique, Current, Batch
<1>3. OnlyReclaimTakesALease'
  BY DEF OnlyReclaimTakesALease, Holds, Batch
<1> QED BY <1>1, <1>2, <1>3

-----------------------------------------------------------------------------

\* Every step preserves the invariant.
LEMMA NextInv == Inv /\ [Next]_vars => Inv'
<1> SUFFICES ASSUME Inv, [Next]_vars PROVE Inv'
  OBVIOUS
<1>1. CASE Append
  BY <1>1, AppendInv
<1>2. ASSUME NEW s \in Seqs, Prune(s) \/ LeaseExpires(s) PROVE Inv'
  BY <1>2, PruneInv, LeaseExpiresInv
<1>3. ASSUME NEW d \in Drains, Claim(d) PROVE Inv'
  BY <1>3, ClaimInv
<1>4. ASSUME NEW d \in Drains, Cancel(d) PROVE Inv'
  <2>1. PICK s \in Seqs : s \in Batch(d)
    BY <1>4 DEF Cancel, Inv, TypeOK, Batch
  <2>2. faults' \in 0..MaxFaults
    BY <1>4, OutboxAssumption DEF Cancel, Inv, TypeOK
  <2> QED BY <1>4, <2>1, <2>2, AbandonInv DEF Cancel
<1>5. ASSUME NEW d \in Drains, NEW s \in Seqs,
             \/ Publish(d, s) \/ PublishFails(d, s)
             \/ Mark(d, s) \/ Release(d, s) \/ LoseLease(d, s)
      PROVE  Inv'
  <2>1. CASE LoseLease(d, s)
    <3>1. s \in Batch(d) /\ faults' \in 0..MaxFaults
      BY <2>1 DEF LoseLease, Current, Inv, TypeOK
    <3> QED BY <2>1, <3>1, AbandonInv DEF LoseLease
  <2> QED BY <1>5, <2>1, PublishInv, MarkInv, ReleaseInv
<1>6. CASE UNCHANGED vars
  BY <1>6 DEF vars, Inv, TypeOK, NoEventLost, MarkedWasDelivered,
              OnlyReclaimTakesALease, ClaimsAreUnique, Holds, Current, Batch
<1> QED BY <1>1, <1>2, <1>3, <1>4, <1>5, <1>6 DEF Next

\* The invariant holds in every reachable state.
THEOREM Invariance == Spec => []Inv
BY InitInv, NextInv, PTL DEF Spec

\* Type correctness, and rows of committed events only.
THEOREM TypeCorrect == Spec => []TypeOK
BY Invariance, PTL DEF Inv

\* No committed event is lost between its commit and its publication.
THEOREM NothingLost == Spec => []NoEventLost
BY Invariance, PTL DEF Inv

\* A drain loses its lease to a later claim of the row and to nothing else.
THEOREM LeaseLoss == Spec => []OnlyReclaimTakesALease
BY Invariance, PTL DEF Inv

\* At most one drain can mark or release a row.
THEOREM LeaseExclusive == Spec => []NoSharedLease
<1>1. Inv => NoSharedLease
  BY DEF Inv, ClaimsAreUnique, NoSharedLease, Holds
<1> QED BY <1>1, Invariance, PTL

=============================================================================
