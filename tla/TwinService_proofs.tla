-------------------------- MODULE TwinService_proofs --------------------------
(***************************************************************************)
(* The safety properties of TwinService for any number of processes and    *)
(* requests, any habits of the clients, and any ledger length; and that it *)
(* implements IdempotentLedger.                                            *)
(***************************************************************************)
EXTENDS TwinService, WellFoundedInduction, TLAPS

-----------------------------------------------------------------------------
(* The inductive invariant. *)

\* An idempotency key is in the ledger at most once.
KeysOnce ==
    \A s, t \in 1..Len(events) : events[s].key = events[t].key => s = t

\* What callers were told is in the ledger.
AckedTrue == \A a \in acked : events[a.seq] = a.req

\* A call beyond store.append knows where its request is.
PersistedIsThere(p) ==
    pc[p] \in {"rebuild", "save", "prune", "drain"} =>
        call[p].seq \in 1..Len(events) /\ events[call[p].seq] = call[p].req

\* What a call saves as a snapshot is a prefix of the ledger.
SavesPrefix(p) ==
    pc[p] = "save" =>
        call[p].state # NoState /\ call[p].state = Prefix(SequenceOf(call[p].state))

\* A call runs where its key is routed.
Routed(p) == pc[p] # "idle" => p \in habit.routes[call[p].req.key]

\* What the head that a call read says about the expected sequence: it was
\* equal if the transition is validated, and beyond if clients do not guess.
HeadRead(p) ==
    /\ pc[p] \in {"head", "validate"} => call[p].state = NoState
    /\ pc[p] = "validate" => call[p].head = call[p].expected
    /\ pc[p] = "append" /\ call[p].state # NoState => call[p].head = call[p].expected
    /\ pc[p] \in {"head", "validate", "append"} /\ habit.ahead = 0 => call[p].expected <= Len(events)
    /\ pc[p] = "append" /\ call[p].state = NoState /\ habit.ahead = 0 =>
          call[p].expected < call[p].head

\* With sticky routes nobody stores the key of a running call behind its back, ...
KeyKept(p) ==
    Sticky /\ pc[p] \in {"validate", "append"} =>
        \A s \in 1..Len(events) : events[s].key = call[p].req.key => s <= call[p].head

\* ... the state it validated is the one at the head it read, ...
ValidatedAtHead(p) ==
    Sticky /\ pc[p] = "append" /\ call[p].state # NoState =>
        /\ call[p].state = Prefix(call[p].head)
        /\ \/ call[p].req.body = Free
           \/ \A s \in 1..call[p].head : events[s].body # call[p].req.body

\* ... and the cached state is a prefix of the ledger.
Coherent(p) ==
    Sticky /\ cache[p] # NoState => cache[p] = Prefix(SequenceOf(cache[p]))

\* A call that repeats a stored request, with the expected sequence it had.
Repeats(p) == ~habit.refresh /\ call[p].retry /\ call[p].req.key \notin Stamped

\* Such a call goes past the validation, finds its event at or before the head it
\* read, and is answered with it.
RetryRuns(p) ==
    Repeats(p) /\ pc[p] # "idle" =>
        /\ pc[p] \in {"append", "drain", "done"}
        /\ \E s \in 1..Len(events) : events[s] = call[p].req
        /\ pc[p] = "append" =>
              \A s \in 1..Len(events) : events[s].key = call[p].req.key => s <= call[p].head
        /\ pc[p] = "done" =>
              \/ /\ call[p].outcome = "ok" /\ call[p].seq \in 1..Len(events)
                 /\ events[call[p].seq] = call[p].req
              \/ call[p].outcome = "error"

CallOK(p) ==
    /\ PersistedIsThere(p) /\ SavesPrefix(p) /\ Routed(p) /\ HeadRead(p)
    /\ KeyKept(p) /\ ValidatedAtHead(p) /\ Coherent(p) /\ RetryRuns(p)

\* The inductive invariant.
Inv ==
    /\ TypeOK
    /\ SnapshotsFaithful
    /\ KeysOnce
    /\ AckedTrue
    /\ LedgerReplayable
    /\ \A p \in Procs : CallOK(p)

-----------------------------------------------------------------------------
(* States and sequences of positions. *)

\* A bounded set of numbers that is not empty has a greatest one.
LEMMA Greatest ==
  ASSUME NEW n \in Nat, NEW T \in SUBSET (0..n), T # {}
  PROVE  \E x \in T : \A y \in T : y <= x
<1> DEFINE R == OpToRel(<, Nat)
           D == {n - x : x \in T}
<1>1. IsWellFoundedOn(R, Nat)
  BY NatLessThanWellFounded
<1>2. \A d, e \in Nat : e < d => <<e, d>> \in R
  BY DEF OpToRel
<1> HIDE DEF R
<1>3. D \subseteq Nat /\ D # {}
  <2>1. \A x \in T : n - x \in Nat
    OBVIOUS
  <2>2. D \subseteq Nat
    BY <2>1
  <2>3. PICK x : x \in T
    OBVIOUS
  <2>4. n - x \in D
    BY <2>3
  <2> QED BY <2>2, <2>4
<1> HIDE DEF D
<1>4. PICK d \in D : \A e \in D : ~(<<e, d>> \in R)
  BY <1>1, <1>3, WFMin
<1>5. \A e \in D : ~(e < d)
  BY <1>2, <1>3, <1>4
<1> USE DEF D
<1>6. PICK x \in T : d = n - x
  OBVIOUS
<1>7. \A y \in T : y <= x
  BY <1>5, <1>6
<1> QED BY <1>7

\* A sequence over some positions is one over more.
LEMMA SeqMonotone ==
  ASSUME NEW m \in Nat, NEW n \in Nat, m <= n, NEW s \in Seq(1..m)
  PROVE  s \in Seq(1..n)
OBVIOUS

\* The state that n events lead to: its length, its sequence, its elements.
LEMMA PrefixFacts ==
  ASSUME NEW n \in Nat
  PROVE  /\ Prefix(n) \in Seq(1..n) /\ Len(Prefix(n)) = n
         /\ \A i \in 1..n : Prefix(n)[i] = i
         /\ DOMAIN Prefix(n) = 1..n
BY DEF Prefix

LEMMA PrefixSequence ==
  ASSUME NEW n \in Nat
  PROVE  SequenceOf(Prefix(n)) = n
<1>1. CASE n = 0
  <2>1. Prefix(n) = <<>>
    BY <1>1, PrefixFacts
  <2> QED BY <1>1, <2>1 DEF SequenceOf
<1>2. CASE n # 0
  <2>1. Prefix(n) # <<>> /\ Prefix(n)[n] = n
    BY <1>2, PrefixFacts
  <2> QED BY <2>1, PrefixFacts DEF SequenceOf, Last
<1> QED BY <1>1, <1>2

LEMMA PrefixElements ==
  ASSUME NEW n \in Nat
  PROVE  ToSet(Prefix(n)) = 1..n
BY PrefixFacts DEF ToSet

\* apply brings a state one event forward, rebuild as many as there are.
LEMMA PrefixAppend ==
  ASSUME NEW n \in Nat
  PROVE  Append(Prefix(n), n + 1) = Prefix(n + 1)
BY DEF Prefix

LEMMA PrefixConcat ==
  ASSUME NEW n \in Nat, NEW k \in 0..n
  PROVE  Prefix(k) \o [i \in 1..(n - k) |-> k + i] = Prefix(n)
BY DEF Prefix

\* The sequence of a state is one of its positions, or 0.
LEMMA SequenceType ==
  ASSUME NEW n \in Nat, NEW s \in Seq(1..n)
  PROVE  SequenceOf(s) \in 0..n
BY DEF SequenceOf, Last

\* load_snapshot finds a snapshot, or the empty state: a prefix of the ledger.
LEMMA LatestSnapshotIsPrefix ==
  ASSUME TypeOK, SnapshotsFaithful
  PROVE  \E k \in 0..Len(events) : LatestSnapshot = Prefix(k)
<1>1. Len(events) \in Nat
  BY DEF TypeOK
<1>2. CASE snapshots = {}
  <2>1. Prefix(0) = <<>>
    BY PrefixFacts
  <2> QED BY <1>1, <1>2, <2>1 DEF LatestSnapshot
<1>3. CASE snapshots # {}
  <2> DEFINE T == {SequenceOf(sn) : sn \in snapshots}
  <2>1. T \in SUBSET (0..Len(events)) /\ T # {}
    BY <1>1, <1>3, SequenceType DEF TypeOK
  <2>2. PICK x \in T : \A y \in T : y <= x
    <3> HIDE DEF T
    <3> QED BY <1>1, <2>1, Greatest
  <2>3. PICK sn \in snapshots : x = SequenceOf(sn)
    OBVIOUS
  <2>4. \A other \in snapshots : SequenceOf(other) <= SequenceOf(sn)
    BY <2>2, <2>3
  <2>5. LatestSnapshot \in snapshots
    BY <1>3, <2>4 DEF LatestSnapshot
  <2> QED BY <1>1, <2>5, SequenceType DEF TypeOK, SnapshotsFaithful
<1> QED BY <1>2, <1>3

\* A rebuild from a prefix gives the state of the whole ledger.
LEMMA RebuiltIsPrefix ==
  ASSUME TypeOK, NEW k \in 0..Len(events)
  PROVE  RebuiltFrom(Prefix(k)) = Prefix(Len(events))
<1>1. Len(events) \in Nat /\ k \in Nat
  BY DEF TypeOK
<1> QED BY <1>1, PrefixSequence, PrefixConcat DEF RebuiltFrom

\* What _latest_state hands out: a state of this ledger; the whole ledger's with
\* sticky routes.
LEMMA LatestStateFacts ==
  ASSUME Inv, NEW p \in Procs
  PROVE  /\ LatestState(p) \in Seq(1..Len(events)) /\ LatestState(p) # NoState
         /\ Sticky => LatestState(p) = Prefix(Len(events))
<1>1. Len(events) \in Nat
  BY DEF Inv, TypeOK
<1>2. CASE CacheHit(p)
  <2>1. LatestState(p) = cache[p] /\ cache[p] # NoState /\ SequenceOf(cache[p]) = Len(events)
    BY <1>2 DEF LatestState, CacheHit
  <2>2. cache[p] \in Seq(1..Len(events))
    BY <2>1 DEF Inv, TypeOK, States
  <2> QED BY <2>1, <2>2 DEF Inv, CallOK, Coherent
<1>3. CASE ~CacheHit(p)
  <2>1. LatestState(p) = Prefix(Len(events))
    BY <1>3, LatestSnapshotIsPrefix, RebuiltIsPrefix DEF Inv, LatestState
  <2>2. Prefix(Len(events)) \in Seq(Nat)
    BY <1>1, PrefixFacts
  <2> QED BY <1>1, <2>1, <2>2, PrefixFacts, ServiceAssumption
<1> QED BY <1>2, <1>3
-----------------------------------------------------------------------------
(* Steps that leave the ledger alone. *)

Phases == {"idle", "head", "validate", "append", "rebuild", "save", "prune", "drain", "done"}

\* A step of p that leaves the ledger alone has to look after p's call.
LEMMA LocalInv ==
  ASSUME Inv, NEW p \in Procs, UNCHANGED <<events, habit>>,
         snapshots' \subseteq Seq(1..Len(events)), SnapshotsFaithful',
         acked' \subseteq [req : Requests, seq : 1..Len(events)], AckedTrue',
         pc' \in [Procs -> Phases], cache' \in [Procs -> States], call' \in [Procs -> Call],
         \A q \in Procs \ {p} : pc'[q] = pc[q] /\ cache'[q] = cache[q] /\ call'[q] = call[q],
         CallOK(p)'
  PROVE  Inv'
<1>1. TypeOK'
  BY DEF Inv, TypeOK, States, Call, Phases
<1>2. Sticky' <=> Sticky
  BY DEF Sticky
<1>3. ASSUME NEW q \in Procs \ {p} PROVE CallOK(q)'
  <2>1. CallOK(q) /\ pc'[q] = pc[q] /\ cache'[q] = cache[q] /\ call'[q] = call[q]
    BY <1>3 DEF Inv
  <2>2. PersistedIsThere(q)' /\ SavesPrefix(q)' /\ Routed(q)' /\ HeadRead(q)'
    BY <2>1 DEF CallOK, PersistedIsThere, SavesPrefix, Routed, HeadRead
  <2>3. KeyKept(q)' /\ ValidatedAtHead(q)' /\ Coherent(q)'
    BY <1>2, <2>1 DEF CallOK, KeyKept, ValidatedAtHead, Coherent
  <2>4. RetryRuns(q)'
    BY <2>1 DEF CallOK, RetryRuns, Repeats
  <2> QED BY <2>2, <2>3, <2>4 DEF CallOK
<1>4. LedgerReplayable' /\ KeysOnce'
  BY <1>2 DEF Inv, LedgerReplayable, KeysOnce, Replayable, Applicable
<1> QED BY <1>1, <1>3, <1>4 DEF Inv

\* A call that finishes, with whatever its step did to p's cache and the history.
LEMMA FinishInv ==
  ASSUME Inv, NEW p \in Procs, pc[p] # "idle",
         NEW outcome \in {"ok", "conflict", "invalid", "reused", "error"}, Finish(p, outcome),
         UNCHANGED <<events, snapshots, habit>>,
         acked' \subseteq [req : Requests, seq : 1..Len(events)], AckedTrue',
         cache' \in [Procs -> States], \A q \in Procs \ {p} : cache'[q] = cache[q], Coherent(p)',
         Repeats(p) => \/ outcome = "error"
                       \/ outcome = "ok" /\ call[p].seq \in 1..Len(events)
                                         /\ events[call[p].seq] = call[p].req
  PROVE  Inv'
<1> DEFINE c == [call[p] EXCEPT !.outcome = outcome, !.state = NoState]
<1>1. /\ call \in [Procs -> Call] /\ pc \in [Procs -> Phases] /\ call[p] \in Call /\ NoState \in States
      /\ snapshots \subseteq Seq(1..Len(events)) /\ SnapshotsFaithful /\ CallOK(p)
  BY DEF Inv, TypeOK, States, Phases
<1>2. c \in Call
  BY <1>1 DEF Call
<1>3. /\ c.req = call[p].req /\ c.retry = call[p].retry /\ c.seq = call[p].seq
      /\ c.outcome = outcome
  BY <1>1 DEF Call
<1>4. call' = [call EXCEPT ![p] = c] /\ pc' = [pc EXCEPT ![p] = "done"]
  BY <1>1 DEF Finish
<1> HIDE DEF c
<1>5. /\ call' \in [Procs -> Call] /\ pc' \in [Procs -> Phases]
      /\ \A q \in Procs \ {p} : pc'[q] = pc[q] /\ call'[q] = call[q]
      /\ pc'[p] = "done" /\ call'[p] = c
  BY <1>1, <1>2, <1>4 DEF Phases
<1>6. CallOK(p)'
  <2>1. PersistedIsThere(p)' /\ SavesPrefix(p)' /\ HeadRead(p)' /\ KeyKept(p)' /\ ValidatedAtHead(p)'
    BY <1>5 DEF PersistedIsThere, SavesPrefix, HeadRead, KeyKept, ValidatedAtHead
  <2>2. Routed(p)'
    BY <1>1, <1>3, <1>5 DEF CallOK, Routed
  <2>3. RetryRuns(p)'
    BY <1>1, <1>3, <1>5 DEF CallOK, RetryRuns, Repeats
  <2> QED BY <2>1, <2>2, <2>3 DEF CallOK
<1>7. SnapshotsFaithful'
  BY <1>1 DEF SnapshotsFaithful
<1> QED BY <1>1, <1>5, <1>6, <1>7, LocalInv

\* What the invariant says about a process.
LEMMA Basics ==
  ASSUME Inv, NEW p \in Procs
  PROVE  /\ events \in Seq(Requests) /\ Len(events) \in Nat
         /\ call \in [Procs -> Call] /\ call[p] \in Call /\ NoCall \in Call
         /\ pc \in [Procs -> Phases] /\ pc[p] \in Phases
         /\ cache \in [Procs -> States] /\ cache[p] \in States /\ NoState \in States
         /\ snapshots \subseteq Seq(1..Len(events)) /\ SnapshotsFaithful
         /\ acked \subseteq [req : Requests, seq : 1..Len(events)] /\ AckedTrue
         /\ habit \in Habit /\ CallOK(p)
<1>1. TypeOK /\ SnapshotsFaithful /\ AckedTrue /\ CallOK(p)
  BY DEF Inv
<1>2. NoState \in States /\ Len(events) \in Nat
  BY <1>1 DEF TypeOK, States
<1>3. NoCall \in Call
  BY <1>2, ServiceAssumption DEF NoCall, Call
<1> QED BY <1>1, <1>2, <1>3, ServiceAssumption DEF TypeOK, Phases

\* What stays as it was stays right.
LEMMA KeptHistory ==
  ASSUME Inv, NEW p \in Procs, UNCHANGED events
  PROVE  /\ UNCHANGED snapshots =>
               snapshots' \subseteq Seq(1..Len(events)) /\ SnapshotsFaithful'
         /\ UNCHANGED acked =>
               acked' \subseteq [req : Requests, seq : 1..Len(events)] /\ AckedTrue'
         /\ UNCHANGED <<cache, habit>> =>
               /\ cache' \in [Procs -> States] /\ Coherent(p)'
               /\ \A q \in Procs \ {p} : cache'[q] = cache[q]
BY Basics DEF SnapshotsFaithful, AckedTrue, CallOK, Coherent, Sticky

\* A command hands its event to append.
LEMMA SubmitInv ==
  ASSUME Inv, NEW p \in Procs, NEW req \in Requests, NEW expected \in 0..MaxEvents,
         Submit(p, req, expected)
  PROVE  Inv'
<1> DEFINE c == [NoCall EXCEPT !.req = req, !.expected = expected, !.retry = IsRetry(req),
                               !.head = Len(events)]
           phase == IF Len(events) = expected THEN "validate" ELSE "append"
<1>0. expected \in Nat /\ IsRetry(req) \in BOOLEAN
  BY ServiceAssumption DEF IsRetry
<1>1. c \in Call
  <2>1. Len(events) \in 0..Len(events) /\ NoCall \in Call
    BY Basics
  <2> QED BY <1>0, <2>1 DEF Call
<1>2. /\ c.req = req /\ c.expected = expected /\ c.retry = IsRetry(req) /\ c.head = Len(events)
      /\ c.state = NoState
  BY DEF NoCall
<1>3. /\ call' = [call EXCEPT ![p] = c] /\ pc' = [pc EXCEPT ![p] = phase]
      /\ UNCHANGED <<events, snapshots, cache, acked, habit>>
      /\ MaySubmit(p, req, expected) /\ req.key \notin Stamped
  BY Basics DEF Submit, Called
<1>4. phase \in Phases /\ phase \in {"validate", "append"}
  BY DEF Phases
<1>5. phase = "validate" <=> Len(events) = expected
  OBVIOUS
<1> HIDE DEF c, phase
<1>6. /\ call' \in [Procs -> Call] /\ pc' \in [Procs -> Phases]
      /\ \A q \in Procs \ {p} : pc'[q] = pc[q] /\ call'[q] = call[q]
      /\ pc'[p] = phase /\ call'[p] = c
  BY <1>1, <1>3, <1>4, Basics
<1>7. CallOK(p)'
  <2>1. PersistedIsThere(p)' /\ SavesPrefix(p)'
    BY <1>4, <1>6 DEF PersistedIsThere, SavesPrefix
  <2>2. Routed(p)'
    BY <1>2, <1>3, <1>6 DEF Routed, MaySubmit
  <2>3. HeadRead(p)'
    BY <1>0, <1>2, <1>3, <1>4, <1>5, <1>6, Basics DEF HeadRead, MaySubmit
  <2>4. KeyKept(p)' /\ ValidatedAtHead(p)'
    BY <1>2, <1>3, <1>6, Basics DEF KeyKept, ValidatedAtHead
  <2>5. RetryRuns(p)'
    <3> SUFFICES ASSUME ~habit.refresh, IsRetry(req) PROVE RetryRuns(p)'
      BY <1>2, <1>3, <1>6 DEF RetryRuns, Repeats
    <3>1. PICK s \in 1..Len(events) : events[s] = req /\ expected < s
      BY <1>3 DEF IsRetry, Stored, MaySubmit
    <3>2. phase = "append"
      BY <1>0, <1>4, <1>5, <3>1, Basics
    <3> QED BY <1>2, <1>3, <1>6, <3>1, <3>2, Basics DEF RetryRuns
  <2> QED BY <1>3, <2>1, <2>2, <2>3, <2>4, <2>5, KeptHistory DEF CallOK
<1> QED BY <1>3, <1>6, <1>7, KeptHistory, LocalInv

\* A state that _latest_state hands out may be cached.
LEMMA CacheLatest ==
  ASSUME Inv, NEW p \in Procs, UNCHANGED <<events, habit>>,
         cache' = [cache EXCEPT ![p] = LatestState(p)]
  PROVE  /\ cache' \in [Procs -> States] /\ Coherent(p)'
         /\ \A q \in Procs \ {p} : cache'[q] = cache[q]
<1>1. LatestState(p) \in States
  BY LatestStateFacts DEF States
<1>2. cache' \in [Procs -> States] /\ cache'[p] = LatestState(p)
  BY <1>1, Basics
<1>3. Coherent(p)'
  <2>1. Sticky => SequenceOf(LatestState(p)) = Len(events)
    BY LatestStateFacts, PrefixSequence, Basics
  <2> QED BY <1>2, <2>1, LatestStateFacts DEF Coherent, Sticky
<1> QED BY <1>2, <1>3, Basics

\* A command that takes the latest state first.
LEMMA SubmitAtHeadInv ==
  ASSUME Inv, NEW p \in Procs, NEW req \in Requests, NEW expected \in 0..MaxEvents,
         SubmitAtHead(p, req, expected)
  PROVE  Inv'
<1> DEFINE c == [NoCall EXCEPT !.req = req, !.expected = expected, !.retry = IsRetry(req)]
<1>0. expected \in Nat /\ IsRetry(req) \in BOOLEAN
  BY ServiceAssumption DEF IsRetry
<1>1. c \in Call /\ [c EXCEPT !.outcome = "conflict"] \in Call
  BY <1>0, Basics DEF Call
<1>2. /\ c.req = req /\ c.expected = expected /\ c.state = NoState
      /\ [c EXCEPT !.outcome = "conflict"].req = req
  BY DEF NoCall
<1>3. /\ cache' = [cache EXCEPT ![p] = LatestState(p)]
      /\ UNCHANGED <<events, snapshots, acked, habit>>
      /\ MaySubmit(p, req, expected) /\ req.key \in Stamped
  BY DEF SubmitAtHead
<1>4. \/ call' = [call EXCEPT ![p] = c] /\ pc' = [pc EXCEPT ![p] = "head"]
      \/ call' = [call EXCEPT ![p] = [c EXCEPT !.outcome = "conflict"]] /\ pc' = [pc EXCEPT ![p] = "done"]
  BY Basics DEF SubmitAtHead, Called
<1> HIDE DEF c
<1>5. /\ call' \in [Procs -> Call] /\ pc' \in [Procs -> Phases]
      /\ \A q \in Procs \ {p} : pc'[q] = pc[q] /\ call'[q] = call[q]
      /\ pc'[p] \in {"head", "done"} /\ call'[p].req = req
      /\ pc'[p] = "head" => call'[p] = c
  BY <1>1, <1>2, <1>4, Basics DEF Phases
<1>6. CallOK(p)'
  <2>1. /\ PersistedIsThere(p)' /\ SavesPrefix(p)' /\ KeyKept(p)' /\ ValidatedAtHead(p)'
    BY <1>5 DEF PersistedIsThere, SavesPrefix, KeyKept, ValidatedAtHead
  <2>2. Routed(p)'
    BY <1>3, <1>5 DEF Routed, MaySubmit
  <2>3. HeadRead(p)'
    BY <1>0, <1>2, <1>3, <1>5, Basics DEF HeadRead, MaySubmit
  <2>4. RetryRuns(p)'
    BY <1>3, <1>5 DEF RetryRuns, Repeats
  <2> QED BY <1>3, <2>1, <2>2, <2>3, <2>4, CacheLatest DEF CallOK
<1> QED BY <1>3, <1>5, <1>6, KeptHistory, CacheLatest, LocalInv

\* append reads the head.
LEMMA ReadHeadInv == ASSUME Inv, NEW p \in Procs, ReadHead(p) PROVE Inv'
<1> DEFINE c == [call[p] EXCEPT !.head = Len(events)]
           phase == IF Len(events) = call[p].expected THEN "validate" ELSE "append"
<1>0. call[p] \in Call /\ Len(events) \in 0..Len(events) /\ CallOK(p)
  BY Basics
<1>1. c \in Call
  BY <1>0 DEF Call
<1>2. /\ c.req = call[p].req /\ c.expected = call[p].expected /\ c.retry = call[p].retry
      /\ c.head = Len(events) /\ c.state = call[p].state
  BY <1>0 DEF Call
<1>3. /\ call' = [call EXCEPT ![p] = c] /\ pc' = [pc EXCEPT ![p] = phase] /\ pc[p] = "head"
      /\ UNCHANGED <<events, snapshots, cache, acked, habit>>
  BY Basics DEF ReadHead
<1>4. phase \in Phases /\ phase \in {"validate", "append"}
  BY DEF Phases
<1>5. phase = "validate" <=> Len(events) = call[p].expected
  OBVIOUS
<1>6. call[p].state = NoState /\ (habit.ahead = 0 => call[p].expected <= Len(events))
  BY <1>0, <1>3 DEF CallOK, HeadRead
<1>7. ~Repeats(p)
  BY <1>0, <1>3 DEF CallOK, RetryRuns
<1> HIDE DEF c, phase
<1>8. /\ call' \in [Procs -> Call] /\ pc' \in [Procs -> Phases]
      /\ \A q \in Procs \ {p} : pc'[q] = pc[q] /\ call'[q] = call[q]
      /\ pc'[p] = phase /\ call'[p] = c
  BY <1>1, <1>3, <1>4, Basics
<1>9. CallOK(p)'
  <2>1. PersistedIsThere(p)' /\ SavesPrefix(p)'
    BY <1>4, <1>8 DEF PersistedIsThere, SavesPrefix
  <2>2. Routed(p)'
    BY <1>0, <1>2, <1>3, <1>8 DEF CallOK, Routed
  <2>3. HeadRead(p)'
    <3>1. call[p].expected \in Nat
      BY <1>0 DEF Call
    <3> QED BY <1>2, <1>3, <1>4, <1>5, <1>6, <1>8, <3>1, Basics DEF HeadRead
  <2>4. KeyKept(p)' /\ ValidatedAtHead(p)'
    BY <1>2, <1>3, <1>6, <1>8, Basics DEF KeyKept, ValidatedAtHead
  <2>5. RetryRuns(p)'
    BY <1>2, <1>3, <1>7, <1>8 DEF RetryRuns, Repeats
  <2> QED BY <1>3, <2>1, <2>2, <2>3, <2>4, <2>5, KeptHistory DEF CallOK
<1> QED BY <1>3, <1>8, <1>9, KeptHistory, LocalInv

\* The transition is validated against the latest state.
LEMMA ValidateInv == ASSUME Inv, NEW p \in Procs, Validate(p) PROVE Inv'
<1> DEFINE state == LatestState(p)
           c == [call[p] EXCEPT !.state = state]
<1>0. /\ pc[p] = "validate" /\ UNCHANGED <<events, snapshots, acked, habit>>
      /\ cache' = [cache EXCEPT ![p] = state] /\ CallOK(p) /\ call[p] \in Call
  BY Basics DEF Validate
<1>1. ~Repeats(p)
  BY <1>0 DEF CallOK, RetryRuns
<1>2. CASE \E outcome \in {"conflict", "invalid"} : Finish(p, outcome)
  BY <1>0, <1>1, <1>2, CacheLatest, KeptHistory, FinishInv
<1>3. CASE /\ SequenceOf(state) = call[p].head /\ Applicable(state, call[p].req.body)
           /\ pc' = [pc EXCEPT ![p] = "append"] /\ call' = [call EXCEPT ![p].state = state]
  <2>1. state \in States /\ state # NoState /\ (Sticky => state = Prefix(Len(events)))
    BY LatestStateFacts DEF States
  <2>2. c \in Call
    BY <1>0, <2>1 DEF Call
  <2>3. /\ c.req = call[p].req /\ c.expected = call[p].expected /\ c.retry = call[p].retry
        /\ c.head = call[p].head /\ c.state = state
    BY <1>0 DEF Call
  <2>4. call' = [call EXCEPT ![p] = c]
    BY <1>3, Basics
  <2>5. Sticky => call[p].head = Len(events)
    BY <1>3, <2>1, PrefixSequence, Basics
  <2>6. Sticky => \/ call[p].req.body = Free
                  \/ \A s \in 1..Len(events) : events[s].body # call[p].req.body
    BY <1>3, <2>1, PrefixElements, Basics DEF Applicable
  <2> HIDE DEF c, state
  <2>7. /\ call' \in [Procs -> Call] /\ pc' \in [Procs -> Phases]
        /\ \A q \in Procs \ {p} : pc'[q] = pc[q] /\ call'[q] = call[q]
        /\ pc'[p] = "append" /\ call'[p] = c
    BY <1>3, <2>2, <2>4, Basics DEF Phases
  <2>8. CallOK(p)'
    <3>1. PersistedIsThere(p)' /\ SavesPrefix(p)'
      BY <2>7 DEF PersistedIsThere, SavesPrefix
    <3>2. Routed(p)'
      BY <1>0, <2>3, <2>7 DEF CallOK, Routed
    <3>3. HeadRead(p)'
      BY <1>0, <2>1, <2>3, <2>7 DEF CallOK, HeadRead
    <3>4. KeyKept(p)'
      BY <1>0, <2>3, <2>7 DEF CallOK, KeyKept, Sticky
    <3>5. ValidatedAtHead(p)'
      BY <1>0, <2>1, <2>3, <2>5, <2>6, <2>7 DEF ValidatedAtHead, Sticky
    <3>6. RetryRuns(p)'
      BY <1>0, <1>1, <2>3, <2>7 DEF RetryRuns, Repeats
    <3> QED BY <1>0, <3>1, <3>2, <3>3, <3>4, <3>5, <3>6, CacheLatest DEF CallOK, state
  <2> QED BY <1>0, <2>7, <2>8, KeptHistory, CacheLatest, LocalInv DEF state
<1> QED BY <1>2, <1>3 DEF Validate

\* The calls that end without a result and drop the cached state, or keep it.
LEMMA RebuildFailsInv == ASSUME Inv, NEW p \in Procs, RebuildFails(p) PROVE Inv'
<1>1. /\ pc[p] = "validate" /\ UNCHANGED <<events, snapshots, acked, habit>>
      /\ cache' = [cache EXCEPT ![p] = NoState] /\ Finish(p, "invalid")
  BY DEF RebuildFails
<1>2. /\ cache' \in [Procs -> States] /\ \A q \in Procs \ {p} : cache'[q] = cache[q]
      /\ Coherent(p)'
  BY <1>1, Basics DEF Coherent
<1>3. ~Repeats(p)
  BY <1>1, Basics DEF CallOK, RetryRuns
<1> QED BY <1>1, <1>2, <1>3, KeptHistory, FinishInv

\* store.append raises: a retry it would have recognised.
LEMMA RejectedInv == ASSUME Inv, NEW p \in Procs, Rejected(p) PROVE Inv'
<1>1. PICK outcome \in {"reused", "conflict"} : Finish(p, outcome)
  BY DEF Rejected
<1>2. /\ pc[p] = "append" /\ UNCHANGED <<events, snapshots, cache, acked, habit>>
      /\ IsKeyReuse(call[p].req) \/ IsConflict(call[p].req, call[p].expected)
  BY DEF Rejected
<1>3. ~Repeats(p)
  <2> SUFFICES ASSUME Repeats(p) PROVE FALSE
    OBVIOUS
  <2>1. PICK s \in 1..Len(events) : events[s] = call[p].req
    BY <1>2, Basics DEF CallOK, RetryRuns
  <2> QED BY <1>2, <2>1 DEF IsKeyReuse, IsConflict, IsReplay, IsRetry, Stored, Repeats
<1> QED BY <1>1, <1>2, <1>3, KeptHistory, FinishInv

\* The drain raises, or returns and the caller gets the event.
LEMMA DrainFailsInv == ASSUME Inv, NEW p \in Procs, DrainFails(p) PROVE Inv'
BY KeptHistory, FinishInv DEF DrainFails

LEMMA AcknowledgeInv == ASSUME Inv, NEW p \in Procs, Acknowledge(p) PROVE Inv'
<1>1. /\ pc[p] = "drain" /\ UNCHANGED <<events, snapshots, cache, habit>> /\ Finish(p, "ok")
      /\ acked' = acked \cup {[req |-> call[p].req, seq |-> call[p].seq]}
  BY DEF Acknowledge
<1>2. call[p].seq \in 1..Len(events) /\ events[call[p].seq] = call[p].req /\ call[p].req \in Requests
  BY <1>1, Basics DEF CallOK, PersistedIsThere, Call
<1>3. acked' \subseteq [req : Requests, seq : 1..Len(events)]
  BY <1>1, <1>2, Basics
<1>4. AckedTrue'
  BY <1>1, <1>2, Basics DEF AckedTrue
<1> QED BY <1>1, <1>2, <1>3, <1>4, KeptHistory, FinishInv

\* A process that becomes idle, with its cached state kept or dropped.
LEMMA IdleInv == ASSUME Inv, NEW p \in Procs, Return(p) \/ Crash(p) PROVE Inv'
<1>1. /\ pc' = [pc EXCEPT ![p] = "idle"] /\ call' = [call EXCEPT ![p] = NoCall]
      /\ UNCHANGED <<events, snapshots, acked, habit>>
      /\ UNCHANGED cache \/ cache' = [cache EXCEPT ![p] = NoState]
  BY DEF Return, Crash
<1>2. /\ call' \in [Procs -> Call] /\ pc' \in [Procs -> Phases]
      /\ \A q \in Procs \ {p} : pc'[q] = pc[q] /\ call'[q] = call[q]
      /\ pc'[p] = "idle"
  BY <1>1, Basics DEF Phases
<1>3. /\ cache' \in [Procs -> States] /\ \A q \in Procs \ {p} : cache'[q] = cache[q]
      /\ Coherent(p)'
  <2>1. CASE UNCHANGED cache
    BY <1>1, <2>1, KeptHistory
  <2>2. CASE cache' = [cache EXCEPT ![p] = NoState]
    BY <2>2, Basics DEF Coherent
  <2> QED BY <1>1, <2>1, <2>2
<1>4. CallOK(p)'
  BY <1>2, <1>3 DEF CallOK, PersistedIsThere, SavesPrefix, Routed, HeadRead, KeyKept,
                    ValidatedAtHead, RetryRuns
<1> QED BY <1>1, <1>2, <1>3, <1>4, KeptHistory, LocalInv

\* A reader fills the cache; another twin evicts the entry.
LEMMA CacheInv == ASSUME Inv, NEW p \in Procs, ReadState(p) \/ Evict(p) PROVE Inv'
<1>1. /\ pc[p] = "idle" /\ UNCHANGED <<events, snapshots, pc, call, acked, habit>>
      /\ \/ cache' = [cache EXCEPT ![p] = LatestState(p)]
         \/ cache' = [cache EXCEPT ![p] = NoState]
  BY DEF ReadState, Evict
<1>2. /\ cache' \in [Procs -> States] /\ \A q \in Procs \ {p} : cache'[q] = cache[q]
      /\ Coherent(p)'
  <2>1. CASE cache' = [cache EXCEPT ![p] = LatestState(p)]
    BY <1>1, <2>1, CacheLatest
  <2>2. CASE cache' = [cache EXCEPT ![p] = NoState]
    BY <2>2, Basics DEF Coherent
  <2> QED BY <1>1, <2>1, <2>2
<1>3. CallOK(p)'
  BY <1>1, <1>2 DEF CallOK, PersistedIsThere, SavesPrefix, Routed, HeadRead, KeyKept,
                    ValidatedAtHead, RetryRuns
<1>4. call' \in [Procs -> Call] /\ pc' \in [Procs -> Phases]
  BY <1>1, Basics
<1> QED BY <1>1, <1>2, <1>3, <1>4, KeptHistory, LocalInv

-----------------------------------------------------------------------------
(* Snapshots. *)

\* The state is rebuilt from the first event.
LEMMA SnapshotRebuildInv == ASSUME Inv, NEW p \in Procs, SnapshotRebuild(p) PROVE Inv'
<1> DEFINE state == RebuiltFrom(<<>>)
           c == [call[p] EXCEPT !.state = state]
<1>0. pc[p] = "rebuild" /\ UNCHANGED <<events, snapshots, cache, acked, habit>>
  BY DEF SnapshotRebuild
<1>1. CallOK(p) /\ call[p] \in Call /\ Len(events) \in Nat /\ TypeOK
  BY Basics DEF Inv
<1>2. ~Repeats(p)
  BY <1>0, <1>1 DEF CallOK, RetryRuns
<1>3. CASE Finish(p, "invalid")
  BY <1>0, <1>2, <1>3, KeptHistory, FinishInv
<1>4. CASE pc' = [pc EXCEPT ![p] = "save"] /\ call' = [call EXCEPT ![p].state = state]
  <2>1. state = Prefix(Len(events))
    <3>1. Prefix(0) = <<>>
      BY PrefixFacts
    <3> QED BY <1>1, <3>1, RebuiltIsPrefix
  <2>2. state \in Seq(1..Len(events)) /\ state # NoState /\ SequenceOf(state) = Len(events)
    BY <1>1, <2>1, PrefixFacts, PrefixSequence, ServiceAssumption
  <2>3. c \in Call
    BY <1>1, <2>2 DEF Call, States
  <2>4. /\ c.req = call[p].req /\ c.retry = call[p].retry /\ c.seq = call[p].seq
        /\ c.state = state
    BY <1>1 DEF Call
  <2>5. call' = [call EXCEPT ![p] = c]
    BY <1>4, Basics
  <2> HIDE DEF c, state
  <2>6. /\ call' \in [Procs -> Call] /\ pc' \in [Procs -> Phases]
        /\ \A q \in Procs \ {p} : pc'[q] = pc[q] /\ call'[q] = call[q]
        /\ pc'[p] = "save" /\ call'[p] = c
    BY <1>4, <2>3, <2>5, Basics DEF Phases
  <2>7. CallOK(p)'
    <3>1. PersistedIsThere(p)' /\ Routed(p)'
      BY <1>0, <1>1, <2>4, <2>6 DEF CallOK, PersistedIsThere, Routed
    <3>2. SavesPrefix(p)'
      BY <2>1, <2>2, <2>4, <2>6 DEF SavesPrefix
    <3>3. HeadRead(p)' /\ KeyKept(p)' /\ ValidatedAtHead(p)'
      BY <2>6 DEF HeadRead, KeyKept, ValidatedAtHead
    <3>4. RetryRuns(p)'
      BY <1>0, <1>2, <2>4, <2>6 DEF RetryRuns, Repeats
    <3> QED BY <1>0, <3>1, <3>2, <3>3, <3>4, KeptHistory DEF CallOK
  <2> QED BY <1>0, <2>6, <2>7, KeptHistory, LocalInv
<1> QED BY <1>3, <1>4 DEF SnapshotRebuild

\* save_snapshot keeps the snapshots prefixes of the ledger.
LEMMA SnapshotSaveInv == ASSUME Inv, NEW p \in Procs, SnapshotSave(p) PROVE Inv'
<1> DEFINE state == call[p].state
           c == [call[p] EXCEPT !.state = NoState]
<1>0. pc[p] = "save" /\ UNCHANGED <<events, cache, acked, habit>>
  BY DEF SnapshotSave
<1>1. CallOK(p) /\ call[p] \in Call
  BY Basics
<1>2. ~Repeats(p)
  BY <1>0, <1>1 DEF CallOK, RetryRuns
<1>3. CASE Finish(p, "error") /\ UNCHANGED snapshots
  BY <1>0, <1>2, <1>3, KeptHistory, FinishInv
<1>4. CASE /\ snapshots' = snapshots \cup {state} /\ pc' = [pc EXCEPT ![p] = "prune"]
           /\ call' = [call EXCEPT ![p].state = NoState]
  <2>1. state \in Seq(1..Len(events)) /\ state = Prefix(SequenceOf(state))
    BY <1>0, <1>1 DEF CallOK, SavesPrefix, Call, States
  <2>2. snapshots' \subseteq Seq(1..Len(events)) /\ SnapshotsFaithful'
    BY <1>4, <2>1, Basics DEF SnapshotsFaithful
  <2>3. c \in Call
    BY <1>1, Basics DEF Call
  <2>4. /\ c.req = call[p].req /\ c.retry = call[p].retry /\ c.seq = call[p].seq
    BY <1>1 DEF Call
  <2>5. call' = [call EXCEPT ![p] = c]
    BY <1>4, Basics
  <2> HIDE DEF c
  <2>6. /\ call' \in [Procs -> Call] /\ pc' \in [Procs -> Phases]
        /\ \A q \in Procs \ {p} : pc'[q] = pc[q] /\ call'[q] = call[q]
        /\ pc'[p] = "prune" /\ call'[p] = c
    BY <1>4, <2>3, <2>5, Basics DEF Phases
  <2>7. CallOK(p)'
    <3>1. PersistedIsThere(p)' /\ Routed(p)'
      BY <1>0, <1>1, <2>4, <2>6 DEF CallOK, PersistedIsThere, Routed
    <3>2. SavesPrefix(p)' /\ HeadRead(p)' /\ KeyKept(p)' /\ ValidatedAtHead(p)'
      BY <2>6 DEF SavesPrefix, HeadRead, KeyKept, ValidatedAtHead
    <3>3. RetryRuns(p)'
      BY <1>0, <1>2, <2>4, <2>6 DEF RetryRuns, Repeats
    <3> QED BY <1>0, <3>1, <3>2, <3>3, KeptHistory DEF CallOK
  <2> QED BY <1>0, <2>2, <2>6, <2>7, KeptHistory, LocalInv
<1> QED BY <1>3, <1>4 DEF SnapshotSave

\* prune_snapshots only removes some.
LEMMA SnapshotPruneInv == ASSUME Inv, NEW p \in Procs, SnapshotPrune(p) PROVE Inv'
<1>0. /\ pc[p] = "prune" /\ UNCHANGED <<events, cache, call, acked, habit>>
      /\ pc' = [pc EXCEPT ![p] = "drain"] /\ snapshots' \subseteq snapshots
  BY DEF SnapshotPrune
<1>1. snapshots' \subseteq Seq(1..Len(events)) /\ SnapshotsFaithful'
  BY <1>0, Basics DEF SnapshotsFaithful
<1>2. /\ call' \in [Procs -> Call] /\ pc' \in [Procs -> Phases]
      /\ \A q \in Procs \ {p} : pc'[q] = pc[q] /\ call'[q] = call[q]
      /\ pc'[p] = "drain"
  BY <1>0, Basics DEF Phases
<1>3. CallOK(p) /\ ~Repeats(p)
  BY <1>0, Basics DEF CallOK, RetryRuns
<1>4. CallOK(p)'
  <2>1. PersistedIsThere(p)' /\ Routed(p)'
    BY <1>0, <1>2, <1>3 DEF CallOK, PersistedIsThere, Routed
  <2>2. SavesPrefix(p)' /\ HeadRead(p)' /\ KeyKept(p)' /\ ValidatedAtHead(p)'
    BY <1>2 DEF SavesPrefix, HeadRead, KeyKept, ValidatedAtHead
  <2>3. RetryRuns(p)'
    BY <1>0, <1>3 DEF RetryRuns, Repeats
  <2> QED BY <1>0, <2>1, <2>2, <2>3, KeptHistory DEF CallOK
<1> QED BY <1>0, <1>1, <1>2, <1>4, KeptHistory, LocalInv

-----------------------------------------------------------------------------
(* store.append. *)

\* What a call that persisted its request, or found it, keeps.
LEMMA PersistedFacts ==
  ASSUME Inv, NEW p \in Procs, NEW seq \in Nat, Persisted(p, seq)
  PROVE  /\ \A q \in Procs \ {p} : pc'[q] = pc[q] /\ call'[q] = call[q] /\ cache'[q] = cache[q]
         /\ pc' \in [Procs -> Phases] /\ pc'[p] \in {"rebuild", "drain"}
         /\ pc'[p] = "rebuild" => seq > call[p].head
         /\ call'[p] = [call[p] EXCEPT !.seq = seq, !.state = NoState]
         /\ call'[p].req = call[p].req /\ call'[p].retry = call[p].retry /\ call'[p].seq = seq
         /\ cache'[p] = CacheAfter(p, seq)
<1>1. call[p] \in Call /\ call \in [Procs -> Call]
  BY Basics
<1>2. call'[p] = [call[p] EXCEPT !.seq = seq, !.state = NoState]
  BY <1>1 DEF Persisted
<1>3. call'[p].req = call[p].req /\ call'[p].retry = call[p].retry /\ call'[p].seq = seq
  BY <1>1, <1>2 DEF Call
<1>4. /\ pc' \in [Procs -> Phases] /\ pc'[p] \in {"rebuild", "drain"}
      /\ pc'[p] = "rebuild" => seq > call[p].head
  BY Basics DEF Persisted, SnapshotDue, Phases
<1> QED BY <1>2, <1>3, <1>4, Basics DEF Persisted

\* store.append finds the request: a retry is answered with its event.
LEMMA ReplayInv == ASSUME Inv, NEW p \in Procs, Replay(p) PROVE Inv'
<1>0. /\ pc[p] = "append" /\ UNCHANGED <<events, snapshots, acked, habit>>
      /\ CallOK(p) /\ call[p] \in Call
  BY Basics DEF Replay
<1>1. PICK s \in 1..Len(events) :
         /\ events[s].key = call[p].req.key
         /\ \/ /\ s > call[p].head /\ cache' = [cache EXCEPT ![p] = NoState]
               /\ Finish(p, "invalid")
            \/ Persisted(p, s)
  BY DEF Replay, Stored
<1>2. events[s] = call[p].req
  BY <1>1 DEF Replay, IsReplay, IsRetry, Stored, Inv, KeysOnce
<1>3. /\ Sticky => s <= call[p].head
      /\ Repeats(p) => s <= call[p].head
  BY <1>0, <1>1 DEF CallOK, KeyKept, RetryRuns
<1>4. call[p].head \in Nat /\ s \in Nat
  BY <1>0, Basics DEF Call
<1>5. CASE s > call[p].head /\ cache' = [cache EXCEPT ![p] = NoState] /\ Finish(p, "invalid")
  <2>1. /\ cache' \in [Procs -> States] /\ \A q \in Procs \ {p} : cache'[q] = cache[q]
        /\ Coherent(p)'
    BY <1>5, Basics DEF Coherent
  <2>2. ~Repeats(p)
    BY <1>3, <1>4, <1>5
  <2> QED BY <1>0, <1>5, <2>1, <2>2, KeptHistory, FinishInv
<1>6. CASE Persisted(p, s)
  <2>1. /\ \A q \in Procs \ {p} : pc'[q] = pc[q] /\ call'[q] = call[q] /\ cache'[q] = cache[q]
        /\ pc' \in [Procs -> Phases] /\ pc'[p] \in {"rebuild", "drain"}
        /\ pc'[p] = "rebuild" => s > call[p].head
        /\ call'[p] = [call[p] EXCEPT !.seq = s, !.state = NoState]
        /\ call'[p].req = call[p].req /\ call'[p].retry = call[p].retry /\ call'[p].seq = s
        /\ cache'[p] = CacheAfter(p, s)
    BY <1>4, <1>6, PersistedFacts
  <2>2. call' \in [Procs -> Call]
    <3>1. [call[p] EXCEPT !.seq = s, !.state = NoState] \in Call
      <4>1. s \in 0..Len(events) /\ NoState \in States
        BY <1>1, Basics
      <4> QED BY <1>0, <4>1 DEF Call
    <3> QED BY <1>6, <2>1, <3>1, Basics DEF Persisted
  <2>3. CacheAfter(p, s) \in States
    <3>1. call[p].state \in States
      BY <1>0 DEF Call
    <3>2. call[p].state # NoState => Append(call[p].state, s) \in Seq(1..Len(events))
      BY <1>1, <3>1 DEF States
    <3> QED BY <3>1, <3>2, Basics DEF CacheAfter, States
  <2>4. cache' \in [Procs -> States]
    BY <1>6, <2>1, <2>3, Basics DEF Persisted
  <2>5. CallOK(p)'
    <3>1. PersistedIsThere(p)' /\ Routed(p)'
      BY <1>0, <1>1, <1>2, <2>1 DEF CallOK, PersistedIsThere, Routed
    <3>2. SavesPrefix(p)' /\ HeadRead(p)' /\ KeyKept(p)' /\ ValidatedAtHead(p)'
      BY <2>1 DEF SavesPrefix, HeadRead, KeyKept, ValidatedAtHead
    <3>3. Coherent(p)'
      BY <1>0, <1>3, <2>1 DEF CallOK, Coherent, CacheAfter, Sticky
    <3>4. RetryRuns(p)'
      BY <1>0, <1>2, <1>3, <1>4, <2>1 DEF RetryRuns, Repeats
    <3> QED BY <3>1, <3>2, <3>3, <3>4 DEF CallOK
  <2> QED BY <1>0, <2>1, <2>2, <2>4, <2>5, KeptHistory, LocalInv
<1> QED BY <1>1, <1>5, <1>6

\* The event of a new key is committed.
LEMMA CommitInv == ASSUME Inv, NEW p \in Procs, Commit(p) PROVE Inv'
<1> DEFINE n == Len(events) + 1
           e == call[p].req
<1>0. /\ pc[p] = "append" /\ UNCHANGED <<snapshots, acked, habit>> /\ Len(events) < MaxEvents
      /\ \A s \in 1..Len(events) : events[s].key # e.key
      /\ Len(events) = call[p].expected
      /\ events' = Append(events, e) /\ Persisted(p, n)
      /\ CallOK(p) /\ call[p] \in Call /\ e \in Requests
  BY Basics DEF Commit, Accepts, Stored, Call
<1> HIDE DEF e
<1>1. /\ events \in Seq(Requests) /\ events' \in Seq(Requests) /\ Len(events) \in Nat
      /\ Len(events') = n /\ n \in Nat /\ n \in 1..n
      /\ \A s \in 1..Len(events) : s \in 1..n /\ events'[s] = events[s]
      /\ events'[n] = e
      /\ \A s \in 1..n : s \in 1..Len(events) \/ s = n
  BY <1>0, Basics
<1>2. /\ \A q \in Procs \ {p} : pc'[q] = pc[q] /\ call'[q] = call[q] /\ cache'[q] = cache[q]
      /\ pc' \in [Procs -> Phases] /\ pc'[p] \in {"rebuild", "drain"}
      /\ call'[p] = [call[p] EXCEPT !.seq = n, !.state = NoState]
      /\ call'[p].req = e /\ call'[p].retry = call[p].retry /\ call'[p].seq = n
      /\ cache'[p] = CacheAfter(p, n)
  BY <1>0, <1>1, PersistedFacts DEF e
<1>3. States \subseteq States' /\ Call \subseteq Call' /\ NoState \in States'
  <2>1. Seq(1..Len(events)) \subseteq Seq(1..n)
    BY <1>1, SeqMonotone
  <2>2. 0..Len(events) \subseteq 0..n
    BY <1>1
  <2> HIDE DEF n
  <2>3. States \subseteq States' /\ NoState \in States'
    BY <1>1, <2>1 DEF States
  <2> QED BY <1>1, <2>2, <2>3 DEF Call
<1>4. Sticky' <=> Sticky
  BY <1>0 DEF Sticky
<1>5. CacheAfter(p, n) \in States' /\ (Sticky /\ CacheAfter(p, n) # NoState => CacheAfter(p, n) = Prefix(n))
  <2>1. n > call[p].head /\ call[p].head \in 0..Len(events) /\ call[p].state \in States
    BY <1>0, <1>1 DEF Call
  <2>2. CASE call[p].state = NoState
    BY <1>3, <2>1, <2>2 DEF CacheAfter
  <2>3. CASE call[p].state # NoState
    <3>1. CacheAfter(p, n) = Append(call[p].state, n) /\ call[p].state \in Seq(1..Len(events))
      BY <2>1, <2>3 DEF CacheAfter, States
    <3>2. Append(call[p].state, n) \in Seq(1..n)
      BY <1>1, <3>1, SeqMonotone
    <3>3. Sticky => call[p].state = Prefix(Len(events))
      BY <1>0, <2>3 DEF CallOK, ValidatedAtHead, HeadRead
    <3> QED BY <1>1, <3>1, <3>2, <3>3, PrefixAppend DEF States
  <2> QED BY <2>2, <2>3
<1>6. TypeOK'
  <2>1. call' \in [Procs -> Call']
    <3>1. [call[p] EXCEPT !.seq = n, !.state = NoState] \in Call'
      <4>1. call[p] \in Call' /\ n \in 0..Len(events')
        BY <1>0, <1>1, <1>3
      <4> QED BY <1>3, <4>1 DEF Call
    <3> QED BY <1>0, <1>2, <1>3, <3>1, Basics DEF Persisted
  <2>2. cache' \in [Procs -> States']
    BY <1>0, <1>2, <1>3, <1>5, Basics DEF Persisted
  <2>3. snapshots' \subseteq Seq(1..Len(events'))
    BY <1>0, <1>1, SeqMonotone, Basics
  <2>4. acked' \subseteq [req : Requests, seq : 1..Len(events')]
    BY <1>0, <1>1, Basics
  <2>5. Len(events') <= MaxEvents /\ habit' \in Habits
    BY <1>0, <1>1, ServiceAssumption DEF Inv, TypeOK
  <2> QED BY <1>1, <1>2, <2>1, <2>2, <2>3, <2>4, <2>5 DEF TypeOK, Phases
<1>7. SnapshotsFaithful' /\ AckedTrue' /\ KeysOnce'
  <2>1. SnapshotsFaithful'
    BY <1>0, Basics DEF SnapshotsFaithful
  <2>2. AckedTrue'
    BY <1>0, <1>1, Basics DEF AckedTrue
  <2>3. KeysOnce'
    BY <1>0, <1>1 DEF Inv, KeysOnce
  <2> QED BY <2>1, <2>2, <2>3
<1>8. LedgerReplayable'
  <2> SUFFICES ASSUME Sticky, habit.ahead = 0 PROVE Replayable'
    BY <1>0, <1>4 DEF LedgerReplayable
  <2>1. \A s \in 1..Len(events) : \/ events[s].body = Free
                                  \/ \A t \in 1..(s - 1) : events[t].body # events[s].body
    BY <1>1, PrefixElements DEF Inv, LedgerReplayable, Replayable, Applicable
  <2>2. call[p].state # NoState /\ call[p].head = Len(events)
    BY <1>0, <1>1 DEF CallOK, HeadRead, Call
  <2>3. e.body = Free \/ \A t \in 1..Len(events) : events[t].body # e.body
    BY <1>0, <2>2 DEF CallOK, ValidatedAtHead, e
  <2>4. ASSUME NEW s \in 1..n
        PROVE  events'[s].body = Free \/ \A t \in 1..(s - 1) : events'[t].body # events'[s].body
    <3>1. CASE s = n
      BY <1>1, <2>3, <3>1
    <3>2. CASE s \in 1..Len(events)
      BY <1>1, <2>1, <3>2
    <3> QED BY <1>1, <3>1, <3>2
  <2>5. \A s \in 1..n : s - 1 \in Nat /\ ToSet(Prefix(s - 1)) = 1..(s - 1)
    BY <1>1, PrefixElements
  <2> QED BY <1>1, <2>4, <2>5 DEF Replayable, Applicable
<1>9. CallOK(p)'
  <2>1. PersistedIsThere(p)' /\ Routed(p)'
    BY <1>0, <1>1, <1>2 DEF CallOK, PersistedIsThere, Routed, e
  <2>2. SavesPrefix(p)' /\ HeadRead(p)' /\ KeyKept(p)' /\ ValidatedAtHead(p)'
    BY <1>2 DEF SavesPrefix, HeadRead, KeyKept, ValidatedAtHead
  <2>3. Coherent(p)'
    BY <1>1, <1>2, <1>4, <1>5, PrefixSequence DEF Coherent
  <2>4. RetryRuns(p)'
    <3>1. ~Repeats(p)
      BY <1>0 DEF CallOK, RetryRuns, e
    <3> QED BY <1>0, <1>2, <3>1 DEF RetryRuns, Repeats, e
  <2> QED BY <2>1, <2>2, <2>3, <2>4 DEF CallOK
<1>10. ASSUME NEW q \in Procs \ {p} PROVE CallOK(q)'
  <2>1. /\ CallOK(q) /\ pc'[q] = pc[q] /\ call'[q] = call[q] /\ cache'[q] = cache[q]
        /\ call[q] \in Call /\ q # p
    BY <1>2, Basics
  <2>2. /\ call[q].head \in 0..Len(events) /\ call[q].expected \in Nat
        /\ call[q].seq \in 0..Len(events) /\ call[q].req \in Requests
    BY <2>1 DEF Call
  <2>3. PersistedIsThere(q)'
    BY <1>1, <2>1 DEF CallOK, PersistedIsThere
  <2>4. SavesPrefix(q)' /\ Routed(q)' /\ Coherent(q)'
    BY <1>0, <1>4, <2>1 DEF CallOK, SavesPrefix, Routed, Coherent
  <2>5. HeadRead(q)'
    BY <1>0, <1>1, <2>1, <2>2 DEF CallOK, HeadRead
  <2>6. KeyKept(q)'
    <3> SUFFICES ASSUME Sticky, pc[q] \in {"validate", "append"}
                 PROVE  \A s \in 1..n : events'[s].key = call[q].req.key => s <= call[q].head
      BY <1>1, <1>4, <2>1 DEF KeyKept
    <3>1. q \in habit.routes[call[q].req.key] /\ p \in habit.routes[e.key]
      BY <1>0, <2>1 DEF CallOK, Routed, e
    <3>2. e.key \in DOMAIN habit.routes
      BY <1>0, Basics DEF Habit
    <3>3. call[q].req.key # e.key
      BY <2>1, <3>1, <3>2 DEF Sticky
    <3> QED BY <1>1, <2>1, <3>3 DEF CallOK, KeyKept
  <2>7. ValidatedAtHead(q)'
    <3>1. \A s \in 1..call[q].head : s \in 1..Len(events)
      BY <1>1, <2>2
    <3> QED BY <1>1, <1>4, <2>1, <3>1 DEF CallOK, ValidatedAtHead
  <2>8. RetryRuns(q)'
    <3> SUFFICES ASSUME Repeats(q), pc[q] # "idle" PROVE RetryRuns(q)'
      BY <1>0, <2>1 DEF RetryRuns, Repeats
    <3>1. PICK s \in 1..Len(events) : events[s] = call[q].req
      BY <2>1 DEF CallOK, RetryRuns
    <3>2. call[q].req.key # e.key
      BY <1>0, <3>1
    <3>3. pc[q] = "append" => \A t \in 1..n : events'[t].key = call[q].req.key => t <= call[q].head
      BY <1>1, <2>1, <3>2 DEF CallOK, RetryRuns
    <3>4. pc[q] = "done" => \/ /\ call[q].outcome = "ok" /\ call[q].seq \in 1..n
                               /\ events'[call[q].seq] = call[q].req
                            \/ call[q].outcome = "error"
      BY <1>1, <2>1 DEF CallOK, RetryRuns
    <3>5. pc[q] \in {"append", "drain", "done"} /\ \E t \in 1..n : events'[t] = call[q].req
      BY <1>1, <2>1, <3>1 DEF CallOK, RetryRuns
    <3> QED BY <1>1, <2>1, <3>3, <3>4, <3>5 DEF RetryRuns
  <2> QED BY <2>3, <2>4, <2>5, <2>6, <2>7, <2>8 DEF CallOK
<1> QED BY <1>6, <1>7, <1>8, <1>9, <1>10 DEF Inv

-----------------------------------------------------------------------------
(* Invariance. *)

\* The initial state satisfies the invariant.
LEMMA InitInv == Init => Inv
<1> SUFFICES ASSUME Init PROVE Inv
  OBVIOUS
<1> USE DEF Init
<1>1. events \in Seq(Requests) /\ Len(events) = 0 /\ \A s \in 1..Len(events) : FALSE
  OBVIOUS
<1>2. NoState \in States
  BY DEF States
<1>3. NoCall \in Call
  BY <1>1, <1>2, ServiceAssumption DEF NoCall, Call
<1>4. TypeOK
  BY <1>1, <1>2, <1>3, ServiceAssumption DEF TypeOK
<1>5. \A p \in Procs : CallOK(p)
  BY DEF CallOK, PersistedIsThere, SavesPrefix, Routed, HeadRead, KeyKept, ValidatedAtHead,
         Coherent, RetryRuns
<1> QED BY <1>1, <1>4, <1>5 DEF Inv, SnapshotsFaithful, KeysOnce, AckedTrue, LedgerReplayable,
                                Replayable

\* Every step preserves the invariant.
LEMMA NextInv == Inv /\ [Next]_vars => Inv'
<1> SUFFICES ASSUME Inv, [Next]_vars PROVE Inv'
  OBVIOUS
<1>1. ASSUME NEW p \in Procs, Step(p) PROVE Inv'
  <2>1. CASE \E req \in Requests, expected \in 0..MaxEvents :
                Submit(p, req, expected) \/ SubmitAtHead(p, req, expected)
    BY <2>1, SubmitInv, SubmitAtHeadInv
  <2>2. CASE ReadHead(p) \/ Validate(p) \/ RebuildFails(p)
    BY <2>2, ReadHeadInv, ValidateInv, RebuildFailsInv
  <2>3. CASE Rejected(p) \/ Commit(p) \/ Replay(p)
    BY <2>3, RejectedInv, CommitInv, ReplayInv
  <2>4. CASE SnapshotRebuild(p) \/ SnapshotSave(p) \/ SnapshotPrune(p)
    BY <2>4, SnapshotRebuildInv, SnapshotSaveInv, SnapshotPruneInv
  <2>5. CASE Acknowledge(p) \/ DrainFails(p) \/ Return(p) \/ ReadState(p) \/ Evict(p) \/ Crash(p)
    BY <2>5, AcknowledgeInv, DrainFailsInv, IdleInv, CacheInv
  <2> QED BY <1>1, <2>1, <2>2, <2>3, <2>4, <2>5 DEF Step
<1>2. CASE UNCHANGED vars
  <2>1. TypeOK'
    BY <1>2 DEF vars, Inv, TypeOK, States, Call
  <2>2. ASSUME NEW p \in Procs PROVE CallOK(p)'
    <3>1. CallOK(p)
      BY DEF Inv
    <3> QED BY <1>2, <3>1 DEF vars, CallOK, PersistedIsThere, SavesPrefix, Routed, HeadRead, KeyKept,
                              ValidatedAtHead, Coherent, RetryRuns, Repeats, Sticky
  <2>3. SnapshotsFaithful' /\ KeysOnce' /\ AckedTrue' /\ LedgerReplayable'
    BY <1>2 DEF vars, Inv, SnapshotsFaithful, KeysOnce, AckedTrue, LedgerReplayable, Replayable,
                Applicable, Sticky
  <2> QED BY <2>1, <2>2, <2>3 DEF Inv
<1> QED BY <1>1, <1>2 DEF Next

\* The invariant holds in every reachable state.
LEMMA Invariance == Spec => []Inv
BY InitInv, NextInv, PTL DEF Spec

-----------------------------------------------------------------------------
(* Theorems. *)

\* Types, and snapshots that hold exactly the events up to their sequence,
\* whatever clients do and whatever a process has cached.
THEOREM StorageSound == Spec => []StorageInv
<1>1. Inv => StorageInv
  BY DEF Inv, StorageInv
<1> QED BY <1>1, Invariance, PTL

\* With sticky routes a cached state is the replay of the ledger up to its
\* sequence.
THEOREM CachesCoherent == Spec => []CacheCoherent
<1>1. Inv => CacheCoherent
  BY DEF Inv, CallOK, Coherent, CacheCoherent
<1> QED BY <1>1, Invariance, PTL

\* With sticky routes and clients that do not guess, append persists no
\* transition that a rebuild would refuse.
THEOREM LedgersReplayable == Spec => []LedgerReplayable
BY Invariance, PTL DEF Inv

\* A retry of a stored request, with the expected sequence it had, is answered
\* with the stored event, on whichever process it runs.
THEOREM RetriesReturnOriginal == Spec => []RetryReturnsOriginal
<1>1. Inv => RetryReturnsOriginal
  BY DEF Inv, CallOK, RetryRuns, Repeats, RetryReturnsOriginal
<1> QED BY <1>1, Invariance, PTL

\* A step of the service is a step of IdempotentLedger or leaves ledger and
\* answers alone.
LEMMA StepRefines == Inv /\ [Next]_vars => [Ledger!Next]_(Ledger!ledgerVars)
<1> SUFFICES ASSUME Inv, [Next]_vars PROVE Ledger!Next \/ UNCHANGED <<events, acked>>
  BY DEF Ledger!ledgerVars
<1>1. ASSUME NEW p \in Procs, Commit(p) PROVE Ledger!Next
  <2>1. /\ \A s \in 1..Len(events) : events[s].key # call[p].req.key
        /\ events' = Append(events, call[p].req) /\ UNCHANGED acked
    BY <1>1 DEF Commit, Accepts, Stored
  <2>2. events \in Seq(Requests) /\ call[p].req \in Requests
    BY Basics DEF Call
  <2>3. Len(events') > Len(events) /\ events'[Len(events')] = call[p].req
    BY <2>1, <2>2
  <2> QED BY <2>1, <2>3 DEF Ledger!Next, Ledger!Append1
<1>2. ASSUME NEW p \in Procs, Acknowledge(p) PROVE Ledger!Next
  <2>1. /\ acked' = acked \cup {[req |-> call[p].req, seq |-> call[p].seq]}
        /\ UNCHANGED events /\ pc[p] = "drain"
    BY <1>2 DEF Acknowledge
  <2>2. call[p].seq \in 1..Len(events) /\ events[call[p].seq] = call[p].req
    BY <2>1, Basics DEF CallOK, PersistedIsThere
  <2> QED BY <2>1, <2>2 DEF Ledger!Next, Ledger!Answer
<1>3. ASSUME NEW p \in Procs, Step(p), ~Commit(p), ~Acknowledge(p) PROVE UNCHANGED <<events, acked>>
  BY <1>3 DEF Step, Submit, SubmitAtHead, ReadHead, Validate, RebuildFails, Rejected, Replay,
              SnapshotRebuild, SnapshotSave, SnapshotPrune, DrainFails, Return, ReadState, Evict, Crash
<1>4. CASE UNCHANGED vars
  BY <1>4 DEF vars
<1> QED BY <1>1, <1>2, <1>3, <1>4 DEF Next

\* The service implements IdempotentLedger, whatever clients do: what is
\* committed is never changed, a key is committed at most once, and a caller is
\* told a position only if its request is there.
THEOREM KeepsLedgerPromise == Spec => LedgerPromise
<1>1. Init => Ledger!Init
  BY DEF Init, Ledger!Init
<1> QED BY <1>1, StepRefines, Invariance, PTL DEF Spec, LedgerPromise, Ledger!Spec
=============================================================================
