---------------------------- MODULE EpistemicViews ----------------------------
(***************************************************************************)
(* What can be read of a twin, now and as of an earlier time: the lineage  *)
(* traces of LineageTracer over the sequence-stamped dependency index, the *)
(* plans of GapDirectedElicitor, and the views that rebuild and            *)
(* trace_lineage answer for a recorded time.                               *)
(*                                                                         *)
(* The ledger and its index are module TwinAggregate.  Here every event    *)
(* has the wall-clock time it was recorded at, every edge of the index the *)
(* sequence that created it, and `past` keeps what the state was at every  *)
(* sequence, to compare with what is read of it later.                     *)
(***************************************************************************)
EXTENDS TwinAggregate, Sequences

CONSTANTS
    MinimumGroups,   \* GapDirectedElicitor's minimum_independence_groups
    MaxTime          \* bound: the wall clock

\* A node of the index is its kind and its id.
ASSUME ViewsAssumption ==
    /\ (Evidence \cup Claims) \cap (Links \cup Contradictions \cup Corrections \cup Projections) = {}
    /\ MinimumGroups \in Nat \ {0}
    /\ MaxTime \in Nat

VARIABLES
    clock,      \* utc_now()
    setBack,    \* history: the clock was set back
    recorded,   \* recorded_at of each event
    stamps,     \* dt_dependencies with created_sequence: pairs of edge and sequence
    past,       \* history: the state at sequences 0, 1, 2, ...
    read        \* history: the sequences found for past times: pairs of time and sequence

viewVars == <<clock, setBack, recorded, stamps, past, read>>

-----------------------------------------------------------------------------
(* The parts of a TwinState that traces and plans read. *)

State == [sequence |-> sequence, evidence |-> evidence, claims |-> claims,
          contested |-> contested, stale |-> stale,
          contradictions |-> contradictions, resolved |-> resolved]

InitViews ==
    /\ Init
    /\ clock = 1 /\ setBack = FALSE /\ recorded = <<>>
    /\ stamps = {}
    /\ past = <<[state |-> State, edges |-> {}]>>
    /\ read = {}

\* append stamps the event with the time, and each edge that is new with the
\* event's sequence; INSERT OR IGNORE leaves an edge that is there alone.
Recorded ==
    IF sequence' = sequence THEN UNCHANGED <<recorded, stamps, past>>
    ELSE /\ recorded' = Append(recorded, clock)
         /\ stamps' = stamps \cup {<<edge, sequence'>> : edge \in edges' \ edges}
         /\ past' = Append(past, [state |-> State', edges |-> edges'])

Event == Next /\ Recorded /\ UNCHANGED <<clock, setBack, read>>

-----------------------------------------------------------------------------
(* The dependency index, up to a sequence. *)

\* Mutation: the cutoff is exclusive.
EdgesBefore(cutoff) == {stamp[1] : stamp \in {t \in stamps : t[2] < cutoff}}

EdgesUpTo(cutoff) == {stamp[1] : stamp \in {t \in stamps : t[2] <= cutoff}}

\* The nodes reached from n over the edges given: a recursive query whose UNION
\* drops what has been reached before.
Reached(n, es) ==
    LET targets == {edge[2] : edge \in es}
        closed == {ns \in SUBSET targets : \A edge \in es : edge[1] \in ns \cup {n} => edge[2] \in ns}
    IN {m \in targets : \A ns \in closed : m \in ns}

\* dependents: the walk along the edges.
DependentsUpTo(n, cutoff) == Reached(n, EdgesUpTo(cutoff))

\* ancestors: the walk against the edges.
AncestorsUpTo(n, cutoff) == Reached(n, {<<edge[2], edge[1]>> : edge \in EdgesUpTo(cutoff)})

\* LineageTracer.trace of node n for a state: evidence that the state does not
\* have is left out of the groups.
Trace(state, n) ==
    LET ancestors == AncestorsUpTo(n, state.sequence)
    IN [ancestors |-> ancestors,
        dependents |-> DependentsUpTo(n, state.sequence),
        groups |-> {<<state.evidence[e], e>> :
                       e \in {f \in (ancestors \cup {n}) \cap Evidence : state.evidence[f] # Absent}}]

-----------------------------------------------------------------------------
(* GapDirectedElicitor *)

Known(state) == {c \in Claims : state.claims[c] # {}}

\* The gaps of claim c.
ClaimGaps(state, c) ==
    (IF Cardinality({r[2] : r \in state.claims[c]}) < MinimumGroups THEN {"independence"} ELSE {})
    \cup (IF c \in state.contested THEN {"contested"} ELSE {})
    \cup (IF c \in state.stale THEN {"stale"} ELSE {})

\* Mutation: the identity of a contradiction's gap is its claims.
GapOfClaims(kind, targets, parts) == [kind |-> kind, targets |-> targets, parts |-> {}]

\* _stable_id over kind, targets and identity_parts; twin, sequence and objective
\* are the same for all gaps of a plan.
GapId(kind, targets, parts) == [kind |-> kind, targets |-> targets, parts |-> parts]

\* The gaps add_gap records, each by what it is about: the claims selected, or
\* none; and every unresolved contradiction, unless a selection was given that
\* has none of its claims.
Gaps(state, selection, all) ==
    {<<"missing", {}, {}>> : x \in {selection} \cap {{}}}
    \cup (UNION {{<<kind, {c}, {}>> : kind \in ClaimGaps(state, c)} : c \in selection})
    \cup {<<"contradiction", state.contradictions[k], {k}>> :
             k \in {j \in Contradictions :
                       /\ state.contradictions[j] # {} /\ j \notin state.resolved
                       /\ all \/ state.contradictions[j] \cap selection # {}}}

\* plan; a question belongs to each gap and has its id.  all: claim_ids is None.
Plan(state, selection, all) ==
    LET selected == IF all THEN Known(state) ELSE selection
    IN [sequence |-> state.sequence, claims |-> selected,
        gaps |-> {GapId(gap[1], gap[2], gap[3]) : gap \in Gaps(state, selected, all)}]

\* verify_plan rebuilds the plan from the state at its sequence and from the
\* claims it names.
Verifies(plan) == plan = Plan(past[plan.sequence + 1].state, plan.claims, FALSE)

-----------------------------------------------------------------------------
(* The public facade's read_representation_deficits *)

\* The deficits of the state, each in the form of a gap.
Deficits(state) ==
    {<<"missing", {}, {}>> : x \in {Known(state)} \cap {{}}}
    \cup {<<"stale", {c}, {}>> : c \in state.stale \cap Claims}
    \cup {<<"contested", {c}, {}>> : c \in state.contested}
    \cup {<<"contradiction", state.contradictions[k], {k}>> :
             k \in {j \in Contradictions : state.contradictions[j] # {} /\ j \notin state.resolved}}

-----------------------------------------------------------------------------
(* Recorded time *)

\* Mutation: the query leaves out the events recorded later; the replay fails on
\* the gap this makes.
SequenceAtFiltered(time) ==
    LET kept == {s \in 1..sequence : recorded[s] <= time}
    IN IF kept = 1..Cardinality(kept) THEN Cardinality(kept) ELSE 0

\* rebuild as of a recorded time, from the first event on: it stops at the first event recorded later.
SequenceAt(time) ==
    CHOOSE s \in 0..sequence :
        /\ \A t \in 1..s : recorded[t] <= time
        /\ s < sequence => recorded[s + 1] > time

\* Somebody reads the view as of a time that has passed.
ReadPast(time) ==
    /\ time < clock
    /\ read' = read \cup {<<time, SequenceAt(time)>>}
    /\ UNCHANGED <<vars, clock, setBack, recorded, stamps, past>>

Tick ==
    /\ clock < MaxTime
    /\ clock' = clock + 1
    /\ UNCHANGED <<vars, setBack, recorded, stamps, past, read>>

\* The clock is set back.
StepBack ==
    /\ clock > 1
    /\ clock' = clock - 1
    /\ setBack' = TRUE
    /\ UNCHANGED <<vars, recorded, stamps, past, read>>

NextViews == Event \/ (\E time \in 1..MaxTime : ReadPast(time)) \/ Tick \/ StepBack

SpecViews == InitViews /\ [][NextViews]_<<vars, viewVars>>

-----------------------------------------------------------------------------
(* Properties. *)

\* A trace for the state at an earlier sequence, read from the index of today,
\* is the trace that was read then: recorded-time lineage does not see edges
\* learned later, and misses none learned before.
TracesAsRecorded ==
    \A s \in 1..Len(past) : EdgesUpTo(past[s].state.sequence) = past[s].edges

\* The groups a trace reports for a claim are the ones its provenance counts,
\* by which the elicitor judges its independence, as long as the claim is not
\* stale.  (A claim that succeeds a superseded one has also that claim's
\* evidence among its ancestors.)
GroupsAgree ==
    \A c \in KnownClaims \ stale :
        (\A b \in Claims : <<b, c>> \notin edges) =>
            {<<r[2], r[1]>> : r \in claims[c]} = Trace(State, c).groups

\* The trace of everything a deletion queues leads back to the evidence, and
\* the other way round: impact and ancestry are the same relation.
LineageReversible ==
    \A n, m \in Nodes :
        m \in Trace(State, n).dependents <=> n \in Trace(State, m).ancestors

\* Lineage can be relied on: past traces are what they were, groups are those of
\* provenance, impact and ancestry agree.
LineageSound == TracesAsRecorded /\ GroupsAgree /\ LineageReversible

\* Every plan the elicitor made, of all claims or of some, at any earlier
\* sequence, is accepted when the answer to one of its questions arrives.
PlansVerify ==
    \A s \in 1..Len(past) :
        LET state == past[s].state IN
        /\ Verifies(Plan(state, {}, TRUE))
        /\ \A selection \in SUBSET Known(state) : Verifies(Plan(state, selection, FALSE))

\* No two gaps of a plan share an id, so an answer is filed under the gap its
\* question was about.
GapsDistinct ==
    \A g, h \in Gaps(State, Known(State), TRUE) :
        GapId(g[1], g[2], g[3]) = GapId(h[1], h[2], h[3]) => g = h

\* The facade and the elicitor see the same defects, the facade in the state's
\* sets and the elicitor claim by claim; only lack of independence is the
\* elicitor's alone.
DeficitsMatchPlan ==
    Deficits(State) = {gap \in Gaps(State, Known(State), TRUE) : gap[1] # "independence"}

\* Plans can be relied on: they verify later, their gaps keep apart, and the
\* facade's deficits are their gaps.
PlansSound == PlansVerify /\ GapsDistinct /\ DeficitsMatchPlan

\* What was read as of a time that had passed is what is read as of that time
\* ever after, as long as the clock is not set back; even then the view loses
\* nothing it once had.
ViewsStable ==
    \A r \in read :
        /\ SequenceAt(r[1]) >= r[2]
        /\ ~setBack => SequenceAt(r[1]) = r[2]

=============================================================================
