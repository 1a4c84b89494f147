------------------------------ MODULE CursorKeys ------------------------------
(***************************************************************************)
(* The signing keys of resume cursors: CursorSigner with its age and clock *)
(* checks, the ring of keys of RotatingCursorSigner, rotate, the sessions  *)
(* that keep the ring they were opened with, and clients that hold on to   *)
(* the cursors they were given.                                            *)
(*                                                                         *)
(* A cursor is the key of its signature and the time on the clock of the   *)
(* process that issued it; the position it names and its binding to the    *)
(* event chain are those of module StateStream.  A signature matches one   *)
(* key.  Clocks of processes differ by at most the allowed skew.           *)
(***************************************************************************)
EXTENDS Integers, Sequences, SequencesExt, FiniteSets

CONSTANTS
    Procs,            \* processes that serve streams, with the same ring
    Keys,             \* signing keys, each with a key_id of its own
    MaxKeys,          \* RotatingCursorSigner.MAX_KEYS
    Retain,           \* the retain argument of rotate
    MaxAge, Skew,     \* max_age and allowed_clock_skew
    Offset,           \* how far the clock of each process is ahead
    Interval,         \* least time between two rotations
    MaxTime,          \* bound: the last instant
    MaxCursors        \* bound: cursors that clients hold

\* The deployment keeps retired keys for longer than any cursor lives.
ASSUME CursorAssumption ==
    /\ {MaxKeys, MaxAge, Interval} \subseteq Nat \ {0} /\ {Skew, MaxTime, MaxCursors} \subseteq Nat
    /\ Retain \in 0..(MaxKeys - 1)
    /\ Retain * Interval > MaxAge + Skew
    /\ Offset \in [Procs -> 0..Skew]

VARIABLES
    now,        \* time
    ring,       \* the service's cursor_signer: its keys, the active one first
    rotated,    \* time of the last rotation
    session,    \* the ring of the open session of each process, or none
    cursors     \* the cursors clients hold

cursorVars == <<now, ring, rotated, session, cursors>>

NoRing == <<>>

InitCursors ==
    /\ now = 0
    /\ ring \in {<<k>> : k \in Keys}
    /\ rotated = 0
    /\ session = [p \in Procs |-> NoRing]
    /\ cursors = {}

-----------------------------------------------------------------------------
(* CursorSigner *)

Clock(p) == now + Offset[p]

\* issue, with the active key; `current` is history: it was the service's, too.
Issued(keys, p) ==
    [key |-> Head(keys), stamp |-> Clock(p), since |-> now, current |-> Head(keys) = Head(ring)]

\* Mutation: the skew is granted on the age as well.
TimelyGenerous(p, c) ==
    /\ c.stamp <= Clock(p) + Skew
    /\ Clock(p) - c.stamp <= MaxAge + Skew

\* verify: not from the future, and not too old, on the clock of the process.
Timely(p, c) ==
    /\ c.stamp <= Clock(p) + Skew
    /\ Clock(p) - c.stamp <= MaxAge

\* RotatingCursorSigner.verify: the key is found by the signature.
Verifies(keys, p, c) == c.key \in ToSet(keys) /\ Timely(p, c)

-----------------------------------------------------------------------------
(* Sessions *)

Hand(c) == Cardinality(cursors) < MaxCursors /\ cursors' = cursors \cup {c}

\* open_state_stream: the session keeps the ring of this moment.
OpenSession(p) ==
    /\ session[p] = NoRing
    /\ session' = [session EXCEPT ![p] = ring]
    /\ UNCHANGED <<now, ring, rotated, cursors>>

\* ... from a cursor.
Resume(p, c) == Verifies(ring, p, c) /\ OpenSession(p)

\* Frames, heartbeats and close frames carry a cursor of the session's ring.
Send(p) ==
    /\ session[p] # NoRing
    /\ Hand(Issued(session[p], p))
    /\ UNCHANGED <<now, ring, rotated, session>>

\* The acknowledgement of a telemetry batch carries one of the service's ring.
SendStatus(p) ==
    /\ Hand(Issued(ring, p))
    /\ UNCHANGED <<now, ring, rotated, session>>

Close(p) ==
    /\ session[p] # NoRing
    /\ session' = [session EXCEPT ![p] = NoRing]
    /\ UNCHANGED <<now, ring, rotated, cursors>>

\* A client acknowledges with a cursor that the session's ring refuses.
RefuseCursor(p, c) == ~Verifies(session[p], p, c) /\ Close(p)

\* A client lets go of a cursor.
Forget(c) ==
    /\ cursors' = cursors \ {c}
    /\ UNCHANGED <<now, ring, rotated, session>>

-----------------------------------------------------------------------------
(* Rotation *)

Oldest(keys, n) == SubSeq(keys, Len(keys) - n + 1, Len(keys))

\* Mutation: the oldest keys are retained.
RotatedKeepingOldest(keys, k) ==
    LET previous == RemoveFirst(keys, k)
    IN <<k>> \o (IF Len(previous) > Retain THEN Oldest(previous, Retain) ELSE previous)

\* rotate: the new key comes first; of the others the first few are retained.  The
\* keys of a ring are distinct, so there is one at most to leave out.
Rotated(keys, k) ==
    LET previous == RemoveFirst(keys, k)
    IN <<k>> \o SubSeq(previous, 1, IF Len(previous) < Retain THEN Len(previous) ELSE Retain)

\* The deployment swaps the ring in the service.  Sessions opened before keep
\* theirs.
Swap(k) ==
    /\ now - rotated >= Interval
    /\ ring' = Rotated(ring, k)
    /\ rotated' = now
    /\ UNCHANGED <<now, session, cursors>>

Tick ==
    /\ now < MaxTime
    /\ now' = now + 1
    /\ UNCHANGED <<ring, rotated, session, cursors>>

NextCursors ==
    \/ \E p \in Procs :
          \/ OpenSession(p) \/ Send(p) \/ SendStatus(p) \/ Close(p)
          \/ \E c \in cursors : Resume(p, c) \/ RefuseCursor(p, c)
    \/ \E c \in cursors : Forget(c)
    \/ \E k \in Keys : Swap(k)
    \/ Tick

SpecCursors == InitCursors /\ [][NextCursors]_cursorVars

-----------------------------------------------------------------------------
(* Properties. *)

\* Every variable has its type; a ring has at most MAX_KEYS keys, all distinct,
\* or RotatingCursorSigner's constructor would raise in the middle of a
\* rotation.
CursorTypeOK ==
    /\ now \in 0..MaxTime /\ rotated \in 0..now
    /\ ring \in Seq(Keys) /\ Len(ring) \in 1..MaxKeys /\ IsInjective(ring)
    /\ session \in [Procs -> Seq(Keys)] /\ \A p \in Procs : Len(session[p]) <= MaxKeys
    /\ cursors \subseteq [key : Keys, stamp : 0..(MaxTime + Skew), since : 0..now,
                           current : BOOLEAN]

\* A cursor that is not over its age on the clock of a process is accepted
\* there, whichever process issued it and however many rotations came between.
\* A session older than the last rotation may hand out others: it goes on
\* signing with the key that was active when it was opened.
FreshCursorsAccepted ==
    \A c \in cursors, p \in Procs :
        c.current /\ Clock(p) - c.stamp <= MaxAge => Verifies(ring, p, c)

\* No process accepts a cursor for longer than its age limit and the skew,
\* not even when its key is made active again after it was removed.
CursorsExpire ==
    \A c \in cursors, p \in Procs : Verifies(ring, p, c) => now - c.since <= MaxAge + Skew

\* A ring that the constructor accepts, and cursors that come to an end.
RingInv == CursorTypeOK /\ CursorsExpire

=============================================================================
