----------------------------- MODULE BronzeCapture -----------------------------
(***************************************************************************)
(* The capture of elicitation responses: record_elicitation_response puts  *)
(* the answer into EncryptedFileBronzeVault and then appends the evidence  *)
(* event that names the object.  The vault and the ledger share no         *)
(* transaction; several processes work on the same vault directory and the *)
(* same ledger, clients send a response again, and a process, or the whole *)
(* machine, may stop at any point.                                         *)
(*                                                                         *)
(* The object's path follows from the response id alone, the evidence's    *)
(* identity too.  An object is its content, standing for content, media    *)
(* type and metadata, and for the hash the ledger records.  SQLite commits *)
(* with synchronous = FULL, so the ledger survives a power failure; a      *)
(* directory entry does once the directory was synced, by fsync or by the  *)
(* system's write-back.                                                    *)
(***************************************************************************)
EXTENDS Integers, Sequences, FiniteSets

CONSTANTS
    Procs,          \* service processes
    Requests,       \* what clients send: records [key, response, answer]
    NoObject,       \* there is no object at the path
    Other,          \* the response of an event that is not a captured response
    MaxOthers,      \* bound: events appended by other callers
    MaxCrashes,     \* bound: processes that die, and power failures
    MaxErasures     \* bound: objects deleted by the operator

Responses == {r.response : r \in Requests}
Answers == {r.answer : r \in Requests}

ASSUME BronzeAssumption ==
    /\ Requests # {}
    /\ \A r \in Requests : r = [key |-> r.key, response |-> r.response, answer |-> r.answer]
    /\ NoObject \notin Answers /\ Other \notin Responses
    /\ {MaxOthers, MaxCrashes, MaxErasures} \subseteq Nat

VARIABLES
    vault,       \* the object at the path of each response
    synced,      \* responses whose directory entry is on disk
    temps,       \* temporary files: the processes that left or use one
    ledger,      \* the events: the request each records
    pc, call,    \* the call each process runs
    erased,      \* history: responses whose object was deleted
    relied,      \* history: responses whose object a put took for stored before
                 \* its directory entry was on disk
    crashes

vars == <<vault, synced, temps, ledger, pc, call, erased, relied, crashes>>

NoCall == [req |-> CHOOSE r \in Requests : TRUE, expected |-> 0]

Init ==
    /\ vault = [r \in Responses |-> NoObject]
    /\ synced = {} /\ temps = {}
    /\ ledger = <<>>
    /\ pc = [p \in Procs |-> "idle"]
    /\ call = [p \in Procs |-> NoCall]
    /\ erased = {} /\ relied = {}
    /\ crashes = 0

Goto(p, label) == pc' = [pc EXCEPT ![p] = label]

\* The call raises or returns.
End(p) == Goto(p, "idle") /\ call' = [call EXCEPT ![p] = NoCall]

Path(p) == call[p].req.response
Content(p) == call[p].req.answer

-----------------------------------------------------------------------------
(* EncryptedFileBronzeVault.put *)

\* The plan is verified and the subject checked; put begins.
Begin(p, req, expected) ==
    /\ pc[p] = "idle"
    /\ expected <= Len(ledger)
    /\ call' = [call EXCEPT ![p] = [req |-> req, expected |-> expected]]
    /\ Goto(p, "exists")
    /\ UNCHANGED <<vault, synced, temps, ledger, erased, relied, crashes>>

\* path.exists()
CheckExists(p) ==
    /\ pc[p] = "exists"
    /\ Goto(p, IF vault[Path(p)] = NoObject THEN "write" ELSE "compare")
    /\ UNCHANGED <<vault, synced, temps, ledger, call, erased, relied, crashes>>

\* Mutation: an object that is there already is an error.
CompareNone(p) ==
    /\ pc[p] = "compare"
    /\ End(p)
    /\ UNCHANGED <<vault, synced, temps, ledger, erased, relied, crashes>>

\* The object there must be the same.  It may be gone again: NotFound.  The
\* directory is not synced.
Compare(p) ==
    /\ pc[p] = "compare"
    /\ IF vault[Path(p)] = Content(p)
         THEN /\ Goto(p, "append")
              /\ relied' = relied \cup ({Path(p)} \ synced)
              /\ UNCHANGED call
         ELSE End(p) /\ UNCHANGED relied
    /\ UNCHANGED <<vault, synced, temps, ledger, erased, crashes>>

\* Write and fsync the temporary file.
Write(p) ==
    /\ pc[p] = "write"
    /\ temps' = temps \cup {p}
    /\ Goto(p, "link")
    /\ UNCHANGED <<vault, synced, ledger, call, erased, relied, crashes>>

\* Mutation: the temporary file is renamed over what is there.
LinkOver(p) ==
    /\ pc[p] = "link"
    /\ vault' = [vault EXCEPT ![Path(p)] = Content(p)]
    /\ synced' = synced \ {Path(p)}
    /\ Goto(p, "sync")
    /\ UNCHANGED <<temps, ledger, call, erased, relied, crashes>>

\* os.link creates the path or raises FileExistsError.
Link(p) ==
    /\ pc[p] = "link"
    /\ IF vault[Path(p)] = NoObject
         THEN /\ vault' = [vault EXCEPT ![Path(p)] = Content(p)]
              /\ synced' = synced \ {Path(p)}
              /\ Goto(p, "sync")
         ELSE Goto(p, "recompare") /\ UNCHANGED <<vault, synced>>
    /\ UNCHANGED <<temps, ledger, call, erased, relied, crashes>>

\* Another process was first: its object must be the same.  The temporary
\* file goes in any case.
Recompare(p) ==
    /\ pc[p] = "recompare"
    /\ IF vault[Path(p)] = Content(p)
         THEN Goto(p, "sync") /\ UNCHANGED <<call, temps>>
         ELSE End(p) /\ temps' = temps \ {p}
    /\ UNCHANGED <<vault, synced, ledger, erased, relied, crashes>>

\* _fsync_directory, then unlink the temporary file.
Sync(p) ==
    /\ pc[p] = "sync"
    /\ synced' = {r \in Responses : vault[r] # NoObject}
    /\ temps' = temps \ {p}
    /\ Goto(p, "append")
    /\ UNCHANGED <<vault, ledger, call, erased, relied, crashes>>

-----------------------------------------------------------------------------
(* DigitalTwinService.append; its inner steps are module TwinService. *)

StoredKeys == {ledger[s].key : s \in {t \in 1..Len(ledger) : ledger[t].response # Other}}
Captured == {ledger[s].response : s \in 1..Len(ledger)} \ {Other}

\* Mutation: the transition is not previewed.
AcceptableByKey(p) ==
    /\ Len(ledger) = call[p].expected
    /\ call[p].req.key \notin StoredKeys

Acceptable(p) ==
    /\ Len(ledger) = call[p].expected
    /\ call[p].req.key \notin StoredKeys
    /\ Path(p) \notin Captured

\* The evidence event is committed.
AppendEvidence(p) ==
    /\ pc[p] = "append"
    /\ Acceptable(p)
    /\ ledger' = Append(ledger, call[p].req)
    /\ End(p)
    /\ UNCHANGED <<vault, synced, temps, erased, relied, crashes>>

\* The original event is returned, or the append is refused: the head is
\* elsewhere, the key was used otherwise, the evidence exists.
AppendNothing(p) ==
    /\ pc[p] = "append"
    /\ ~Acceptable(p)
    /\ End(p)
    /\ UNCHANGED <<vault, synced, temps, ledger, erased, relied, crashes>>

-----------------------------------------------------------------------------
(* Surroundings *)

Others == Cardinality({s \in 1..Len(ledger) : ledger[s].response = Other})

OtherAppend ==
    /\ Others < MaxOthers
    /\ ledger' = Append(ledger, [key |-> Others + 1, response |-> Other, answer |-> NoObject])
    /\ UNCHANGED <<vault, synced, temps, pc, call, erased, relied, crashes>>

\* EncryptedFileBronzeVault.delete, by the operator.
Erase(r) ==
    /\ Cardinality(erased) < MaxErasures
    /\ vault[r] # NoObject
    /\ vault' = [vault EXCEPT ![r] = NoObject]
    /\ erased' = erased \cup {r}
    /\ synced' = synced \ {r}
    /\ UNCHANGED <<temps, ledger, pc, call, relied, crashes>>

\* A process dies and leaves its temporary file.
Crash(p) ==
    /\ pc[p] # "idle"
    /\ crashes < MaxCrashes
    /\ crashes' = crashes + 1
    /\ End(p)
    /\ UNCHANGED <<vault, synced, temps, ledger, erased, relied>>

\* The machine loses power: directory entries that were not synced are lost.
PowerFailure ==
    /\ crashes < MaxCrashes
    /\ crashes' = crashes + 1
    /\ vault' = [r \in Responses |-> IF r \in synced THEN vault[r] ELSE NoObject]
    /\ pc' = [p \in Procs |-> "idle"]
    /\ call' = [p \in Procs |-> NoCall]
    /\ UNCHANGED <<synced, temps, ledger, erased, relied>>

WriteBack ==
    /\ synced' = {r \in Responses : vault[r] # NoObject}
    /\ UNCHANGED <<vault, temps, ledger, pc, call, erased, relied, crashes>>

Step(p) ==
    \/ CheckExists(p) \/ Compare(p) \/ Write(p) \/ Link(p) \/ Recompare(p) \/ Sync(p)
    \/ AppendEvidence(p) \/ AppendNothing(p)

Next ==
    \/ \E p \in Procs :
          \/ \E req \in Requests, expected \in 0..Len(ledger) : Begin(p, req, expected)
          \/ Step(p) \/ Crash(p)
    \/ \E r \in Responses : Erase(r)
    \/ OtherAppend \/ PowerFailure \/ WriteBack

Spec == Init /\ [][Next]_vars

\* Calls run on; a client sends its response again until it is captured, with
\* the head it is told of.
Fairness ==
    /\ \A p \in Procs : WF_vars(Step(p))
    /\ \A p \in Procs, req \in Requests : SF_vars(Begin(p, req, Len(ledger)))

FairSpec == Spec /\ Fairness

-----------------------------------------------------------------------------
(* Properties. *)

Event == Requests \cup [key : Nat, response : {Other}, answer : {NoObject}]

\* Every variable has its type.
TypeOK ==
    /\ vault \in [Responses -> Answers \cup {NoObject}]
    /\ synced \subseteq Responses /\ temps \subseteq Procs
    /\ ledger \in Seq(Event)
    /\ pc \in [Procs -> {"idle", "exists", "compare", "write", "link", "recompare", "sync", "append"}]
    /\ call \in [Procs -> [req : Requests, expected : 0..Len(ledger)]]
    /\ erased \subseteq Responses /\ relied \subseteq Responses /\ crashes \in 0..MaxCrashes

\* Evidence in the ledger names an object that is in the vault with the content
\* recorded, over crashes and power failures: the object is stored before the
\* ledger commits, and never changes after.  Only the operator's deletion ends
\* this, or a power failure after a put that found the object and did not wait
\* for its directory entry.
EvidenceHasObject ==
    \A s \in 1..Len(ledger) :
        LET e == ledger[s] IN
        e.response \notin {Other} \cup erased \cup relied => vault[e.response] = e.answer

\* Of the answers sent under one response id, at most one becomes evidence.
OneCapture ==
    \A s, t \in 1..Len(ledger) :
        ledger[s].response = ledger[t].response /\ ledger[s].response # Other => s = t

\* Types, and one capture of each response.
CaptureInv == TypeOK /\ OneCapture

\* A response is captured in the end, although processes die between the steps
\* and others append in between: what a failed attempt left in the vault does
\* not stand in the way.
EventuallyCaptured == <>(Responses \subseteq Captured)

=============================================================================
