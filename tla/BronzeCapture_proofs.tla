------------------------- MODULE BronzeCapture_proofs -------------------------
(***************************************************************************)
(* The safety properties of BronzeCapture for any number of processes,     *)
(* requests, crashes, power failures and erasures.                         *)
(***************************************************************************)
EXTENDS BronzeCapture, FiniteSetTheorems, TLAPS

\* The object of a response has the answer's content and is on disk, unless the
\* operator erased it or a put relied on it too early.
Kept(r, answer) == r \in erased \cup relied \/ (r \in synced /\ vault[r] = answer)

\* What is on disk is in the directory.
SyncedIsStored == \A r \in synced : vault[r] # NoObject

\* A put that is about to sync the directory has its object in it.
ObjectBeforeSync ==
    \A p \in Procs : pc[p] = "sync" => Path(p) \in erased \/ vault[Path(p)] = Content(p)

\* A call that is about to append has its object on disk.
ObjectBeforeAppend == \A p \in Procs : pc[p] = "append" => Kept(Path(p), Content(p))

\* So has every evidence event.
EvidenceKept ==
    \A s \in 1..Len(ledger) :
        ledger[s].response # Other => Kept(ledger[s].response, ledger[s].answer)

\* The inductive invariant.
Inv ==
    /\ TypeOK
    /\ SyncedIsStored
    /\ ObjectBeforeSync
    /\ ObjectBeforeAppend
    /\ EvidenceKept
    /\ OneCapture

-----------------------------------------------------------------------------

\* Requests and calls have the parts they are given.
LEMMA Parts ==
  /\ NoCall \in [req : Requests, expected : {0}]
  /\ \A r \in Requests : r.response \in Responses /\ r.answer \in Answers
  /\ \A a \in Answers : a # NoObject
  /\ \A r \in Responses : r # Other
BY BronzeAssumption DEF NoCall, Responses, Answers

\* The path and content of a call are those of a request.
LEMMA CallParts ==
  ASSUME TypeOK, NEW p \in Procs
  PROVE  /\ call[p].req \in Requests /\ call[p].expected \in 0..Len(ledger)
         /\ Path(p) \in Responses /\ Content(p) \in Answers
BY Parts DEF TypeOK, Path, Content

\* The initial state satisfies the invariant.
LEMMA InitInv == Init => Inv
<1> SUFFICES ASSUME Init PROVE Inv
  OBVIOUS
<1> USE DEF Init
<1>1. TypeOK
  BY Parts, BronzeAssumption DEF TypeOK
<1> QED BY <1>1 DEF Inv, SyncedIsStored, ObjectBeforeSync, ObjectBeforeAppend, EvidenceKept, OneCapture

\* What a process does to its program counter and its call.
LEMMA ControlType ==
  ASSUME TypeOK, NEW p \in Procs,
         NEW label \in {"idle", "exists", "compare", "write", "link", "recompare", "sync", "append"}
  PROVE  /\ Goto(p, label) => /\ pc' \in [Procs -> {"idle", "exists", "compare", "write", "link",
                                                    "recompare", "sync", "append"}]
                              /\ pc'[p] = label
                              /\ \A q \in Procs \ {p} : pc'[q] = pc[q]
         /\ End(p) => /\ pc' \in [Procs -> {"idle", "exists", "compare", "write", "link",
                                            "recompare", "sync", "append"}]
                      /\ pc'[p] = "idle"
                      /\ \A q \in Procs \ {p} : pc'[q] = pc[q] /\ call'[q] = call[q]
                      /\ call' \in [Procs -> [req : Requests, expected : 0..Len(ledger)]]
<1>1. NoCall \in [req : Requests, expected : 0..Len(ledger)]
  BY Parts DEF TypeOK
<1> QED BY <1>1 DEF TypeOK, Goto, End

\* Steps on the vault keep the types.
LEMMA VaultStepType ==
  ASSUME TypeOK, NEW p \in Procs,
         \/ CheckExists(p) \/ Compare(p) \/ Write(p) \/ Link(p) \/ Recompare(p) \/ Sync(p)
  PROVE  TypeOK'
<1> USE CallParts, ControlType
<1>1. CASE CheckExists(p)
  BY <1>1 DEF CheckExists, TypeOK
<1>2. CASE Compare(p)
  <2>1. relied' \subseteq Responses /\ UNCHANGED <<vault, synced, temps, ledger, erased, crashes>>
    BY <1>2 DEF Compare, TypeOK
  <2>2. (Goto(p, "append") /\ call' = call) \/ End(p)
    BY <1>2 DEF Compare
  <2> QED BY <2>1, <2>2 DEF TypeOK
<1>3. CASE Write(p)
  BY <1>3 DEF Write, TypeOK
<1>4. CASE Link(p)
  <2>1. vault' \in [Responses -> Answers \cup {NoObject}] /\ synced' \subseteq Responses
    BY <1>4 DEF Link, TypeOK
  <2>2. \/ Goto(p, "sync") \/ Goto(p, "recompare")
    BY <1>4 DEF Link
  <2> QED BY <1>4, <2>1, <2>2 DEF Link, TypeOK
<1>5. CASE Recompare(p)
  <2>1. temps' \subseteq Procs /\ UNCHANGED <<vault, synced, ledger, erased, relied, crashes>>
    BY <1>5 DEF Recompare, TypeOK
  <2>2. (Goto(p, "sync") /\ call' = call) \/ End(p)
    BY <1>5 DEF Recompare
  <2> QED BY <2>1, <2>2 DEF TypeOK
<1>6. CASE Sync(p)
  BY <1>6 DEF Sync, TypeOK
<1> QED BY <1>1, <1>2, <1>3, <1>4, <1>5, <1>6

\* So does a longer ledger.
LEMMA LedgerStepType ==
  ASSUME TypeOK, (\E p \in Procs : AppendEvidence(p)) \/ OtherAppend
  PROVE  TypeOK'
<1>1. /\ UNCHANGED <<vault, synced, temps, erased, relied, crashes>>
      /\ \E e \in Event : ledger' = Append(ledger, e)
      /\ pc' \in [Procs -> {"idle", "exists", "compare", "write", "link", "recompare", "sync", "append"}]
      /\ call' \in [Procs -> [req : Requests, expected : 0..Len(ledger)]]
  <2>1. CASE \E p \in Procs : AppendEvidence(p)
    BY <2>1, CallParts, ControlType DEF AppendEvidence, Event
  <2>2. CASE OtherAppend
    <3>1. Others \in Nat
      <4>1. IsFiniteSet(1..Len(ledger))
        BY FS_Interval DEF TypeOK
      <4>2. IsFiniteSet({s \in 1..Len(ledger) : ledger[s].response = Other})
        BY <4>1, FS_Subset
      <4> QED BY <4>2, FS_CardinalityType DEF Others
    <3> QED BY <2>2, <3>1 DEF OtherAppend, Event, TypeOK
  <2> QED BY <2>1, <2>2
<1>2. ledger' \in Seq(Event) /\ Len(ledger') = Len(ledger) + 1 /\ Len(ledger) \in Nat
  BY <1>1 DEF TypeOK
<1>3. call' \in [Procs -> [req : Requests, expected : 0..Len(ledger')]]
  BY <1>1, <1>2
<1> QED BY <1>1, <1>2, <1>3 DEF TypeOK

\* Every step keeps the types.
LEMMA TypeStep == ASSUME TypeOK, [Next]_vars PROVE TypeOK'
<1>1. ASSUME NEW p \in Procs, NEW req \in Requests, NEW expected \in 0..Len(ledger),
             Begin(p, req, expected)
      PROVE  TypeOK'
  BY <1>1, ControlType DEF Begin, TypeOK
<1>2. ASSUME NEW p \in Procs, AppendNothing(p) PROVE TypeOK'
  BY <1>2, ControlType DEF AppendNothing, TypeOK
<1>3. ASSUME NEW p \in Procs, Crash(p) PROVE TypeOK'
  <2>1. crashes' \in 0..MaxCrashes
    BY <1>3, BronzeAssumption DEF Crash, TypeOK
  <2> QED BY <1>3, <2>1, ControlType DEF Crash, TypeOK
<1>4. ASSUME NEW r \in Responses, Erase(r) PROVE TypeOK'
  BY <1>4 DEF Erase, TypeOK
<1>5. CASE PowerFailure
  <2>1. crashes' \in 0..MaxCrashes
    BY <1>5, BronzeAssumption DEF PowerFailure, TypeOK
  <2>2. NoCall \in [req : Requests, expected : 0..Len(ledger)]
    BY Parts DEF TypeOK
  <2> QED BY <1>5, <2>1, <2>2 DEF PowerFailure, TypeOK
<1>6. CASE WriteBack
  BY <1>6 DEF WriteBack, TypeOK
<1>7. CASE UNCHANGED vars
  BY <1>7 DEF vars, TypeOK
<1> QED BY <1>1, <1>2, <1>3, <1>4, <1>5, <1>6, <1>7, VaultStepType, LedgerStepType DEF Next, Step

\* What happens to the objects: on disk they stay as they are, unless erased.
LEMMA StoreStep ==
  ASSUME TypeOK, SyncedIsStored, [Next]_vars
  PROVE  /\ SyncedIsStored'
         /\ erased \subseteq erased' /\ relied \subseteq relied'
         /\ \A r \in synced : r \in erased' \/ (r \in synced' /\ vault'[r] = vault[r])
<1> USE DEF SyncedIsStored
<1>1. ASSUME NEW p \in Procs, Compare(p)
      PROVE  UNCHANGED <<vault, synced, erased>> /\ relied \subseteq relied'
  BY <1>1 DEF Compare
<1>2. ASSUME NEW p \in Procs, Link(p)
      PROVE  /\ UNCHANGED <<erased, relied>>
             /\ \A r \in synced' : vault'[r] # NoObject
             /\ \A r \in synced : r \in synced' /\ vault'[r] = vault[r]
  <2>1. CASE vault[Path(p)] = NoObject
    BY <1>2, <2>1 DEF Link, TypeOK
  <2>2. CASE vault[Path(p)] # NoObject
    BY <1>2, <2>2 DEF Link
  <2> QED BY <2>1, <2>2
<1>3. ASSUME NEW p \in Procs, Sync(p)
      PROVE  /\ UNCHANGED <<vault, erased, relied>>
             /\ synced' = {r \in Responses : vault[r] # NoObject} /\ synced \subseteq synced'
  BY <1>3 DEF Sync, TypeOK
<1>4. ASSUME NEW q \in Responses, Erase(q)
      PROVE  /\ UNCHANGED relied /\ erased' = erased \cup {q}
             /\ synced' = synced \ {q} /\ \A r \in Responses \ {q} : vault'[r] = vault[r]
  BY <1>4 DEF Erase, TypeOK
<1>5. CASE PowerFailure
  BY <1>5 DEF PowerFailure, TypeOK
<1>6. ASSUME \/ UNCHANGED vars \/ OtherAppend
             \/ \E p \in Procs :
                   \/ \E req \in Requests, expected \in 0..Len(ledger) : Begin(p, req, expected)
                   \/ CheckExists(p) \/ Write(p) \/ Recompare(p)
                   \/ AppendEvidence(p) \/ AppendNothing(p) \/ Crash(p)
      PROVE  UNCHANGED <<vault, synced, erased, relied>>
  BY <1>6 DEF vars, OtherAppend, Begin, CheckExists, Write, Recompare, AppendEvidence, AppendNothing, Crash
<1>7. ASSUME WriteBack
      PROVE  /\ UNCHANGED <<vault, erased, relied>>
             /\ synced' = {r \in Responses : vault[r] # NoObject} /\ synced \subseteq synced'
  BY <1>7 DEF WriteBack, TypeOK
<1>8. synced \subseteq Responses
  BY DEF TypeOK
<1>9. CASE \E p \in Procs : Compare(p)
  BY <1>1, <1>9
<1>10. CASE \E p \in Procs : Link(p)
  BY <1>2, <1>10
<1>11. CASE \E p \in Procs : Sync(p)
  BY <1>3, <1>11
<1>12. CASE \E r \in Responses : Erase(r)
  BY <1>4, <1>8, <1>12
<1>13. CASE WriteBack
  BY <1>7, <1>13
<1> QED BY <1>5, <1>6, <1>9, <1>10, <1>11, <1>12, <1>13 DEF Next, Step

\* A kept object stays kept.
LEMMA KeptStep ==
  ASSUME TypeOK, SyncedIsStored, [Next]_vars, NEW r, NEW answer, Kept(r, answer)
  PROVE  Kept(r, answer)'
BY StoreStep DEF Kept

\* Unless the power fails, an object in the directory stays there, too.
LEMMA ObjectStep ==
  ASSUME TypeOK, [Next]_vars, ~PowerFailure, NEW r \in Responses, vault[r] # NoObject
  PROVE  r \in erased' \/ vault'[r] = vault[r]
<1>1. ASSUME NEW p \in Procs, Link(p) PROVE vault'[r] = vault[r]
  BY <1>1 DEF Link, TypeOK
<1>2. ASSUME NEW q \in Responses, Erase(q) PROVE r \in erased' \/ vault'[r] = vault[r]
  BY <1>2 DEF Erase, TypeOK
<1>3. ASSUME \/ UNCHANGED vars \/ OtherAppend \/ WriteBack
             \/ \E p \in Procs :
                   \/ \E req \in Requests, expected \in 0..Len(ledger) : Begin(p, req, expected)
                   \/ CheckExists(p) \/ Compare(p) \/ Write(p) \/ Recompare(p) \/ Sync(p)
                   \/ AppendEvidence(p) \/ AppendNothing(p) \/ Crash(p)
      PROVE  UNCHANGED vault
  BY <1>3 DEF vars, OtherAppend, WriteBack, Begin, CheckExists, Compare, Write, Recompare, Sync,
              AppendEvidence, AppendNothing, Crash
<1> QED BY <1>1, <1>2, <1>3 DEF Next, Step

\* How a process gets to the sync of the directory and to the append.
LEMMA ControlStep ==
  ASSUME TypeOK, [Next]_vars, NEW q \in Procs, pc'[q] \in {"sync", "append"}
  PROVE  /\ call'[q] = call[q] /\ ~PowerFailure
         /\ \/ pc'[q] = pc[q]
            \/ pc'[q] = "sync" /\ Link(q) /\ vault[Path(q)] = NoObject
            \/ pc'[q] = "sync" /\ Recompare(q) /\ vault[Path(q)] = Content(q)
            \/ pc'[q] = "append" /\ Compare(q) /\ vault[Path(q)] = Content(q)
            \/ pc'[q] = "append" /\ Sync(q)
<1> DEFINE Result == /\ call'[q] = call[q]
                     /\ \/ pc'[q] = pc[q]
                        \/ pc'[q] = "sync" /\ Link(q) /\ vault[Path(q)] = NoObject
                        \/ pc'[q] = "sync" /\ Recompare(q) /\ vault[Path(q)] = Content(q)
                        \/ pc'[q] = "append" /\ Compare(q) /\ vault[Path(q)] = Content(q)
                        \/ pc'[q] = "append" /\ Sync(q)
<1>1. ~PowerFailure
  BY DEF PowerFailure
<1>2. ASSUME NEW p \in Procs, NEW req \in Requests, NEW expected \in 0..Len(ledger),
             Begin(p, req, expected)
      PROVE  Result
  BY <1>2 DEF Begin, Goto, TypeOK
<1>3. ASSUME NEW p \in Procs, CheckExists(p) PROVE Result
  BY <1>3 DEF CheckExists, Goto, TypeOK
<1>4. ASSUME NEW p \in Procs, Compare(p) PROVE Result
  <2>1. CASE vault[Path(p)] = Content(p)
    BY <1>4, <2>1 DEF Compare, Goto, TypeOK
  <2>2. CASE vault[Path(p)] # Content(p)
    BY <1>4, <2>2 DEF Compare, End, Goto, TypeOK
  <2> QED BY <2>1, <2>2
<1>5. ASSUME NEW p \in Procs, Write(p) PROVE Result
  BY <1>5 DEF Write, Goto, TypeOK
<1>6. ASSUME NEW p \in Procs, Link(p) PROVE Result
  <2>1. CASE vault[Path(p)] = NoObject
    BY <1>6, <2>1 DEF Link, Goto, TypeOK
  <2>2. CASE vault[Path(p)] # NoObject
    BY <1>6, <2>2 DEF Link, Goto, TypeOK
  <2> QED BY <2>1, <2>2
<1>7. ASSUME NEW p \in Procs, Recompare(p) PROVE Result
  <2>1. CASE vault[Path(p)] = Content(p)
    BY <1>7, <2>1 DEF Recompare, Goto, TypeOK
  <2>2. CASE vault[Path(p)] # Content(p)
    BY <1>7, <2>2 DEF Recompare, End, Goto, TypeOK
  <2> QED BY <2>1, <2>2
<1>8. ASSUME NEW p \in Procs, Sync(p) PROVE Result
  BY <1>8 DEF Sync, Goto, TypeOK
<1>9. ASSUME NEW p \in Procs, AppendEvidence(p) \/ AppendNothing(p) \/ Crash(p) PROVE Result
  BY <1>9 DEF AppendEvidence, AppendNothing, Crash, End, Goto, TypeOK
<1>10. ASSUME UNCHANGED vars \/ OtherAppend \/ WriteBack \/ \E r \in Responses : Erase(r) PROVE Result
  BY <1>10 DEF vars, OtherAppend, WriteBack, Erase
<1> QED BY <1>1, <1>2, <1>3, <1>4, <1>5, <1>6, <1>7, <1>8, <1>9, <1>10 DEF Next, Step

\* A put has its object in the directory when it syncs it.
LEMMA SyncStep == ASSUME Inv, [Next]_vars PROVE ObjectBeforeSync'
<1> SUFFICES ASSUME NEW q \in Procs, pc'[q] = "sync"
             PROVE  Path(q)' \in erased' \/ vault'[Path(q)'] = Content(q)'
  BY DEF ObjectBeforeSync
<1> USE DEF Inv
<1>1. Path(q)' = Path(q) /\ Content(q)' = Content(q)
  BY ControlStep DEF Path, Content
<1>2. Path(q) \in Responses /\ Content(q) # NoObject
  BY CallParts, Parts
<1>3. CASE pc[q] = "sync"
  <2>1. Path(q) \in erased \/ vault[Path(q)] = Content(q)
    BY <1>3 DEF ObjectBeforeSync
  <2> QED BY <1>1, <1>2, <2>1, ControlStep, ObjectStep, StoreStep
<1>4. CASE Link(q) /\ vault[Path(q)] = NoObject
  BY <1>1, <1>2, <1>4 DEF Link, TypeOK
<1>5. CASE Recompare(q) /\ vault[Path(q)] = Content(q)
  BY <1>1, <1>5 DEF Recompare
<1> QED BY <1>3, <1>4, <1>5, ControlStep

\* A call has its object on disk when it appends.
LEMMA AppendStep == ASSUME Inv, [Next]_vars PROVE ObjectBeforeAppend'
<1> SUFFICES ASSUME NEW q \in Procs, pc'[q] = "append"
             PROVE  /\ Path(q)' = Path(q) /\ Content(q)' = Content(q)
                    /\ Kept(Path(q), Content(q))'
  BY DEF ObjectBeforeAppend, Path, Content, Kept
<1> USE DEF Inv
<1>1. Path(q)' = Path(q) /\ Content(q)' = Content(q)
  BY ControlStep DEF Path, Content
<1>2. Path(q) \in Responses /\ Content(q) # NoObject
  BY CallParts, Parts
<1>3. CASE pc[q] = "append"
  <2>1. Kept(Path(q), Content(q))
    BY <1>3 DEF ObjectBeforeAppend
  <2>2. PICK r, a : r = Path(q) /\ a = Content(q)
    OBVIOUS
  <2>3. Kept(r, a)'
    BY <2>1, <2>2, KeptStep
  <2> QED BY <1>1, <2>2, <2>3 DEF Kept
<1>4. CASE Compare(q) /\ vault[Path(q)] = Content(q)
  BY <1>1, <1>4 DEF Compare, Kept
<1>5. CASE Sync(q)
  <2>1. Path(q) \in erased \/ vault[Path(q)] = Content(q)
    BY <1>5 DEF Sync, ObjectBeforeSync
  <2> QED BY <1>1, <1>2, <1>5, <2>1 DEF Sync, Kept
<1> QED BY <1>1, <1>3, <1>4, <1>5, ControlStep

\* Only a captured response and another caller's event make the ledger longer.
LEMMA LedgerStep ==
  ASSUME TypeOK, [Next]_vars
  PROVE  \/ UNCHANGED ledger
         \/ \E p \in Procs : AppendEvidence(p)
         \/ OtherAppend
BY DEF Next, Step, vars, Begin, CheckExists, Compare, Write, Link, Recompare, Sync, AppendNothing,
       Crash, Erase, PowerFailure, WriteBack

\* The ledger names kept objects only, each response once.
LEMMA EvidenceStep == ASSUME Inv, [Next]_vars PROVE EvidenceKept' /\ OneCapture'
<1> USE DEF Inv
<1>1. ASSUME NEW s \in 1..Len(ledger), ledger[s].response # Other
      PROVE  Kept(ledger[s].response, ledger[s].answer)'
             \/ ledger'[s] # ledger[s]
  <2>1. Kept(ledger[s].response, ledger[s].answer)
    BY <1>1 DEF EvidenceKept
  <2>2. PICK r, a : r = ledger[s].response /\ a = ledger[s].answer
    OBVIOUS
  <2>3. Kept(r, a)'
    BY <2>1, <2>2, KeptStep
  <2> QED BY <2>2, <2>3 DEF Kept
<1>2. CASE UNCHANGED ledger
  BY <1>1, <1>2 DEF EvidenceKept, OneCapture, Kept
<1>3. ASSUME NEW p \in Procs, AppendEvidence(p) PROVE EvidenceKept' /\ OneCapture'
  <2> DEFINE n == Len(ledger) + 1
  <2>1. /\ Len(ledger) \in Nat /\ Len(ledger') = n
        /\ \A s \in 1..Len(ledger) : ledger'[s] = ledger[s]
        /\ ledger'[n].response = Path(p) /\ ledger'[n].answer = Content(p)
    BY <1>3 DEF AppendEvidence, TypeOK, Path, Content
  <2>2. \A s \in 1..Len(ledger') : s \in 1..Len(ledger) \/ s = n
    BY <2>1
  <2>3. Kept(Path(p), Content(p)) /\ UNCHANGED <<vault, synced, erased, relied>>
    BY <1>3 DEF AppendEvidence, ObjectBeforeAppend
  <2>4. \A s \in 1..Len(ledger) : ledger[s].response # Path(p)
    <3>1. Path(p) \notin Captured /\ Path(p) # Other
      BY <1>3, CallParts, Parts DEF AppendEvidence, Acceptable
    <3> QED BY <3>1 DEF Captured
  <2> HIDE DEF n
  <2>5. EvidenceKept'
    BY <1>1, <2>1, <2>2, <2>3 DEF EvidenceKept, Kept
  <2>6. OneCapture'
    BY <2>1, <2>2, <2>4 DEF OneCapture
  <2> QED BY <2>5, <2>6
<1>4. ASSUME OtherAppend PROVE EvidenceKept' /\ OneCapture'
  <2> DEFINE n == Len(ledger) + 1
  <2>1. /\ Len(ledger) \in Nat /\ Len(ledger') = n
        /\ \A s \in 1..Len(ledger) : ledger'[s] = ledger[s]
        /\ ledger'[n].response = Other
    BY <1>4 DEF OtherAppend, TypeOK
  <2>2. \A s \in 1..Len(ledger') : s \in 1..Len(ledger) \/ s = n
    BY <2>1
  <2> HIDE DEF n
  <2>3. EvidenceKept'
    BY <1>1, <1>4, <2>1, <2>2 DEF EvidenceKept, Kept, OtherAppend
  <2>4. OneCapture'
    BY <2>1, <2>2 DEF OneCapture
  <2> QED BY <2>3, <2>4
<1> QED BY <1>2, <1>3, <1>4, LedgerStep

\* Every step preserves the invariant.
LEMMA NextInv == Inv /\ [Next]_vars => Inv'
<1> SUFFICES ASSUME Inv, [Next]_vars PROVE Inv'
  OBVIOUS
<1>1. TypeOK' /\ SyncedIsStored'
  BY TypeStep, StoreStep DEF Inv
<1> QED BY <1>1, SyncStep, AppendStep, EvidenceStep DEF Inv

\* The invariant holds in every reachable state.
LEMMA Invariance == Spec => []Inv
BY InitInv, NextInv, PTL DEF Spec

-----------------------------------------------------------------------------
(* Theorems. *)

\* Evidence has its object in the vault, over any number of crashes and power
\* failures at any point of put and append, but for objects the operator
\* erased or a put relied on before they were on disk.
THEOREM EvidenceStored == Spec => []EvidenceHasObject
<1>1. Inv => EvidenceHasObject
  BY DEF Inv, EvidenceKept, Kept, EvidenceHasObject
<1> QED BY <1>1, Invariance, PTL

\* Types, and at most one answer to a response becomes evidence, however many
\* processes are sent how many answers.
THEOREM CaptureSound == Spec => []CaptureInv
<1>1. Inv => CaptureInv
  BY DEF Inv, CaptureInv
<1> QED BY <1>1, Invariance, PTL
=============================================================================
