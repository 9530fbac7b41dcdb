---------------------------- MODULE OutcomeProofs ----------------------------
(***************************************************************************)
(* What an operator of Doctor can count on when a run is over, well or     *)
(* not: the audit file, the access reviews before the first action, what    *)
(* an exit code of 0 says of the target, why each action was taken, and    *)
(* that with nobody in the way a token does what it stands for.            *)
(***************************************************************************)
EXTENDS DoctorHistory, RefinementProofs

-----------------------------------------------------------------------------
(* The audit file *)

(* What is recorded is a beginning of the plan's order and what is in the file   *)
(* a beginning of what is recorded; without a failed call neither lacks a thing. *)
Filed(r) ==
    /\ \A a \in audit[r], b \in plan[r] \ audit[r] : Rank(a) <= Rank(b)
    /\ logged[r] \subseteq audit[r]
    /\ \A a \in logged[r], b \in audit[r] \ logged[r] : Rank(a) <= Rank(b)
    /\ pc[r] # "done" => logged[r] = {}
    /\ faults = 0 => audit[r] = applied[r]
    /\ pc[r] = "done" /\ opt[r].audits /\ faults = 0 => logged[r] = audit[r]

FiledInv == OrderInv /\ \A r \in Runs : Filed(r)

(* A failed call is never forgotten, and a step writes no file but its own.      *)
LEMMA FaultsGrow ==
    ASSUME TypeOK, [Next]_vars, faults' = 0 PROVE faults = 0
<1>1. ASSUME NEW r \in Runs, Start(r) \/ Step(r) \/ Prompt(r) \/ Crash(r)
      PROVE  faults' = faults \/ CallFails
    <2>1. CASE Start(r) \/ Resolve(r) \/ Preflight(r) \/ Check(r) \/ ReadTarget(r) \/ ReadSource(r)
        BY <2>1 DEF Start, Resolve, Preflight, Check, ReadTarget, ReadSource
    <2>2. CASE Report(r) \/ PassGate(r) \/ ScanOrphans(r) \/ Reverify(r) \/ Pin(r) \/ Refetch(r)
        BY <2>2 DEF Report, PassGate, ScanOrphans, Reverify, Pin, Refetch
    <2>3. CASE Mutate(r) \/ MutateUnanswered(r) \/ MutateFails(r) \/ AppendAudit(r)
        BY <2>3 DEF Mutate, MutateUnanswered, MutateFails, AppendAudit
    <2>4. CASE Prompt(r) \/ Crash(r)
        BY <2>4 DEF Prompt, Crash
    <2>5. QED
        BY <1>1, <2>1, <2>2, <2>3, <2>4 DEF Step
<1>2. faults' = faults \/ CallFails
    BY <1>1 DEF Next, vars
<1>3. QED
    BY <1>2 DEF CallFails, TypeOK

LEMMA LoggedSame ==
    ASSUME TypeOK, NEW r \in Runs, Start(r) \/ Step(r) \/ Prompt(r) \/ Crash(r), NEW q \in Runs \ {r}
    PROVE  logged'[q] = logged[q]
<1>1. CASE UNCHANGED logged
    BY <1>1
<1>2. CASE AppendAudit(r)
    <2>1. PICK written : logged' = [logged EXCEPT ![r] = written]
        BY <1>2 DEF AppendAudit
    <2>2. QED
        BY <2>1 DEF TypeOK
<1>3. QED
    BY <1>1, <1>2 DEF Step, Start, Resolve, Preflight, Check, ReadTarget, ReadSource, Report, PassGate,
           ScanOrphans, Reverify, Pin, Refetch, Mutate, MutateUnanswered, MutateFails, Prompt, Crash

(* A pass that ends for good ends at the audit file, unless it has none to write. *)
LEMMA LeaveKeepsFiled ==
    ASSUME ConsentInv, NEW r \in Runs, Filed(r), NEW code \in {0, 1, 2, 3}, Leave(r, code),
           pc[r] # "done", UNCHANGED <<opt, plan, gate, audit, applied, logged>>,
           faults' = 0 => faults = 0
    PROVE  Filed(r)'
<1>1. TypeOK
    BY DEF ConsentInv, TypedInv
<1>2. pc'[r] = "done" => gate[r] = Nothing \/ ~opt[r].audits
    BY <1>1, LabelsListed DEF Leave, TypeOK
<1>3. gate[r] = Nothing => audit[r] = {}
    BY DEF ConsentInv, Local, Books
<1>4. QED
    BY <1>2, <1>3 DEF Filed

(* Any other step that carries nothing out.                                      *)
LEMMA QuietKeepsFiled ==
    ASSUME NEW r \in Runs, Filed(r), pc[r] # "done", pc'[r] # "done",
           plan'[r] = plan[r], audit'[r] = audit[r], applied'[r] = applied[r], logged'[r] = logged[r],
           faults' = 0 => faults = 0
    PROVE  Filed(r)'
    BY DEF Filed

LEMMA MutateKeepsFiled ==
    ASSUME OrderInv, NEW r \in Runs, Filed(r), Mutate(r)
    PROVE  Filed(r)'
<1> DEFINE a == pin[r].action
<1>0. TypeOK
    BY DEF OrderInv, ConsentInv, TypedInv
<1>1. pin[r] # Nothing /\ audit[r] = applied[r] /\ gate[r] # Nothing /\ Ordered(r)
    BY DEF OrderInv, ConsentInv, TypedInv, Pinned, Gated, Local, Books, Mutate
<1>2. /\ audit'[r] = audit[r] \union {a} /\ applied'[r] = applied[r] \union {a}
      /\ plan'[r] = plan[r] /\ logged'[r] = logged[r] /\ opt'[r] = opt[r] /\ faults' = faults
      /\ logged[r] = {}
    BY <1>0 DEF Mutate, TypeOK, Filed
<1>3. \A b \in plan[r] \ audit[r] : Rank(a) <= Rank(b)
    BY <1>1 DEF Ordered
<1>4. pc'[r] = "done" => ~opt[r].audits
    <2>1. CASE Leave(r, 0)
        BY <1>0, <1>1, <2>1, LabelsListed DEF Leave, TypeOK
    <2>2. CASE Goto(r, "target")
        BY <1>0, <2>2, GotoMoves, LabelsListed
    <2>3. QED
        BY <2>1, <2>2 DEF Mutate
<1>5. QED
    BY <1>1, <1>2, <1>3, <1>4 DEF Filed

LEMMA AppendKeepsFiled ==
    ASSUME ConsentInv, NEW r \in Runs, Filed(r), AppendAudit(r)
    PROVE  Filed(r)'
<1>0. TypeOK
    BY DEF ConsentInv, TypedInv
<1>1. pc'[r] = "done" /\ plan'[r] = plan[r] /\ audit'[r] = audit[r] /\ applied'[r] = applied[r]
    BY <1>0, GotoMoves, LabelsListed DEF AppendAudit
<1>2. CASE logged' = [logged EXCEPT ![r] = audit[r]] /\ UNCHANGED faults
    <2>1. logged'[r] = audit[r] /\ faults' = faults
        BY <1>0, <1>2 DEF TypeOK
    <2>2. QED
        BY <1>1, <2>1 DEF Filed
<1>3. ASSUME CallFails, NEW written \in SUBSET audit[r],
             \A a \in written, b \in audit[r] \ written : Rank(a) <= Rank(b),
             logged' = [logged EXCEPT ![r] = written]
      PROVE  Filed(r)'
    <2>1. faults' # 0
        BY <1>0, <1>3 DEF CallFails, TypeOK
    <2>2. logged'[r] = written
        BY <1>0, <1>3 DEF TypeOK
    <2>3. QED
        BY <1>1, <1>3, <2>1, <2>2 DEF Filed
<1>4. QED
    BY <1>2, <1>3 DEF AppendAudit

LEMMA ActorKeepsFiled ==
    ASSUME OrderInv, NEW r \in Runs, Filed(r), Start(r) \/ Step(r) \/ Prompt(r) \/ Crash(r),
           faults' = 0 => faults = 0
    PROVE  Filed(r)'
<1>0. TypeOK /\ ConsentInv
    BY DEF OrderInv, ConsentInv, TypedInv
<1> DEFINE Idle == UNCHANGED <<opt, plan, gate, audit, applied, logged>>
<1>1. ASSUME pc[r] # "done", Idle, \E code \in {0, 1, 2, 3} : Leave(r, code) PROVE Filed(r)'
    BY <1>0, <1>1, LeaveKeepsFiled
<1>2. ASSUME pc[r] # "done", UNCHANGED <<plan, audit, applied, logged>>,
             \E label \in Labels \ {"done"} : Goto(r, label)
      PROVE  Filed(r)'
    BY <1>0, <1>2, GotoMoves, QuietKeepsFiled
<1>3. CASE Start(r)
    <2>1. pc'[r] = "resolve"
        BY <1>0, <1>3 DEF Start, TypeOK
    <2>2. QED
        BY <1>3, <2>1, QuietKeepsFiled DEF Start
<1>4. CASE Resolve(r) \/ ReadTarget(r) \/ Prompt(r)
    BY <1>2, <1>4, LabelsListed DEF Resolve, ReadTarget, Prompt
<1>5. CASE ReadSource(r)
    <2>1. NextRead[pc[r]] \in Labels \ {"done"}
        BY <1>5, LabelsListed DEF ReadSource, NextRead
    <2>2. QED
        BY <1>2, <1>5, <2>1, LabelsListed DEF ReadSource
<1>6. CASE Preflight(r) \/ Check(r) \/ Report(r) \/ Reverify(r) \/ Refetch(r) \/ MutateFails(r)
    BY <1>1, <1>2, <1>6, LabelsListed DEF Preflight, Check, Report, Reverify, Refetch, MutateFails
<1>7. CASE PassGate(r)
    BY <1>1, <1>2, <1>7, LabelsListed DEF PassGate
<1>8. CASE ScanOrphans(r)
    <2>1. pc'[r] = "target" /\ audit[r] = {} /\ applied[r] = {} /\ pc[r] # "done"
        BY <1>0, <1>8, GotoMoves, LabelsListed DEF ScanOrphans, ConsentInv, Local, Books
    <2>2. QED
        BY <1>8, <2>1 DEF ScanOrphans, Filed
<1>9. CASE Pin(r)
    <2>1. (\E label \in {"refetch", "mutate"} : Goto(r, label)) \/ Leave(r, 3)
        BY <1>9 DEF Pin
    <2>2. QED
        BY <1>1, <1>2, <1>9, <2>1, LabelsListed DEF Pin
<1>10. CASE MutateUnanswered(r)
    <2>1. faults' # 0
        BY <1>0, <1>10 DEF MutateUnanswered, CallFails, TypeOK
    <2>2. pc[r] = "mutate" /\ logged[r] = {} /\ audit'[r] = audit[r] /\ plan'[r] = plan[r] /\ logged'[r] = logged[r]
        BY <1>10 DEF MutateUnanswered, Filed
    <2>3. QED
        BY <2>1, <2>2 DEF Filed
<1>11. CASE Crash(r)
    <2>1. pc'[r] # "done" /\ pc[r] # "done"
        BY <1>0, <1>11 DEF Crash, TypeOK
    <2>2. QED
        BY <1>11, <2>1, QuietKeepsFiled DEF Crash
<1>12. QED
    BY <1>3, <1>4, <1>5, <1>6, <1>7, <1>8, <1>9, <1>10, <1>11, MutateKeepsFiled, AppendKeepsFiled
       DEF Step, OrderInv

LEMMA FiledInit == Init => FiledInv
    BY OrderInit DEF Init, FiledInv, Filed

LEMMA FiledStep == FiledInv /\ [Next]_vars => FiledInv'
<1> SUFFICES ASSUME FiledInv, [Next]_vars PROVE FiledInv'
    OBVIOUS
<1>1. OrderInv /\ OrderInv' /\ TypeOK /\ TypedInv
    BY OrderStep DEF FiledInv, OrderInv, ConsentInv, TypedInv
<1>2. faults' = 0 => faults = 0
    BY <1>1, FaultsGrow
<1>3. ASSUME NEW q \in Runs, Same(q), logged'[q] = logged[q] PROVE Filed(q)'
    BY <1>2, <1>3 DEF FiledInv, Filed, Same
<1>4. ASSUME NEW q \in Runs PROVE Filed(q)'
    <2>1. ASSUME NEW r \in Runs, Start(r) \/ Step(r) \/ Prompt(r) \/ Crash(r) PROVE Filed(q)'
        <3>1. CASE q = r
            BY <1>1, <1>2, <2>1, <3>1, ActorKeepsFiled DEF FiledInv
        <3>2. CASE q # r
            BY <1>1, <1>3, <2>1, <3>2, OnlyActorMoves, LoggedSame
        <3>3. QED
            BY <3>1, <3>2
    <2>2. CASE UNCHANGED runVars
        BY <1>3, <2>2 DEF runVars, Same
    <2>3. QED
        BY <2>1, <2>2 DEF Next, vars
<1>5. QED
    BY <1>1, <1>4 DEF FiledInv

(* The audit file holds nothing that was not done and misses nothing that was     *)
(* done before what it holds, whatever fails; and if no call fails, it misses     *)
(* nothing of an invocation that ended, however many others there are.            *)
THEOREM AuditFileCorrect == Spec => []AuditFileIsTruthful
<1>1. FiledInv => AuditFileIsTruthful
    <2> SUFFICES ASSUME FiledInv, NEW r \in Runs
                 PROVE  /\ logged[r] \subseteq applied[r]
                        /\ \A a \in logged[r], b \in applied[r] \ logged[r] : Rank(a) <= Rank(b)
                        /\ pc[r] = "done" /\ opt[r].audits /\ faults = 0 => logged[r] = applied[r]
        BY DEF AuditFileIsTruthful
    <2>1. Filed(r) /\ audit[r] \subseteq applied[r] /\ applied[r] \subseteq plan[r]
        BY DEF FiledInv, OrderInv, ConsentInv, Local, Books
    <2>2. QED
        BY <2>1 DEF Filed
<1>2. Spec => []FiledInv
    BY FiledInit, FiledStep, PTL DEF Spec
<1>3. QED
    BY <1>1, <1>2, PTL

-----------------------------------------------------------------------------
(* The access reviews *)

(* Past the preflight of a pass nothing reviewed is denied, and a plan has a     *)
(* /finalize for a namespace only.                                              *)
Granted(r) ==
    /\ pc[r] \in {"check", "target", "judge", "orphans", "pin", "refetch", "mutate"} \union DOMAIN NextRead =>
          Reviewed(r) \intersect opt[r].denied = {}
    /\ \A a \in plan[r] : a.kind = "FinalizeNamespace" => Target(r) \in NsRefs

GrantedInv == ConsentInv /\ \A r \in Runs : Granted(r)

LEMMA BuildFinalizesNamespace ==
    ASSUME NEW ref, NEW obj, NEW orphans, NEW a \in Build(ref, obj, orphans), a.kind = "FinalizeNamespace"
    PROVE  ref \in NsRefs
    BY DEF Build

(* A step within a pass grants nothing, the end of one needs nothing.            *)
LEMMA WithinKeepsGranted ==
    ASSUME NEW r \in Runs, Granted(r), mode'[r] = mode[r], opt'[r] = opt[r], plan'[r] = plan[r],
           pc[r] \in {"check", "target", "judge", "orphans", "pin", "refetch", "mutate"} \union DOMAIN NextRead
    PROVE  Granted(r)'
    BY DEF Granted, Reviewed, Target

LEMMA OutsideKeepsGranted ==
    ASSUME NEW r \in Runs, Granted(r), plan'[r] = plan[r], opt'[r] = opt[r] \/ plan[r] = {},
           pc'[r] \in {"start", "resolve", "preflight", "prompt", "audit", "done", "crashed"}
    PROVE  Granted(r)'
    BY LabelsListed DEF Granted, Target

LEMMA ActorKeepsGranted ==
    ASSUME ConsentInv, NEW r \in Runs, Granted(r), Start(r) \/ Step(r) \/ Prompt(r) \/ Crash(r)
    PROVE  Granted(r)'
<1>0. TypeOK
    BY DEF ConsentInv, TypedInv
<1>1. ASSUME UNCHANGED <<opt, plan>>, \E code \in {0, 1, 2, 3} : Leave(r, code) PROVE Granted(r)'
    BY <1>0, <1>1, LeaveMoves, OutsideKeepsGranted
<1>2. ASSUME UNCHANGED <<opt, plan>>, \E label \in Labels : Goto(r, label),
             pc[r] \in {"check", "target", "judge", "orphans", "pin", "refetch", "mutate"} \union DOMAIN NextRead
      PROVE  Granted(r)'
    BY <1>0, <1>2, GotoMoves, WithinKeepsGranted
<1>3. pc[r] \in {"start", "resolve", "prompt"} => plan[r] = {}
    BY DEF ConsentInv, Local, Phase, Books
<1>4. CASE Start(r)
    <2>1. pc'[r] = "resolve"
        BY <1>0, <1>4 DEF Start, TypeOK
    <2>2. QED
        BY <1>3, <1>4, <2>1, OutsideKeepsGranted DEF Start
<1>5. CASE Resolve(r) \/ Prompt(r) \/ AppendAudit(r)
    <2>1. pc'[r] \in {"resolve", "preflight", "done"}
        BY <1>0, <1>5, GotoMoves, LabelsListed DEF Resolve, Prompt, AppendAudit
    <2>2. QED
        BY <1>3, <1>5, <2>1, OutsideKeepsGranted DEF Resolve, Prompt, AppendAudit
<1>6. CASE Preflight(r)
    <2>1. CASE Reviewed(r) \intersect opt[r].denied = {} /\ Goto(r, "check")
        <3>1. pc'[r] = "check" /\ mode'[r] = mode[r] /\ opt'[r] = opt[r] /\ plan'[r] = plan[r]
            BY <1>0, <1>6, <2>1, GotoMoves, LabelsListed DEF Preflight
        <3>2. QED
            BY <2>1, <3>1 DEF Granted, Reviewed, Target
    <2>2. CASE Leave(r, 1)
        BY <1>1, <1>6, <2>2 DEF Preflight
    <2>3. QED
        BY <1>6, <2>1, <2>2 DEF Preflight
<1>7. CASE Check(r) \/ ReadTarget(r) \/ Report(r) \/ Reverify(r) \/ Refetch(r) \/ MutateFails(r)
    BY <1>1, <1>2, <1>7, LabelsListed DEF Check, ReadTarget, Report, Reverify, Refetch, MutateFails
<1>8. CASE ReadSource(r)
    <2>1. NextRead[pc[r]] \in Labels
        BY <1>8, NextReadLabel DEF ReadSource
    <2>2. QED
        BY <1>2, <1>8, <2>1 DEF ReadSource
<1>9. CASE PassGate(r)
    BY <1>1, <1>2, <1>9, LabelsListed DEF PassGate
<1>10. CASE ScanOrphans(r)
    <2>1. PICK listed \in SUBSET Siblings[opt[r].ref] :
              plan' = [plan EXCEPT ![r] = Build(opt[r].ref, gate[r], Detect(opt[r].ref, listed))]
        BY <1>10 DEF ScanOrphans, NamespaceObjects
    <2>2. plan'[r] = Build(opt[r].ref, gate[r], Detect(opt[r].ref, listed))
        BY <1>0, <2>1 DEF TypeOK
    <2>3. \A a \in plan'[r] : a.kind = "FinalizeNamespace" => opt[r].ref \in NsRefs
        BY <2>2, BuildFinalizesNamespace
    <2>4. mode'[r] = mode[r] /\ opt'[r] = opt[r] /\ pc[r] = "orphans"
        BY <1>10 DEF ScanOrphans, Goto
    <2>5. QED
        BY <2>3, <2>4 DEF Granted, Reviewed, Target
<1>11. CASE Pin(r)
    <2>1. (\E label \in {"refetch", "mutate"} : Goto(r, label)) \/ Leave(r, 3)
        BY <1>11 DEF Pin
    <2>2. QED
        BY <1>1, <1>2, <1>11, <2>1, LabelsListed DEF Pin
<1>12. CASE Mutate(r) \/ MutateUnanswered(r)
    BY <1>1, <1>2, <1>12, LabelsListed DEF Mutate, MutateUnanswered
<1>13. CASE Crash(r)
    <2>1. pc'[r] = "crashed"
        BY <1>0, <1>13 DEF Crash, TypeOK
    <2>2. QED
        BY <1>13, <2>1, OutsideKeepsGranted DEF Crash
<1>14. QED
    BY <1>4, <1>5, <1>6, <1>7, <1>8, <1>9, <1>10, <1>11, <1>12, <1>13 DEF Step

LEMMA GrantedInit == Init => GrantedInv
    BY ConsentInit, LabelsListed DEF Init, GrantedInv, Granted

LEMMA GrantedStep == GrantedInv /\ [Next]_vars => GrantedInv'
<1> SUFFICES ASSUME GrantedInv, [Next]_vars PROVE GrantedInv'
    OBVIOUS
<1>1. ConsentInv /\ ConsentInv' /\ TypedInv
    BY ConsentStep DEF GrantedInv, ConsentInv
<1>2. ASSUME NEW q \in Runs, Same(q) PROVE Granted(q)'
    BY <1>2 DEF GrantedInv, Granted, Reviewed, Target, Same
<1>3. ASSUME NEW q \in Runs PROVE Granted(q)'
    <2>1. ASSUME NEW r \in Runs, Start(r) \/ Step(r) \/ Prompt(r) \/ Crash(r) PROVE Granted(q)'
        <3>1. CASE q = r
            BY <1>1, <2>1, <3>1, ActorKeepsGranted DEF GrantedInv
        <3>2. CASE q # r
            BY <1>1, <1>2, <2>1, <3>2, OnlyActorMoves
        <3>3. QED
            BY <3>1, <3>2
    <2>2. CASE UNCHANGED runVars
        BY <1>2, <2>2 DEF runVars, Same
    <2>3. QED
        BY <2>1, <2>2 DEF Next, vars
<1>4. QED
    BY <1>1, <1>3 DEF GrantedInv

(* No operator is stopped by missing rights at an action on the target, once a    *)
(* run is under way -- but for the metadata of a namespace, which is not reviewed.*)
THEOREM PreflightCorrect == Spec => []PreflightCoversTarget
<1>1. GrantedInv => PreflightCoversTarget
    <2> SUFFICES ASSUME GrantedInv, NEW r \in Runs, pc[r] = "mutate", ~Allowed(r)
                 PROVE  \/ pin[r].action.kind = "CleanOrphan"
                        \/ pin[r].action.kind = "ClearFinalizer" /\ Target(r) \in NsRefs
        BY DEF PreflightCoversTarget
    <2> DEFINE a == pin[r].action
    <2>1. Granted(r) /\ Local(r) /\ TypedInv /\ TypeOK
        BY DEF GrantedInv, ConsentInv, TypedInv
    <2>2. a \in plan[r] /\ a \in Actions /\ mode[r] = "apply"
        BY <2>1 DEF TypedInv, Pinned, Gated, Local, Books, Phase, TypeOK
    <2>3. Reviewed(r) \intersect opt[r].denied = {}
        BY <2>1 DEF Granted
    <2>4. CASE a.kind = "FinalizeNamespace"
        <3>1. Target(r) \in NsRefs /\ "finalize" \in opt[r].denied
            BY <2>1, <2>2, <2>4 DEF Granted, Allowed, Verb
        <3>2. QED
            BY <2>2, <2>3, <3>1 DEF Reviewed, Target
    <2>5. CASE a.kind = "ClearFinalizer"
        <3>1. "patch" \in opt[r].denied
            BY <2>5 DEF Allowed, Verb
        <3>2. QED
            BY <2>2, <2>3, <2>5, <3>1 DEF Reviewed, Target
    <2>6. QED
        BY <2>2, <2>4, <2>5 DEF Actions
<1>2. Spec => []GrantedInv
    BY GrantedInit, GrantedStep, PTL DEF Spec
<1>3. QED
    BY <1>1, <1>2, PTL

-----------------------------------------------------------------------------
(* The life of an object *)

(* p becomes q in a step that takes the store from one revision to the next: a     *)
(* new object has a new uid, an old one keeps its own, and of one that is being    *)
(* deleted the finalizers only go.                                                *)
Ages(p, q, rev, next) ==
    q # Nothing =>
        IF p = Nothing THEN rev < q.uid /\ q.uid <= next
        ELSE q.uid = p.uid /\ (p.terminating => q.terminating /\ q.meta \subseteq p.meta)

Aged ==
    /\ revision' \in Nat /\ revision <= revision'
    /\ \A ref \in Refs : Ages(objects[ref], objects'[ref], revision, revision')

LEMMA NoWriteAges ==
    ASSUME ClusterTypeOK, UNCHANGED objectVars \/ (revision' = revision + 1 /\ UNCHANGED objects)
    PROVE  Aged
    BY DEF ClusterTypeOK, objectVars, Aged, Ages, Objects

LEMMA StoreAges ==
    ASSUME ClusterTypeOK, NEW ref \in Refs, NEW o \in Objects, Store(ref, o),
           IF Exists(ref) THEN /\ o.uid = objects[ref].uid
                               /\ objects[ref].terminating => o.terminating /\ o.meta \subseteq objects[ref].meta
                          ELSE o.uid = revision + 1
    PROVE  Aged
<1> DEFINE stored == [o EXCEPT !.rv = revision + 1]
<1>1. stored.uid = o.uid /\ stored.terminating = o.terminating /\ stored.meta = o.meta
    BY DEF Objects
<1>2. objects' = [objects EXCEPT ![ref] = IF o.terminating /\ ~Held(ref, o) THEN Nothing ELSE stored]
    BY DEF Store
<1> HIDE DEF stored
<1>3. objects'[ref] = Nothing \/ objects'[ref] = stored
    BY <1>2 DEF ClusterTypeOK
<1>4. \A other \in Refs \ {ref} : objects'[other] = objects[other]
    BY <1>2 DEF ClusterTypeOK
<1>5. revision \in Nat /\ revision' = revision + 1
    BY DEF ClusterTypeOK, Store
<1>6. Ages(objects[ref], objects'[ref], revision, revision')
    BY <1>1, <1>3, <1>5 DEF Ages, Exists
<1>7. QED
    BY <1>4, <1>5, <1>6 DEF Aged, Ages

LEMMA WriteAges ==
    ASSUME ClusterTypeOK, NEW ref \in Refs, NEW o \in Objects, Write(ref, o), Exists(ref),
           o.uid = objects[ref].uid,
           objects[ref].terminating => o.terminating /\ o.meta \subseteq objects[ref].meta
    PROVE  Aged
    BY NoWriteAges, StoreAges DEF Write

LEMMA ForeignAges ==
    ASSUME ClusterTypeOK, ForeignWrite PROVE Aged
<1>1. ASSUME NEW ref \in Refs, Exists(ref) PROVE objects[ref] \in Objects
    BY <1>1 DEF ClusterTypeOK, Exists
<1>2. ASSUME NEW ref \in Refs, Create(ref) PROVE Aged
    <2>1. PICK b \in Births[ref] :
              Store(ref, [rv |-> 0, uid |-> revision + 1, terminating |-> FALSE, meta |-> b.meta,
                          spec |-> b.spec, conds |-> b.conds, owners |-> b.owners])
        BY <1>2 DEF Create
    <2> DEFINE o == [rv |-> 0, uid |-> revision + 1, terminating |-> FALSE, meta |-> b.meta,
                     spec |-> b.spec, conds |-> b.conds, owners |-> b.owners]
    <2>2. o \in Objects /\ o.uid = revision + 1
        BY ClusterAssumption DEF ClusterTypeOK, Objects, Contents
    <2>3. Store(ref, o) /\ ~Exists(ref)
        BY <1>2, <2>1 DEF Create
    <2> HIDE DEF o
    <2>4. QED
        BY <2>2, <2>3, StoreAges
<1>3. ASSUME NEW ref \in Refs, RequestDelete(ref) PROVE Aged
    <2>1. Exists(ref) /\ Write(ref, [objects[ref] EXCEPT !.terminating = TRUE])
        BY <1>3 DEF RequestDelete, Delete
    <2>2. QED
        BY <1>1, <2>1, WriteAges DEF Objects
<1>4. ASSUME NEW ref \in Refs, AddFinalizer(ref) PROVE Aged
    <2>1. PICK f \in Finalizers : Write(ref, [objects[ref] EXCEPT !.meta = objects[ref].meta \union {f}])
        BY <1>4 DEF AddFinalizer, PatchFinalizers
    <2>2. Exists(ref) /\ ~objects[ref].terminating
        BY <1>4 DEF AddFinalizer
    <2>3. QED
        BY <1>1, <2>1, <2>2, WriteAges DEF Objects
<1>5. ASSUME NEW ref \in Refs, DropFinalizer(ref) PROVE Aged
    <2>1. PICK f : Write(ref, [objects[ref] EXCEPT !.meta = objects[ref].meta \ {f}])
        BY <1>5 DEF DropFinalizer, PatchFinalizers
    <2>2. Exists(ref)
        BY <1>5 DEF DropFinalizer
    <2>3. QED
        BY <1>1, <2>1, <2>2, WriteAges DEF Objects
<1>6. ASSUME NEW ref \in Refs, Touch(ref) PROVE Aged
    BY <1>1, <1>6, StoreAges DEF Touch
<1>7. ASSUME NEW ref \in Refs, SetConditions(ref) PROVE Aged
    <2>1. PICK c \in {{}, {"DiscoveryFailure"}, {"DiscoveryFailure", "ContentRemaining"}} :
              Exists(ref) /\ Write(ref, [objects[ref] EXCEPT !.conds = c])
        BY <1>7 DEF SetConditions
    <2>2. QED
        BY <1>1, <2>1, WriteAges DEF Objects, Conditions
<1>8. ASSUME NEW ref \in Refs, Reown(ref) PROVE Aged
    <2>1. PICK owners \in {{}} \union {{other} : other \in Refs \ {ref}} :
              Exists(ref) /\ Write(ref, [objects[ref] EXCEPT !.owners = owners])
        BY <1>8 DEF Reown
    <2>2. QED
        BY <1>1, <2>1, WriteAges DEF Objects
<1>9. CASE ChangeAPIService \/ ChangeCRD \/ ChangeWebhook \/ ChangeEndpoints
    BY <1>9, NoWriteAges DEF ChangeAPIService, ChangeCRD, ChangeWebhook, ChangeEndpoints
<1>10. QED
    BY <1>2, <1>3, <1>4, <1>5, <1>6, <1>7, <1>8, <1>9 DEF ForeignWrite

(* But for its mutating requests an invocation writes nothing.                    *)
LEMMA OthersWriteNothing ==
    ASSUME NEW r \in Runs, Start(r) \/ Step(r) \/ Prompt(r) \/ Crash(r)
    PROVE  Mutate(r) \/ MutateUnanswered(r) \/ UNCHANGED objectVars
<1> USE DEF clusterVars, objectVars
<1>1. CASE Start(r) \/ Resolve(r) \/ Preflight(r) \/ Check(r) \/ ReadTarget(r) \/ ReadSource(r)
    BY <1>1 DEF Start, Resolve, Preflight, Check, ReadTarget, ReadSource
<1>2. CASE Report(r) \/ PassGate(r) \/ ScanOrphans(r) \/ Reverify(r) \/ Pin(r) \/ Refetch(r)
    BY <1>2 DEF Report, PassGate, ScanOrphans, Reverify, Pin, Refetch
<1>3. CASE MutateFails(r) \/ AppendAudit(r) \/ Prompt(r) \/ Crash(r)
    BY <1>3 DEF MutateFails, AppendAudit, Prompt, Crash
<1>4. QED
    BY <1>1, <1>2, <1>3 DEF Step

(* Nothing that ever happens gives a finalizer back to an object that is being     *)
(* deleted, or an old uid to a new object.                                        *)
LEMMA StepAges ==
    ASSUME PinnedInv, [Next]_vars PROVE Aged
<1>0. ClusterTypeOK
    BY DEF PinnedInv, TypedInv, TypeOK
<1>1. ASSUME NEW r \in Runs, Mutate(r) \/ MutateUnanswered(r) PROVE Aged
    <2> DEFINE a == pin[r].action
               old == objects[a.ref]
               new == objects'[a.ref]
               o == Abstract!Outcome(a, old)
    <2>1. pc[r] = "mutate" /\ Accepted(pin[r]) /\ Perform(pin[r])
        BY <1>1 DEF Mutate, MutateUnanswered
    <2>2. /\ a \in Actions /\ old # Nothing
          /\ \A ref \in Refs \ {a.ref} : objects'[ref] = objects[ref]
          /\ new # Nothing => new = [o EXCEPT !.rv = new.rv]
        BY <2>1, PerformOutcome
    <2>3. old \in Objects
        BY <1>0, <2>2 DEF ClusterTypeOK, Actions
    <2>4. new # Nothing => new.uid = old.uid /\ (old.terminating => new.terminating /\ new.meta \subseteq old.meta)
        <3>1. o \in Objects /\ o.uid = old.uid /\ (old.terminating => o.terminating) /\ o.meta \subseteq old.meta
            BY <2>2, <2>3 DEF Abstract!Outcome, Objects, Actions
        <3> HIDE DEF o, old, new
        <3>2. new # Nothing => new.uid = o.uid /\ new.terminating = o.terminating /\ new.meta = o.meta
            BY <2>2, <3>1 DEF Objects
        <3>3. QED
            BY <3>1, <3>2
    <2>5. revision' \in Nat /\ revision <= revision'
        <3>1. pin[r] \in Pins
            BY <2>1 DEF PinnedInv, TypedInv, TypeOK, Pinned
        <3>2. Advances
            BY <1>0, <2>1, <3>1, PerformAdvances
        <3>3. QED
            BY <3>2 DEF Advances
    <2> HIDE DEF a
    <2>6. QED
        BY <2>2, <2>4, <2>5 DEF Aged, Ages
<1>2. CASE ForeignWrite
    BY <1>0, <1>2, ForeignAges
<1>3. CASE UNCHANGED objectVars
    BY <1>0, <1>3, NoWriteAges
<1>4. ASSUME NEW r \in Runs, Start(r) \/ Step(r) \/ Prompt(r) \/ Crash(r) PROVE Aged
    BY <1>1, <1>3, <1>4, OthersWriteNothing
<1>5. QED
    BY <1>2, <1>3, <1>4 DEF Next, vars, clusterVars, objectVars

-----------------------------------------------------------------------------
(* What a snapshot says of an object later on *)

(* o was read of p, or of what was there before p: it is not younger, and if it  *)
(* was being deleted and is still there, it has got no finalizer since.          *)
Descends(o, p, rev) ==
    o # Nothing =>
        /\ o.uid <= rev
        /\ p # Nothing =>
              /\ o.uid <= p.uid
              /\ o.terminating /\ p.uid = o.uid => p.terminating /\ p.meta \subseteq o.meta

LEMMA DescendsAges ==
    ASSUME NEW o \in Objects \union {Nothing}, NEW p \in Objects \union {Nothing},
           NEW q \in Objects \union {Nothing}, NEW rev \in Nat, NEW next \in Nat, rev <= next,
           Descends(o, p, rev), Ages(p, q, rev, next)
    PROVE  Descends(o, q, next)
<1> SUFFICES ASSUME o # Nothing, o \in Objects, o.uid \in Nat PROVE Descends(o, q, next)
    BY DEF Descends, Objects
<1>1. o.uid <= next
    BY DEF Descends
<1>2. ASSUME q # Nothing, p = Nothing
      PROVE  o.uid <= q.uid /\ q.uid # o.uid
    <2>1. q.uid \in Nat /\ rev < q.uid /\ o.uid <= rev
        BY <1>2 DEF Ages, Descends, Objects
    <2>2. QED
        BY <2>1
<1>3. ASSUME q # Nothing, p # Nothing
      PROVE  /\ o.uid <= q.uid
             /\ o.terminating /\ q.uid = o.uid => q.terminating /\ q.meta \subseteq o.meta
    BY <1>3 DEF Ages, Descends
<1>4. QED
    BY <1>1, <1>2, <1>3 DEF Descends

(* A snapshot is kept only while it is being read and judged, and an exit code   *)
(* is known only at the end.                                                    *)
Emptied(r) ==
    /\ pc[r] \notin DOMAIN NextRead \union {"judge"} => snap[r] = EmptySnapshot
    /\ pc[r] \notin {"audit", "done"} => exit[r] = Nothing

(* What the gate let through and what is read since descend to what is there.   *)
Traced(r) ==
    /\ Descends(gate[r], objects[Target(r)], revision)
    /\ Descends(snap[r].obj, objects[Target(r)], revision)
    /\ gate[r] # Nothing /\ snap[r].obj # Nothing =>
          gate[r].uid <= snap[r].obj.uid /\ (SameAsGated(r, snap[r].obj) => snap[r].obj.terminating)

(* Every metadata finalizer but `kubernetes` on a namespace has a clear, and one *)
(* that was carried out stays cleared, as long as the object is the same.        *)
Cleared(r) ==
    /\ \A a \in plan[r] : a.kind = "ClearFinalizer" => a.finalizer # Kubernetes \/ Target(r) \notin NsRefs
    /\ gate[r] # Nothing /\ pc[r] \notin {"orphans", "crashed"} =>
          \A f \in gate[r].meta :
              \/ Target(r) \in NsRefs /\ f = Kubernetes
              \/ \E a \in plan[r] : a.kind = "ClearFinalizer" /\ a.finalizer = f
    /\ \A a \in applied[r] :
          a.kind = "ClearFinalizer" /\ Exists(Target(r)) /\ SameAsGated(r, objects[Target(r)]) =>
              a.finalizer \notin objects[Target(r)].meta

UidsOld == \A ref \in Refs : Exists(ref) => objects[ref].uid <= revision

LineageInv == RefineInv /\ UidsOld /\ \A r \in Runs : Emptied(r) /\ Traced(r) /\ Cleared(r)

LEMMA UidsStayOld ==
    ASSUME ClusterTypeOK, ClusterTypeOK', UidsOld, Aged PROVE UidsOld'
<1> SUFFICES ASSUME NEW ref \in Refs, objects'[ref] # Nothing PROVE objects'[ref].uid <= revision'
    BY DEF UidsOld, Exists
<1>1. revision \in Nat /\ revision' \in Nat /\ revision <= revision'
    BY DEF ClusterTypeOK, Aged
<1>2. Ages(objects[ref], objects'[ref], revision, revision')
    BY DEF Aged
<1>3. CASE objects[ref] = Nothing
    BY <1>2, <1>3 DEF Ages
<1>4. CASE objects[ref] # Nothing
    <2>1. objects'[ref].uid = objects[ref].uid /\ objects[ref].uid <= revision /\ objects[ref].uid \in Nat
        BY <1>2, <1>4 DEF Ages, UidsOld, Exists, ClusterTypeOK, Objects
    <2>2. QED
        BY <1>1, <2>1
<1>5. QED
    BY <1>3, <1>4

LEMMA OnlyActorReads ==
    ASSUME TypeOK, NEW r \in Runs, Start(r) \/ Step(r) \/ Prompt(r) \/ Crash(r), NEW q \in Runs \ {r}
    PROVE  snap'[q] = snap[q]
<1>1. CASE UNCHANGED snap
    BY <1>1
<1>2. CASE \E one : snap' = [snap EXCEPT ![r] = one]
    BY <1>2 DEF TypeOK
<1>3. CASE ReadTarget(r) \/ ReadSource(r)
    BY <1>3 DEF ReadTarget, ReadSource, TypeOK
<1>4. CASE Start(r) \/ Resolve(r) \/ ScanOrphans(r) \/ AppendAudit(r) \/ Prompt(r)
    BY <1>1, <1>4 DEF Start, Resolve, ScanOrphans, AppendAudit, Prompt
<1>5. CASE Preflight(r) \/ Check(r) \/ Report(r) \/ PassGate(r) \/ Reverify(r)
    BY <1>1, <1>2, <1>5 DEF Preflight, Check, Report, PassGate, Reverify, Leave
<1>6. CASE Pin(r) \/ Refetch(r) \/ Mutate(r) \/ MutateUnanswered(r) \/ MutateFails(r) \/ Crash(r)
    BY <1>1, <1>2, <1>6 DEF Pin, Refetch, Mutate, MutateUnanswered, MutateFails, Crash, Leave
<1>7. QED
    BY <1>3, <1>4, <1>5, <1>6 DEF Step

(* The end of a pass, and a step within one.                                     *)
LEMMA LeaveKeepsEmptied ==
    ASSUME TypeOK, NEW r \in Runs, Emptied(r), NEW code \in {0, 1, 2, 3}, Leave(r, code),
           pc[r] \notin {"audit", "done"}
    PROVE  Emptied(r)'
<1>1. snap'[r] = EmptySnapshot
    BY DEF Leave, TypeOK
<1>2. CASE mode[r] = "dry" /\ opt[r].apply
    BY <1>1, <1>2 DEF Leave, Emptied
<1>3. CASE ~(mode[r] = "dry" /\ opt[r].apply)
    <2>1. pc'[r] \in {"audit", "done"}
        BY <1>3 DEF Leave, TypeOK
    <2>2. QED
        BY <1>1, <2>1 DEF Emptied
<1>4. QED
    BY <1>2, <1>3

LEMMA GotoKeepsEmptied ==
    ASSUME TypeOK, NEW r \in Runs, Emptied(r), NEW label \in Labels, Goto(r, label),
           pc[r] \notin {"audit", "done"} \/ label = "done",
           \/ snap'[r] = EmptySnapshot
           \/ label \in DOMAIN NextRead \union {"judge"}
           \/ snap'[r] = snap[r] /\ pc[r] \notin DOMAIN NextRead \union {"judge"}
    PROVE  Emptied(r)'
    BY GotoMoves DEF Emptied

LEMMA ActorKeepsEmptied ==
    ASSUME TypeOK, NEW r \in Runs, Emptied(r), Start(r) \/ Step(r) \/ Prompt(r) \/ Crash(r)
    PROVE  Emptied(r)'
<1>1. ASSUME pc[r] \notin {"audit", "done"}, \E code \in {0, 1, 2, 3} : Leave(r, code) PROVE Emptied(r)'
    BY <1>1, LeaveKeepsEmptied
<1>2. ASSUME pc[r] \notin DOMAIN NextRead \union {"judge", "audit", "done"}, UNCHANGED snap,
             \E label \in Labels : Goto(r, label)
      PROVE  Emptied(r)'
    BY <1>2, GotoKeepsEmptied
<1>3. ASSUME pc[r] \notin {"audit", "done"}, \E label \in DOMAIN NextRead \union {"judge"} : Goto(r, label)
      PROVE  Emptied(r)'
    BY <1>3, GotoKeepsEmptied, LabelsListed
<1>4. ASSUME pc[r] = "judge", snap' = [snap EXCEPT ![r] = EmptySnapshot], \E label \in Labels : Goto(r, label)
      PROVE  Emptied(r)'
    <2>1. snap'[r] = EmptySnapshot
        BY <1>4 DEF TypeOK
    <2>2. QED
        BY <1>4, <2>1, GotoKeepsEmptied
<1>5. CASE Start(r)
    <2>1. pc[r] = "start" /\ pc'[r] = "resolve" /\ snap'[r] = snap[r] /\ exit'[r] = exit[r]
        BY <1>5 DEF Start, TypeOK
    <2>2. QED
        BY <2>1, LabelsListed DEF Emptied
<1>6. CASE Resolve(r) \/ ScanOrphans(r) \/ Prompt(r)
    BY <1>2, <1>6, LabelsListed DEF Resolve, ScanOrphans, Prompt
<1>7. CASE ReadTarget(r)
    BY <1>3, <1>7, LabelsListed DEF ReadTarget
<1>8. CASE ReadSource(r)
    <2>1. NextRead[pc[r]] \in DOMAIN NextRead \union {"judge"}
        BY <1>8, LabelsListed DEF ReadSource, NextRead
    <2>2. QED
        BY <1>3, <1>8, <2>1, LabelsListed DEF ReadSource
<1>9. CASE Preflight(r) \/ Check(r) \/ Refetch(r) \/ MutateFails(r)
    BY <1>1, <1>2, <1>9, LabelsListed DEF Preflight, Check, Refetch, MutateFails
<1>10. CASE Report(r) \/ PassGate(r) \/ Reverify(r)
    BY <1>1, <1>4, <1>10, LabelsListed DEF Report, PassGate, Reverify
<1>11. CASE Pin(r)
    <2>1. (UNCHANGED snap /\ \E label \in {"refetch", "mutate"} : Goto(r, label)) \/ Leave(r, 3)
        BY <1>11 DEF Pin
    <2>2. QED
        BY <1>1, <1>2, <1>11, <2>1, LabelsListed DEF Pin
<1>12. CASE Mutate(r) \/ MutateUnanswered(r)
    BY <1>1, <1>2, <1>12, LabelsListed DEF Mutate, MutateUnanswered
<1>13. CASE AppendAudit(r)
    BY <1>13, GotoKeepsEmptied, LabelsListed DEF AppendAudit
<1>14. CASE Crash(r)
    BY <1>14 DEF Crash, TypeOK, Emptied
<1>15. QED
    BY <1>5, <1>6, <1>7, <1>8, <1>9, <1>10, <1>11, <1>12, <1>13, <1>14 DEF Step

(* An invocation that has nothing in hand yet.                                   *)
LEMMA FreshIsTraced ==
    ASSUME NEW r \in Runs, gate'[r] = Nothing, snap'[r].obj = Nothing PROVE Traced(r)'
    BY DEF Traced, Descends

(* Time passes: what was read is kept or given up.                              *)
LEMMA TracedStays ==
    ASSUME TypeOK, ClusterTypeOK', Aged, NEW r \in Runs, Traced(r), Target(r) \in Refs,
           gate'[r] = gate[r], Target(r)' = Target(r), snap'[r].obj \in {snap[r].obj, Nothing}
    PROVE  Traced(r)'
<1> DEFINE p == objects[Target(r)]
           q == objects'[Target(r)]
<1>1. p \in Objects \union {Nothing} /\ q \in Objects \union {Nothing}
    BY DEF TypeOK, ClusterTypeOK
<1>2. /\ Ages(p, q, revision, revision') /\ revision \in Nat /\ revision' \in Nat
      /\ revision <= revision'
    BY DEF Aged, TypeOK, ClusterTypeOK
<1>3. gate[r] \in Objects \union {Nothing} /\ snap[r].obj \in Objects \union {Nothing}
    BY DEF TypeOK, Snapshots
<1>4. Descends(gate[r], p, revision) /\ Descends(snap[r].obj, p, revision)
    BY DEF Traced
<1> HIDE DEF p, q
<1>5. Descends(gate[r], q, revision') /\ Descends(snap[r].obj, q, revision')
    BY <1>1, <1>2, <1>3, <1>4, DescendsAges
<1>6. objects'[Target(r)'] = q
    BY DEF q
<1>7. Descends(snap'[r].obj, q, revision')
    BY <1>5 DEF Descends
<1>8. QED
    BY <1>5, <1>6, <1>7 DEF Traced, SameAsGated

(* The object that was authorized, found again after a step, was there before it *)
(* and had no finalizer fewer.                                                   *)
LEMMA SameWasThere ==
    ASSUME TypeOK, ClusterTypeOK', Aged, NEW r \in Runs, Traced(r), Target(r) \in Refs,
           gate[r] # Nothing, objects'[Target(r)] # Nothing, SameAsGated(r, objects'[Target(r)])
    PROVE  /\ Exists(Target(r)) /\ SameAsGated(r, objects[Target(r)])
           /\ objects'[Target(r)].meta \subseteq objects[Target(r)].meta
<1> DEFINE p == objects[Target(r)]
           q == objects'[Target(r)]
<1>1. Ages(p, q, revision, revision') /\ Descends(gate[r], p, revision)
    BY DEF Aged, Traced
<1>2. q \in Objects /\ gate[r] \in Objects /\ gate[r].uid \in Nat /\ q.uid \in Nat /\ revision \in Nat
    BY DEF TypeOK, ClusterTypeOK, Objects
<1>3. gate[r].terminating /\ q.uid = gate[r].uid
    BY DEF SameAsGated
<1>4. p # Nothing
    <2> SUFFICES ASSUME p = Nothing PROVE FALSE
        OBVIOUS
    <2>1. revision < q.uid /\ gate[r].uid <= revision
        BY <1>1 DEF Ages, Descends
    <2>2. QED
        BY <1>2, <1>3, <2>1
<1>5. q.uid = p.uid /\ (p.terminating => q.meta \subseteq p.meta)
    BY <1>1, <1>4 DEF Ages
<1>6. p.terminating
    BY <1>1, <1>3, <1>4, <1>5 DEF Descends
<1>7. QED
    BY <1>3, <1>4, <1>5, <1>6 DEF Exists, SameAsGated

LEMMA ActorKeepsTraced ==
    ASSUME RefineInv, RefineInv', UidsOld, Aged, NEW r \in Runs, Emptied(r), Traced(r),
           Start(r) \/ Step(r) \/ Prompt(r) \/ Crash(r)
    PROVE  Traced(r)'
<1>0. TypedInv /\ TypeOK /\ ClusterTypeOK /\ ClusterTypeOK' /\ Phase(r) /\ EmptySnapshot.obj = Nothing
    BY DEF RefineInv, PinnedInv, TypedInv, TypeOK, OrderInv, ConsentInv, Local, EmptySnapshot
<1>1. pc[r] # "start" => Target(r) \in Refs
    BY <1>0 DEF TypedInv, Started, TypeOK, Options, Target
<1>2. ASSUME UNCHANGED <<gate, opt>>, pc[r] # "start", snap'[r].obj \in {snap[r].obj, Nothing} PROVE Traced(r)'
    BY <1>0, <1>1, <1>2, TracedStays DEF Target
<1>3. ASSUME pc[r] # "start", UNCHANGED <<gate, opt>>, \E code \in {0, 1, 2, 3} : Leave(r, code)
      PROVE  Traced(r)'
    <2>1. snap'[r] = EmptySnapshot
        BY <1>0, <1>3 DEF Leave, TypeOK
    <2>2. QED
        BY <1>0, <1>2, <1>3, <2>1
<1>4. ASSUME pc[r] # "start", UNCHANGED <<gate, opt>>, snap' = snap \/ snap' = [snap EXCEPT ![r] = EmptySnapshot]
      PROVE  Traced(r)'
    <2>1. snap'[r] = snap[r] \/ snap'[r] = EmptySnapshot
        BY <1>0, <1>4 DEF TypeOK
    <2>2. QED
        BY <1>0, <1>2, <1>4, <2>1
<1>5. CASE Start(r) \/ Resolve(r) \/ Prompt(r)
    <2>1. gate[r] = Nothing /\ snap[r] = EmptySnapshot /\ gate'[r] = gate[r] /\ snap'[r] = snap[r]
        BY <1>0, <1>5, LabelsListed DEF Start, Resolve, Prompt, Phase, Emptied
    <2>2. QED
        BY <1>0, <2>1, FreshIsTraced
<1>6. CASE ReadTarget(r)
    <2>1. UNCHANGED <<gate, opt, objects, revision>> /\ pc[r] = "target" /\ snap[r] = EmptySnapshot
        BY <1>6, LabelsListed DEF ReadTarget, clusterVars, Emptied
    <2>2. CASE snap'[r].obj = Nothing
        BY <1>2, <2>1, <2>2
    <2>3. CASE Exists(opt[r].ref) /\ snap'[r].obj = objects[opt[r].ref]
        <3> DEFINE p == objects[Target(r)]
        <3>1. p \in Objects /\ p # Nothing /\ p.uid <= revision /\ snap'[r].obj = p
            BY <1>0, <1>1, <2>1, <2>3 DEF Exists, Target, UidsOld, ClusterTypeOK
        <3>2. Descends(p, p, revision) /\ Descends(gate[r], p, revision)
            BY <3>1 DEF Descends, Traced, Objects
        <3>3. gate[r] # Nothing => gate[r].uid <= p.uid /\ (SameAsGated(r, p) => p.terminating)
            BY <3>1, <3>2 DEF Descends, SameAsGated
        <3>4. objects'[Target(r)'] = p /\ revision' = revision /\ gate'[r] = gate[r]
            BY <2>1 DEF Target
        <3> HIDE DEF p
        <3>5. QED
            BY <3>1, <3>2, <3>3, <3>4 DEF Traced, SameAsGated
    <2>4. snap'[r].obj = Nothing \/ (Exists(opt[r].ref) /\ snap'[r].obj = objects[opt[r].ref])
        <3>1. CASE UNCHANGED snap
            BY <1>0, <2>1, <3>1
        <3>2. CASE Exists(opt[r].ref)
                   /\ snap' = [snap EXCEPT ![r].obj = objects[opt[r].ref], ![r].readable = {"targets"}]
            <4>1. snap'[r] = [snap[r] EXCEPT !.obj = objects[opt[r].ref], !.readable = {"targets"}]
                BY <1>0, <3>2 DEF TypeOK
            <4>2. snap'[r].obj = objects[opt[r].ref]
                BY <1>0, <4>1 DEF TypeOK, Snapshots
            <4>3. QED
                BY <3>2, <4>2
        <3>3. QED
            BY <1>6, <3>1, <3>2 DEF ReadTarget
    <2>5. QED
        BY <2>2, <2>3, <2>4
<1>7. CASE ReadSource(r)
    <2>1. snap'[r] = snap[r] \/ snap'[r] = Fill(snap[r], pc[r])
        BY <1>0, <1>7 DEF ReadSource, TypeOK
    <2>2. Fill(snap[r], pc[r]).obj = snap[r].obj
        BY <1>0 DEF Fill, TypeOK, Snapshots
    <2>3. UNCHANGED <<gate, opt>> /\ pc[r] # "start"
        BY <1>7, LabelsListed DEF ReadSource
    <2>4. QED
        BY <1>2, <2>1, <2>2, <2>3
<1>8. CASE PassGate(r)
    <2>1. CASE gate' = [gate EXCEPT ![r] = snap[r].obj] /\ snap' = [snap EXCEPT ![r] = EmptySnapshot]
        <3>1. gate'[r] = snap[r].obj /\ snap'[r].obj = Nothing
            BY <1>0, <2>1 DEF TypeOK
        <3>2. UNCHANGED <<opt, objects, revision>>
            BY <1>8 DEF PassGate, clusterVars
        <3>3. Descends(snap[r].obj, objects[Target(r)], revision)
            BY DEF Traced
        <3>4. QED
            BY <3>1, <3>2, <3>3 DEF Traced, Target, Descends
    <2>2. CASE UNCHANGED gate /\ \E code \in {0, 3} : Leave(r, code)
        BY <1>3, <1>8, <2>2 DEF PassGate
    <2>3. QED
        BY <1>8, <2>1, <2>2 DEF PassGate
<1>9. CASE Preflight(r) \/ Check(r) \/ Report(r) \/ Refetch(r) \/ MutateFails(r) \/ MutateUnanswered(r)
    BY <1>3, <1>4, <1>9 DEF Preflight, Check, Report, Refetch, MutateFails, MutateUnanswered
<1>10. CASE ScanOrphans(r) \/ Reverify(r) \/ Pin(r) \/ Mutate(r) \/ AppendAudit(r) \/ Crash(r)
    BY <1>3, <1>4, <1>10 DEF ScanOrphans, Reverify, Pin, Mutate, AppendAudit, Crash
<1>11. QED
    BY <1>5, <1>6, <1>7, <1>8, <1>9, <1>10 DEF Step

(* What the plan of an authorized target clears.                                 *)
LEMMA BuildClears ==
    ASSUME NEW ref, NEW obj, NEW orphans
    PROVE  /\ \A a \in Build(ref, obj, orphans) :
                 a.kind = "ClearFinalizer" => a.finalizer # Kubernetes \/ ref \notin NsRefs
           /\ \A f \in obj.meta :
                 \/ ref \in NsRefs /\ f = Kubernetes
                 \/ \E a \in Build(ref, obj, orphans) : a.kind = "ClearFinalizer" /\ a.finalizer = f
<1>1. ASSUME NEW a \in Build(ref, obj, orphans), a.kind = "ClearFinalizer"
      PROVE  a.finalizer # Kubernetes \/ ref \notin NsRefs
    BY <1>1 DEF Build
<1>2. ASSUME NEW f \in obj.meta, ~(ref \in NsRefs /\ f = Kubernetes)
      PROVE  \E a \in Build(ref, obj, orphans) : a.kind = "ClearFinalizer" /\ a.finalizer = f
    <2> DEFINE item == [finalizer |-> f, list |-> "metadata"]
               a == [kind |-> "ClearFinalizer", ref |-> ref, finalizer |-> item.finalizer, list |-> item.list]
    <2>1. item \in AllFinalizers(obj)
        BY DEF AllFinalizers
    <2>2. a \in Build(ref, obj, orphans)
        BY <1>2, <2>1 DEF Build
    <2>3. QED
        BY <2>2
<1>3. QED
    BY <1>1, <1>2

(* The last part of Cleared, of a set of actions that were carried out before.   *)
LEMMA ClearStays ==
    ASSUME TypeOK, ClusterTypeOK', Aged, NEW r \in Runs, Traced(r), Cleared(r), Target(r) \in Refs,
           gate[r] # Nothing, NEW a \in applied[r], a.kind = "ClearFinalizer",
           objects'[Target(r)] # Nothing, SameAsGated(r, objects'[Target(r)])
    PROVE  a.finalizer \notin objects'[Target(r)].meta
<1>1. /\ Exists(Target(r)) /\ SameAsGated(r, objects[Target(r)])
      /\ objects'[Target(r)].meta \subseteq objects[Target(r)].meta
    BY SameWasThere
<1>2. a.finalizer \notin objects[Target(r)].meta
    BY <1>1 DEF Cleared
<1>3. QED
    BY <1>1, <1>2

LEMMA ClearedStays ==
    ASSUME TypeOK, ClusterTypeOK', Aged, NEW r \in Runs, Books(r), Traced(r), Cleared(r), Target(r) \in Refs,
           gate'[r] = gate[r], Target(r)' = Target(r), plan'[r] = plan[r], applied'[r] = applied[r],
           pc[r] \notin {"orphans", "crashed"} \/ pc'[r] \in {"orphans", "crashed"}
    PROVE  Cleared(r)'
<1>1. ASSUME NEW a \in applied'[r], a.kind = "ClearFinalizer",
             objects'[Target(r)] # Nothing, SameAsGated(r, objects'[Target(r)])
      PROVE  a.finalizer \notin objects'[Target(r)].meta
    <2>1. a \in applied[r] /\ gate[r] # Nothing
        BY <1>1 DEF Books
    <2>2. QED
        BY <1>1, <2>1, ClearStays
<1>2. \A a \in plan'[r] : a.kind = "ClearFinalizer" => a.finalizer # Kubernetes \/ Target(r)' \notin NsRefs
    BY DEF Cleared
<1>3. gate'[r] # Nothing /\ pc'[r] \notin {"orphans", "crashed"} =>
          \A f \in gate'[r].meta :
              \/ Target(r)' \in NsRefs /\ f = Kubernetes
              \/ \E a \in plan'[r] : a.kind = "ClearFinalizer" /\ a.finalizer = f
    BY DEF Cleared
<1>4. objects'[Target(r)'] = objects'[Target(r)] /\ (SameAsGated(r, objects[Target(r)])' <=> SameAsGated(r, objects'[Target(r)]))
    BY DEF SameAsGated
<1>5. QED
    BY <1>1, <1>2, <1>3, <1>4 DEF Cleared, Exists

LEMMA CarryKeepsCleared ==
    ASSUME RefineInv, ClusterTypeOK', Aged, NEW r \in Runs, Traced(r), Cleared(r),
           Mutate(r) \/ MutateUnanswered(r)
    PROVE  Cleared(r)'
<1> DEFINE a == pin[r].action
<1>0. PinnedInv /\ TypedInv /\ TypeOK /\ Local(r)
    BY DEF RefineInv, PinnedInv, TypedInv, OrderInv, ConsentInv
<1>1. /\ pc[r] = "mutate" /\ Accepted(pin[r]) /\ Perform(pin[r])
      /\ gate'[r] = gate[r] /\ opt'[r] = opt[r] /\ plan'[r] = plan[r]
      /\ applied'[r] = applied[r] \union {a}
    BY <1>0 DEF Mutate, MutateUnanswered, TypeOK
<1>2. gate[r] # Nothing /\ pin[r] # Nothing /\ a \in plan[r] /\ Target(r) \in Refs
    BY <1>0, <1>1 DEF TypedInv, Gated, Pinned, Started, Local, Books, TypeOK, Options, Target
<1>3. a.kind = "ClearFinalizer" => a.ref = Target(r)
    BY <1>0, <1>2 DEF Local, Consent
<1>4. a.kind = "ClearFinalizer" /\ objects'[a.ref] # Nothing => a.finalizer \notin objects'[a.ref].meta
    BY <1>0, <1>1, OneWriteRadius
<1>5. ASSUME NEW b \in applied'[r], b.kind = "ClearFinalizer",
             objects'[Target(r)] # Nothing, SameAsGated(r, objects'[Target(r)])
      PROVE  b.finalizer \notin objects'[Target(r)].meta
    <2>1. CASE b \in applied[r]
        BY <1>0, <1>2, <1>5, <2>1, ClearStays
    <2>2. CASE b = a
        BY <1>3, <1>4, <1>5, <2>2
    <2>3. QED
        BY <1>1, <1>5, <2>1, <2>2
<1>6. Target(r)' = Target(r)
    BY <1>1 DEF Target
<1>7. objects'[Target(r)'] = objects'[Target(r)] /\ (SameAsGated(r, objects[Target(r)])' <=> SameAsGated(r, objects'[Target(r)]))
    BY <1>1, <1>6 DEF SameAsGated
<1> HIDE DEF a
<1>8. QED
    BY <1>1, <1>5, <1>6, <1>7 DEF Cleared, Exists

LEMMA ActorKeepsCleared ==
    ASSUME RefineInv, ClusterTypeOK', Aged, NEW r \in Runs, Traced(r), Cleared(r),
           Start(r) \/ Step(r) \/ Prompt(r) \/ Crash(r)
    PROVE  Cleared(r)'
<1>0. TypedInv /\ TypeOK /\ Phase(r) /\ Books(r)
    BY DEF RefineInv, PinnedInv, TypedInv, OrderInv, ConsentInv, Local
<1>1. pc[r] # "start" => Target(r) \in Refs
    BY <1>0 DEF TypedInv, Started, TypeOK, Options, Target
<1>2. ASSUME UNCHANGED <<gate, opt, plan, applied>>, pc[r] \notin {"start", "orphans", "crashed"} PROVE Cleared(r)'
    BY <1>0, <1>1, <1>2, ClearedStays DEF Target
<1>3. ASSUME UNCHANGED <<plan, applied>>, gate[r] = Nothing, gate'[r] = Nothing \/ pc'[r] = "orphans"
      PROVE  Cleared(r)'
    BY <1>0, <1>3 DEF Books, Cleared
<1>4. CASE Start(r) \/ Resolve(r) \/ Prompt(r)
    <2>1. UNCHANGED <<gate, plan, applied>> /\ gate[r] = Nothing
        BY <1>0, <1>4 DEF Start, Resolve, Prompt, Phase
    <2>2. QED
        BY <1>3, <2>1
<1>5. CASE PassGate(r)
    <2>1. UNCHANGED <<plan, applied>> /\ gate[r] = Nothing
        BY <1>5 DEF PassGate
    <2>2. gate'[r] = Nothing \/ pc'[r] = "orphans"
        BY <1>0, <1>5, GotoMoves, LabelsListed DEF PassGate
    <2>3. QED
        BY <1>3, <2>1, <2>2
<1>6. CASE ScanOrphans(r)
    <2>1. PICK listed \in SUBSET Siblings[opt[r].ref] :
              plan' = [plan EXCEPT ![r] = Build(opt[r].ref, gate[r], Detect(opt[r].ref, listed))]
        BY <1>6 DEF ScanOrphans, NamespaceObjects
    <2> DEFINE orphans == Detect(opt[r].ref, listed)
    <2>2. plan'[r] = Build(opt[r].ref, gate[r], orphans)
        BY <1>0, <2>1 DEF TypeOK
    <2>3. applied'[r] = {} /\ opt'[r] = opt[r] /\ gate'[r] = gate[r]
        BY <1>0, <1>6 DEF ScanOrphans, Books
    <2> HIDE DEF orphans
    <2>4. QED
        BY <2>2, <2>3, BuildClears DEF Cleared, Target
<1>7. CASE Mutate(r) \/ MutateUnanswered(r)
    BY <1>7, CarryKeepsCleared
<1>8. CASE Crash(r)
    <2>1. UNCHANGED <<gate, opt, plan, applied>> /\ pc[r] # "start" /\ pc'[r] = "crashed"
        BY <1>0, <1>8 DEF Crash, TypeOK
    <2>2. QED
        BY <1>0, <1>1, <2>1, ClearedStays DEF Target
<1>9. CASE Preflight(r) \/ Check(r) \/ ReadTarget(r) \/ ReadSource(r) \/ Report(r)
    BY <1>2, <1>9, LabelsListed DEF Preflight, Check, ReadTarget, ReadSource, Report
<1>10. CASE Reverify(r) \/ Pin(r) \/ Refetch(r) \/ MutateFails(r) \/ AppendAudit(r)
    BY <1>2, <1>10 DEF Reverify, Pin, Refetch, MutateFails, AppendAudit
<1>11. QED
    BY <1>4, <1>5, <1>6, <1>7, <1>8, <1>9, <1>10 DEF Step

LEMMA LineageInit == Init => LineageInv
<1> SUFFICES ASSUME Init PROVE LineageInv
    OBVIOUS
<1>1. RefineInv
    BY RefineInvInit
<1>2. UidsOld
    <2>1. \A ref \in Refs : objects[ref] # Nothing => objects[ref].uid = 0
        BY ClusterAssumption DEF Init, ClusterInit
    <2>2. QED
        BY <2>1 DEF UidsOld, Exists, Init, ClusterInit
<1>3. \A r \in Runs : Emptied(r) /\ Traced(r) /\ Cleared(r)
    BY DEF Init, Emptied, Traced, Cleared, Descends, EmptySnapshot
<1>4. QED
    BY <1>1, <1>2, <1>3 DEF LineageInv

LEMMA LineageStep == LineageInv /\ [Next]_vars => LineageInv'
<1> SUFFICES ASSUME LineageInv, [Next]_vars PROVE LineageInv'
    OBVIOUS
<1>1. RefineInv /\ RefineInv' /\ UidsOld /\ Aged
    BY RefineInvStep, StepAges DEF LineageInv, RefineInv
<1>2. TypedInv /\ TypeOK /\ ClusterTypeOK /\ ClusterTypeOK' /\ UidsOld'
    BY <1>1, UidsStayOld DEF RefineInv, PinnedInv, TypedInv, TypeOK
<1>3. ASSUME NEW q \in Runs, Same(q), snap'[q] = snap[q] PROVE Emptied(q)' /\ Traced(q)' /\ Cleared(q)'
    <2>1. /\ Emptied(q) /\ Traced(q) /\ Cleared(q) /\ Books(q) /\ Phase(q)
          /\ Target(q)' = Target(q) /\ EmptySnapshot.obj = Nothing
        BY <1>1, <1>3 DEF LineageInv, OrderInv, RefineInv, ConsentInv, Local, Same, Target, EmptySnapshot
    <2>2. Emptied(q)'
        BY <1>3, <2>1 DEF Same, Emptied
    <2>3. CASE pc[q] = "start"
        <3>1. gate[q] = Nothing /\ plan[q] = {} /\ applied[q] = {} /\ snap[q].obj = Nothing
            BY <2>1, <2>3, LabelsListed DEF Phase, Books, Emptied
        <3>2. QED
            BY <1>3, <2>2, <3>1, FreshIsTraced DEF Same, Cleared
    <2>4. CASE pc[q] # "start"
        <3>1. Target(q) \in Refs
            BY <1>2, <2>4 DEF TypedInv, Started, TypeOK, Options, Target
        <3>2. QED
            BY <1>1, <1>2, <1>3, <2>1, <2>2, <3>1, TracedStays, ClearedStays DEF Same
    <2>5. QED
        BY <2>3, <2>4
<1>4. ASSUME NEW q \in Runs PROVE Emptied(q)' /\ Traced(q)' /\ Cleared(q)'
    <2>1. ASSUME NEW r \in Runs, Start(r) \/ Step(r) \/ Prompt(r) \/ Crash(r)
          PROVE  Emptied(q)' /\ Traced(q)' /\ Cleared(q)'
        <3>1. CASE q = r
            BY <1>1, <1>2, <2>1, <3>1, ActorKeepsEmptied, ActorKeepsTraced, ActorKeepsCleared DEF LineageInv
        <3>2. CASE q # r
            BY <1>2, <1>3, <2>1, <3>2, OnlyActorMoves, OnlyActorReads
        <3>3. QED
            BY <3>1, <3>2
    <2>2. CASE UNCHANGED runVars
        BY <1>3, <2>2 DEF runVars, Same
    <2>3. QED
        BY <2>1, <2>2 DEF Next, vars
<1>5. QED
    BY <1>1, <1>2, <1>4 DEF LineageInv

(* An apply that got past its gate and exits 0 has taken every metadata          *)
(* finalizer it was authorized for off the object it was authorized for, and     *)
(* nobody has put one back -- however many others write, and whatever fails.     *)
THEOREM ExitZeroCorrect == Spec => []ExitZeroClearsMetadata
<1>1. LineageInv => ExitZeroClearsMetadata
    <2> SUFFICES ASSUME LineageInv, NEW r \in Runs, exit[r] = 0, gate[r] # Nothing,
                        objects[Target(r)] # Nothing, SameAsGated(r, objects[Target(r)]),
                        NEW f \in objects[Target(r)].meta \intersect gate[r].meta
                 PROVE  Target(r) \in NsRefs /\ f = Kubernetes
        BY DEF ExitZeroClearsMetadata, SameAsGated
    <2>1. Emptied(r) /\ Cleared(r) /\ Books(r)
        BY DEF LineageInv, RefineInv, OrderInv, ConsentInv, Local
    <2>2. pc[r] \in {"audit", "done"}
        BY <2>1, NothingAssumption DEF Emptied
    <2>3. plan[r] = audit[r] /\ audit[r] \subseteq applied[r]
        BY <2>1, <2>2 DEF Books
    <2>4. ASSUME NEW a \in plan[r], a.kind = "ClearFinalizer" PROVE a.finalizer # f
        BY <2>1, <2>3, <2>4 DEF Cleared, Exists
    <2>5. QED
        BY <2>1, <2>2, <2>4 DEF Cleared
<1>2. Spec => []LineageInv
    BY LineageInit, LineageStep, PTL DEF Spec
<1>3. QED
    BY <1>1, <1>2, PTL

-----------------------------------------------------------------------------
(* Why an action was taken *)

(* Every aggregated API that a snapshot shows down was down since the           *)
(* invocation's previous mutation.                                              *)
Noticed(r) ==
    \A i \in DOMAIN Registrations :
        Registrations[i].aggregated /\ snap[r].available[i] = "False" => i \in downSince[r]

(* Some API was; and of the authorized object every finalizer there is belongs   *)
(* to one that was, but for the one nobody owns.                                 *)
Evident(r) ==
    /\ downSince[r] # {}
    /\ Exists(Target(r)) /\ SameAsGated(r, objects[Target(r)]) =>
          \A f \in objects[Target(r)].meta :
              \/ Target(r) \in NsRefs /\ f = Kubernetes
              \/ \E i \in downSince[r] : IsSuffix(Registrations[i].group, f.domain)

Proven(r) == pc[r] \in {"pin", "refetch", "mutate"} => Evident(r)

(* Every orphan of the plan was owned by the target.                            *)
OrphansOwned(r) == \A a \in plan[r] : a.kind = "CleanOrphan" => a.ref \in ownedSince[r]

HistoryInv == LineageInv /\ \A r \in Runs : Noticed(r) /\ Proven(r) /\ OrphansOwned(r)

(* The re-verify: a target that is all DEAD is one whose owners are down.        *)
LEMMA ReverifyProves ==
    ASSUME TypeOK, NEW r \in Runs, Noticed(r), Traced(r), Target(r) \in Refs,
           gate[r] # Nothing, snap[r].obj # Nothing,
           JointlyDead(Verdicts(Target(r), snap[r], opt[r].strategy))
    PROVE  Evident(r)
<1> DEFINE obj == snap[r].obj
           e == Evidences(snap[r])
           isNs == Target(r) \in NsRefs
           strategy == opt[r].strategy
<1>1. snap[r] \in Snapshots /\ obj \in Objects /\ gate[r] \in Objects
    BY DEF TypeOK, Snapshots
<1>2. /\ AllFinalizers(obj) # {}
      /\ \A item \in AllFinalizers(obj) : StateOf(item.finalizer, isNs, obj.conds, e, strategy) = "DEAD"
    <2> DEFINE Verdict(item) == [finalizer |-> item.finalizer,
                                 state     |-> StateOf(item.finalizer, isNs, obj.conds, e, strategy)]
    <2>1. Verdicts(Target(r), snap[r], strategy) = {Verdict(item) : item \in AllFinalizers(obj)}
        BY DEF Verdicts, Diagnose
    <2>2. /\ {Verdict(item) : item \in AllFinalizers(obj)} # {}
          /\ \A item \in AllFinalizers(obj) : Verdict(item).state = "DEAD"
        BY <2>1 DEF JointlyDead
    <2>3. QED
        BY <2>2
<1> HIDE DEF e, isNs, strategy
<1>3. ASSUME NEW item \in AllFinalizers(obj)
      PROVE  \E i \in downSince[r] : \/ isNs /\ item.finalizer = Kubernetes
                                     \/ IsSuffix(Registrations[i].group, item.finalizer.domain)
    <2> DEFINE f == item.finalizer
    <2>1. StateOf(f, isNs, obj.conds, Evidences(snap[r]), strategy) = "DEAD"
        BY <1>2 DEF e
    <2>2. \E i \in DOMAIN Registrations :
             /\ Registrations[i].aggregated /\ snap[r].available[i] = "False"
             /\ (isNs /\ f = Kubernetes) \/ IsSuffix(Registrations[i].group, f.domain)
        BY <1>1, <2>1, DeadRestsOnDown
    <2>3. QED
        BY <2>2 DEF Noticed
<1>4. downSince[r] # {}
    BY <1>2, <1>3
<1>5. ASSUME objects[Target(r)] # Nothing, SameAsGated(r, objects[Target(r)]),
             NEW f \in objects[Target(r)].meta, ~(isNs /\ f = Kubernetes)
      PROVE  \E i \in downSince[r] : IsSuffix(Registrations[i].group, f.domain)
    <2> DEFINE p == objects[Target(r)]
    <2>1. p \in Objects /\ p.uid \in Nat /\ obj.uid \in Nat /\ gate[r].uid \in Nat
        BY <1>1, <1>5 DEF TypeOK, ClusterTypeOK, Objects
    <2>2. gate[r].uid <= obj.uid /\ obj.uid <= p.uid /\ p.uid = gate[r].uid
        BY <1>5 DEF Traced, Descends, SameAsGated
    <2>3. obj.uid = gate[r].uid /\ p.uid = obj.uid
        BY <2>1, <2>2
    <2>4. obj.terminating
        BY <1>5, <2>3 DEF Traced, SameAsGated
    <2>5. p.meta \subseteq obj.meta
        BY <1>5, <2>3, <2>4 DEF Traced, Descends
    <2>6. [finalizer |-> f, list |-> "metadata"] \in AllFinalizers(obj)
        BY <1>5, <2>5 DEF AllFinalizers
    <2>7. QED
        BY <1>3, <1>5, <2>6
<1>6. QED
    BY <1>4, <1>5 DEF Evident, Exists, isNs

(* What the history variables record of one step.                               *)
LEMMA HistoryGrows ==
    ASSUME HNext, NEW r \in Runs
    PROVE  /\ downSince'[r] = IF Carries(r) THEN Down' ELSE downSince[r] \union Down'
           /\ ownedSince'[r] = ownedSince[r] \union Owned(r)'
    BY DEF HNext

(* What an invocation has read of the registrations it read before, has just     *)
(* read, or has forgotten -- the last at the latest when it carries an action out.*)
LEMMA ActorReads ==
    ASSUME TypeOK, NEW r \in Runs, Emptied(r), Start(r) \/ Step(r) \/ Prompt(r) \/ Crash(r)
    PROVE  \/ snap'[r].available = snap[r].available /\ (Carries(r) => snap[r] = EmptySnapshot)
           \/ snap'[r] = EmptySnapshot
           \/ snap'[r].available = available' /\ ~Carries(r)
<1>1. snap[r] \in Snapshots
    BY DEF TypeOK
<1>2. ASSUME UNCHANGED applied, UNCHANGED snap \/ (\E code : Leave(r, code)) \/ snap' = [snap EXCEPT ![r] = EmptySnapshot]
      PROVE  (snap'[r].available = snap[r].available /\ ~Carries(r)) \/ snap'[r] = EmptySnapshot
    <2>1. UNCHANGED snap \/ snap' = [snap EXCEPT ![r] = EmptySnapshot]
        BY <1>2 DEF Leave
    <2>2. QED
        BY <1>2, <2>1 DEF Carries, TypeOK
<1>3. CASE Start(r) \/ Resolve(r) \/ Preflight(r) \/ Check(r) \/ Report(r) \/ PassGate(r) \/ ScanOrphans(r)
    BY <1>2, <1>3 DEF Start, Resolve, Preflight, Check, Report, PassGate, ScanOrphans
<1>4. CASE Reverify(r) \/ Pin(r) \/ Refetch(r) \/ MutateFails(r) \/ AppendAudit(r) \/ Prompt(r) \/ Crash(r)
    BY <1>2, <1>4 DEF Reverify, Pin, Refetch, MutateFails, AppendAudit, Prompt, Crash
<1>5. CASE ReadTarget(r)
    <2>1. ~Carries(r)
        BY <1>5 DEF ReadTarget, Carries
    <2>2. CASE UNCHANGED snap
        BY <2>1, <2>2
    <2>3. CASE snap' = [snap EXCEPT ![r].obj = objects[opt[r].ref], ![r].readable = {"targets"}]
        <3>1. snap'[r] = [snap[r] EXCEPT !.obj = objects[opt[r].ref], !.readable = {"targets"}]
            BY <2>3 DEF TypeOK
        <3>2. QED
            BY <1>1, <2>1, <3>1 DEF Snapshots
    <2>4. QED
        BY <1>5, <2>2, <2>3 DEF ReadTarget
<1>6. CASE ReadSource(r)
    <2>1. ~Carries(r) /\ available' = available
        BY <1>6 DEF ReadSource, Carries, clusterVars
    <2>2. snap'[r] = snap[r] \/ snap'[r] = Fill(snap[r], pc[r])
        BY <1>6 DEF ReadSource, TypeOK
    <2>3. Fill(snap[r], pc[r]).available \in {snap[r].available, available}
        BY <1>1 DEF Fill, Snapshots
    <2>4. QED
        BY <2>1, <2>2, <2>3
<1>7. CASE Mutate(r) \/ MutateUnanswered(r)
    <2>1. snap[r] = EmptySnapshot
        BY <1>7, LabelsListed DEF Mutate, MutateUnanswered, Emptied
    <2>2. snap' = snap \/ snap' = [snap EXCEPT ![r] = EmptySnapshot]
        BY <1>7 DEF Mutate, MutateUnanswered, Leave
    <2>3. QED
        BY <2>1, <2>2 DEF TypeOK
<1>8. QED
    BY <1>3, <1>4, <1>5, <1>6, <1>7 DEF Step

LEMMA NoticedStays ==
    ASSUME TypeOK', HNext, NEW r \in Runs, Noticed(r),
           \/ snap'[r].available = snap[r].available /\ (Carries(r) => snap[r] = EmptySnapshot)
           \/ snap'[r] = EmptySnapshot
           \/ snap'[r].available = available' /\ ~Carries(r)
    PROVE  Noticed(r)'
<1> SUFFICES ASSUME NEW i \in DOMAIN Registrations, Registrations[i].aggregated, snap'[r].available[i] = "False"
             PROVE  i \in downSince'[r]
    BY DEF Noticed
<1>1. EmptySnapshot.available[i] # "False"
    BY DEF EmptySnapshot
<1>2. CASE snap'[r].available = snap[r].available /\ ~Carries(r)
    BY <1>2, HistoryGrows DEF Noticed
<1>3. CASE snap'[r].available = available' /\ ~Carries(r)
    BY <1>3, HistoryGrows DEF Down
<1>4. QED
    BY <1>1, <1>2, <1>3

(* Until its next mutation what is evident to an invocation stays so.           *)
LEMMA EvidentStays ==
    ASSUME TypeOK, ClusterTypeOK', Aged, HNext, NEW r \in Runs, Traced(r), Target(r) \in Refs,
           gate[r] # Nothing, gate'[r] = gate[r], Target(r)' = Target(r), ~Carries(r), Evident(r)
    PROVE  Evident(r)'
<1>1. downSince[r] \subseteq downSince'[r]
    BY HistoryGrows
<1>2. ASSUME objects'[Target(r)] # Nothing, SameAsGated(r, objects'[Target(r)]), NEW f \in objects'[Target(r)].meta
      PROVE  \/ Target(r) \in NsRefs /\ f = Kubernetes
             \/ \E i \in downSince[r] : IsSuffix(Registrations[i].group, f.domain)
    <2>1. /\ Exists(Target(r)) /\ SameAsGated(r, objects[Target(r)])
          /\ objects'[Target(r)].meta \subseteq objects[Target(r)].meta
        BY <1>2, SameWasThere
    <2>2. QED
        BY <1>2, <2>1 DEF Evident
<1>3. objects'[Target(r)'] = objects'[Target(r)] /\ (SameAsGated(r, objects[Target(r)])' <=> SameAsGated(r, objects'[Target(r)]))
    BY DEF SameAsGated
<1>4. downSince'[r] # {}
    BY <1>1 DEF Evident
<1>5. QED
    BY <1>1, <1>2, <1>3, <1>4 DEF Evident, Exists

(* An invocation comes to a plan step's Gets and its write by the re-verify.     *)
LEMMA ActorKeepsProven ==
    ASSUME LineageInv, LineageInv', Aged, HNext, NEW r \in Runs, Noticed(r), Proven(r),
           Start(r) \/ Step(r) \/ Prompt(r) \/ Crash(r)
    PROVE  Proven(r)'
<1>0. TypedInv /\ TypeOK /\ ClusterTypeOK' /\ Traced(r)
    BY DEF LineageInv, RefineInv, PinnedInv, TypedInv, TypeOK
<1>1. SUFFICES ASSUME pc'[r] \in {"pin", "refetch", "mutate"} PROVE Evident(r)'
    BY DEF Proven
<1>2. ASSUME UNCHANGED <<gate, opt, applied>>, Evident(r), gate[r] # Nothing, pc[r] # "start"
      PROVE  Evident(r)'
    <2>1. Target(r) \in Refs /\ Target(r)' = Target(r) /\ ~Carries(r)
        BY <1>0, <1>2 DEF TypedInv, Started, TypeOK, Options, Target, Carries
    <2>2. QED
        BY <1>0, <1>2, <2>1, EvidentStays
<1>3. ASSUME \E code \in {0, 1, 2, 3} : Leave(r, code) PROVE FALSE
    BY <1>0, <1>1, <1>3, LeaveMoves
<1>4. ASSUME \E label \in Labels \ {"pin", "refetch", "mutate"} : Goto(r, label) PROVE FALSE
    BY <1>0, <1>1, <1>4, GotoMoves
<1>5. CASE Start(r) \/ Crash(r)
    BY <1>0, <1>1, <1>5 DEF Start, Crash, TypeOK
<1>6. CASE Resolve(r) \/ Preflight(r) \/ Check(r) \/ ReadTarget(r) \/ Report(r) \/ PassGate(r) \/ ScanOrphans(r)
    BY <1>3, <1>4, <1>6, LabelsListed DEF Resolve, Preflight, Check, ReadTarget, Report, PassGate, ScanOrphans
<1>7. CASE ReadSource(r)
    <2>1. NextRead[pc[r]] \in Labels \ {"pin", "refetch", "mutate"}
        BY <1>7, NextReadLabel DEF ReadSource
    <2>2. QED
        BY <1>4, <1>7, <2>1 DEF ReadSource
<1>8. CASE Reverify(r)
    <2>1. snap[r].obj # Nothing /\ JointlyDead(Verdicts(Target(r), snap[r], opt[r].strategy))
        BY <1>3, <1>8 DEF Reverify, Target
    <2>2. UNCHANGED <<gate, opt, applied>> /\ gate[r] # Nothing /\ pc[r] # "start"
        BY <1>8 DEF Reverify
    <2>3. Target(r) \in Refs
        BY <1>0, <2>2 DEF TypedInv, Started, TypeOK, Options, Target
    <2>4. Evident(r)
        BY <1>0, <2>1, <2>2, <2>3, ReverifyProves
    <2>5. QED
        BY <1>2, <2>2, <2>4
<1>9. CASE Pin(r) \/ Refetch(r)
    <2>1. pc[r] \in {"pin", "refetch"} /\ UNCHANGED <<gate, opt, applied>>
        BY <1>9 DEF Pin, Refetch
    <2>2. Evident(r) /\ gate[r] # Nothing
        BY <1>0, <2>1 DEF Proven, TypedInv, Gated
    <2>3. QED
        BY <1>2, <2>1, <2>2
<1>10. CASE Mutate(r) \/ MutateUnanswered(r) \/ MutateFails(r) \/ AppendAudit(r) \/ Prompt(r)
    BY <1>3, <1>4, <1>10, LabelsListed DEF Mutate, MutateUnanswered, MutateFails, AppendAudit, Prompt
<1>11. QED
    BY <1>5, <1>6, <1>7, <1>8, <1>9, <1>10 DEF Step

LEMMA ActorKeepsOwned ==
    ASSUME LineageInv, LineageInv', HNext, NEW r \in Runs, OrphansOwned(r),
           Start(r) \/ Step(r) \/ Prompt(r) \/ Crash(r)
    PROVE  OrphansOwned(r)'
<1>0. TypedInv /\ TypeOK /\ TypeOK'
    BY DEF LineageInv, RefineInv, PinnedInv, TypedInv
<1>1. ownedSince'[r] = ownedSince[r] \union Owned(r)'
    BY HistoryGrows
<1>2. CASE plan'[r] = plan[r]
    BY <1>1, <1>2 DEF OrphansOwned
<1>3. CASE ScanOrphans(r)
    <2>1. PICK listed \in SUBSET Siblings[opt[r].ref] :
              plan' = [plan EXCEPT ![r] = Build(opt[r].ref, gate[r], Detect(opt[r].ref, listed))]
        BY <1>3 DEF ScanOrphans, NamespaceObjects
    <2>2. plan'[r] = Build(opt[r].ref, gate[r], Detect(opt[r].ref, listed))
        BY <1>0, <2>1 DEF TypeOK
    <2>3. gate[r] # Nothing /\ UNCHANGED <<gate, opt, objects>> /\ pc[r] = "orphans"
        BY <1>0, <1>3 DEF ScanOrphans, TypedInv, Gated, clusterVars
    <2>4. opt[r].ref \in Refs
        BY <1>0, <2>3 DEF TypedInv, Started, TypeOK, Options
    <2>5. ASSUME NEW a \in plan'[r], a.kind = "CleanOrphan" PROVE a.ref \in Owned(r)'
        <3>1. a.ref \in Detect(opt[r].ref, listed)
            BY <1>0, <2>2, <2>5 DEF Build
        <3>2. a.ref \in Refs
            BY <2>4, <3>1, DoctorAssumption DEF Detect
        <3>3. QED
            BY <2>3, <3>1, <3>2 DEF Detect, Owned, Exists, Target
    <2>6. QED
        BY <1>1, <2>5 DEF OrphansOwned
<1>4. ScanOrphans(r) \/ plan'[r] = plan[r]
    <2>1. CASE Start(r) \/ Resolve(r) \/ Preflight(r) \/ Check(r) \/ ReadTarget(r) \/ ReadSource(r) \/ Report(r)
        BY <2>1 DEF Start, Resolve, Preflight, Check, ReadTarget, ReadSource, Report
    <2>2. CASE PassGate(r) \/ Reverify(r) \/ Pin(r) \/ Refetch(r) \/ AppendAudit(r) \/ Prompt(r) \/ Crash(r)
        BY <2>2 DEF PassGate, Reverify, Pin, Refetch, AppendAudit, Prompt, Crash
    <2>3. CASE Mutate(r) \/ MutateUnanswered(r) \/ MutateFails(r)
        BY <2>3 DEF Mutate, MutateUnanswered, MutateFails
    <2>4. QED
        BY <2>1, <2>2, <2>3 DEF Step
<1>5. QED
    BY <1>2, <1>3, <1>4

LEMMA HistoryInit == HInit => HistoryInv
<1> SUFFICES ASSUME HInit PROVE HistoryInv
    OBVIOUS
<1>1. LineageInv
    BY LineageInit DEF HInit
<1>2. \A r \in Runs : Noticed(r) /\ Proven(r) /\ OrphansOwned(r)
    BY DEF HInit, Init, Noticed, Proven, OrphansOwned, EmptySnapshot
<1>3. QED
    BY <1>1, <1>2 DEF HistoryInv

LEMMA HistoryStep == HistoryInv /\ [HNext]_historyVars => HistoryInv'
<1>1. CASE UNCHANGED historyVars
    <2>1. ASSUME HistoryInv, UNCHANGED historyVars PROVE HistoryInv'
        <3>1. LineageInv /\ LineageInv'
            BY <2>1, LineageStep DEF HistoryInv, historyVars
        <3>2. \A r \in Runs : (Noticed(r) /\ Proven(r) /\ OrphansOwned(r))'
            BY <2>1 DEF HistoryInv, historyVars, vars, runVars, clusterVars, Noticed, Proven, OrphansOwned,
                        Evident, Target, Exists, SameAsGated
        <3>3. QED
            BY <3>1, <3>2 DEF HistoryInv
    <2>2. QED
        BY <1>1, <2>1
<1>2. ASSUME HistoryInv, HNext PROVE HistoryInv'
    <2>1. LineageInv /\ LineageInv' /\ Aged /\ Next
        BY <1>2, LineageStep, StepAges DEF HistoryInv, HNext, LineageInv, RefineInv
    <2>2. TypedInv /\ TypeOK /\ TypeOK' /\ ClusterTypeOK' /\ \A q \in Runs : Emptied(q) /\ Traced(q)
        BY <2>1 DEF LineageInv, RefineInv, PinnedInv, TypedInv, TypeOK
    <2>3. ASSUME NEW q \in Runs, Same(q), snap'[q] = snap[q]
          PROVE  Noticed(q)' /\ Proven(q)' /\ OrphansOwned(q)'
        <3>1. /\ Noticed(q) /\ Proven(q) /\ OrphansOwned(q) /\ ~Carries(q)
              /\ gate'[q] = gate[q] /\ plan'[q] = plan[q] /\ pc'[q] = pc[q] /\ Target(q)' = Target(q)
            BY <1>2, <2>3 DEF HistoryInv, Same, Carries, Target
        <3>2. Noticed(q)'
            BY <1>2, <2>2, <2>3, <3>1, NoticedStays
        <3>3. OrphansOwned(q)'
            BY <1>2, <3>1, HistoryGrows DEF OrphansOwned
        <3>4. ASSUME pc[q] \in {"pin", "refetch", "mutate"} PROVE Evident(q)'
            <4>1. gate[q] # Nothing /\ Target(q) \in Refs /\ Evident(q)
                BY <2>2, <3>1, <3>4 DEF TypedInv, Gated, Started, TypeOK, Options, Target, Proven
            <4>2. QED
                BY <1>2, <2>1, <2>2, <3>1, <4>1, EvidentStays
        <3>5. QED
            BY <3>1, <3>2, <3>3, <3>4 DEF Proven
    <2>4. ASSUME NEW q \in Runs PROVE Noticed(q)' /\ Proven(q)' /\ OrphansOwned(q)'
        <3>1. ASSUME NEW r \in Runs, Start(r) \/ Step(r) \/ Prompt(r) \/ Crash(r)
              PROVE  Noticed(q)' /\ Proven(q)' /\ OrphansOwned(q)'
            <4>1. CASE q = r
                <5>1. Noticed(r) /\ Proven(r) /\ OrphansOwned(r)
                    BY <1>2 DEF HistoryInv
                <5>2. Noticed(r)'
                    BY <1>2, <2>2, <3>1, <5>1, ActorReads, NoticedStays
                <5>3. QED
                    BY <1>2, <2>1, <3>1, <4>1, <5>1, <5>2, ActorKeepsProven, ActorKeepsOwned
            <4>2. CASE q # r
                BY <2>2, <2>3, <3>1, <4>2, OnlyActorMoves, OnlyActorReads
            <4>3. QED
                BY <4>1, <4>2
        <3>2. CASE UNCHANGED runVars
            BY <2>3, <3>2 DEF runVars, Same
        <3>3. QED
            BY <2>1, <3>1, <3>2 DEF Next, vars
    <2>5. QED
        BY <2>1, <2>4 DEF HistoryInv
<1>3. QED
    BY <1>1, <1>2

LEMMA HistoryAlways == HSpec => []HistoryInv
    BY HistoryInit, HistoryStep, PTL DEF HSpec

(* An invocation carries nothing out unless an API was down after its previous    *)
(* mutation, and clears a finalizer of the object it was authorized for only if   *)
(* the API that owns it was: a recovered owner aborts the run, at every action.   *)
THEOREM RecoveredCorrect == HSpec => RecoveredOwnerAborts
<1>1. ASSUME HistoryInv, HNext, NEW r \in Runs, Carries(r)
      PROVE  LET a == pin[r].action
                 o == objects[a.ref]
             IN  /\ downSince[r] # {}
                 /\ a.kind = "ClearFinalizer" /\ a.finalizer \in o.meta /\ SameAsGated(r, o) =>
                       \E i \in downSince[r] : IsSuffix(Registrations[i].group, a.finalizer.domain)
    <2> DEFINE a == pin[r].action
    <2>1. PinnedInv /\ TypedInv /\ Local(r) /\ Cleared(r) /\ Proven(r)
        BY <1>1 DEF HistoryInv, LineageInv, RefineInv, PinnedInv, OrderInv, ConsentInv
    <2>2. pc[r] = "mutate" /\ Accepted(pin[r]) /\ Perform(pin[r])
        BY <1>1, <2>1, OnlyMutateCarries DEF HNext
    <2>3. Evident(r) /\ pin[r] # Nothing /\ a \in plan[r] /\ objects[a.ref] # Nothing
        BY <2>1, <2>2, OneWriteRadius DEF Proven, TypedInv, Pinned, Local, Books
    <2>4. ASSUME a.kind = "ClearFinalizer", a.finalizer \in objects[a.ref].meta, SameAsGated(r, objects[a.ref])
          PROVE  \E i \in downSince[r] : IsSuffix(Registrations[i].group, a.finalizer.domain)
        <3>1. a.ref = Target(r) /\ ~(Target(r) \in NsRefs /\ a.finalizer = Kubernetes)
            BY <2>1, <2>3, <2>4 DEF Local, Consent, Cleared
        <3>2. QED
            BY <2>3, <2>4, <3>1 DEF Evident, Exists
    <2>5. QED
        BY <2>3, <2>4 DEF Evident
<1>2. HistoryInv /\ [HNext]_historyVars =>
        [\A r \in Runs : Carries(r) =>
          LET a == pin[r].action
              o == objects[a.ref]
          IN  /\ downSince[r] # {}
              /\ a.kind = "ClearFinalizer" /\ a.finalizer \in o.meta /\ SameAsGated(r, o) =>
                    \E i \in downSince[r] : IsSuffix(Registrations[i].group, a.finalizer.domain)]_historyVars
    BY <1>1
<1>3. QED
    BY <1>2, HistoryAlways, PTL DEF HSpec, RecoveredOwnerAborts

(* What is deleted as an orphan named the target as its owner at some time after  *)
(* the gate, whatever became of its owners since.                                *)
THEOREM OrphanCorrect == HSpec => OrphanWasOwned
<1>1. ASSUME HistoryInv, HNext, NEW r \in Runs, Carries(r), pin[r].action.kind = "CleanOrphan"
      PROVE  pin[r].action.ref \in ownedSince[r]
    <2>1. PinnedInv /\ TypedInv /\ Local(r) /\ OrphansOwned(r)
        BY <1>1 DEF HistoryInv, LineageInv, RefineInv, PinnedInv, OrderInv, ConsentInv
    <2>2. pc[r] = "mutate"
        BY <1>1, <2>1, OnlyMutateCarries DEF HNext
    <2>3. pin[r].action \in plan[r]
        BY <2>1, <2>2 DEF TypedInv, Pinned, Local, Books
    <2>4. QED
        BY <1>1, <2>1, <2>3 DEF OrphansOwned
<1>2. HistoryInv /\ [HNext]_historyVars =>
        [\A r \in Runs : Carries(r) /\ pin[r].action.kind = "CleanOrphan" =>
          pin[r].action.ref \in ownedSince[r]]_historyVars
    BY <1>1
<1>3. QED
    BY <1>2, HistoryAlways, PTL DEF HSpec, OrphanWasOwned

-----------------------------------------------------------------------------
(* A token is as good as its word: the inductive invariant.                      *)

(* Everything there is to read of ref, as one snapshot.                          *)
Present(ref) ==
    [obj |-> objects[ref], available |-> available, crds |-> installed, hooks |-> hooks,
     endpoints |-> endpoints, readable |-> Sources]

(* The sources read before each label of a snapshot.                             *)
ReadBefore ==
    [apiservices    |-> {},
     crds           |-> {"apiservices"},
     webhooks       |-> {"apiservices", "crds"},
     mutating       |-> {"apiservices", "crds", "webhooks"},
     workloads      |-> {"apiservices", "crds", "webhooks", "mutating"},
     pods           |-> {"apiservices", "crds", "webhooks", "mutating", "workloads"},
     endpointslices |-> {"apiservices", "crds", "webhooks", "mutating", "workloads", "pods"},
     judge          |-> {"apiservices", "crds", "webhooks", "mutating", "workloads", "pods", "endpointslices"}]

(* What an undisturbed invocation has read so far is what is there.              *)
ReadTrue(q) ==
    Undisturbed(q) /\ pc[q] \in DOMAIN ReadBefore =>
        LET read == ReadBefore[pc[q]]
        IN  /\ snap[q].obj = objects[Target(q)]
            /\ (read \union {source \in {"targets"} : Exists(Target(q))}) \intersect Sources
                  \subseteq snap[q].readable
            /\ "apiservices" \in read => snap[q].available = available
            /\ "crds" \in read => snap[q].crds = installed
            /\ snap[q].hooks = {hook \in hooks : hook.config \in read}
            /\ "endpointslices" \in read => snap[q].endpoints = endpoints

(* Before it is judged, its target was found stuck.                              *)
FoundStuck(q) ==
    Undisturbed(q) /\ gate[q] = Nothing /\ pc[q] \in {"target"} \union DOMAIN ReadBefore =>
        Exists(Target(q)) /\ Stuck(objects[Target(q)])

(* Nothing has happened yet to the cluster the tool found.                       *)
Intact == foreign = 0 /\ faults = 0 /\ \A q \in Runs : applied[q] = {}

(* A token of an intact cluster is of what is there.                             *)
ShownTrue(s) ==
    Intact /\ shown[s] # Nothing =>
        LET ref == shown[s].ref
        IN  /\ Exists(ref) /\ Stuck(objects[ref])
            /\ JointlyDead(Verdicts(ref, Present(ref), opt[s].strategy))
            /\ ~Blocks(Present(ref), ref)
            /\ shown[s] = DeadToken(ref, objects[ref])

(* A token is given to an apply without a terminal.                              *)
Confirmed(r) ==
    opt[r] # Nothing /\ opt[r].confirm # Nothing =>
        opt[r].apply /\ ~opt[r].interactive /\ (pc[r] # "start" => mode[r] = "apply")

(* What QuietApplyClears asks of an invocation and of the cluster around it.     *)
Sound(r) ==
    /\ opt[r] # Nothing /\ opt[r].confirm # Nothing
    /\ opt[r].confirm.ref = Target(r) /\ opt[r].denied = {}
    /\ Undisturbed(r) /\ Admitted(r) /\ Trusted(r)

(* Until its gate such an invocation goes straight on.                           *)
Faithful(r) ==
    Sound(r) /\ gate[r] = Nothing /\ pc[r] \notin {"start", "resolve", "crashed"} =>
        pc[r] \in {"preflight", "check", "target"} \union DOMAIN ReadBefore

ClearOf(ref, f) ==
    [kind |-> "ClearFinalizer", ref |-> ref, finalizer |-> f, list |-> "metadata"]

FinalizeOf(ref, f) ==
    [kind |-> "FinalizeNamespace", ref |-> ref, finalizer |-> f, list |-> "spec"]

OrphanOf(ref) ==
    [kind |-> "CleanOrphan", ref |-> ref, finalizer |-> Nothing, list |-> "none"]

(* At its gate everything was DEAD, is still, and no webhook stands in the way.  *)
Condemned(r) ==
    /\ gate[r].terminating /\ gate[r].meta \union gate[r].spec # {}
    /\ \A f \in gate[r].meta \union gate[r].spec :
          StateOf(f, Target(r) \in NsRefs, gate[r].conds, Evidences(Present(Target(r))), opt[r].strategy) = "DEAD"
    /\ \A hook \in hooks : hook.policy = "Ignore" \/ Answers(hook.backend)

(* The plan: orphans that are still there, and a way out for each finalizer.     *)
Planned(r) ==
    \E orphans \in SUBSET (Refs \ {Target(r)}) :
        /\ plan[r] = {OrphanOf(o) : o \in orphans}
                     \union {ClearOf(Target(r), f) : f \in gate[r].meta}
                     \union {FinalizeOf(Target(r), f) : f \in gate[r].spec}
        /\ \A o \in orphans : OrphanOf(o) \notin applied[r] => Exists(o)

(* The target is the authorized one less what was carried out.                   *)
HalfDone(r) ==
    LET o == objects[Target(r)]
    IN  /\ o # Nothing /\ o.terminating /\ o.conds = gate[r].conds
        /\ o.meta = {f \in gate[r].meta : ClearOf(Target(r), f) \notin applied[r]}
        /\ o.spec = {f \in gate[r].spec : FinalizeOf(Target(r), f) \notin applied[r]}

(* From its gate on it works its plan off, and the target is gone in the end.     *)
Settled(r) ==
    Sound(r) /\ gate[r] # Nothing /\ Clearable(Target(r), gate[r]) /\ pc[r] # "crashed" =>
        /\ Condemned(r)
        /\ IF pc[r] \in {"audit", "done"} THEN exit[r] = 0 /\ ~Exists(Target(r))
           ELSE /\ pc[r] \in {"orphans", "target", "pin", "refetch", "mutate"} \union DOMAIN ReadBefore
                /\ HalfDone(r)
                /\ pc[r] # "orphans" => Planned(r) /\ plan[r] # applied[r]
                /\ pc[r] \in {"refetch", "mutate"} => Precondition(pin[r].action.ref, pin[r].rv)

QuietInv ==
    \A r \in Runs : ReadTrue(r) /\ FoundStuck(r) /\ ShownTrue(r) /\ Confirmed(r) /\ Faithful(r) /\ Settled(r)

(* What an invocation does. *)
Acts(r) == Start(r) \/ Step(r) \/ Prompt(r) \/ Crash(r)

(* But for its mutating requests it leaves the cluster, and its own account of    *)
(* what was carried out, alone.                                                  *)
LEMMA ActsOrMutates ==
    ASSUME NEW r \in Runs, Acts(r)
    PROVE  Mutate(r) \/ MutateUnanswered(r) \/ UNCHANGED <<clusterVars, applied>>
<1>1. CASE Start(r) \/ Resolve(r) \/ Preflight(r) \/ Check(r) \/ ReadTarget(r) \/ ReadSource(r)
    BY <1>1 DEF Start, Resolve, Preflight, Check, ReadTarget, ReadSource
<1>2. CASE Report(r) \/ PassGate(r) \/ ScanOrphans(r) \/ Reverify(r) \/ Pin(r) \/ Refetch(r)
    BY <1>2 DEF Report, PassGate, ScanOrphans, Reverify, Pin, Refetch
<1>3. CASE MutateFails(r) \/ AppendAudit(r) \/ Prompt(r) \/ Crash(r)
    BY <1>3 DEF MutateFails, AppendAudit, Prompt, Crash
<1>4. QED
    BY <1>1, <1>2, <1>3 DEF Step, Acts

(* A step is somebody else's as far as q is concerned, or it is q's.              *)
LEMMA OneActs ==
    ASSUME TypedInv, [Next]_vars, NEW q \in Runs
    PROVE  Acts(q) \/ (Same(q) /\ snap'[q] = snap[q])
<1>0. TypeOK
    BY DEF TypedInv
<1>1. ASSUME NEW r \in Runs, Acts(r), q # r PROVE Same(q) /\ snap'[q] = snap[q]
    BY <1>0, <1>1, OnlyActorMoves, OnlyActorReads DEF Acts
<1>2. CASE UNCHANGED runVars
    BY <1>2 DEF runVars, Same
<1>3. QED
    BY <1>1, <1>2 DEF Next, vars, Acts

(* An undisturbed invocation was undisturbed before, and the step is its own        *)
(* mutation or leaves the cluster as it is.                                      *)
LEMMA UndisturbedBefore ==
    ASSUME TypedInv, [Next]_vars, NEW q \in Runs, Undisturbed(q)'
    PROVE  /\ Undisturbed(q) /\ ~CallFails
           /\ Mutate(q) \/ UNCHANGED <<clusterVars, applied>>
<1>0. TypeOK /\ ClusterTypeOK /\ foreign' = 0 /\ faults' = 0
    BY DEF TypedInv, TypeOK, Undisturbed
<1>1. ~CallFails /\ faults = 0
    BY <1>0, FaultsGrow DEF CallFails, TypeOK
<1>2. ~ForeignWrite
    <2>1. ForeignWrite => foreign' = foreign + 1 /\ foreign \in Nat
        BY <1>0, ForeignTouchesOne DEF ClusterTypeOK
    <2>2. QED
        BY <1>0, <2>1
<1>3. ASSUME NEW r \in Runs, Mutate(r) \/ MutateUnanswered(r) PROVE Mutate(q)
    <2>1. Mutate(r)
        BY <1>1, <1>3 DEF MutateUnanswered
    <2>2. applied'[r] # {}
        BY <1>0, <2>1 DEF Mutate, TypeOK
    <2>3. QED
        BY <2>1, <2>2 DEF Undisturbed
<1>4. Mutate(q) \/ UNCHANGED <<clusterVars, applied>>
    BY <1>2, <1>3, ActsOrMutates DEF Next, Acts, vars, runVars
<1>5. Undisturbed(q)
    <2>1. CASE Mutate(q)
        <3>1. foreign' = foreign /\ \A r \in Runs \ {q} : applied'[r] = applied[r]
            BY <1>0, <2>1 DEF Mutate, TypeOK
        <3>2. QED
            BY <1>1, <3>1 DEF Undisturbed
    <2>2. CASE UNCHANGED <<clusterVars, applied>>
        BY <1>1, <2>2 DEF Undisturbed, clusterVars
    <2>3. QED
        BY <1>4, <2>1, <2>2
<1>6. QED
    BY <1>1, <1>4, <1>5

LEMMA IntactBefore ==
    ASSUME TypedInv, [Next]_vars, Intact', NEW q \in Runs
    PROVE  Intact /\ ~CallFails /\ UNCHANGED <<clusterVars, applied>>
<1>0. TypeOK
    BY DEF TypedInv
<1>1. Undisturbed(q) /\ ~CallFails /\ (Mutate(q) \/ UNCHANGED <<clusterVars, applied>>)
    BY UndisturbedBefore DEF Undisturbed, Intact
<1>2. ~Mutate(q)
    <2>1. Mutate(q) => applied'[q] # {}
        BY <1>0 DEF Mutate, TypeOK
    <2>2. QED
        BY <2>1 DEF Intact
<1>3. QED
    BY <1>1, <1>2 DEF Intact, clusterVars, Undisturbed

LEMMA ReadBeforeListed ==
    DOMAIN ReadBefore = {"apiservices", "crds", "webhooks", "mutating", "workloads", "pods",
                         "endpointslices", "judge"}
    BY DEF ReadBefore

(* Where the steps of an invocation lead: to the reads only by a read.             *)
LEMMA ReadsLeadOn ==
    ASSUME TypeOK, NEW q \in Runs, Acts(q), pc'[q] \in DOMAIN ReadBefore
    PROVE  ReadTarget(q) \/ ReadSource(q)
<1>1. ASSUME \E code \in {0, 1, 2, 3} : Leave(q, code) PROVE FALSE
    BY <1>1, LeaveMoves, ReadBeforeListed
<1>2. ASSUME \E label \in Labels \ DOMAIN ReadBefore : Goto(q, label) PROVE FALSE
    BY <1>2, GotoMoves
<1>3. CASE Start(q) \/ Crash(q)
    BY <1>3, ReadBeforeListed DEF Start, Crash, TypeOK
<1>4. CASE Resolve(q) \/ ScanOrphans(q) \/ Prompt(q) \/ AppendAudit(q)
    BY <1>2, <1>4, ReadBeforeListed, LabelsListed DEF Resolve, ScanOrphans, Prompt, AppendAudit
<1>5. CASE Preflight(q) \/ Check(q) \/ Report(q) \/ PassGate(q) \/ Reverify(q)
    BY <1>1, <1>2, <1>5, ReadBeforeListed, LabelsListed DEF Preflight, Check, Report, PassGate, Reverify
<1>6. CASE Pin(q) \/ Refetch(q) \/ MutateFails(q)
    <2>1. (\E label \in {"refetch", "mutate"} : Goto(q, label)) \/ Leave(q, 3)
        BY <1>6 DEF Pin, Refetch, MutateFails
    <2>2. QED
        BY <1>1, <1>2, <2>1, ReadBeforeListed, LabelsListed
<1>7. CASE Mutate(q) \/ MutateUnanswered(q)
    BY <1>1, <1>2, <1>7, ReadBeforeListed, LabelsListed DEF Mutate, MutateUnanswered
<1>8. QED
    BY <1>3, <1>4, <1>5, <1>6, <1>7 DEF Step, Acts

(* One read more.                                                                *)
LEMMA SourceReadTrue ==
    ASSUME TypedInv, NEW q \in Runs, ReadTrue(q), Undisturbed(q), ReadSource(q), ~CallFails
    PROVE  ReadTrue(q)'
<1>0. TypeOK /\ ClusterTypeOK /\ snap[q] \in Snapshots
    BY DEF TypedInv, TypeOK
<1> DEFINE s == pc[q]
<1>1. /\ s \in DOMAIN NextRead /\ pc'[q] = NextRead[s] /\ snap'[q] = Fill(snap[q], s)
      /\ UNCHANGED <<objects, available, installed, hooks, endpoints, opt>>
    <2>1. NextRead[s] \in Labels
        BY NextReadLabel DEF ReadSource
    <2>2. QED
        BY <1>0, <2>1, GotoMoves DEF ReadSource, TypeOK, clusterVars
<1> DEFINE read == ReadBefore[s]
           next == ReadBefore[NextRead[s]]
<1>2. /\ s \in DOMAIN ReadBefore /\ NextRead[s] \in DOMAIN ReadBefore
      /\ next = read \union {s} /\ s \notin read
    BY <1>1, LabelsListed DEF ReadBefore, NextRead
<1>3. /\ snap[q].obj = objects[Target(q)]
      /\ (read \union {source \in {"targets"} : Exists(Target(q))}) \intersect Sources
            \subseteq snap[q].readable
      /\ "apiservices" \in read => snap[q].available = available
      /\ "crds" \in read => snap[q].crds = installed
      /\ snap[q].hooks = {hook \in hooks : hook.config \in read}
      /\ "endpointslices" \in read => snap[q].endpoints = endpoints
    BY <1>2 DEF ReadTrue
<1> DEFINE t == Fill(snap[q], s)
<1>4. /\ t.obj = snap[q].obj
      /\ t.readable = snap[q].readable \union ({s} \intersect Sources)
      /\ t.available = IF s = "apiservices" THEN available ELSE snap[q].available
      /\ t.crds = IF s = "crds" THEN installed ELSE snap[q].crds
      /\ t.hooks = IF s \in {"webhooks", "mutating"}
                   THEN snap[q].hooks \union {hook \in hooks : hook.config = s} ELSE snap[q].hooks
      /\ t.endpoints = IF s = "endpointslices" THEN endpoints ELSE snap[q].endpoints
    BY <1>0, <1>1, LabelsListed DEF Fill, Snapshots
<1>5. \A hook \in hooks : hook.config \in {"webhooks", "mutating"}
    BY <1>0, ClusterAssumption DEF ClusterTypeOK
<1> HIDE DEF read, next, s, t
<1>6. t.hooks = {hook \in hooks : hook.config \in next}
    BY <1>2, <1>3, <1>4, <1>5
<1>7. /\ t.obj = objects[Target(q)]
      /\ (next \union {source \in {"targets"} : Exists(Target(q))}) \intersect Sources \subseteq t.readable
      /\ "apiservices" \in next => t.available = available
      /\ "crds" \in next => t.crds = installed
      /\ "endpointslices" \in next => t.endpoints = endpoints
    BY <1>2, <1>3, <1>4
<1>8. snap'[q] = t /\ ReadBefore[pc'[q]] = next /\ Target(q)' = Target(q) /\ Exists(Target(q))' = Exists(Target(q))
    BY <1>1 DEF t, next, s, Target, Exists
<1>9. QED
    BY <1>1, <1>6, <1>7, <1>8 DEF ReadTrue

LEMMA TargetReadTrue ==
    ASSUME TypedInv, NEW q \in Runs, Emptied(q), ReadTarget(q), ~CallFails
    PROVE  ReadTrue(q)'
<1>0. TypeOK /\ snap[q] = EmptySnapshot
    BY LabelsListed DEF TypedInv, Emptied, ReadTarget
<1>1. /\ pc'[q] = "apiservices"
      /\ UNCHANGED <<objects, available, installed, hooks, endpoints, opt>>
    BY <1>0, LabelsListed, GotoMoves DEF ReadTarget, clusterVars
<1>2. \A hook \in hooks : hook.config \in {"webhooks", "mutating"}
    BY <1>0, ClusterAssumption DEF ClusterTypeOK, TypeOK
<1>3. /\ snap'[q].obj = objects[Target(q)] /\ snap'[q].hooks = {}
      /\ Exists(Target(q)) => "targets" \in snap'[q].readable
    <2>1. CASE Exists(Target(q))
        <3>1. snap'[q] = [EmptySnapshot EXCEPT !.obj = objects[Target(q)], !.readable = {"targets"}]
            BY <1>0, <2>1 DEF ReadTarget, TypeOK, Target
        <3>2. QED
            BY <3>1 DEF EmptySnapshot
    <2>2. CASE ~Exists(Target(q))
        <3>1. snap'[q] = EmptySnapshot
            BY <1>0, <2>2 DEF ReadTarget, Target
        <3>2. QED
            BY <2>2, <3>1 DEF EmptySnapshot, Exists
    <2>3. QED
        BY <2>1, <2>2
<1>4. ReadBefore[pc'[q]] = {}
    BY <1>1 DEF ReadBefore
<1>5. Target(q)' = Target(q) /\ Exists(Target(q))' = Exists(Target(q))
    BY <1>1 DEF Target, Exists
<1>6. QED
    BY <1>1, <1>2, <1>3, <1>4, <1>5 DEF ReadTrue

LEMMA ReadTrueStays ==
    ASSUME TypedInv, [Next]_vars, NEW q \in Runs, Emptied(q), ReadTrue(q)
    PROVE  ReadTrue(q)'
<1> SUFFICES ASSUME Undisturbed(q)', pc'[q] \in DOMAIN ReadBefore PROVE ReadTrue(q)'
    BY DEF ReadTrue, ReadBefore
<1>1. Undisturbed(q) /\ ~CallFails /\ (Mutate(q) \/ UNCHANGED <<clusterVars, applied>>)
    BY UndisturbedBefore
<1>2. CASE Acts(q)
    BY <1>1, <1>2, ReadsLeadOn, SourceReadTrue, TargetReadTrue DEF TypedInv
<1>3. CASE Same(q) /\ snap'[q] = snap[q] /\ ~Acts(q)
    <2>1. UNCHANGED <<objects, available, installed, hooks, endpoints>>
        BY <1>1, <1>3 DEF clusterVars, Acts, Step
    <2>2. Target(q)' = Target(q) /\ Exists(Target(q))' = Exists(Target(q))
        BY <1>3, <2>1 DEF Same, Target, Exists
    <2>3. QED
        BY <1>1, <1>3, <2>1, <2>2 DEF Same, ReadTrue
<1>4. QED
    BY <1>2, <1>3, OneActs

(* At the end of the reads that is all there is.                                  *)
LEMMA ReadAll ==
    ASSUME TypedInv, NEW q \in Runs, ReadTrue(q), Undisturbed(q), pc[q] = "judge", Exists(Target(q))
    PROVE  snap[q] = Present(Target(q))
<1>0. snap[q] \in Snapshots /\ hooks \subseteq Hooks
    BY DEF TypedInv, TypeOK, ClusterTypeOK
<1>1. /\ pc[q] \in DOMAIN ReadBefore
      /\ ReadBefore[pc[q]] = {"apiservices", "crds", "webhooks", "mutating", "workloads", "pods", "endpointslices"}
    BY ReadBeforeListed DEF ReadBefore
<1>2. /\ snap[q].obj = objects[Target(q)] /\ snap[q].available = available /\ snap[q].crds = installed
      /\ snap[q].hooks = {hook \in hooks : hook.config \in ReadBefore[pc[q]]}
      /\ snap[q].endpoints = endpoints
      /\ (ReadBefore[pc[q]] \union {source \in {"targets"} : Exists(Target(q))}) \intersect Sources
            \subseteq snap[q].readable
    BY <1>1 DEF ReadTrue
<1>3. snap[q].hooks = hooks
    BY <1>0, <1>1, <1>2, ClusterAssumption
<1>4. snap[q].readable = Sources
    BY <1>0, <1>1, <1>2 DEF Snapshots, Sources, LivenessSources
<1>5. QED
    BY <1>0, <1>2, <1>3, <1>4 DEF Snapshots, Present

(* What a command line says stays; only Resolve gives the target another ref.      *)
LEMMA LineStays ==
    ASSUME TypedInv, [Next]_vars, NEW q \in Runs, pc[q] # "start"
    PROVE  /\ opt[q] # Nothing /\ opt[q] \in Options /\ opt'[q] # Nothing /\ opt'[q] \in Options
           /\ opt'[q].confirm = opt[q].confirm /\ opt'[q].strategy = opt[q].strategy
           /\ opt'[q].denied = opt[q].denied /\ opt'[q].apply = opt[q].apply
           /\ opt'[q].interactive = opt[q].interactive
           /\ pc[q] # "resolve" => Target(q)' = Target(q)
<1>0. TypeOK /\ opt[q] # Nothing /\ opt[q] \in Options
    BY DEF TypedInv, TypeOK, Started
<1>1. CASE opt'[q] = opt[q]
    BY <1>0, <1>1 DEF Target
<1>2. CASE Resolve(q)
    <2>1. PICK ref \in Refs : opt' = [opt EXCEPT ![q].ref = ref]
        <3>1. /\ Matches[opt[q].name] \in Seq(Refs) /\ Parsed[opt[q].name] \in Refs
              /\ \A i \in DOMAIN Matches[opt[q].name] : Matches[opt[q].name][i] \in Refs
            BY <1>0, DoctorAssumption DEF Options
        <3>2. Matches[opt[q].name] # <<>> => Matches[opt[q].name][1] \in Refs
            BY <3>1
        <3>3. QED
            BY <1>2, <3>1, <3>2 DEF Resolve
    <2>2. opt'[q] = [opt[q] EXCEPT !.ref = ref]
        BY <1>0, <2>1 DEF TypeOK
    <2>3. opt'[q] \in Options
        BY <1>0, <2>2 DEF Options
    <2>4. QED
        BY <1>0, <1>2, <2>2, <2>3, NothingAssumption DEF Options, Resolve
<1>3. CASE Prompt(q)
    <2>1. PICK typed \in BOOLEAN : opt' = [opt EXCEPT ![q].typed = typed]
        BY <1>3 DEF Prompt
    <2>2. opt'[q] = [opt[q] EXCEPT !.typed = typed]
        BY <1>0, <2>1 DEF TypeOK
    <2>3. opt'[q] \in Options
        BY <1>0, <2>2 DEF Options
    <2>4. QED
        BY <1>0, <2>2, <2>3, NothingAssumption DEF Options, Target
<1>4. CASE Acts(q) /\ ~Resolve(q) /\ ~Prompt(q)
    BY <1>1, <1>4 DEF Acts, Step, Start, Preflight, Check, ReadTarget, ReadSource, Report, PassGate,
                      ScanOrphans, Reverify, Pin, Refetch, Mutate, MutateUnanswered, MutateFails,
                      AppendAudit, Crash
<1>5. QED
    BY <1>1, <1>2, <1>3, <1>4, OneActs DEF Same

(* A gate passed is never passed again.                                          *)
LEMMA GateStays ==
    ASSUME TypedInv, [Next]_vars, NEW q \in Runs
    PROVE  gate'[q] = gate[q] \/ (gate[q] = Nothing /\ PassGate(q))
<1>1. CASE Acts(q) /\ ~PassGate(q)
    BY <1>1 DEF Acts, Step, Start, Resolve, Preflight, Check, ReadTarget, ReadSource, Report,
                ScanOrphans, Reverify, Pin, Refetch, Mutate, MutateUnanswered, MutateFails,
                AppendAudit, Prompt, Crash
<1>2. CASE PassGate(q)
    BY <1>2 DEF PassGate
<1>3. QED
    BY <1>1, <1>2, OneActs DEF Same

(* A snapshot is begun after the check, after the orphan scan and after an action. *)
LEMMA TargetIsNext ==
    ASSUME TypeOK, NEW q \in Runs, Acts(q), pc'[q] = "target"
    PROVE  Check(q) \/ ScanOrphans(q) \/ Mutate(q)
<1>1. ASSUME \E code \in {0, 1, 2, 3} : Leave(q, code) PROVE FALSE
    BY <1>1, LeaveMoves
<1>2. ASSUME \E label \in Labels \ {"target"} : Goto(q, label) PROVE FALSE
    BY <1>2, GotoMoves
<1>3. CASE Start(q) \/ Crash(q)
    BY <1>3 DEF Start, Crash, TypeOK
<1>4. CASE Resolve(q) \/ Prompt(q) \/ AppendAudit(q) \/ ReadTarget(q)
    BY <1>2, <1>4, LabelsListed DEF Resolve, Prompt, AppendAudit, ReadTarget
<1>5. CASE Preflight(q) \/ Report(q) \/ PassGate(q) \/ Reverify(q) \/ Refetch(q) \/ MutateFails(q)
    BY <1>1, <1>2, <1>5, LabelsListed DEF Preflight, Report, PassGate, Reverify, Refetch, MutateFails
<1>6. CASE ReadSource(q)
    <2>1. NextRead[pc[q]] \in Labels \ {"target"}
        BY <1>6, LabelsListed DEF ReadSource, NextRead
    <2>2. QED
        BY <1>2, <1>6, <2>1 DEF ReadSource
<1>7. CASE Pin(q)
    <2>1. (\E label \in {"refetch", "mutate"} : Goto(q, label)) \/ Leave(q, 3)
        BY <1>7 DEF Pin
    <2>2. QED
        BY <1>1, <1>2, <2>1, LabelsListed
<1>8. CASE MutateUnanswered(q)
    BY <1>1, <1>8 DEF MutateUnanswered
<1>9. QED
    BY <1>3, <1>4, <1>5, <1>6, <1>7, <1>8 DEF Step, Acts

LEMMA FoundStuckStays ==
    ASSUME TypedInv, [Next]_vars, NEW q \in Runs, FoundStuck(q)
    PROVE  FoundStuck(q)'
<1> SUFFICES ASSUME Undisturbed(q)', gate'[q] = Nothing, pc'[q] \in {"target"} \union DOMAIN ReadBefore
             PROVE  objects'[Target(q)'] # Nothing /\ Stuck(objects'[Target(q)'])
    BY DEF FoundStuck, Exists, ReadBefore, Stuck
<1>0. TypeOK
    BY DEF TypedInv
<1>1. Undisturbed(q) /\ ~CallFails /\ (Mutate(q) \/ UNCHANGED <<clusterVars, applied>>)
    BY UndisturbedBefore
<1>2. gate[q] = Nothing
    BY GateStays DEF PassGate
<1>3. ~Mutate(q) /\ ~ScanOrphans(q)
    BY <1>2 DEF TypedInv, Gated, Mutate, ScanOrphans
<1>4. UNCHANGED objects
    BY <1>1, <1>3 DEF clusterVars
<1>5. CASE Check(q)
    <2>1. Exists(opt[q].ref) /\ Stuck(objects[opt[q].ref])
        <3>1. ASSUME \E code \in {0, 1, 3} : Leave(q, code) PROVE FALSE
            BY <1>0, <3>1, LeaveMoves, ReadBeforeListed
        <3>2. QED
            BY <1>5, <3>1 DEF Check
    <2>2. opt' = opt
        BY <1>5 DEF Check
    <2>3. QED
        BY <1>4, <2>1, <2>2 DEF Target, Exists
<1>6. CASE ReadTarget(q) \/ ReadSource(q)
    <2>1. opt' = opt /\ pc[q] \in {"target"} \union DOMAIN ReadBefore
        BY <1>6, LabelsListed, ReadBeforeListed DEF ReadTarget, ReadSource
    <2>2. QED
        BY <1>1, <1>2, <1>4, <2>1 DEF FoundStuck, Target, Exists
<1>7. CASE Same(q) /\ ~Acts(q)
    BY <1>1, <1>2, <1>4, <1>7 DEF FoundStuck, Same, Target, Exists
<1>8. QED
    BY <1>0, <1>3, <1>5, <1>6, <1>7, OneActs, ReadsLeadOn, TargetIsNext

LEMMA ConfirmedStays ==
    ASSUME TypedInv, [Next]_vars, NEW q \in Runs, Confirmed(q)
    PROVE  Confirmed(q)'
<1>0. TypeOK
    BY DEF TypedInv
<1>1. CASE Start(q)
    <2>1. PICK f \in Flags[q], token \in {shown[r] : r \in Runs} \union {Nothing} :
              /\ token # Nothing => f.apply /\ ~f.interactive
              /\ opt' = [opt EXCEPT ![q] =
                        [name |-> f.name, ref |-> Parsed[f.name], apply |-> f.apply,
                         interactive |-> f.interactive, strategy |-> f.strategy,
                         audits |-> f.audits, denied |-> f.denied,
                         confirm |-> token, typed |-> FALSE]]
              /\ mode' = [mode EXCEPT ![q] = IF f.apply /\ ~f.interactive THEN "apply" ELSE "dry"]
        BY <1>1 DEF Start
    <2>2. /\ opt'[q].confirm = token /\ opt'[q].apply = f.apply /\ opt'[q].interactive = f.interactive
          /\ mode'[q] = IF f.apply /\ ~f.interactive THEN "apply" ELSE "dry"
        BY <1>0, <2>1 DEF TypeOK
    <2>3. QED
        BY <2>1, <2>2 DEF Confirmed
<1>2. CASE Acts(q) /\ ~Start(q)
    <2>1. pc[q] # "start"
        BY <1>2, LabelsListed DEF Acts, Step, Resolve, Preflight, Check, ReadTarget, ReadSource, Report, PassGate,
                ScanOrphans, Reverify, Pin, Refetch, Mutate, MutateUnanswered, MutateFails,
                AppendAudit, Prompt, Crash
    <2>2. mode[q] = "apply" => mode'[q] = "apply"
        <3>1. (\E label \in Labels : Goto(q, label)) \/ (\E code \in {0, 1, 2, 3} : Leave(q, code)) \/ mode' = mode
            BY <1>2, LabelsListed, NextReadLabel
                DEF Acts, Step, Resolve, Preflight, Check, ReadTarget, ReadSource, Report, PassGate,
                ScanOrphans, Reverify, Pin, Refetch, Mutate, MutateUnanswered, MutateFails,
                AppendAudit, Prompt, Crash
        <3>2. QED
            BY <1>0, <3>1, GotoMoves, LeaveMoves
    <2>3. QED
        BY <2>1, <2>2, LineStays DEF Confirmed
<1>3. CASE Same(q)
    BY <1>3 DEF Same, Confirmed
<1>4. QED
    BY <1>1, <1>2, <1>3, OneActs

LEMMA ShownTrueStays ==
    ASSUME ConsentInv, [Next]_vars, NEW q \in Runs, Emptied(q), ReadTrue(q), FoundStuck(q), ShownTrue(q)
    PROVE  ShownTrue(q)'
<1> SUFFICES ASSUME Intact', shown'[q] # Nothing PROVE ShownTrue(q)'
    BY DEF ShownTrue, Intact
<1>0. TypedInv /\ TypeOK /\ Phase(q)
    BY DEF ConsentInv, TypedInv, Local
<1>1. Intact /\ ~CallFails /\ UNCHANGED <<clusterVars, applied>>
    BY <1>0, IntactBefore
<1>2. /\ UNCHANGED <<objects, available, installed, hooks, endpoints>>
      /\ \A ref : Present(ref)' = Present(ref)
    BY <1>1 DEF clusterVars, Present
<1>3. CASE shown'[q] = shown[q]
    <2>1. pc[q] # "start"
        BY <1>0, <1>3 DEF Phase
    <2>2. opt'[q].strategy = opt[q].strategy
        BY <1>0, <2>1, LineStays
    <2>3. QED
        BY <1>1, <1>2, <1>3, <2>2 DEF ShownTrue, Exists
<1>4. CASE Report(q)
    <2> DEFINE ref == opt[q].ref
               verdicts == Verdicts(ref, snap[q], opt[q].strategy)
    <2>1. CASE shown' = shown
        BY <1>3, <2>1
    <2>2. CASE shown' # shown
        <3>1. /\ snap[q].obj # Nothing /\ JointlyDead(verdicts) /\ ~Blocks(snap[q], ref)
              /\ shown' = [shown EXCEPT ![q] = Digest(ref, verdicts, snap[q].obj.rv)]
              /\ pc[q] = "judge" /\ mode[q] = "dry" /\ opt' = opt
            BY <1>4, <2>2 DEF Report
        <3>2. gate[q] = Nothing /\ Undisturbed(q)
            BY <1>0, <1>1, <3>1 DEF Phase, Intact, Undisturbed
        <3>3. Exists(ref) /\ Stuck(objects[ref])
            BY <3>1, <3>2, ReadBeforeListed DEF FoundStuck, Target
        <3>4. snap[q] = Present(ref) /\ snap[q].obj = objects[ref]
            BY <1>0, <3>1, <3>2, <3>3, ReadAll DEF Target, Present
        <3>5. shown'[q] = DeadToken(ref, objects[ref])
            BY <1>0, <3>1, <3>4, DeadDigest DEF TypeOK
        <3>6. shown'[q].ref = ref
            BY <3>5 DEF DeadToken
        <3>7. JointlyDead(Verdicts(ref, Present(ref), opt[q].strategy)) /\ ~Blocks(Present(ref), ref)
            BY <3>1, <3>4
        <3> HIDE DEF ref
        <3>8. QED
            BY <1>2, <3>1, <3>3, <3>5, <3>6, <3>7 DEF ShownTrue, Exists
    <2>3. QED
        BY <2>1, <2>2
<1>5. CASE Acts(q) /\ ~Report(q)
    <2>1. shown' = shown
        BY <1>5 DEF Acts, Step, Start, Resolve, Preflight, Check, ReadTarget, ReadSource, PassGate,
                ScanOrphans, Reverify, Pin, Refetch, Mutate, MutateUnanswered, MutateFails,
                AppendAudit, Prompt, Crash
    <2>2. QED
        BY <1>3, <2>1
<1>6. QED
    BY <1>0, <1>3, <1>4, <1>5, OneActs DEF Same

-----------------------------------------------------------------------------
(* Up to the gate *)

(* What the hypotheses of a step's end say of its beginning.                       *)
LEMMA SoundBefore ==
    ASSUME ConsentInv, ConsentInv', [Next]_vars, NEW r \in Runs, Sound(r)', pc[r] \notin {"start", "resolve"}
    PROVE  Sound(r)
<1>0. TypedInv /\ TypeOK /\ \A q \in Runs : Local(q)
    BY DEF ConsentInv, TypedInv
<1>1. Undisturbed(r) /\ (Mutate(r) \/ UNCHANGED <<clusterVars, applied>>)
    BY <1>0, UndisturbedBefore DEF Sound
<1>2. /\ opt[r] # Nothing /\ opt'[r].confirm = opt[r].confirm /\ opt'[r].denied = opt[r].denied
      /\ opt'[r].strategy = opt[r].strategy /\ Target(r)' = Target(r)
    BY <1>0, LineStays
<1>3. UNCHANGED <<hooks, endpoints>>
    BY <1>1 DEF clusterVars, Mutate, evidenceVars
<1>4. Admitted(r)
    BY <1>2, <1>3 DEF Sound, Admitted, Answers
<1>5. Trusted(r)
    <2> SUFFICES ASSUME NEW s \in Runs, shown[s] = opt[r].confirm
                 PROVE  opt[r].strategy = "strict" \/ opt[s].strategy = opt[r].strategy
        BY DEF Trusted
    <2>1. shown[s] # Nothing
        BY <1>2 DEF Sound
    <2>2. shown'[s] = shown[s]
        BY <1>0, <2>1, ShownStays
    <2>3. pc[s] # "start"
        BY <1>0, <2>1 DEF Local, Phase
    <2>4. opt'[s].strategy = opt[s].strategy
        BY <1>0, <2>3, LineStays
    <2>5. QED
        BY <1>2, <2>2, <2>4 DEF Sound, Trusted
<1>6. QED
    BY <1>1, <1>2, <1>4, <1>5 DEF Sound

(* An object is DEAD if each of its finalizers is, and it has one.                *)
LEMMA DeadMeans ==
    ASSUME NEW ref, NEW s, NEW t
    PROVE  JointlyDead(Verdicts(ref, s, t)) <=>
              /\ s.obj.meta \union s.obj.spec # {}
              /\ \A f \in s.obj.meta \union s.obj.spec :
                    StateOf(f, ref \in NsRefs, s.obj.conds, Evidences(s), t) = "DEAD"
<1> DEFINE DeadOne(f) == StateOf(f, ref \in NsRefs, s.obj.conds, Evidences(s), t)
           Items == AllFinalizers(s.obj)
<1>1. Verdicts(ref, s, t) = {[finalizer |-> item.finalizer, state |-> DeadOne(item.finalizer)] : item \in Items}
    BY DEF Verdicts, Diagnose
<1>2. /\ \A item \in Items : item.finalizer \in s.obj.meta \union s.obj.spec
      /\ \A f \in s.obj.meta \union s.obj.spec : \E item \in Items : item.finalizer = f
    <2>1. \A f \in s.obj.meta : [finalizer |-> f, list |-> "metadata"] \in Items
        BY DEF AllFinalizers
    <2>2. \A f \in s.obj.spec : [finalizer |-> f, list |-> "spec"] \in Items
        BY DEF AllFinalizers
    <2>3. \A item \in Items : item.finalizer \in s.obj.meta \union s.obj.spec
        BY DEF AllFinalizers
    <2>4. QED
        BY <2>1, <2>2, <2>3
<1> HIDE DEF DeadOne, Items
<1>3. QED
    <2>1. Verdicts(ref, s, t) = {} <=> Items = {}
        BY <1>1
    <2>2. (\A v \in Verdicts(ref, s, t) : v.state = "DEAD") <=> \A item \in Items : DeadOne(item.finalizer) = "DEAD"
        <3>1. \A item \in Items :
                  [finalizer |-> item.finalizer, state |-> DeadOne(item.finalizer)] \in Verdicts(ref, s, t)
            BY <1>1
        <3>2. \A v \in Verdicts(ref, s, t) : \E item \in Items : v.state = DeadOne(item.finalizer)
            BY <1>1
        <3>3. QED
            BY <3>1, <3>2
    <2>3. Items = {} <=> s.obj.meta \union s.obj.spec = {}
        BY <1>2
    <2>4. (\A item \in Items : DeadOne(item.finalizer) = "DEAD")
          <=> \A f \in s.obj.meta \union s.obj.spec : DeadOne(f) = "DEAD"
        BY <1>2
    <2>5. QED
        BY <2>1, <2>2, <2>3, <2>4 DEF JointlyDead, DeadOne

(* What score calls DEAD strict does.                                            *)
LEMMA DeadUnderStrict ==
    ASSUME NEW ref, NEW s, NEW t, JointlyDead(Verdicts(ref, s, t))
    PROVE  JointlyDead(Verdicts(ref, s, "strict"))
<1>1. ASSUME NEW f, StateOf(f, ref \in NsRefs, s.obj.conds, Evidences(s), t) = "DEAD"
      PROVE  StateOf(f, ref \in NsRefs, s.obj.conds, Evidences(s), "strict") = "DEAD"
    BY <1>1, ScoreImpliesStrict DEF StateOf, StrategyFor
<1>2. QED
    BY <1>1, DeadMeans

(* Before the gate the token still says what is there.                            *)
LEMMA TokenHolds ==
    ASSUME ConsentInv, NEW r \in Runs, Sound(r), gate[r] = Nothing, \A s \in Runs : ShownTrue(s)
    PROVE  LET ref == Target(r)
           IN  /\ Exists(ref) /\ Stuck(objects[ref])
               /\ JointlyDead(Verdicts(ref, Present(ref), opt[r].strategy))
               /\ ~Blocks(Present(ref), ref)
               /\ opt[r].confirm = DeadToken(ref, objects[ref])
<1>1. Intact
    <2>1. applied[r] = {}
        BY DEF ConsentInv, Local, Books
    <2>2. QED
        BY <2>1 DEF Sound, Undisturbed, Intact
<1>2. PICK s \in Runs : shown[s] = opt[r].confirm
    BY DEF ConsentInv, TokensShown, Sound
<1>3. shown[s] # Nothing /\ shown[s].ref = Target(r)
    BY <1>2 DEF Sound
<1>4. opt[r].strategy = "strict" \/ opt[s].strategy = opt[r].strategy
    BY <1>2 DEF Sound, Trusted
<1>5. QED
    BY <1>1, <1>2, <1>3, <1>4, DeadUnderStrict DEF ShownTrue

(* At the gate there is nothing left to refuse.                                   *)
LEMMA GatePasses ==
    ASSUME ConsentInv, NEW r \in Runs, Sound(r), PassGate(r), ReadTrue(r), Confirmed(r),
           \A s \in Runs : ShownTrue(s)
    PROVE  /\ Goto(r, "orphans") /\ gate' = [gate EXCEPT ![r] = objects[Target(r)]]
           /\ JointlyDead(Verdicts(Target(r), Present(Target(r)), opt[r].strategy))
           /\ ~Blocks(Present(Target(r)), Target(r))
           /\ Exists(Target(r)) /\ Stuck(objects[Target(r)])
<1> DEFINE ref == Target(r)
           verdicts == Verdicts(ref, snap[r], opt[r].strategy)
<1>0. TypedInv /\ pc[r] = "judge" /\ gate[r] = Nothing
    BY DEF ConsentInv, PassGate
<1>1. /\ Exists(ref) /\ Stuck(objects[ref])
      /\ JointlyDead(Verdicts(ref, Present(ref), opt[r].strategy))
      /\ ~Blocks(Present(ref), ref)
      /\ opt[r].confirm = DeadToken(ref, objects[ref])
    BY <1>0, TokenHolds
<1>2. snap[r] = Present(ref) /\ snap[r].obj = objects[ref]
    BY <1>0, <1>1, ReadAll DEF Sound, Present
<1>3. Digest(ref, verdicts, snap[r].obj.rv) = DeadToken(ref, objects[ref])
    BY <1>1, <1>2, DeadDigest
<1>4. Authorize(opt[r], Digest(ref, verdicts, snap[r].obj.rv))
    BY <1>1, <1>3 DEF Authorize, Sound, Confirmed
<1>5. snap[r].obj # Nothing
    BY <1>1, <1>2 DEF Exists
<1>6. QED
    BY <1>1, <1>2, <1>4, <1>5 DEF PassGate, Target

LEMMA FaithfulStays ==
    ASSUME ConsentInv, ConsentInv', [Next]_vars, NEW r \in Runs, ReadTrue(r), Confirmed(r), Faithful(r),
           \A s \in Runs : ShownTrue(s)
    PROVE  Faithful(r)'
<1> SUFFICES ASSUME Sound(r)', gate'[r] = Nothing, pc'[r] \notin {"start", "resolve", "crashed"}
             PROVE  pc'[r] \in {"preflight", "check", "target"} \union DOMAIN ReadBefore
    BY DEF Faithful, ReadBefore
<1>0. TypedInv /\ TypeOK
    BY DEF ConsentInv, TypedInv
<1>1. gate[r] = Nothing
    BY <1>0, GateStays DEF PassGate
<1>2. CASE pc[r] = "start"
    <2>1. CASE Acts(r)
        <3>1. Start(r)
            BY <1>2, <2>1, LabelsListed DEF Acts, Step, Resolve, Preflight, Check, ReadTarget, ReadSource, Report,
                PassGate, ScanOrphans, Reverify, Pin, Refetch, Mutate, MutateUnanswered, MutateFails,
                AppendAudit, Prompt, Crash
        <3>2. QED
            BY <1>0, <3>1 DEF Start, TypeOK
    <2>2. QED
        BY <1>0, <1>2, <2>1, OneActs DEF Same
<1>3. CASE pc[r] = "resolve"
    <2>1. CASE Acts(r)
        <3>1. Resolve(r) \/ Crash(r)
            BY <1>3, <2>1, LabelsListed DEF Acts, Step, Start, Preflight, Check, ReadTarget, ReadSource, Report,
                PassGate, ScanOrphans, Reverify, Pin, Refetch, Mutate, MutateUnanswered, MutateFails,
                AppendAudit, Prompt
        <3>2. CASE Resolve(r)
            BY <1>0, <3>2, GotoMoves, LabelsListed DEF Resolve
        <3>3. CASE Crash(r)
            BY <1>0, <3>3 DEF Crash, TypeOK
        <3>4. QED
            BY <3>1, <3>2, <3>3
    <2>2. QED
        BY <1>0, <1>3, <2>1, OneActs DEF Same
<1>4. CASE pc[r] \notin {"start", "resolve"}
    <2>1. Sound(r) /\ ~CallFails
        <3>1. Undisturbed(r)'
            BY DEF Sound
        <3>2. QED
            BY <1>0, <1>4, <3>1, SoundBefore, UndisturbedBefore
    <2>2. CASE Same(r)
        BY <1>1, <1>4, <2>1, <2>2 DEF Same, Faithful
    <2>3. CASE Acts(r)
        <3>1. pc[r] # "crashed"
            BY <1>4, <2>3, LabelsListed DEF Acts, Step, Start, Resolve, Preflight, Check, ReadTarget, ReadSource,
                Report, PassGate, ScanOrphans, Reverify, Pin, Refetch, Mutate, MutateUnanswered, MutateFails,
                AppendAudit, Prompt, Crash
        <3>2. pc[r] \in {"preflight", "check", "target"} \union DOMAIN ReadBefore
            BY <1>1, <1>4, <2>1, <3>1 DEF Faithful
        <3>3. opt[r].denied = {} /\ mode[r] = "apply"
            BY <1>4, <2>1 DEF Sound, Confirmed
        <3>4. Exists(Target(r)) /\ Stuck(objects[Target(r)])
            BY <1>1, <2>1, TokenHolds
        <3>5. CASE Preflight(r)
            BY <1>0, <2>1, <3>3, <3>5, GotoMoves, LabelsListed DEF Preflight
        <3>6. CASE Check(r)
            BY <1>0, <2>1, <3>4, <3>6, GotoMoves, LabelsListed DEF Check, Target
        <3>7. CASE ReadTarget(r)
            BY <1>0, <3>7, GotoMoves, LabelsListed, ReadBeforeListed DEF ReadTarget
        <3>8. CASE ReadSource(r)
            <4>1. NextRead[pc[r]] \in Labels /\ NextRead[pc[r]] \in DOMAIN ReadBefore
                BY <3>8, LabelsListed, ReadBeforeListed DEF ReadSource, NextRead
            <4>2. QED
                BY <1>0, <3>8, <4>1, GotoMoves DEF ReadSource
        <3>9. CASE PassGate(r)
            <4>1. gate'[r] = objects[Target(r)]
                BY <1>0, <2>1, <3>9, GatePasses DEF TypeOK
            <4>2. QED
                BY <3>4, <4>1 DEF Exists
        <3>10. CASE Crash(r)
            BY <1>0, <3>10 DEF Crash, TypeOK
        <3>11. QED
            BY <1>1, <2>3, <3>2, <3>3, <3>5, <3>6, <3>7, <3>8, <3>9, <3>10, ReadBeforeListed
                DEF Acts, Step, Start, Resolve, Report, ScanOrphans, Reverify, Pin, Refetch, Mutate,
                    MutateUnanswered, MutateFails, AppendAudit, Prompt
    <2>4. QED
        BY <1>0, <2>2, <2>3, OneActs
<1>5. QED
    BY <1>2, <1>3, <1>4

-----------------------------------------------------------------------------
(* Past the gate *)

(* The evidence does not depend on whose it is.                                   *)
LEMMA SameEvidence ==
    ASSUME NEW s, NEW t, s.available = t.available, s.crds = t.crds, s.readable = t.readable
    PROVE  Evidences(s) = Evidences(t)
    BY DEF Evidences

LEMMA CondemnedStays ==
    ASSUME NEW r \in Runs, Condemned(r), UNCHANGED evidenceVars, gate'[r] = gate[r],
           Target(r)' = Target(r), opt'[r].strategy = opt[r].strategy
    PROVE  Condemned(r)'
<1> DEFINE ref == Target(r)
<1>1. /\ Present(ref)'.available = Present(ref).available /\ Present(ref)'.crds = Present(ref).crds
      /\ Present(ref)'.readable = Present(ref).readable
    BY DEF Present, evidenceVars
<1>2. Evidences(Present(ref))' = Evidences(Present(ref))
    BY <1>1, SameEvidence
<1>3. \A hook \in hooks' : hook.policy = "Ignore" \/ Answers(hook.backend)'
    BY DEF Condemned, evidenceVars, Answers
<1>4. QED
    BY <1>2, <1>3 DEF Condemned

(* What the gate lets through.                                                    *)
LEMMA GateSettles ==
    ASSUME ConsentInv, NEW r \in Runs, Sound(r), PassGate(r), ReadTrue(r), Confirmed(r),
           \A s \in Runs : ShownTrue(s)
    PROVE  Settled(r)'
<1> DEFINE ref == Target(r)
           o == objects[ref]
<1>0. TypeOK /\ ConsentInv /\ pc[r] = "judge" /\ gate[r] = Nothing
    BY DEF ConsentInv, TypedInv, PassGate
<1>1. /\ Goto(r, "orphans") /\ gate' = [gate EXCEPT ![r] = o]
      /\ JointlyDead(Verdicts(ref, Present(ref), opt[r].strategy))
      /\ ~Blocks(Present(ref), ref) /\ o # Nothing /\ Stuck(o)
    BY GatePasses DEF Exists
<1>2. /\ pc'[r] = "orphans" /\ gate'[r] = o /\ opt' = opt /\ applied'[r] = {}
      /\ UNCHANGED <<objects, available, installed, hooks, endpoints>>
    BY <1>0, <1>1, GotoMoves, LabelsListed
        DEF PassGate, clusterVars, TypeOK, ConsentInv, Local, Books
<1>3. Present(ref).obj = o /\ Present(ref).hooks = hooks /\ Present(ref).endpoints = endpoints
          /\ "endpointslices" \in Present(ref).readable
    BY DEF Present, Sources, LivenessSources
<1>4. \A f \in o.meta \union o.spec :
          StateOf(f, ref \in NsRefs, o.conds, Evidences(Present(ref)), opt[r].strategy) = "DEAD"
    BY <1>1, <1>3, DeadMeans
<1>5. ASSUME NEW hook \in hooks, hook.policy # "Ignore", ~Answers(hook.backend) PROVE FALSE
    <2>1. RulesMatch(hook.rules, ref) /\ hook.backend \notin URLs /\ endpoints[hook.backend] # {}
        BY <1>5 DEF Sound, Admitted
    <2>2. \A slice \in endpoints[hook.backend] : "ready" \notin slice
        BY <1>5 DEF Answers
    <2>3. ServiceDeadByEndpoints(Present(ref), hook.backend)
        BY <1>3, <2>1, <2>2 DEF ServiceDeadByEndpoints, Readable
    <2>4. QED
        BY <1>1, <1>3, <1>5, <2>1, <2>3 DEF Blocks
<1>6. Target(r)' = ref /\ Present(ref)' = Present(ref) /\ \A b : Answers(b)' = Answers(b)
    BY <1>2 DEF Target, Present, Answers
<1>7. Condemned(r)'
    BY <1>1, <1>2, <1>4, <1>5, <1>6 DEF Condemned, Stuck
<1>8. HalfDone(r)'
    BY <1>1, <1>2, <1>6 DEF HalfDone, Stuck
<1>9. QED
    BY <1>2, <1>7, <1>8 DEF Settled

(* A plan of what can be cleared.                                                 *)
LEMMA BuildPlans ==
    ASSUME NEW ref \in Refs, NEW obj, Clearable(ref, obj), NEW orphans
    PROVE  Build(ref, obj, orphans) = {OrphanOf(o) : o \in orphans}
                                      \union {ClearOf(ref, f) : f \in obj.meta}
                                      \union {FinalizeOf(ref, f) : f \in obj.spec}
<1> DEFINE finalizes(item) == ref \in NsRefs /\ item.finalizer = Kubernetes
           cleared == {item \in AllFinalizers(obj) : ~finalizes(item)}
           metas == {[finalizer |-> f, list |-> "metadata"] : f \in obj.meta}
           specs == {[finalizer |-> f, list |-> "spec"] : f \in obj.spec}
<1>1. AllFinalizers(obj) = metas \union specs
    BY DEF AllFinalizers
<1>2. /\ \A item \in metas : ~finalizes(item) /\ item.list = "metadata" /\ item.finalizer \in obj.meta
      /\ \A item \in specs : finalizes(item) /\ item.finalizer \in obj.spec
    BY DEF Clearable
<1>3. cleared = metas /\ AllFinalizers(obj) \ cleared = specs
    BY <1>1, <1>2
<1>4. {[kind |-> "ClearFinalizer", ref |-> ref, finalizer |-> item.finalizer, list |-> item.list] : item \in metas}
          = {ClearOf(ref, f) : f \in obj.meta}
    <2>1. \A f \in obj.meta : [finalizer |-> f, list |-> "metadata"] \in metas
        OBVIOUS
    <2> HIDE DEF metas
    <2>2. QED
        BY <1>2, <2>1 DEF ClearOf
<1>5. {[kind |-> "FinalizeNamespace", ref |-> ref, finalizer |-> item.finalizer, list |-> "spec"] : item \in specs}
          = {FinalizeOf(ref, f) : f \in obj.spec}
    <2>1. \A f \in obj.spec : [finalizer |-> f, list |-> "spec"] \in specs
        OBVIOUS
    <2> HIDE DEF specs
    <2>2. QED
        BY <1>2, <2>1 DEF FinalizeOf
<1>6. Build(ref, obj, orphans) =
          {[kind |-> "CleanOrphan", ref |-> o, finalizer |-> Nothing, list |-> "none"] : o \in orphans}
          \union
          {[kind |-> "ClearFinalizer", ref |-> ref, finalizer |-> item.finalizer, list |-> item.list] :
              item \in cleared}
          \union
          {[kind |-> "FinalizeNamespace", ref |-> ref, finalizer |-> item.finalizer, list |-> "spec"] :
              item \in AllFinalizers(obj) \ cleared}
    BY DEF Build
<1> HIDE DEF cleared, metas, specs
<1>7. QED
    BY <1>3, <1>4, <1>5, <1>6 DEF OrphanOf

-----------------------------------------------------------------------------
(* Working the plan off *)

(* What of a plan is not done holds the target.                                   *)
LEMMA UnfinishedHolds ==
    ASSUME TypeOK, NEW r \in Runs, Ordered(r), Planned(r), HalfDone(r), Condemned(r),
           applied[r] \subseteq plan[r], plan[r] # applied[r]
    PROVE  objects[Target(r)].meta \union objects[Target(r)].spec # {}
<1> DEFINE ref == Target(r)
<1>1. PICK b \in plan[r] : b \notin applied[r]
    OBVIOUS
<1>2. PICK orphans \in SUBSET (Refs \ {ref}) :
          plan[r] = {OrphanOf(o) : o \in orphans} \union {ClearOf(ref, f) : f \in gate[r].meta}
                    \union {FinalizeOf(ref, f) : f \in gate[r].spec}
    BY DEF Planned
<1>3. CASE \E f \in gate[r].meta : b = ClearOf(ref, f)
    BY <1>1, <1>3 DEF HalfDone
<1>4. CASE \E f \in gate[r].spec : b = FinalizeOf(ref, f)
    BY <1>1, <1>4 DEF HalfDone
<1>5. CASE \E o \in orphans : b = OrphanOf(o)
    <2>1. b \in Actions /\ Rank(b) = 1
        BY <1>1, <1>5, RankType DEF TypeOK, OrphanOf
    <2>2. ASSUME NEW c \in plan[r], c.kind # "CleanOrphan" PROVE c \notin applied[r]
        <3>1. Rank(b) < Rank(c)
            BY <2>1, <2>2, RankType DEF TypeOK
        <3>2. QED
            BY <1>1, <3>1 DEF Ordered
    <2>3. PICK f : f \in gate[r].meta \union gate[r].spec
        BY DEF Condemned
    <2>4. CASE f \in gate[r].meta
        <3>1. ClearOf(ref, f) \in plan[r] /\ ClearOf(ref, f).kind # "CleanOrphan"
            BY <1>2, <2>4 DEF ClearOf
        <3>2. QED
            BY <2>2, <2>4, <3>1 DEF HalfDone
    <2>5. CASE f \in gate[r].spec
        <3>1. FinalizeOf(ref, f) \in plan[r] /\ FinalizeOf(ref, f).kind # "CleanOrphan"
            BY <1>2, <2>5 DEF FinalizeOf
        <3>2. QED
            BY <2>2, <2>5, <3>1 DEF HalfDone
    <2>6. QED
        BY <2>3, <2>4, <2>5
<1>6. QED
    BY <1>1, <1>2, <1>3, <1>4, <1>5

(* What is left of a condemned target is DEAD.                                    *)
LEMMA RemainderIsDead ==
    ASSUME NEW r \in Runs, Condemned(r), HalfDone(r),
           objects[Target(r)].meta \union objects[Target(r)].spec # {}
    PROVE  JointlyDead(Verdicts(Target(r), Present(Target(r)), opt[r].strategy))
<1>1. Present(Target(r)).obj = objects[Target(r)]
    BY DEF Present
<1>2. QED
    BY <1>1, DeadMeans DEF Condemned, HalfDone

(* Past its gate, and with work to do.                                            *)
Underway(r) ==
    /\ Sound(r) /\ gate[r] # Nothing /\ Clearable(Target(r), gate[r])
    /\ Settled(r) /\ pc[r] \notin {"audit", "done", "crashed"}

(* A step on the way to the next action.                                          *)
LEMMA WorkGoesOn ==
    ASSUME NEW r \in Runs, Underway(r), pc[r] # "orphans",
           UNCHANGED <<clusterVars, opt, gate, plan, applied>>,
           pc'[r] \in {"target", "pin", "refetch", "mutate"} \union DOMAIN ReadBefore,
           pc'[r] \in {"refetch", "mutate"} => Precondition(pin'[r].action.ref, pin'[r].rv)
    PROVE  Settled(r)'
<1>1. Condemned(r) /\ HalfDone(r) /\ Planned(r) /\ plan[r] # applied[r]
    BY DEF Underway, Settled
<1>2. Target(r)' = Target(r) /\ UNCHANGED <<objects, evidenceVars>>
    BY DEF Target, clusterVars, evidenceVars
<1>3. Condemned(r)'
    BY <1>1, <1>2, CondemnedStays
<1>4. HalfDone(r)'
    BY <1>1, <1>2 DEF HalfDone
<1>5. Planned(r)'
    BY <1>1, <1>2 DEF Planned, Exists
<1>6. (pc[r] \in {"refetch", "mutate"} => Precondition(pin[r].action.ref, pin[r].rv))'
    BY <1>2 DEF Precondition, Exists
<1>7. /\ pc'[r] \notin {"audit", "done"}
      /\ pc'[r] \in {"orphans", "target", "pin", "refetch", "mutate"} \union DOMAIN ReadBefore
    BY ReadBeforeListed
<1>8. (DOMAIN ReadBefore)' = DOMAIN ReadBefore
    BY DEF ReadBefore
<1>9. QED
    BY <1>1, <1>3, <1>4, <1>5, <1>6, <1>7, <1>8 DEF Settled

LEMMA ScanSettles ==
    ASSUME ConsentInv, NEW r \in Runs, Underway(r), ScanOrphans(r)
    PROVE  Settled(r)'
<1> DEFINE ref == Target(r)
<1>0. TypeOK /\ pc[r] = "orphans" /\ opt[r] \in Options /\ ref \in Refs
    BY DEF ConsentInv, TypedInv, TypeOK, Started, ScanOrphans, Options, Target
<1>1. PICK listed \in SUBSET Siblings[ref] : plan' = [plan EXCEPT ![r] = Build(ref, gate[r], Detect(ref, listed))]
    BY DEF ScanOrphans, NamespaceObjects, Target
<1> DEFINE orphans == Detect(ref, listed)
<1>2. orphans \in SUBSET (Refs \ {ref}) /\ \A o \in orphans : Exists(o)
    BY <1>0, <1>1, DoctorAssumption DEF Detect
<1>3. /\ pc'[r] = "target" /\ UNCHANGED <<clusterVars, opt, gate, applied>>
      /\ plan'[r] = Build(ref, gate[r], orphans)
    BY <1>0, <1>1, GotoMoves, LabelsListed DEF ScanOrphans, TypeOK
<1>4. applied[r] = {}
    BY <1>0 DEF ConsentInv, Local, Books
<1>5. Condemned(r) /\ HalfDone(r)
    BY <1>0 DEF Underway, Settled
<1> HIDE DEF orphans
<1>6. plan'[r] = {OrphanOf(o) : o \in orphans} \union {ClearOf(ref, f) : f \in gate[r].meta}
                 \union {FinalizeOf(ref, f) : f \in gate[r].spec}
    BY <1>0, <1>3, BuildPlans DEF Underway
<1>7. Target(r)' = ref /\ UNCHANGED <<objects, evidenceVars>>
    BY <1>3 DEF Target, clusterVars, evidenceVars
<1>8. Planned(r)'
    <2>1. gate'[r].meta = gate[r].meta /\ gate'[r].spec = gate[r].spec
        BY <1>3
    <2>2. plan'[r] = {OrphanOf(o) : o \in orphans} \union {ClearOf(Target(r)', f) : f \in gate'[r].meta}
                     \union {FinalizeOf(Target(r)', f) : f \in gate'[r].spec}
        BY <1>6, <1>7, <2>1
    <2>3. orphans \in SUBSET (Refs \ {Target(r)'}) /\ \A o \in orphans : Exists(o)'
        BY <1>2, <1>7 DEF Exists
    <2>4. QED
        BY <2>2, <2>3 DEF Planned
<1>9. plan'[r] # applied'[r]
    BY <1>3, <1>4, <1>5, <1>6 DEF Condemned
<1>10. Condemned(r)' /\ HalfDone(r)'
    BY <1>3, <1>5, <1>7, CondemnedStays DEF HalfDone
<1>11. QED
    BY <1>3, <1>8, <1>9, <1>10 DEF Settled

LEMMA ReadSettles ==
    ASSUME TypeOK, NEW r \in Runs, Underway(r), ReadTarget(r) \/ ReadSource(r)
    PROVE  Settled(r)'
<1>1. UNCHANGED <<clusterVars, opt, gate, plan, applied>> /\ pc[r] # "orphans"
    BY LabelsListed DEF ReadTarget, ReadSource
<1>2. pc'[r] \in DOMAIN ReadBefore
    <2>1. CASE ReadTarget(r)
        BY <2>1, GotoMoves, LabelsListed, ReadBeforeListed DEF ReadTarget
    <2>2. CASE ReadSource(r)
        <3>1. NextRead[pc[r]] \in Labels /\ NextRead[pc[r]] \in DOMAIN ReadBefore
            BY <2>2, LabelsListed, ReadBeforeListed DEF ReadSource, NextRead
        <3>2. QED
            BY <2>2, <3>1, GotoMoves DEF ReadSource
    <2>3. QED
        BY <2>1, <2>2
<1>3. QED
    BY <1>1, <1>2, WorkGoesOn, ReadBeforeListed

(* The re-verify never refuses the tool's own half-finished work.                 *)
LEMMA ReverifyPasses ==
    ASSUME OrderInv, NEW r \in Runs, Underway(r), Reverify(r), ReadTrue(r)
    PROVE  Settled(r)'
<1>0. TypedInv /\ TypeOK /\ Ordered(r) /\ applied[r] \subseteq plan[r] /\ pc[r] = "judge"
    BY DEF OrderInv, ConsentInv, TypedInv, Local, Books, Reverify
<1>1. Condemned(r) /\ HalfDone(r) /\ Planned(r) /\ plan[r] # applied[r] /\ Exists(Target(r)) /\ Undisturbed(r)
    BY <1>0 DEF Underway, Settled, HalfDone, Exists, Sound
<1>2. JointlyDead(Verdicts(Target(r), Present(Target(r)), opt[r].strategy))
    BY <1>0, <1>1, UnfinishedHolds, RemainderIsDead
<1>3. snap[r] = Present(Target(r))
    BY <1>0, <1>1, ReadAll
<1>4. snap[r].obj # Nothing
    BY <1>1, <1>3 DEF Present, Exists
<1>5. Goto(r, "pin")
    BY <1>2, <1>3, <1>4 DEF Reverify, Target
<1>6. pc'[r] = "pin" /\ UNCHANGED <<clusterVars, opt, gate, plan, applied>>
    BY <1>0, <1>5, GotoMoves, LabelsListed DEF Reverify
<1>7. QED
    BY <1>0, <1>6, WorkGoesOn

LEMMA PinSettles ==
    ASSUME ConsentInv, NEW r \in Runs, Underway(r), Pin(r), ~CallFails
    PROVE  Settled(r)'
<1>0. TypeOK /\ pc[r] = "pin" /\ audit[r] = applied[r]
    BY DEF ConsentInv, TypedInv, Local, Books, Pin
<1>1. Planned(r) /\ HalfDone(r) /\ Exists(Target(r))
    BY <1>0 DEF Underway, Settled, HalfDone, Exists
<1>2. \A a \in NextActions(r) : a \in plan[r] /\ a \notin applied[r]
    BY <1>0 DEF NextActions
<1>3. ASSUME NEW a \in plan[r], a \notin applied[r] PROVE Exists(a.ref)
    <2>1. PICK orphans \in SUBSET (Refs \ {Target(r)}) :
        /\ plan[r] = {OrphanOf(o) : o \in orphans} \union {ClearOf(Target(r), f) : f \in gate[r].meta}
                     \union {FinalizeOf(Target(r), f) : f \in gate[r].spec}
        /\ \A o \in orphans : OrphanOf(o) \notin applied[r] => Exists(o)
        BY <1>1 DEF Planned
    <2>2. CASE \E o \in orphans : a = OrphanOf(o)
        BY <1>3, <2>1, <2>2 DEF OrphanOf
    <2>3. CASE a.ref = Target(r)
        BY <1>1, <2>3
    <2>4. QED
        BY <2>1, <2>2, <2>3 DEF ClearOf, FinalizeOf
<1>4. PICK a \in NextActions(r) :
          /\ Exists(a.ref)
          /\ pin' = [pin EXCEPT ![r] = [action |-> a, rv |-> objects[a.ref].rv,
                                        meta |-> objects[a.ref].meta, spec |-> objects[a.ref].spec]]
          /\ Goto(r, IF a.kind = "FinalizeNamespace" THEN "refetch" ELSE "mutate")
    BY <1>2, <1>3 DEF Pin
<1>5. pin'[r].action = a /\ pin'[r].rv = objects[a.ref].rv
    BY <1>0, <1>4 DEF TypeOK
<1>6. pc'[r] \in {"refetch", "mutate"}
    BY <1>0, <1>4, GotoMoves, LabelsListed
<1>7. UNCHANGED <<clusterVars, opt, gate, plan, applied>>
    BY DEF Pin
<1>8. QED
    BY <1>0, <1>4, <1>5, <1>6, <1>7, WorkGoesOn DEF Precondition

LEMMA RefetchSettles ==
    ASSUME TypeOK, NEW r \in Runs, Underway(r), Refetch(r), ~CallFails
    PROVE  Settled(r)'
<1>1. pc[r] = "refetch" /\ Precondition(pin[r].action.ref, pin[r].rv)
    BY DEF Underway, Settled, Refetch
<1>2. Goto(r, "mutate") /\ UNCHANGED <<pin, clusterVars, opt, gate, plan, applied>>
    BY <1>1 DEF Refetch
<1>3. pc'[r] = "mutate"
    BY <1>2, GotoMoves, LabelsListed
<1>4. QED
    BY <1>1, <1>2, <1>3, WorkGoesOn

(* The API server has nothing against the action under way.                       *)
LEMMA PinAccepted ==
    ASSUME PinnedInv, NEW r \in Runs, Underway(r), pc[r] = "mutate"
    PROVE  Allowed(r) /\ Accepted(pin[r])
<1> DEFINE p == pin[r]
           a == p.action
<1>1. p # Nothing /\ a \in Actions /\ a.ref \in Refs
    BY DEF PinnedInv, TypedInv, TypeOK, Pinned, Pins, Actions
<1>2. Precondition(a.ref, p.rv) /\ opt[r].denied = {} /\ Condemned(r)
    BY DEF Underway, Settled, Sound
<1>3. Allowed(r)
    BY <1>2 DEF Allowed
<1>4. \A operation, names : ~Rejects(a.ref, operation, names)
    BY <1>2 DEF Condemned, Rejects, Intercepts
<1>5. RemoveFinalizer(p.meta, a.finalizer) \subseteq objects[a.ref].meta
    BY <1>1, <1>2 DEF PinnedInv, PinIsFaithful, RemoveFinalizer
<1>6. Accepted(p)
    BY <1>1, <1>2, <1>4, <1>5 DEF Accepted, AcceptsDelete, AcceptsFinalize, AcceptsPatch, Actions
<1>7. QED
    BY <1>3, <1>6

LEMMA WriteDone ==
    ASSUME ClusterTypeOK, NEW ref \in Refs, NEW o, o # objects[ref], Write(ref, o)
    PROVE  objects'[ref] = IF o.terminating /\ ~Held(ref, o) THEN Nothing ELSE [o EXCEPT !.rv = revision + 1]
    BY DEF ClusterTypeOK, Write, Store

(* The orphans are done first.                                                    *)
LEMMA OrphansFirst ==
    ASSUME TypeOK, NEW r \in Runs, Ordered(r), Local(r), pin[r] # Nothing, pin[r].action.kind # "CleanOrphan",
           NEW b \in plan[r], b.kind = "CleanOrphan"
    PROVE  b \in applied[r]
<1>1. pin[r].action \in Actions /\ b \in Actions
    BY DEF TypeOK, Pins
<1>2. Rank(b) = 1 /\ Rank(pin[r].action) \in 1..4 /\ Rank(pin[r].action) # 1
    BY <1>1, RankType
<1>3. QED
    BY <1>2 DEF Ordered

(* What an action leaves of the target is what the actions not done are for.      *)
LEMMA CarriedSettles ==
    ASSUME TypeOK, ClusterTypeOK', NEW r \in Runs, Planned(r), Condemned(r)', Clearable(Target(r), gate[r]),
           UNCHANGED <<gate, plan>>, Target(r)' = Target(r),
           \A b \in plan[r] : b.kind = "CleanOrphan" => b \in applied'[r],
           applied'[r] \subseteq plan[r],
           NEW o \in Objects, o.terminating, o.conds = gate[r].conds,
           o.meta = {f \in gate[r].meta : ClearOf(Target(r), f) \notin applied'[r]},
           o.spec = {f \in gate[r].spec : FinalizeOf(Target(r), f) \notin applied'[r]},
           objects'[Target(r)] = IF ~Held(Target(r), o) THEN Nothing ELSE [o EXCEPT !.rv = revision + 1],
           revision \in Nat,
           IF plan[r] \ applied'[r] = {} THEN pc'[r] \in {"audit", "done"} /\ exit'[r] = 0 ELSE pc'[r] = "target"
    PROVE  Settled(r)'
<1> DEFINE ref == Target(r)
<1>1. PICK orphans \in SUBSET (Refs \ {ref}) :
          plan[r] = {OrphanOf(q) : q \in orphans} \union {ClearOf(ref, f) : f \in gate[r].meta}
                    \union {FinalizeOf(ref, f) : f \in gate[r].spec}
    BY DEF Planned
<1>2. CASE plan[r] \ applied'[r] = {}
    <2>1. o.meta = {} /\ o.spec = {}
        BY <1>1, <1>2
    <2>2. objects'[ref] = Nothing
        BY <2>1 DEF Held
    <2>3. QED
        BY <1>2, <2>2 DEF Settled, Exists
<1>3. CASE plan[r] \ applied'[r] # {}
    <2>1. PICK b \in plan[r] : b \notin applied'[r]
        BY <1>3
    <2>2. o.meta # {} \/ o.spec # {}
        <3>1. \A q \in orphans : b # OrphanOf(q)
            BY <2>1 DEF OrphanOf
        <3>2. CASE \E f \in gate[r].meta : b = ClearOf(ref, f)
            BY <2>1, <3>2
        <3>3. CASE \E f \in gate[r].spec : b = FinalizeOf(ref, f)
            BY <2>1, <3>3
        <3>4. QED
            BY <1>1, <2>1, <3>1, <3>2, <3>3
    <2>3. Held(ref, o)
        BY <2>2 DEF Held, Clearable
    <2>4. objects'[ref] = [o EXCEPT !.rv = revision + 1] /\ [o EXCEPT !.rv = revision + 1] \in Objects
        BY <2>3 DEF Objects
    <2>5. objects'[ref] # Nothing /\ objects'[ref].terminating /\ objects'[ref].conds = o.conds
          /\ objects'[ref].meta = o.meta /\ objects'[ref].spec = o.spec
        BY <2>4, ClusterAssumption DEF Objects
    <2>6. HalfDone(r)'
        BY <2>5 DEF HalfDone
    <2>7. Planned(r)'
        <3>1. gate'[r].meta = gate[r].meta /\ gate'[r].spec = gate[r].spec
            OBVIOUS
        <3>2. plan'[r] = {OrphanOf(q) : q \in orphans} \union {ClearOf(Target(r)', f) : f \in gate'[r].meta}
                         \union {FinalizeOf(Target(r)', f) : f \in gate'[r].spec}
            BY <1>1, <3>1
        <3>3. \A q \in orphans : OrphanOf(q) \in applied'[r]
            BY <1>1 DEF OrphanOf
        <3>4. orphans \in SUBSET (Refs \ {Target(r)'})
            BY <1>1
        <3>5. QED
            BY <3>2, <3>3, <3>4 DEF Planned
    <2>8. plan'[r] # applied'[r] /\ pc'[r] = "target"
        BY <1>3
    <2>9. QED
        BY <2>6, <2>7, <2>8 DEF Settled
<1>4. QED
    BY <1>2, <1>3

LEMMA MutateMoves ==
    ASSUME TypeOK, NEW r \in Runs, Local(r), gate[r] # Nothing, Mutate(r)
    PROVE  /\ pc[r] = "mutate" /\ Perform(pin[r]) /\ Accepted(pin[r])
           /\ applied'[r] = applied[r] \union {pin[r].action}
           /\ UNCHANGED <<opt, gate, plan, evidenceVars>>
           /\ IF plan[r] \ applied'[r] = {} THEN pc'[r] \in {"audit", "done"} /\ exit'[r] = 0
                                            ELSE pc'[r] = "target"
<1>1. pc[r] = "mutate" /\ mode[r] = "apply" /\ audit[r] = applied[r]
    BY DEF Mutate, Local, Phase, Books
<1>2. applied'[r] = applied[r] \union {pin[r].action}
    BY DEF Mutate, TypeOK
<1>3. CASE plan[r] \ (audit[r] \union {pin[r].action}) = {}
    <2>1. Leave(r, 0)
        BY <1>3 DEF Mutate
    <2>2. pc'[r] \in {"audit", "done"} /\ exit'[r] = 0
        BY <1>1, <2>1 DEF Leave, TypeOK
    <2>3. QED
        BY <1>1, <1>2, <1>3, <2>2 DEF Mutate
<1>4. CASE plan[r] \ (audit[r] \union {pin[r].action}) # {}
    <2>1. pc'[r] = "target"
        BY <1>4, GotoMoves, LabelsListed DEF Mutate
    <2>2. QED
        BY <1>1, <1>2, <1>4, <2>1 DEF Mutate
<1>5. QED
    BY <1>3, <1>4

LEMMA MutateSettles ==
    ASSUME RefineInv, RefineInv', NEW r \in Runs, Underway(r), Mutate(r)
    PROVE  Settled(r)'
<1> DEFINE ref == Target(r)
           p == pin[r]
           a == p.action
           old == objects[ref]
<1>0. /\ PinnedInv /\ TypeOK /\ ClusterTypeOK /\ ClusterTypeOK' /\ Local(r) /\ Ordered(r) /\ Once(r)
      /\ applied'[r] \subseteq plan'[r]
    BY DEF RefineInv, PinnedInv, TypedInv, TypeOK, OrderInv, ConsentInv, Local, Books
<1>1. /\ pc[r] = "mutate" /\ Perform(p) /\ applied'[r] = applied[r] \union {a}
      /\ UNCHANGED <<opt, gate, plan, evidenceVars>>
      /\ IF plan[r] \ applied'[r] = {} THEN pc'[r] \in {"audit", "done"} /\ exit'[r] = 0 ELSE pc'[r] = "target"
    BY <1>0, MutateMoves DEF Underway
<1>2. /\ Condemned(r) /\ HalfDone(r) /\ Planned(r) /\ Clearable(ref, gate[r])
      /\ Precondition(a.ref, p.rv)
    BY <1>1 DEF Underway, Settled
<1>3. /\ p # Nothing /\ p \in Pins /\ a \in plan[r] /\ a \in Actions /\ a \notin applied[r] /\ a.ref \in Refs
      /\ ref \in Refs /\ old \in Objects
    BY <1>0, <1>1, <1>2
        DEF PinnedInv, TypedInv, TypeOK, ClusterTypeOK, Pinned, Started, Pins, Actions, Local, Books, Once,
            Options, Target, HalfDone
<1>4. Target(r)' = ref /\ Condemned(r)'
    BY <1>1, <1>2, CondemnedStays DEF Target
<1>5. PICK orphans \in SUBSET (Refs \ {ref}) :
          /\ plan[r] = {OrphanOf(q) : q \in orphans} \union {ClearOf(ref, f) : f \in gate[r].meta}
                       \union {FinalizeOf(ref, f) : f \in gate[r].spec}
          /\ \A q \in orphans : OrphanOf(q) \notin applied[r] => Exists(q)
    BY <1>2 DEF Planned
<1>6. /\ old.terminating /\ old.conds = gate[r].conds
      /\ old.meta = {f \in gate[r].meta : ClearOf(ref, f) \notin applied[r]}
      /\ old.spec = {f \in gate[r].spec : FinalizeOf(ref, f) \notin applied[r]}
    BY <1>2 DEF HalfDone
<1>7. a.ref = ref => p.meta = old.meta /\ p.spec = old.spec
    BY <1>0, <1>2, <1>3 DEF PinnedInv, PinIsFaithful
<1>8. revision \in Nat
    BY <1>0 DEF ClusterTypeOK
<1>9. CASE \E q \in orphans : a = OrphanOf(q)
    <2>1. PICK q \in orphans : a = OrphanOf(q)
        BY <1>9
    <2>2. a.kind = "CleanOrphan" /\ a.ref = q /\ q # ref
        BY <2>1 DEF OrphanOf
    <2>3. \A other \in Refs \ {q} : objects'[other] = objects[other]
        <3>1. Write(q, [objects[q] EXCEPT !.terminating = TRUE])
            BY <1>1, <2>2 DEF Perform, Delete
        <3>2. QED
            BY <1>0, <1>3, <2>2, <3>1, StoreTouchesOne
    <2>4. ASSUME NEW c \in plan[r], c.kind # "CleanOrphan" PROVE c \notin applied'[r]
        <3>1. Rank(a) < Rank(c)
            BY <1>0, <1>3, <2>2, <2>4, RankType DEF TypeOK
        <3>2. c \notin applied[r]
            BY <1>0, <1>3, <3>1 DEF Ordered
        <3>3. QED
            BY <1>1, <2>2, <2>4, <3>2
    <2>5. /\ \A f \in gate[r].meta : ClearOf(ref, f) \in plan[r] /\ ClearOf(ref, f).kind # "CleanOrphan"
          /\ \A f \in gate[r].spec : FinalizeOf(ref, f) \in plan[r] /\ FinalizeOf(ref, f).kind # "CleanOrphan"
        BY <1>5 DEF ClearOf, FinalizeOf
    <2>6. plan[r] \ applied'[r] # {}
        BY <1>2, <2>4, <2>5 DEF Condemned
    <2>7. objects'[ref] = old
        BY <1>3, <2>2, <2>3
    <2>8. /\ old.meta = {f \in gate[r].meta : ClearOf(ref, f) \notin applied'[r]}
          /\ old.spec = {f \in gate[r].spec : FinalizeOf(ref, f) \notin applied'[r]}
        BY <1>1, <1>6, <2>4, <2>5
    <2>9. HalfDone(r)'
        <3>1. gate'[r] = gate[r]
            BY <1>1
        <3>2. old # Nothing
            BY <1>2 DEF HalfDone
        <3> HIDE DEF old, ref, a
        <3>3. QED
            BY <1>4, <1>6, <2>7, <2>8, <3>1, <3>2 DEF HalfDone
    <2>10. Planned(r)'
        <3>1. gate'[r].meta = gate[r].meta /\ gate'[r].spec = gate[r].spec
            BY <1>1
        <3>2. plan'[r] = {OrphanOf(s) : s \in orphans} \union {ClearOf(Target(r)', f) : f \in gate'[r].meta}
                         \union {FinalizeOf(Target(r)', f) : f \in gate'[r].spec}
            BY <1>1, <1>4, <1>5, <3>1
        <3>3. ASSUME NEW s \in orphans, OrphanOf(s) \notin applied'[r] PROVE Exists(s)'
            <4>1. s # q /\ OrphanOf(s) \notin applied[r]
                BY <1>1, <2>1, <3>3
            <4>2. objects'[s] = objects[s] /\ Exists(s)
                BY <1>5, <2>3, <4>1
            <4>3. QED
                BY <4>2 DEF Exists
        <3>4. orphans \in SUBSET (Refs \ {Target(r)'})
            BY <1>4, <1>5
        <3>5. QED
            BY <3>2, <3>3, <3>4 DEF Planned
    <2>11. QED
        BY <1>1, <1>4, <2>6, <2>9, <2>10 DEF Settled
<1>10. ASSUME a.kind # "CleanOrphan", NEW b \in plan[r], b.kind = "CleanOrphan" PROVE b \in applied'[r]
    BY <1>0, <1>1, <1>3, <1>10, OrphansFirst
<1>11. CASE \E f \in gate[r].meta : a = ClearOf(ref, f)
    <2>1. PICK f \in gate[r].meta : a = ClearOf(ref, f)
        BY <1>11
    <2>2. a.kind = "ClearFinalizer" /\ a.ref = ref /\ a.finalizer = f /\ f \in old.meta
        BY <1>3, <1>6, <2>1 DEF ClearOf
    <2> DEFINE o == [old EXCEPT !.meta = old.meta \ {f}]
    <2>3. /\ o \in Objects /\ o.terminating /\ o.conds = gate[r].conds
          /\ o.meta = old.meta \ {f} /\ o.spec = old.spec /\ o # old
        BY <1>3, <1>6, <2>2 DEF Objects
    <2>4. Write(ref, o)
        BY <1>1, <1>7, <2>2 DEF Perform, PatchFinalizers, RemoveFinalizer
    <2> HIDE DEF o
    <2>5. objects'[ref] = IF ~Held(ref, o) THEN Nothing ELSE [o EXCEPT !.rv = revision + 1]
        BY <1>0, <1>3, <2>3, <2>4, WriteDone
    <2>6. /\ \A g : ClearOf(ref, g) \in applied'[r] <=> ClearOf(ref, g) \in applied[r] \/ g = f
          /\ \A g : FinalizeOf(ref, g) \in applied'[r] <=> FinalizeOf(ref, g) \in applied[r]
        BY <1>1, <2>1 DEF ClearOf, FinalizeOf
    <2>7. /\ o.meta = {g \in gate[r].meta : ClearOf(ref, g) \notin applied'[r]}
          /\ o.spec = {g \in gate[r].spec : FinalizeOf(ref, g) \notin applied'[r]}
        BY <1>6, <2>3, <2>6
    <2>8. \A b \in plan[r] : b.kind = "CleanOrphan" => b \in applied'[r]
        BY <1>10, <2>2
    <2> HIDE DEF a, old, p
    <2>9. QED
        BY <1>0, <1>1, <1>2, <1>4, <1>8, <2>3, <2>5, <2>7, <2>8, CarriedSettles
<1>12. CASE \E f \in gate[r].spec : a = FinalizeOf(ref, f)
    <2>1. PICK f \in gate[r].spec : a = FinalizeOf(ref, f)
        BY <1>12
    <2>2. a.kind = "FinalizeNamespace" /\ a.ref = ref /\ a.finalizer = f /\ f \in old.spec
        BY <1>3, <1>6, <2>1 DEF FinalizeOf
    <2> DEFINE o == [old EXCEPT !.spec = old.spec \ {f}]
    <2>3. /\ o \in Objects /\ o.terminating /\ o.conds = gate[r].conds
          /\ o.spec = old.spec \ {f} /\ o.meta = old.meta /\ o # old
        BY <1>3, <1>6, <2>2 DEF Objects
    <2>4. Write(ref, o)
        BY <1>1, <1>7, <2>2 DEF Perform, FinalizeNamespace, RemoveFinalizer
    <2> HIDE DEF o
    <2>5. objects'[ref] = IF ~Held(ref, o) THEN Nothing ELSE [o EXCEPT !.rv = revision + 1]
        BY <1>0, <1>3, <2>3, <2>4, WriteDone
    <2>6. /\ \A g : FinalizeOf(ref, g) \in applied'[r] <=> FinalizeOf(ref, g) \in applied[r] \/ g = f
          /\ \A g : ClearOf(ref, g) \in applied'[r] <=> ClearOf(ref, g) \in applied[r]
        BY <1>1, <2>1 DEF ClearOf, FinalizeOf
    <2>7. /\ o.meta = {g \in gate[r].meta : ClearOf(ref, g) \notin applied'[r]}
          /\ o.spec = {g \in gate[r].spec : FinalizeOf(ref, g) \notin applied'[r]}
        BY <1>6, <2>3, <2>6
    <2>8. \A b \in plan[r] : b.kind = "CleanOrphan" => b \in applied'[r]
        BY <1>10, <2>2
    <2> HIDE DEF a, old, p
    <2>9. QED
        BY <1>0, <1>1, <1>2, <1>4, <1>8, <2>3, <2>5, <2>7, <2>8, CarriedSettles
<1>13. QED
    BY <1>3, <1>5, <1>9, <1>11, <1>12

(* The step that an undisturbed invocation takes past its gate.                   *)
LEMMA UnderwaySettles ==
    ASSUME RefineInv, RefineInv', NEW r \in Runs, Underway(r), Acts(r), pc'[r] # "crashed", ~CallFails,
           ReadTrue(r)
    PROVE  Settled(r)'
<1>0. PinnedInv /\ OrderInv /\ ConsentInv /\ TypeOK /\ Phase(r)
    BY DEF RefineInv, PinnedInv, OrderInv, ConsentInv, TypedInv, Local
<1>1. gate[r] # Nothing /\ mode[r] = "apply"
    BY <1>0 DEF Underway, Phase
<1>2. pc[r] \in {"orphans", "target", "pin", "refetch", "mutate"} \union DOMAIN ReadBefore
    BY DEF Underway, Settled
<1>3. ~MutateFails(r) /\ ~MutateUnanswered(r)
    BY <1>0, PinAccepted DEF MutateFails, MutateUnanswered
<1>4. ~Crash(r)
    BY <1>0 DEF Crash, TypeOK
<1>5. ScanOrphans(r) \/ ReadTarget(r) \/ ReadSource(r) \/ Reverify(r) \/ Pin(r) \/ Refetch(r) \/ Mutate(r)
    BY <1>1, <1>2, <1>3, <1>4, ReadBeforeListed
        DEF Acts, Step, Start, Resolve, Preflight, Check, Report, PassGate, AppendAudit, Prompt
<1>6. QED
    BY <1>0, <1>5, ScanSettles, ReadSettles, ReverifyPasses, PinSettles, RefetchSettles, MutateSettles

(* The others, and the end.                                                       *)
LEMMA RestSettles ==
    ASSUME TypeOK, NEW r \in Runs, Settled(r), Sound(r), gate[r] # Nothing, Clearable(Target(r), gate[r]),
           pc[r] # "crashed", UNCHANGED <<clusterVars, applied>>,
           Same(r) \/ (AppendAudit(r) /\ pc[r] = "audit")
    PROVE  Settled(r)'
<1>1. Target(r)' = Target(r) /\ UNCHANGED <<objects, evidenceVars>> /\ opt'[r] = opt[r] /\ gate'[r] = gate[r]
    BY DEF Same, AppendAudit, Target, clusterVars, evidenceVars
<1>2. Condemned(r)'
    BY <1>1, CondemnedStays DEF Settled
<1>3. CASE AppendAudit(r) /\ pc[r] = "audit"
    <2>1. pc'[r] = "done" /\ exit'[r] = exit[r]
        BY <1>3, GotoMoves, LabelsListed DEF AppendAudit
    <2>2. QED
        BY <1>1, <1>2, <1>3, <2>1 DEF Settled, Exists
<1>4. CASE Same(r)
    <2>1. pc'[r] = pc[r] /\ exit'[r] = exit[r] /\ plan'[r] = plan[r] /\ pin'[r] = pin[r]
        BY <1>4 DEF Same
    <2>2. HalfDone(r) => HalfDone(r)'
        BY <1>1 DEF HalfDone
    <2>3. Planned(r) => Planned(r)'
        BY <1>1, <2>1 DEF Planned, Exists
    <2>4. pin[r] = pin'[r] => (Precondition(pin[r].action.ref, pin[r].rv) => Precondition(pin[r].action.ref, pin[r].rv)')
        BY <1>1 DEF Precondition, Exists
    <2>5. (DOMAIN ReadBefore)' = DOMAIN ReadBefore
        BY DEF ReadBefore
    <2>6. Exists(Target(r))' = Exists(Target(r))
        BY <1>1 DEF Exists
    <2>7. QED
        BY <1>1, <1>2, <2>1, <2>2, <2>3, <2>4, <2>5, <2>6 DEF Settled
<1>5. QED
    BY <1>3, <1>4

LEMMA SettledStays ==
    ASSUME RefineInv, RefineInv', [Next]_vars, QuietInv, NEW r \in Runs
    PROVE  Settled(r)'
<1> SUFFICES ASSUME Sound(r)', gate'[r] # Nothing, Clearable(Target(r)', gate'[r]), pc'[r] # "crashed"
             PROVE  Settled(r)'
    BY DEF Settled
<1>0. ConsentInv /\ ConsentInv' /\ TypedInv /\ TypeOK /\ Phase(r)
    BY DEF RefineInv, OrderInv, ConsentInv, TypedInv, Local
<1>1. pc[r] \notin {"start", "resolve"}
    BY <1>0, GateStays DEF Phase, PassGate
<1>2. Sound(r)
    BY <1>0, <1>1, SoundBefore
<1>3. ~CallFails /\ (Mutate(r) \/ UNCHANGED <<clusterVars, applied>>)
    BY <1>0, UndisturbedBefore DEF Sound
<1>4. Settled(r) /\ ReadTrue(r) /\ Confirmed(r) /\ \A s \in Runs : ShownTrue(s)
    BY DEF QuietInv
<1>5. CASE gate[r] = Nothing
    BY <1>0, <1>2, <1>4, <1>5, GateStays, GateSettles
<1>6. CASE gate[r] # Nothing
    <2>1. gate'[r] = gate[r] /\ Target(r)' = Target(r)
        BY <1>0, <1>1, <1>6, GateStays, LineStays
    <2>2. Clearable(Target(r), gate[r])
        BY <2>1
    <2>3. CASE Acts(r)
        <3>1. pc[r] \notin {"crashed", "done"}
            BY <2>3, LabelsListed DEF Acts, Step, Start, Resolve, Preflight, Check, ReadTarget, ReadSource,
                Report, PassGate, ScanOrphans, Reverify, Pin, Refetch, Mutate, MutateUnanswered, MutateFails,
                AppendAudit, Prompt, Crash
        <3>2. CASE pc[r] = "audit"
            <4>1. AppendAudit(r)
                BY <1>0, <2>3, <3>2, LabelsListed DEF Acts, Step, Start, Resolve, Preflight, Check, ReadTarget,
                    ReadSource, Report, PassGate, ScanOrphans, Reverify, Pin, Refetch, Mutate, MutateUnanswered,
                    MutateFails, Prompt, Crash, TypeOK
            <4>2. UNCHANGED <<clusterVars, applied>>
                BY <4>1 DEF AppendAudit
            <4>3. QED
                BY <1>0, <1>2, <1>4, <1>6, <2>2, <3>1, <3>2, <4>1, <4>2, RestSettles
        <3>3. CASE pc[r] # "audit"
            BY <1>2, <1>3, <1>4, <1>6, <2>2, <2>3, <3>1, <3>3, UnderwaySettles DEF Underway
        <3>4. QED
            BY <3>2, <3>3
    <2>4. CASE Same(r) /\ ~Acts(r)
        <3>1. pc[r] # "crashed"
            BY <2>4 DEF Same
        <3>2. UNCHANGED <<clusterVars, applied>>
            BY <1>3, <2>4 DEF Acts, Step
        <3>3. QED
            BY <1>0, <1>2, <1>4, <1>6, <2>2, <2>4, <3>1, <3>2, RestSettles
    <2>5. QED
        BY <1>0, <2>3, <2>4, OneActs
<1>7. QED
    BY <1>5, <1>6

LEMMA QuietInit == Init => QuietInv
    BY ReadBeforeListed DEF Init, QuietInv, ReadTrue, FoundStuck, ShownTrue, Confirmed, Faithful, Settled, Sound

LEMMA QuietStep == LineageInv /\ LineageInv' /\ QuietInv /\ [Next]_vars => QuietInv'
<1> SUFFICES ASSUME LineageInv, LineageInv', QuietInv, [Next]_vars, NEW r \in Runs
             PROVE  (ReadTrue(r) /\ FoundStuck(r) /\ ShownTrue(r) /\ Confirmed(r) /\ Faithful(r) /\ Settled(r))'
    BY DEF QuietInv
<1>0. /\ RefineInv /\ RefineInv' /\ ConsentInv /\ ConsentInv' /\ TypedInv /\ Emptied(r)
      /\ ReadTrue(r) /\ FoundStuck(r) /\ ShownTrue(r) /\ Confirmed(r) /\ Faithful(r)
      /\ \A s \in Runs : ShownTrue(s)
    BY DEF LineageInv, RefineInv, OrderInv, ConsentInv, QuietInv
<1>1. ReadTrue(r)' /\ FoundStuck(r)' /\ Confirmed(r)'
    BY <1>0, ReadTrueStays, FoundStuckStays, ConfirmedStays
<1>2. ShownTrue(r)'
    BY <1>0, ShownTrueStays
<1>3. Faithful(r)'
    BY <1>0, FaithfulStays
<1>4. Settled(r)'
    BY <1>0, SettledStays
<1>5. QED
    BY <1>1, <1>2, <1>3, <1>4

(* A token is as good as its word, for any cluster, command lines and number of    *)
(* invocations: as long as nobody else writes and no call fails, the apply it is   *)
(* given to passes the gate, refuses none of its own half-finished work, exits 0   *)
(* and leaves no target, under the conditions Admitted, Trusted and Clearable say. *)
THEOREM QuietCorrect == Spec => []QuietApplyClears
<1>1. LineageInv /\ QuietInv => QuietApplyClears
    <2> SUFFICES ASSUME LineageInv, QuietInv, NEW r \in Runs,
                        pc[r] = "done", opt[r].apply, opt[r].confirm # Nothing,
                        opt[r].confirm.ref = Target(r), opt[r].denied = {},
                        Undisturbed(r), Admitted(r), Trusted(r)
                 PROVE  /\ gate[r] # Nothing
                        /\ Clearable(Target(r), gate[r]) => exit[r] = 0 /\ ~Exists(Target(r))
        BY DEF QuietApplyClears
    <2>1. opt[r] # Nothing
        BY DEF LineageInv, RefineInv, PinnedInv, TypedInv, Started
    <2>2. Sound(r)
        BY <2>1 DEF Sound
    <2>3. Faithful(r) /\ Settled(r)
        BY DEF QuietInv
    <2>4. gate[r] # Nothing
        BY <2>2, <2>3, ReadBeforeListed DEF Faithful
    <2>5. QED
        BY <2>2, <2>3, <2>4 DEF Settled
<1>2. Spec => []LineageInv
    BY LineageInit, LineageStep, PTL DEF Spec
<1>3. Spec => [](LineageInv /\ QuietInv)
    BY <1>2, QuietInit, QuietStep, PTL DEF Spec
<1>4. QED
    BY <1>1, <1>3, PTL
=============================================================================
