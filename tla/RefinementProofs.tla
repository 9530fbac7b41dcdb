-------------------------- MODULE RefinementProofs --------------------------
(***************************************************************************)
(* Doctor implements Remediation: whatever its invocations read, whoever   *)
(* else writes and whatever fails, all the store sees of them is actions   *)
(* that were approved, each once and in order.                             *)
(***************************************************************************)
EXTENDS DoctorProofs

-----------------------------------------------------------------------------
(* The order of a plan, carried out: what an invocation has done is always a    *)
(* beginning of the plan's order, wherever it was stopped.                      *)

(* What is carried out comes before what is not, the action under way comes     *)
(* next, and a plan with a /finalize clears every other finalizer of its target.*)
Ordered(r) ==
    /\ \A a \in applied[r], b \in plan[r] : Rank(b) < Rank(a) => b \in applied[r]
    /\ pin[r] # Nothing => \A b \in plan[r] \ applied[r] : Rank(pin[r].action) <= Rank(b)
    /\ \A a \in plan[r] : a.kind = "FinalizeNamespace" =>
          \A f \in (gate[r].meta \union gate[r].spec) \ {Kubernetes} :
              \E b \in plan[r] : b.kind = "ClearFinalizer" /\ b.finalizer = f

OrderInv == ConsentInv /\ \A r \in Runs : Ordered(r)

LEMMA RankType ==
    ASSUME NEW a \in Actions
    PROVE  /\ Rank(a) \in 1..4
           /\ a.kind = "CleanOrphan" <=> Rank(a) = 1
           /\ a.kind = "FinalizeNamespace" <=> Rank(a) = 4
    BY DEF Actions, Rank

(* Every finalizer but kubernetes of a gated target is cleared by its plan.     *)
LEMMA BuildClearsAll ==
    ASSUME NEW ref, NEW obj, NEW orphans, NEW f \in (obj.meta \union obj.spec) \ {Kubernetes}
    PROVE  \E b \in Build(ref, obj, orphans) : b.kind = "ClearFinalizer" /\ b.finalizer = f
<1>1. PICK list \in {"metadata", "spec"} : [finalizer |-> f, list |-> list] \in AllFinalizers(obj)
    <2>1. CASE f \in obj.meta
        BY <2>1 DEF AllFinalizers
    <2>2. CASE f \in obj.spec
        BY <2>2 DEF AllFinalizers
    <2>3. QED
        BY <2>1, <2>2
<1> DEFINE item == [finalizer |-> f, list |-> list]
           b == [kind |-> "ClearFinalizer", ref |-> ref, finalizer |-> item.finalizer, list |-> item.list]
<1>2. b \in Build(ref, obj, orphans)
    BY <1>1 DEF Build
<1>3. b.kind = "ClearFinalizer" /\ b.finalizer = f
    OBVIOUS
<1>4. QED
    BY <1>2, <1>3

(* A step that carries nothing out and pins nothing.                            *)
LEMMA QuietKeepsOrder ==
    ASSUME NEW q \in Runs, Ordered(q), plan'[q] = plan[q], applied'[q] = applied[q],
           pin'[q] \in {pin[q], Nothing}, gate'[q] = gate[q] \/ plan[q] = {}
    PROVE  Ordered(q)'
    BY DEF Ordered

LEMMA PinKeepsOrder ==
    ASSUME ConsentInv, NEW r \in Runs, Ordered(r), Pin(r)
    PROVE  Ordered(r)'
<1>0. TypeOK
    BY DEF ConsentInv, TypedInv
<1>1. audit[r] = applied[r] /\ plan'[r] = plan[r] /\ applied'[r] = applied[r] /\ gate'[r] = gate[r]
    BY DEF Pin, ConsentInv, Local, Books
<1>2. PICK a \in NextActions(r) :
          \/ pin' = [pin EXCEPT ![r] = [action |-> a, rv |-> objects[a.ref].rv,
                                        meta |-> objects[a.ref].meta, spec |-> objects[a.ref].spec]]
          \/ Leave(r, 3)
    BY DEF Pin
<1>3. CASE Leave(r, 3)
    BY <1>0, <1>1, <1>3, LeaveMoves, QuietKeepsOrder
<1>4. CASE pin' = [pin EXCEPT ![r] = [action |-> a, rv |-> objects[a.ref].rv,
                                      meta |-> objects[a.ref].meta, spec |-> objects[a.ref].spec]]
    <2>1. pin'[r].action = a
        BY <1>0, <1>4 DEF TypeOK
    <2>2. \A b \in plan[r] \ applied[r] : Rank(a) <= Rank(b)
        BY <1>1 DEF NextActions
    <2>3. QED
        BY <1>1, <2>1, <2>2 DEF Ordered
<1>5. QED
    BY <1>2, <1>3, <1>4

LEMMA CarryKeepsOrder ==
    ASSUME ConsentInv, NEW r \in Runs, Ordered(r), Mutate(r) \/ MutateUnanswered(r)
    PROVE  Ordered(r)'
<1>0. TypeOK
    BY DEF ConsentInv, TypedInv
<1> DEFINE a == pin[r].action
<1>1. pin[r] # Nothing /\ a \in plan[r] /\ plan[r] \subseteq Actions /\ applied[r] \subseteq plan[r]
    BY <1>0 DEF Mutate, MutateUnanswered, ConsentInv, TypedInv, Pinned, Local, Books, TypeOK
<1>2. applied'[r] = applied[r] \union {a} /\ plan'[r] = plan[r] /\ gate'[r] = gate[r]
    BY <1>0 DEF Mutate, MutateUnanswered, TypeOK
<1>3. pin'[r] = Nothing
    <2>1. (\E code \in {0, 3} : Leave(r, code)) \/ pin' = [pin EXCEPT ![r] = Nothing]
        BY DEF Mutate, MutateUnanswered
    <2>2. CASE \E code \in {0, 3} : Leave(r, code)
        BY <1>0, <2>2, LeaveMoves
    <2>3. CASE pin' = [pin EXCEPT ![r] = Nothing]
        BY <1>0, <2>3 DEF TypeOK
    <2>4. QED
        BY <2>1, <2>2, <2>3
<1>4. ASSUME NEW b \in plan[r], Rank(b) < Rank(a) PROVE b \in applied[r]
    <2>1. Rank(a) \in 1..4 /\ Rank(b) \in 1..4
        BY <1>1, RankType
    <2>2. ~(Rank(a) <= Rank(b))
        BY <1>4, <2>1
    <2>3. QED
        BY <1>1, <2>2 DEF Ordered
<1>5. QED
    BY <1>2, <1>3, <1>4 DEF Ordered

LEMMA ScanKeepsOrder ==
    ASSUME ConsentInv, NEW r \in Runs, ScanOrphans(r)
    PROVE  Ordered(r)'
<1>0. TypeOK
    BY DEF ConsentInv, TypedInv
<1>1. applied'[r] = {} /\ pin'[r] = Nothing /\ gate'[r] = gate[r]
    BY DEF ScanOrphans, ConsentInv, Local, Books
<1>2. PICK listed \in SUBSET Siblings[opt[r].ref] :
          plan' = [plan EXCEPT ![r] = Build(opt[r].ref, gate[r], Detect(opt[r].ref, listed))]
    BY DEF ScanOrphans, NamespaceObjects
<1>3. plan'[r] = Build(opt[r].ref, gate[r], Detect(opt[r].ref, listed))
    BY <1>0, <1>2 DEF TypeOK
<1>4. ASSUME NEW f \in (gate[r].meta \union gate[r].spec) \ {Kubernetes}
      PROVE  \E b \in plan'[r] : b.kind = "ClearFinalizer" /\ b.finalizer = f
    <2> DEFINE ref == opt[r].ref
               obj == gate[r]
               orphans == Detect(opt[r].ref, listed)
    <2>1. f \in (obj.meta \union obj.spec) \ {Kubernetes} /\ plan'[r] = Build(ref, obj, orphans)
        BY <1>3, <1>4
    <2> HIDE DEF ref, obj, orphans
    <2>2. \E b \in Build(ref, obj, orphans) : b.kind = "ClearFinalizer" /\ b.finalizer = f
        BY <2>1, BuildClearsAll
    <2>3. QED
        BY <2>1, <2>2
<1>5. QED
    BY <1>1, <1>4 DEF Ordered

LEMMA ActorKeepsOrder ==
    ASSUME ConsentInv, NEW r \in Runs, Ordered(r), Start(r) \/ Step(r) \/ Prompt(r) \/ Crash(r)
    PROVE  Ordered(r)'
<1>0. TypeOK
    BY DEF ConsentInv, TypedInv
<1> DEFINE Idle == plan'[r] = plan[r] /\ applied'[r] = applied[r]
                   /\ (gate'[r] = gate[r] \/ plan[r] = {})
<1>1. ASSUME Idle, pin'[r] = pin[r] \/ \E code \in {0, 1, 2, 3} : Leave(r, code) PROVE Ordered(r)'
    <2>1. pin'[r] \in {pin[r], Nothing}
        BY <1>0, <1>1, LeaveMoves
    <2>2. QED
        BY <1>1, <2>1, QuietKeepsOrder
<1>2. CASE Start(r) \/ Resolve(r) \/ ReadTarget(r) \/ ReadSource(r) \/ AppendAudit(r) \/ Prompt(r)
    BY <1>1, <1>2 DEF Start, Resolve, ReadTarget, ReadSource, AppendAudit, Prompt
<1>3. CASE Preflight(r) \/ Check(r)
    BY <1>1, <1>3 DEF Preflight, Check
<1>4. CASE Report(r) \/ Reverify(r) \/ Refetch(r) \/ MutateFails(r)
    BY <1>1, <1>4 DEF Report, Reverify, Refetch, MutateFails
<1>5. CASE PassGate(r)
    <2>1. plan[r] = {}
        BY <1>5 DEF PassGate, ConsentInv, Local, Books
    <2>2. QED
        BY <1>1, <1>5, <2>1 DEF PassGate
<1>6. CASE Crash(r)
    BY <1>0, <1>6, QuietKeepsOrder DEF Crash, TypeOK
<1>7. QED
    BY <1>2, <1>3, <1>4, <1>5, <1>6, PinKeepsOrder, CarryKeepsOrder, ScanKeepsOrder DEF Step

LEMMA OrderInit == Init => OrderInv
    BY ConsentInit DEF Init, OrderInv, Ordered

LEMMA OrderStep == OrderInv /\ [Next]_vars => OrderInv'
<1> SUFFICES ASSUME OrderInv, [Next]_vars PROVE OrderInv'
    OBVIOUS
<1>1. ConsentInv /\ ConsentInv'
    BY ConsentStep DEF OrderInv
<1>2. ASSUME NEW q \in Runs PROVE Ordered(q)'
    <2>1. ASSUME NEW r \in Runs, Start(r) \/ Step(r) \/ Prompt(r) \/ Crash(r) PROVE Ordered(q)'
        <3>1. CASE q = r
            BY <1>1, <2>1, <3>1, ActorKeepsOrder DEF OrderInv
        <3>2. CASE q # r
            <4>1. Same(q)
                BY <1>1, <2>1, <3>2, OnlyActorMoves DEF ConsentInv
            <4>2. QED
                BY <4>1, QuietKeepsOrder DEF OrderInv, Same
        <3>3. QED
            BY <3>1, <3>2
    <2>2. CASE UNCHANGED runVars
        BY <2>2, QuietKeepsOrder DEF OrderInv, runVars
    <2>3. QED
        BY <2>1, <2>2 DEF Next, vars
<1>3. QED
    BY <1>1, <1>2 DEF OrderInv

(* Wherever an apply stops, crashes or loses an answer: no finalizer is touched    *)
(* while an orphan it planned to delete is left, and /finalize has come after      *)
(* every other finalizer of the namespace.                                         *)
THEOREM OrderCorrect == Spec => []FinalizeComesLast
<1>1. OrderInv => FinalizeComesLast
    <2> SUFFICES ASSUME OrderInv, NEW r \in Runs, NEW a \in applied[r]
                 PROVE  /\ a.kind # "CleanOrphan" =>
                              {b \in plan[r] : b.kind = "CleanOrphan"} \subseteq applied[r]
                        /\ a.kind = "FinalizeNamespace" =>
                              \A f \in (gate[r].meta \union gate[r].spec) \ {Kubernetes} :
                                  \E b \in applied[r] : b.kind = "ClearFinalizer" /\ b.finalizer = f
        BY DEF FinalizeComesLast
    <2>1. a \in plan[r] /\ plan[r] \subseteq Actions /\ Ordered(r)
        BY DEF OrderInv, ConsentInv, TypedInv, TypeOK, Local, Books
    <2>2. ASSUME a.kind # "CleanOrphan", NEW b \in plan[r], b.kind = "CleanOrphan" PROVE b \in applied[r]
        BY <2>1, <2>2, RankType DEF Ordered
    <2>3. ASSUME a.kind = "FinalizeNamespace", NEW b \in plan[r], b.kind = "ClearFinalizer"
          PROVE  b \in applied[r]
        BY <2>1, <2>3, RankType DEF Ordered
    <2>4. QED
        BY <2>1, <2>2, <2>3 DEF Ordered
<1>2. Spec => []OrderInv
    BY OrderInit, OrderStep, PTL DEF Spec
<1>3. QED
    BY <1>1, <1>2, PTL

-----------------------------------------------------------------------------
(* What the refinement needs beside the invariants proved so far. *)

(* An action under way is not done yet, and nobody has typed a name before the   *)
(* one prompt an invocation has, between its two passes.                        *)
Once(r) ==
    /\ pin[r] # Nothing => pin[r].action \notin applied[r]
    /\ pc[r] = "start" => opt[r] = Nothing
    /\ pc[r] # "start" /\ (mode[r] = "dry" \/ pc[r] = "prompt") => ~opt[r].typed
    /\ pc[r] = "prompt" => mode[r] = "apply"

RefineInv == PinnedInv /\ OrderInv /\ \A r \in Runs : Once(r)

(* A step that neither carries out nor pins nor asks.                            *)
LEMMA QuietKeepsOnce ==
    ASSUME NEW r \in Runs, Once(r), applied'[r] = applied[r], pin'[r] \in {pin[r], Nothing},
           pc[r] # "start", pc'[r] # "start", opt'[r] = opt[r],
           (mode'[r] = "dry" \/ pc'[r] = "prompt") => mode[r] = "dry" \/ pc[r] = "prompt",
           pc'[r] = "prompt" => mode'[r] = "apply"
    PROVE  Once(r)'
    BY DEF Once

LEMMA ActorKeepsOnce ==
    ASSUME ConsentInv, NEW r \in Runs, Once(r), Start(r) \/ Step(r) \/ Prompt(r) \/ Crash(r)
    PROVE  Once(r)'
<1>0. TypeOK
    BY DEF ConsentInv, TypedInv
<1>1. ASSUME UNCHANGED <<opt, applied>>, pc[r] # "start", \E code \in {0, 1, 2, 3} : Leave(r, code)
      PROVE  Once(r)'
    <2>1. PICK code \in {0, 1, 2, 3} : Leave(r, code)
        BY <1>1
    <2>2. /\ pc'[r] # "start" /\ pin'[r] = Nothing
          /\ (mode'[r] = "dry" \/ pc'[r] = "prompt") => mode[r] = "dry"
          /\ pc'[r] = "prompt" => mode'[r] = "apply"
        BY <1>0, <2>1, LeaveMoves
    <2>3. QED
        BY <1>1, <2>2, QuietKeepsOnce
<1>2. ASSUME UNCHANGED <<opt, applied>>, pc[r] # "start", pin'[r] \in {pin[r], Nothing},
             \E label \in Labels \ {"start", "prompt"} : Goto(r, label)
      PROVE  Once(r)'
    BY <1>0, <1>2, GotoMoves, QuietKeepsOnce
<1>3. CASE Start(r)
    <2>1. PICK f \in Flags[r], token \in {shown[q] : q \in Runs} \union {Nothing} :
              opt' = [opt EXCEPT ![r] =
                        [name |-> f.name, ref |-> Parsed[f.name], apply |-> f.apply,
                         interactive |-> f.interactive, strategy |-> f.strategy,
                         audits |-> f.audits, denied |-> f.denied,
                         confirm |-> token, typed |-> FALSE]]
        BY <1>3 DEF Start
    <2>2. opt'[r].typed = FALSE /\ pc'[r] = "resolve"
        BY <1>0, <1>3, <2>1 DEF Start, TypeOK
    <2>3. QED
        BY <1>3, <2>2 DEF Start, Once
<1>4. CASE Resolve(r)
    <2>1. opt[r] \in Options /\ pc[r] = "resolve"
        BY <1>4 DEF Resolve, ConsentInv, TypedInv, Started, TypeOK
    <2>2. PICK ref : opt' = [opt EXCEPT ![r].ref = ref]
        BY <1>4 DEF Resolve
    <2>3. opt'[r].typed = opt[r].typed
        BY <1>0, <2>1, <2>2 DEF TypeOK, Options
    <2>4. pc'[r] = "preflight" /\ mode'[r] = mode[r]
        BY <1>0, <1>4, GotoMoves, LabelsListed DEF Resolve
    <2>5. QED
        BY <1>4, <2>1, <2>3, <2>4 DEF Resolve, Once
<1>5. CASE Prompt(r)
    <2>1. pc'[r] = "resolve" /\ mode'[r] = mode[r] /\ mode[r] = "apply"
        BY <1>0, <1>5, GotoMoves, LabelsListed DEF Prompt, Once
    <2>2. QED
        BY <1>5, <2>1 DEF Prompt, Once
<1>6. CASE ReadTarget(r) \/ ScanOrphans(r) \/ AppendAudit(r)
    BY <1>2, <1>6, LabelsListed DEF ReadTarget, ScanOrphans, AppendAudit
<1>7. CASE ReadSource(r)
    <2>1. NextRead[pc[r]] \in Labels \ {"start", "prompt"}
        BY <1>7, LabelsListed DEF ReadSource, NextRead
    <2>2. QED
        BY <1>2, <1>7, <2>1, LabelsListed DEF ReadSource
<1>8. CASE Preflight(r) \/ Check(r) \/ Report(r) \/ Reverify(r) \/ Refetch(r) \/ MutateFails(r)
    BY <1>1, <1>2, <1>8, LabelsListed DEF Preflight, Check, Report, Reverify, Refetch, MutateFails
<1>9. CASE PassGate(r)
    BY <1>1, <1>2, <1>9, LabelsListed DEF PassGate
<1>10. CASE Pin(r)
    <2>1. PICK a \in NextActions(r) :
          \/ /\ pin' = [pin EXCEPT ![r] = [action |-> a, rv |-> objects[a.ref].rv,
                                           meta |-> objects[a.ref].meta, spec |-> objects[a.ref].spec]]
             /\ Goto(r, IF a.kind = "FinalizeNamespace" THEN "refetch" ELSE "mutate")
          \/ Leave(r, 3)
        BY <1>10 DEF Pin
    <2>2. CASE Leave(r, 3)
        BY <1>1, <1>10, <2>2 DEF Pin
    <2>3. CASE /\ pin' = [pin EXCEPT ![r] = [action |-> a, rv |-> objects[a.ref].rv,
                                             meta |-> objects[a.ref].meta, spec |-> objects[a.ref].spec]]
               /\ Goto(r, IF a.kind = "FinalizeNamespace" THEN "refetch" ELSE "mutate")
        <3>1. pin'[r].action = a
            BY <1>0, <2>3 DEF TypeOK
        <3>2. a \notin applied[r]
            BY <1>10 DEF NextActions, Pin, ConsentInv, Local, Books
        <3>3. pc'[r] \in {"refetch", "mutate"} /\ mode'[r] = mode[r]
            BY <1>0, <2>3, GotoMoves, LabelsListed
        <3>4. QED
            BY <1>10, <3>1, <3>2, <3>3 DEF Pin, Once
    <2>4. QED
        BY <2>1, <2>2, <2>3
<1>11. CASE Mutate(r) \/ MutateUnanswered(r)
    <2>1. (\E code \in {0, 3} : Leave(r, code)) \/ (Goto(r, "target") /\ pin' = [pin EXCEPT ![r] = Nothing])
        BY <1>11 DEF Mutate, MutateUnanswered
    <2>2. /\ pin'[r] = Nothing /\ pc'[r] # "start"
          /\ (mode'[r] = "dry" \/ pc'[r] = "prompt") => mode[r] = "dry"
          /\ pc'[r] = "prompt" => mode'[r] = "apply"
        <3>1. CASE \E code \in {0, 3} : Leave(r, code)
            BY <1>0, <3>1, LeaveMoves
        <3>2. CASE Goto(r, "target") /\ pin' = [pin EXCEPT ![r] = Nothing]
            BY <1>0, <3>2, GotoMoves, LabelsListed DEF TypeOK
        <3>3. QED
            BY <2>1, <3>1, <3>2
    <2>3. QED
        BY <1>11, <2>2 DEF Mutate, MutateUnanswered, Once
<1>12. CASE Crash(r)
    <2>1. pc'[r] = "crashed" /\ pin'[r] = Nothing
        BY <1>0, <1>12 DEF Crash, TypeOK
    <2>2. QED
        BY <1>12, <2>1, QuietKeepsOnce DEF Crash
<1>13. QED
    BY <1>3, <1>4, <1>5, <1>6, <1>7, <1>8, <1>9, <1>10, <1>11, <1>12 DEF Step

LEMMA RefineInvInit == Init => RefineInv
    BY PinnedInit, OrderInit DEF Init, RefineInv, Once

LEMMA RefineInvStep == RefineInv /\ [Next]_vars => RefineInv'
<1> SUFFICES ASSUME RefineInv, [Next]_vars PROVE RefineInv'
    OBVIOUS
<1>1. PinnedInv' /\ OrderInv' /\ ConsentInv /\ TypedInv
    BY PinnedStep, OrderStep DEF RefineInv, OrderInv, ConsentInv
<1>2. ASSUME NEW q \in Runs PROVE Once(q)'
    <2>1. ASSUME NEW r \in Runs, Start(r) \/ Step(r) \/ Prompt(r) \/ Crash(r) PROVE Once(q)'
        <3>1. CASE q = r
            BY <1>1, <2>1, <3>1, ActorKeepsOnce DEF RefineInv
        <3>2. CASE q # r
            <4>1. Same(q)
                BY <1>1, <2>1, <3>2, OnlyActorMoves
            <4>2. QED
                BY <4>1 DEF RefineInv, Once, Same
        <3>3. QED
            BY <3>1, <3>2
    <2>2. CASE UNCHANGED runVars
        BY <2>2 DEF RefineInv, Once, runVars
    <2>3. QED
        BY <2>1, <2>2 DEF Next, vars
<1>3. QED
    BY <1>1, <1>2 DEF RefineInv
-----------------------------------------------------------------------------
(* The initial state, and the steps the store does not see.                     *)

LEMMA RefineInit == Init => Abstract!Init
<1> SUFFICES ASSUME Init PROVE Abstract!Init
    OBVIOUS
<1>1. {shown[r] : r \in Runs} \ {Nothing} = {}
    BY DEF Init
<1>2. {r \in Runs : opt[r] # Nothing /\ opt[r].typed} = {}
    BY DEF Init
<1>3. [r \in Runs |-> Approval(r)] = [r \in Runs |-> Nothing]
    BY DEF Init, Approval
<1>4. QED
    BY <1>1, <1>2, <1>3 DEF Init, ClusterInit, Abstract!Init

(* A step that shows, approves and writes nothing, and types no name.           *)
LEMMA UnseenStutters ==
    ASSUME UNCHANGED <<objects, foreign, shown, gate, applied>>,
           \A q \in Runs : (opt'[q] # Nothing /\ opt'[q].typed) <=> (opt[q] # Nothing /\ opt[q].typed),
           \A q \in Runs : gate[q] # Nothing => opt'[q].ref = opt[q].ref
    PROVE  UNCHANGED Abstract!vars
<1>1. {r \in Runs : opt'[r] # Nothing /\ opt'[r].typed} = {r \in Runs : opt[r] # Nothing /\ opt[r].typed}
    OBVIOUS
<1>2. \A q \in Runs : Approval(q)' = Approval(q)
    BY DEF Approval, Target
<1>3. [r \in Runs |-> Approval(r)'] = [r \in Runs |-> Approval(r)]
    BY <1>2
<1>4. QED
    BY <1>1, <1>3 DEF Abstract!vars

LEMMA QuietStutters ==
    ASSUME UNCHANGED <<objects, foreign, shown, gate, applied, opt>>
    PROVE  UNCHANGED Abstract!vars
    BY UnseenStutters

LEMMA StartStutters ==
    ASSUME RefineInv, NEW r \in Runs, Start(r) PROVE UNCHANGED Abstract!vars
<1>0. TypeOK
    BY DEF RefineInv, PinnedInv, TypedInv
<1>1. gate[r] = Nothing /\ opt[r] = Nothing
    BY DEF Start, RefineInv, OrderInv, ConsentInv, Local, Phase, Once
<1>2. PICK f \in Flags[r], token \in {shown[q] : q \in Runs} \union {Nothing} :
          opt' = [opt EXCEPT ![r] =
                    [name |-> f.name, ref |-> Parsed[f.name], apply |-> f.apply,
                     interactive |-> f.interactive, strategy |-> f.strategy,
                     audits |-> f.audits, denied |-> f.denied,
                     confirm |-> token, typed |-> FALSE]]
    BY DEF Start
<1>3. opt'[r].typed = FALSE /\ \A q \in Runs \ {r} : opt'[q] = opt[q]
    BY <1>0, <1>2 DEF TypeOK
<1>4. UNCHANGED <<objects, foreign, shown, gate, applied>>
    BY DEF Start, clusterVars
<1>5. QED
    BY <1>1, <1>3, <1>4, UnseenStutters

LEMMA ResolveStutters ==
    ASSUME RefineInv, NEW r \in Runs, Resolve(r) PROVE UNCHANGED Abstract!vars
<1>0. TypeOK
    BY DEF RefineInv, PinnedInv, TypedInv
<1>1. gate[r] = Nothing
    BY DEF Resolve, RefineInv, OrderInv, ConsentInv, Local, Phase
<1>2. opt[r] \in Options /\ opt[r] # Nothing
    BY <1>0 DEF Resolve, RefineInv, PinnedInv, TypedInv, Started, TypeOK
<1>3. PICK ref : opt' = [opt EXCEPT ![r].ref = ref]
    BY DEF Resolve
<1>4. opt'[r].typed = opt[r].typed /\ opt'[r] # Nothing /\ \A q \in Runs \ {r} : opt'[q] = opt[q]
    <2>1. opt'[r] = [opt[r] EXCEPT !.ref = ref] /\ \A q \in Runs \ {r} : opt'[q] = opt[q]
        BY <1>0, <1>3 DEF TypeOK
    <2>2. TypedInv'
        BY TypedStep DEF RefineInv, PinnedInv, Next, Step
    <2>3. opt'[r] # Nothing
        <3>1. pc'[r] = "preflight"
            BY <1>0, GotoMoves, LabelsListed DEF Resolve
        <3>2. QED
            BY <2>2, <3>1 DEF TypedInv, Started
    <2>4. QED
        BY <1>2, <2>1, <2>3 DEF Options
<1>5. UNCHANGED <<objects, foreign, shown, gate, applied>>
    BY DEF Resolve, clusterVars
<1>6. QED
    BY <1>1, <1>2, <1>4, <1>5, UnseenStutters
-----------------------------------------------------------------------------
(* The steps it does see, one per action of Remediation.                        *)

LEMMA ReportShows ==
    ASSUME RefineInv, NEW r \in Runs, Report(r)
    PROVE  Abstract!Show \/ UNCHANGED Abstract!vars
<1> DEFINE verdicts == Verdicts(opt[r].ref, snap[r], opt[r].strategy)
           token == Digest(opt[r].ref, verdicts, snap[r].obj.rv)
<1>0. TypedInv /\ TypeOK /\ \A q \in Runs : Local(q)
    BY DEF RefineInv, OrderInv, ConsentInv, TypedInv
<1>1. UNCHANGED <<objects, foreign, gate, applied, opt>>
    BY DEF Report, clusterVars
<1>2. CASE shown' = shown
    BY <1>1, <1>2, QuietStutters
<1>3. CASE shown' # shown
    <2>1. JointlyDead(verdicts) /\ shown' = [shown EXCEPT ![r] = token]
        BY <1>3 DEF Report
    <2>2. shown'[r] = token /\ \A q \in Runs \ {r} : shown'[q] = shown[q]
        BY <1>0, <2>1 DEF TypeOK
    <2>3. \A q \in Runs : shown[q] # Nothing => shown'[q] = shown[q]
        BY <1>0, ShownStays DEF Next, Step
    <2>4. token = DeadToken(opt[r].ref, snap[r].obj)
        BY <2>1, DeadDigest
    <2>5. \A pair \in token.pairs : pair[2] = "DEAD"
        BY <2>4 DEF DeadToken
    <2>6. token.pairs # {}
        <3>1. PICK v : v \in verdicts
            BY <2>1 DEF JointlyDead
        <3>2. <<v.finalizer, v.state>> \in token.pairs
            BY <3>1 DEF Digest
        <3>3. QED
            BY <3>2
    <2> HIDE DEF token
    <2>7. {shown[q] : q \in Runs} \ {Nothing} \subseteq {shown'[q] : q \in Runs} \ {Nothing}
        BY <2>3
    <2>8. \A t \in ({shown'[q] : q \in Runs} \ {Nothing}) \ ({shown[q] : q \in Runs} \ {Nothing}) : t = token
        BY <2>2
    <2>9. {q \in Runs : opt'[q] # Nothing /\ opt'[q].typed} = {q \in Runs : opt[q] # Nothing /\ opt[q].typed}
        BY <1>1
    <2>10. [q \in Runs |-> Approval(q)'] = [q \in Runs |-> Approval(q)]
        BY <1>1 DEF Approval, Target
    <2>11. Abstract!Show
        BY <1>1, <2>5, <2>6, <2>7, <2>8, <2>9, <2>10 DEF Abstract!Show
    <2>12. QED
        BY <2>11
<1>4. QED
    BY <1>2, <1>3

LEMMA PromptConfirms ==
    ASSUME RefineInv, NEW r \in Runs, Prompt(r)
    PROVE  Abstract!Confirm(r) \/ UNCHANGED Abstract!vars
<1>0. TypeOK
    BY DEF RefineInv, PinnedInv, TypedInv
<1>1. UNCHANGED <<objects, foreign, shown, gate, applied>>
    BY DEF Prompt, clusterVars
<1>2. opt[r] \in Options /\ opt[r] # Nothing /\ ~opt[r].typed
    BY <1>0 DEF Prompt, RefineInv, PinnedInv, TypedInv, Started, TypeOK, Once
<1>3. PICK answer \in BOOLEAN : opt' = [opt EXCEPT ![r].typed = answer]
    BY DEF Prompt
<1>4. opt'[r] = [opt[r] EXCEPT !.typed = answer] /\ \A q \in Runs \ {r} : opt'[q] = opt[q]
    BY <1>0, <1>3 DEF TypeOK
<1>5. opt'[r].typed = answer /\ opt'[r].ref = opt[r].ref /\ opt'[r] # Nothing
    <2>1. opt'[r] \in Options
        BY <1>2, <1>4 DEF Options
    <2>2. QED
        BY <1>2, <1>4, <2>1, NothingAssumption DEF Options
<1>6. CASE answer = FALSE
    BY <1>1, <1>2, <1>4, <1>5, <1>6, UnseenStutters
<1>7. CASE answer = TRUE
    <2>1. {q \in Runs : opt'[q] # Nothing /\ opt'[q].typed} = {q \in Runs : opt[q] # Nothing /\ opt[q].typed} \union {r}
        BY <1>4, <1>5, <1>7
    <2>2. \A q \in Runs : Approval(q)' = Approval(q)
        BY <1>1, <1>4, <1>5 DEF Approval, Target
    <2>3. [q \in Runs |-> Approval(q)'] = [q \in Runs |-> Approval(q)]
        BY <2>2
    <2>4. Abstract!Confirm(r)
        BY <1>1, <2>1, <2>3 DEF Abstract!Confirm
    <2>5. QED
        BY <2>4
<1>8. QED
    BY <1>3, <1>6, <1>7

LEMMA GateApproves ==
    ASSUME RefineInv, NEW r \in Runs, PassGate(r)
    PROVE  Abstract!Approve(r) \/ UNCHANGED Abstract!vars
<1>0. ConsentInv /\ TypeOK /\ ConsentInv'
    BY ConsentStep DEF RefineInv, OrderInv, ConsentInv, TypedInv, Next, Step
<1>1. UNCHANGED <<objects, foreign, shown, applied, opt>> /\ gate[r] = Nothing
    BY DEF PassGate, clusterVars
<1>2. CASE gate' = gate
    BY <1>1, <1>2, QuietStutters
<1>3. CASE gate' # gate
    <2> DEFINE approval == [ref |-> opt[r].ref, obj |-> snap[r].obj]
    <2>1. gate' = [gate EXCEPT ![r] = snap[r].obj] /\ snap[r].obj # Nothing
        BY <1>3 DEF PassGate
    <2>2. opt[r] \in Options /\ opt[r] # Nothing /\ snap[r].obj \in Objects
        BY <1>0, <2>1 DEF PassGate, ConsentInv, TypedInv, Started, TypeOK, Snapshots
    <2>3. gate'[r] = snap[r].obj /\ \A q \in Runs \ {r} : gate'[q] = gate[q]
        BY <1>0, <2>1 DEF TypeOK
    <2>4. Approval(r) = Nothing /\ Approval(r)' = approval /\ \A q \in Runs \ {r} : Approval(q)' = Approval(q)
        BY <1>1, <2>1, <2>3 DEF Approval, Target
    <2>5. approval \in [ref : Refs, obj : Objects]
        BY <2>2 DEF Options
    <2>6. (opt[r] # Nothing /\ opt[r].typed) \/ Abstract!TokenFor(approval) \in {shown[q] : q \in Runs} \ {Nothing}
        <3>1. CASE opt[r].interactive
            BY <1>0, <1>1, <2>1, <2>2, <2>3, <3>1 DEF ConsentInv, Local, Consent
        <3>2. CASE ~opt[r].interactive
            <4>1. opt[r].confirm = DeadToken(opt[r].ref, snap[r].obj)
                BY <1>0, <1>1, <2>1, <2>3, <3>2 DEF ConsentInv, Local, Consent, Target
            <4>2. DeadToken(opt[r].ref, snap[r].obj) \in Tokens
                BY <2>2 DEF DeadToken, Tokens, Objects, Options, States
            <4>3. opt[r].confirm # Nothing
                BY <4>1, <4>2, NothingAssumption
            <4>4. \E s \in Runs : shown[s] = opt[r].confirm
                BY <1>0, <2>2, <4>3 DEF ConsentInv, TokensShown
            <4>5. Abstract!TokenFor(approval) = DeadToken(opt[r].ref, snap[r].obj)
                BY DEF Abstract!TokenFor, Abstract!FinalizersOf, DeadToken
            <4>6. QED
                BY <4>1, <4>3, <4>4, <4>5
        <3>3. QED
            BY <3>1, <3>2
    <2> HIDE DEF approval
    <2>7. /\ [q \in Runs |-> Approval(q)][r] = Nothing
          /\ [q \in Runs |-> Approval(q)'][r] = approval
          /\ [q \in Runs |-> Approval(q)'] = [[q \in Runs |-> Approval(q)] EXCEPT ![r] = approval]
        BY <2>4
    <2>8. r \in {q \in Runs : opt[q] # Nothing /\ opt[q].typed}
          \/ Abstract!TokenFor(approval) \in {shown[q] : q \in Runs} \ {Nothing}
        BY <2>6
    <2>9. UNCHANGED <<{shown[q] : q \in Runs} \ {Nothing}, {q \in Runs : opt[q] # Nothing /\ opt[q].typed}>>
        BY <1>1
    <2>10. Abstract!Approve(r)
        BY <1>1, <2>5, <2>7, <2>8, <2>9 DEF Abstract!Approve
    <2>11. QED
        BY <2>10
<1>4. QED
    BY <1>2, <1>3
(* The object a write leaves behind, whole but for its resourceVersion.         *)
LEMMA WriteLeaves ==
    ASSUME ClusterTypeOK, NEW ref \in Refs, Exists(ref), NEW o \in Objects, Write(ref, o)
    PROVE  /\ \A other \in Refs \ {ref} : objects'[other] = objects[other]
           /\ IF objects'[ref] = Nothing THEN Abstract!Releases(ref, o)
              ELSE objects'[ref] = [o EXCEPT !.rv = objects'[ref].rv]
<1>1. CASE o = objects[ref]
    <2>1. objects'[ref] = o /\ o # Nothing
        BY <1>1 DEF Write, objectVars, Exists
    <2>2. [o EXCEPT !.rv = o.rv] = o
        BY DEF Objects
    <2>3. QED
        BY <1>1, <2>1, <2>2 DEF Write, objectVars
<1>2. CASE o # objects[ref]
    <2> DEFINE stored == [o EXCEPT !.rv = revision + 1]
    <2>0. revision + 1 \in Nat /\ Nothing \notin Objects
        BY ClusterAssumption DEF ClusterTypeOK
    <2>1. stored \in Objects /\ stored # Nothing
        BY <2>0 DEF Objects
    <2>2. [o EXCEPT !.rv = stored.rv] = stored
        BY DEF Objects
    <2>3. objects'[ref] = IF o.terminating /\ ~Held(ref, o) THEN Nothing ELSE stored
        BY <1>2 DEF Write, Store, ClusterTypeOK
    <2>4. \A other \in Refs \ {ref} : objects'[other] = objects[other]
        BY <1>2 DEF Write, Store, ClusterTypeOK
    <2> HIDE DEF stored
    <2>5. QED
        BY <2>1, <2>2, <2>3, <2>4 DEF Held, Abstract!Releases
<1>3. QED
    BY <1>1, <1>2

LEMMA PerformOutcome ==
    ASSUME PinnedInv, NEW r \in Runs, pc[r] = "mutate", Accepted(pin[r]), Perform(pin[r])
    PROVE  LET a == pin[r].action
               o == Abstract!Outcome(a, objects[a.ref])
           IN  /\ a \in Actions /\ objects[a.ref] # Nothing
               /\ \A ref \in Refs \ {a.ref} : objects'[ref] = objects[ref]
               /\ IF objects'[a.ref] = Nothing THEN Abstract!Releases(a.ref, o)
                  ELSE objects'[a.ref] = [o EXCEPT !.rv = objects'[a.ref].rv]
<1> DEFINE p == pin[r]
           a == p.action
           old == objects[a.ref]
           o == Abstract!Outcome(a, old)
<1>1. p \in Pins /\ p # Nothing /\ a \in Actions /\ a.ref \in Refs
    BY DEF PinnedInv, TypedInv, TypeOK, Pinned, Pins, Actions
<1>2. ClusterTypeOK
    BY DEF PinnedInv, TypedInv, TypeOK
<1>3. Precondition(a.ref, p.rv)
    BY <1>1 DEF Accepted, AcceptsDelete, AcceptsFinalize, AcceptsPatch, Actions
<1>4. Exists(a.ref) /\ old # Nothing /\ old \in Objects
    BY <1>1, <1>2, <1>3 DEF Precondition, Exists, ClusterTypeOK
<1>5. old.meta = p.meta /\ old.spec = p.spec
    BY <1>1, <1>3 DEF PinnedInv, PinIsFaithful
<1>6. Write(a.ref, o) /\ o \in Objects
    <2>1. CASE a.kind = "CleanOrphan"
        BY <1>4, <2>1 DEF Perform, Delete, Abstract!Outcome, Objects
    <2>2. CASE a.kind = "ClearFinalizer"
        <3>1. o = [old EXCEPT !.meta = old.meta \ {a.finalizer}]
            BY <1>4, <2>2 DEF Abstract!Outcome, Objects
        <3>2. QED
            BY <1>4, <1>5, <2>2, <3>1 DEF Perform, PatchFinalizers, RemoveFinalizer, Objects
    <2>3. CASE a.kind = "FinalizeNamespace"
        <3>1. o = [old EXCEPT !.spec = old.spec \ {a.finalizer}]
            BY <1>4, <2>3 DEF Abstract!Outcome, Objects
        <3>2. QED
            BY <1>4, <1>5, <2>3, <3>1 DEF Perform, FinalizeNamespace, RemoveFinalizer, Objects
    <2>4. QED
        BY <1>1, <2>1, <2>2, <2>3 DEF Actions
<1> HIDE DEF o
<1>7. QED
    BY <1>1, <1>2, <1>4, <1>6, WriteLeaves DEF o

(* The action under way has the approval it needs and its turn has come.        *)
LEMMA PinMayCarry ==
    ASSUME RefineInv, NEW r \in Runs, pc[r] = "mutate"
    PROVE  LET a == pin[r].action
           IN  /\ Approval(r) # Nothing /\ a \notin applied[r]
               /\ a.kind # "CleanOrphan" =>
                     a.ref = Approval(r).ref
                     /\ a.finalizer \in Approval(r).obj.meta \union Approval(r).obj.spec
               /\ a.kind = "CleanOrphan" => \A b \in applied[r] : b.kind = "CleanOrphan"
               /\ a.kind = "FinalizeNamespace" =>
                     \A f \in (Approval(r).obj.meta \union Approval(r).obj.spec) \ {Kubernetes} :
                         \E b \in applied[r] : b.kind = "ClearFinalizer" /\ b.finalizer = f
<1> DEFINE a == pin[r].action
<1>0. TypedInv /\ TypeOK /\ Local(r) /\ Ordered(r) /\ Once(r)
    BY DEF RefineInv, PinnedInv, OrderInv, ConsentInv, TypedInv
<1>1. gate[r] # Nothing /\ gate[r] \in Objects /\ pin[r] # Nothing /\ opt[r] \in Options
    BY <1>0 DEF TypedInv, Gated, Pinned, Started, TypeOK
<1>2. a \in plan[r] /\ applied[r] \subseteq plan[r] /\ plan[r] \subseteq Actions /\ a \notin applied[r]
    BY <1>0, <1>1 DEF Local, Books, TypeOK, Once
<1>3. Approval(r) = [ref |-> opt[r].ref, obj |-> gate[r]] /\ Approval(r) # Nothing
    <2>1. [ref |-> opt[r].ref, obj |-> gate[r]] \in Approvals
        BY <1>1 DEF Options, Approvals
    <2>2. QED
        BY <1>1, <2>1, ApprovalAssumption DEF Approval, Target
<1>4. a.kind # "CleanOrphan" => a.ref = opt[r].ref /\ a.finalizer \in gate[r].meta \union gate[r].spec
    BY <1>0, <1>2 DEF Local, Consent, Target
<1>5. ASSUME a.kind = "CleanOrphan", NEW b \in applied[r] PROVE b.kind = "CleanOrphan"
    <2>1. SUFFICES ASSUME b.kind # "CleanOrphan" PROVE FALSE
        OBVIOUS
    <2>2. Rank(a) < Rank(b)
        BY <1>2, <1>5, <2>1, RankType
    <2>3. QED
        BY <1>0, <1>2, <2>2 DEF Ordered
<1>6. ASSUME a.kind = "FinalizeNamespace", NEW b \in plan[r], b.kind = "ClearFinalizer" PROVE b \in applied[r]
    <2>1. SUFFICES ASSUME b \notin applied[r] PROVE FALSE
        OBVIOUS
    <2>2. Rank(a) = 4 /\ Rank(b) \in 1..4 /\ Rank(b) # 4
        BY <1>2, <1>6, RankType
    <2>3. Rank(a) <= Rank(b)
        BY <1>0, <1>1, <2>1 DEF Ordered
    <2>4. QED
        BY <2>2, <2>3
<1>7. ASSUME a.kind = "FinalizeNamespace", NEW f \in (gate[r].meta \union gate[r].spec) \ {Kubernetes}
      PROVE  \E b \in applied[r] : b.kind = "ClearFinalizer" /\ b.finalizer = f
    BY <1>0, <1>2, <1>6, <1>7 DEF Ordered
<1>8. QED
    BY <1>2, <1>3, <1>4, <1>5, <1>7

LEMMA MutateCarries ==
    ASSUME RefineInv, NEW r \in Runs, Mutate(r) \/ MutateUnanswered(r)
    PROVE  Abstract!Carry(r)
<1> DEFINE a == pin[r].action
<1>0. TypeOK
    BY DEF RefineInv, PinnedInv, TypedInv
<1>1. /\ pc[r] = "mutate" /\ Accepted(pin[r]) /\ Perform(pin[r])
      /\ UNCHANGED <<foreign, opt, shown, gate>>
      /\ applied' = [applied EXCEPT ![r] = @ \union {a}]
    BY DEF Mutate, MutateUnanswered
<1>2. PinnedInv
    BY DEF RefineInv
<1>3. Abstract!MayCarry(r, a)
    <2>1. [q \in Runs |-> Approval(q)][r] = Approval(r)
        OBVIOUS
    <2>2. QED
        BY <1>1, <2>1, PinMayCarry DEF Abstract!MayCarry, Abstract!FinalizersOf
<1>4. /\ a \in Actions /\ objects[a.ref] # Nothing
      /\ \A ref \in Refs \ {a.ref} : objects'[ref] = objects[ref]
      /\ IF objects'[a.ref] = Nothing THEN Abstract!Releases(a.ref, Abstract!Outcome(a, objects[a.ref]))
         ELSE objects'[a.ref] = [Abstract!Outcome(a, objects[a.ref]) EXCEPT !.rv = objects'[a.ref].rv]
    BY <1>1, <1>2, PerformOutcome
<1>5. UNCHANGED <<{shown[q] : q \in Runs} \ {Nothing}, {q \in Runs : opt[q] # Nothing /\ opt[q].typed},
                  [q \in Runs |-> Approval(q)]>>
    BY <1>1 DEF Approval, Target
<1> HIDE DEF a
<1>6. QED
    BY <1>1, <1>3, <1>4, <1>5 DEF Abstract!Carry

(* Others write one object at a time.                                           *)
LEMMA ForeignIsOthers ==
    ASSUME RefineInv, ForeignWrite, UNCHANGED <<runVars, faults>>
    PROVE  Abstract!Others
<1>1. ClusterTypeOK
    BY DEF RefineInv, PinnedInv, TypedInv, TypeOK
<1>2. objects' \in [Refs -> Objects \union {Nothing}]
    BY <1>1, ForeignAdvances DEF Advances
<1>3. UNCHANGED <<{shown[q] : q \in Runs} \ {Nothing}, {q \in Runs : opt[q] # Nothing /\ opt[q].typed},
                  [q \in Runs |-> Approval(q)], applied>>
    BY DEF runVars, Approval, Target
<1>4. QED
    BY <1>1, <1>2, <1>3, ForeignTouchesOne DEF Abstract!Others

-----------------------------------------------------------------------------
LEMMA RefineStep ==
    RefineInv /\ [Next]_vars => [Abstract!Next]_(Abstract!vars)
<1> SUFFICES ASSUME RefineInv, [Next]_vars PROVE [Abstract!Next]_(Abstract!vars)
    OBVIOUS
<1>1. ASSUME NEW r \in Runs, \/ Preflight(r) \/ Check(r) \/ ReadTarget(r) \/ ReadSource(r) \/ ScanOrphans(r)
                             \/ Reverify(r) \/ Pin(r) \/ Refetch(r) \/ MutateFails(r) \/ AppendAudit(r)
                             \/ Crash(r)
      PROVE  UNCHANGED Abstract!vars
    BY <1>1, QuietStutters DEF clusterVars, Preflight, Check, ReadTarget, ReadSource, ScanOrphans, Reverify,
                               Pin, Refetch, MutateFails, AppendAudit, Crash
<1>2. ASSUME NEW r \in Runs, Start(r) \/ Step(r) \/ Prompt(r) \/ Crash(r)
      PROVE  Abstract!Next \/ UNCHANGED Abstract!vars
    BY <1>1, <1>2, StartStutters, ResolveStutters, ReportShows, PromptConfirms, GateApproves, MutateCarries
       DEF Step, Abstract!Next
<1>3. CASE ForeignWrite /\ UNCHANGED <<runVars, faults>>
    BY <1>3, ForeignIsOthers DEF Abstract!Next
<1>4. CASE UNCHANGED vars
    BY <1>4, QuietStutters DEF vars, clusterVars, runVars
<1>5. QED
    BY <1>2, <1>3, <1>4 DEF Next

(* Every behaviour of Doctor, seen as store, tokens, typed names, approvals and     *)
(* actions carried out, is one that Remediation allows.                            *)
THEOREM RefinementCorrect == Spec => Remediates
<1>1. Spec => []RefineInv
    BY RefineInvInit, RefineInvStep, PTL DEF Spec
<1>2. QED
    BY <1>1, RefineInit, RefineStep, PTL DEF Spec, Remediates, Abstract!Spec

-----------------------------------------------------------------------------
(* An invocation goes forward.                                                  *)

(* The gate lets no target through that has nothing to clear, so that a plan is  *)
(* never empty.                                                                 *)
Laden(r) == pc[r] = "orphans" => AllFinalizers(gate[r]) # {}

ForwardInv == RefineInv /\ \A r \in Runs : Laden(r)

LEMMA BuildHasWork ==
    ASSUME NEW ref, NEW obj, AllFinalizers(obj) # {}, NEW orphans
    PROVE  Build(ref, obj, orphans) # {}
<1>1. PICK item \in AllFinalizers(obj) : TRUE
    OBVIOUS
<1> DEFINE finalizes(i) == ref \in NsRefs /\ i.finalizer = Kubernetes
           cleared == {i \in AllFinalizers(obj) : ~finalizes(i)}
<1> HIDE DEF finalizes
<1>2. CASE finalizes(item)
    <2>1. item \in AllFinalizers(obj) \ cleared
        BY <1>1, <1>2
    <2>2. [kind |-> "FinalizeNamespace", ref |-> ref, finalizer |-> item.finalizer, list |-> "spec"]
              \in Build(ref, obj, orphans)
        BY <2>1 DEF Build, finalizes
    <2>3. QED
        BY <2>2
<1>3. CASE ~finalizes(item)
    <2>1. item \in cleared
        BY <1>1, <1>3
    <2>2. [kind |-> "ClearFinalizer", ref |-> ref, finalizer |-> item.finalizer, list |-> item.list]
              \in Build(ref, obj, orphans)
        BY <2>1 DEF Build, finalizes
    <2>3. QED
        BY <2>2
<1>4. QED
    BY <1>2, <1>3

(* Only PassGate leads to the orphan scan.                                      *)
LEMMA GateIsLaden ==
    ASSUME TypedInv, NEW r \in Runs, Start(r) \/ Step(r) \/ Prompt(r) \/ Crash(r)
    PROVE  Laden(r)'
<1>0. TypeOK
    BY DEF TypedInv
<1>1. ASSUME \/ \E code \in {0, 1, 2, 3} : Leave(r, code)
             \/ \E label \in Labels \ {"orphans"} : Goto(r, label)
      PROVE  Laden(r)'
    BY <1>0, <1>1, LeaveMoves, GotoMoves DEF Laden
<1>2. CASE Start(r) \/ Crash(r)
    BY <1>0, <1>2 DEF Start, Crash, TypeOK, Laden
<1>3. CASE Resolve(r) \/ ReadTarget(r) \/ ScanOrphans(r) \/ AppendAudit(r) \/ Prompt(r)
    BY <1>1, <1>3, LabelsListed DEF Resolve, ReadTarget, ScanOrphans, AppendAudit, Prompt
<1>4. CASE ReadSource(r)
    BY <1>1, <1>4, NextReadLabel DEF ReadSource
<1>5. CASE Preflight(r) \/ Check(r) \/ Report(r) \/ Reverify(r) \/ Refetch(r) \/ MutateFails(r)
    BY <1>1, <1>5, LabelsListed DEF Preflight, Check, Report, Reverify, Refetch, MutateFails
<1>6. CASE Pin(r) \/ Mutate(r) \/ MutateUnanswered(r)
    BY <1>1, <1>6, LabelsListed DEF Pin, Mutate, MutateUnanswered
<1>7. CASE PassGate(r)
    <2>1. CASE \E code \in {0, 3} : Leave(r, code)
        BY <1>1, <2>1
    <2>2. CASE /\ JointlyDead(Verdicts(opt[r].ref, snap[r], opt[r].strategy))
               /\ gate' = [gate EXCEPT ![r] = snap[r].obj]
        BY <1>0, <2>2 DEF TypeOK, Laden, JointlyDead, Verdicts, Diagnose
    <2>3. QED
        BY <1>7, <2>1, <2>2 DEF PassGate
<1>8. QED
    BY <1>2, <1>3, <1>4, <1>5, <1>6, <1>7 DEF Step

LEMMA ForwardInvInit == Init => ForwardInv
    BY RefineInvInit DEF Init, ForwardInv, Laden

LEMMA ForwardInvStep == ForwardInv /\ [Next]_vars => ForwardInv'
<1> SUFFICES ASSUME ForwardInv, [Next]_vars PROVE ForwardInv'
    OBVIOUS
<1>1. RefineInv' /\ TypedInv
    BY RefineInvStep DEF ForwardInv, RefineInv, PinnedInv
<1>2. ASSUME NEW q \in Runs PROVE Laden(q)'
    <2>1. ASSUME NEW r \in Runs, Start(r) \/ Step(r) \/ Prompt(r) \/ Crash(r) PROVE Laden(q)'
        <3>1. CASE q = r
            BY <1>1, <2>1, <3>1, GateIsLaden
        <3>2. CASE q # r
            <4>1. Same(q)
                BY <1>1, <2>1, <3>2, OnlyActorMoves
            <4>2. QED
                BY <4>1 DEF ForwardInv, Laden, Same
        <3>3. QED
            BY <3>1, <3>2
    <2>2. CASE UNCHANGED runVars
        BY <2>2 DEF ForwardInv, Laden, runVars
    <2>3. QED
        BY <2>1, <2>2 DEF Next, vars
<1>3. QED
    BY <1>1, <1>2 DEF ForwardInv

(* The last two of the four ways forward, which all but two actions take.       *)
Ahead(r) ==
    /\ plan'[r] = plan[r] /\ audit'[r] = audit[r]
    /\ \/ mode[r] = "dry" /\ mode'[r] = "apply"
       \/ mode'[r] = mode[r] /\ Position[pc[r]] < Position[pc'[r]]

LEMMA PositionType == Position \in [Labels -> 1..21]
    BY LabelsListed DEF Position

(* The labels a Goto leads on to. *)
LEMMA PositionOrder ==
    /\ Position["prompt"] < Position["resolve"] /\ Position["resolve"] < Position["preflight"]
    /\ Position["preflight"] < Position["check"] /\ Position["check"] < Position["target"]
    /\ Position["target"] < Position["apiservices"] /\ Position["judge"] < Position["orphans"]
    /\ Position["judge"] < Position["pin"] /\ Position["pin"] < Position["refetch"]
    /\ Position["pin"] < Position["mutate"] /\ Position["refetch"] < Position["mutate"]
    /\ Position["audit"] < Position["done"]
    BY DEF Position

LEMMA LeaveIsAhead ==
    ASSUME TypeOK, NEW r \in Runs, NEW code \in {0, 1, 2, 3}, Leave(r, code),
           pc[r] \notin {"audit", "done", "crashed"}, UNCHANGED <<plan, audit>>
    PROVE  Ahead(r)
<1>1. pc[r] \in Labels
    BY DEF TypeOK
<1>2. Position[pc[r]] < Position["audit"] /\ Position["audit"] < Position["done"]
    BY <1>1, LabelsListed DEF Position
<1>3. QED
    BY <1>1, <1>2, PositionType, LabelsListed, LeaveMoves DEF Ahead

LEMMA GotoIsAhead ==
    ASSUME TypeOK, NEW r \in Runs, NEW label \in Labels, Goto(r, label),
           Position[pc[r]] < Position[label], UNCHANGED <<plan, audit>>
    PROVE  Ahead(r)
    BY GotoMoves DEF Ahead

LEMMA ActorIsAhead ==
    ASSUME TypedInv, NEW r \in Runs,
           \/ Resolve(r) \/ Preflight(r) \/ Check(r) \/ ReadTarget(r) \/ ReadSource(r)
           \/ Report(r) \/ PassGate(r) \/ Reverify(r) \/ Pin(r) \/ Refetch(r)
           \/ MutateUnanswered(r) \/ MutateFails(r) \/ AppendAudit(r) \/ Prompt(r)
    PROVE  Ahead(r)
<1>0. TypeOK
    BY DEF TypedInv
<1> USE LabelsListed
<1>1. ASSUME \E code \in {0, 1, 2, 3} : Leave(r, code),
             pc[r] \notin {"audit", "done", "crashed"}, UNCHANGED <<plan, audit>>
      PROVE  Ahead(r)
    BY <1>0, <1>1, LeaveIsAhead
<1>2. CASE Resolve(r) \/ ReadTarget(r) \/ AppendAudit(r) \/ Prompt(r)
    <2>1. UNCHANGED <<plan, audit>>
        BY <1>2 DEF Resolve, ReadTarget, AppendAudit, Prompt
    <2>2. CASE Resolve(r)
        BY <1>0, <2>1, <2>2, GotoIsAhead, PositionOrder DEF Resolve
    <2>3. CASE ReadTarget(r)
        BY <1>0, <2>1, <2>3, GotoIsAhead, PositionOrder DEF ReadTarget
    <2>4. CASE AppendAudit(r)
        BY <1>0, <2>1, <2>4, GotoIsAhead, PositionOrder DEF AppendAudit
    <2>5. CASE Prompt(r)
        BY <1>0, <2>1, <2>5, GotoIsAhead, PositionOrder DEF Prompt
    <2>6. QED
        BY <1>2, <2>2, <2>3, <2>4, <2>5
<1>3. CASE ReadSource(r)
    <2>1. NextRead[pc[r]] \in Labels /\ Position[pc[r]] < Position[NextRead[pc[r]]]
        BY <1>3 DEF ReadSource, NextRead, Position
    <2>2. QED
        BY <1>0, <1>3, <2>1, GotoIsAhead DEF ReadSource
<1>4. CASE Preflight(r)
    BY <1>0, <1>1, <1>4, GotoIsAhead, PositionOrder DEF Preflight
<1>5. CASE Check(r)
    BY <1>0, <1>1, <1>5, GotoIsAhead, PositionOrder DEF Check
<1>6. CASE Report(r)
    BY <1>1, <1>6 DEF Report
<1>7. CASE PassGate(r)
    BY <1>0, <1>1, <1>7, GotoIsAhead, PositionOrder DEF PassGate
<1>8. CASE Reverify(r)
    BY <1>0, <1>1, <1>8, GotoIsAhead, PositionOrder DEF Reverify
<1>9. CASE Pin(r)
    <2>1. (\E label \in {"refetch", "mutate"} : Goto(r, label)) \/ Leave(r, 3)
        BY <1>9 DEF Pin
    <2>2. QED
        BY <1>0, <1>1, <1>9, <2>1, GotoIsAhead, PositionOrder DEF Pin
<1>10. CASE Refetch(r)
    BY <1>0, <1>1, <1>10, GotoIsAhead, PositionOrder DEF Refetch
<1>11. CASE MutateUnanswered(r) \/ MutateFails(r)
    BY <1>1, <1>11 DEF MutateUnanswered, MutateFails
<1>12. QED
    BY <1>2, <1>3, <1>4, <1>5, <1>6, <1>7, <1>8, <1>9, <1>10, <1>11

(* A mutation that is answered adds an action to the record, one of the plan.   *)
LEMMA MutateRecords ==
    ASSUME ForwardInv, NEW r \in Runs, Mutate(r)
    PROVE  /\ mode'[r] = mode[r] /\ plan'[r] = plan[r]
           /\ audit[r] # audit'[r] /\ audit[r] \subseteq audit'[r] /\ audit'[r] \subseteq plan[r]
<1>0. TypeOK /\ Pinned /\ Gated /\ Local(r) /\ Once(r)
    BY DEF ForwardInv, RefineInv, PinnedInv, OrderInv, ConsentInv, TypedInv
<1>1. pc[r] = "mutate" /\ plan' = plan /\ audit' = [audit EXCEPT ![r] = @ \union {pin[r].action}]
    BY DEF Mutate
<1>2. pin[r] # Nothing /\ gate[r] # Nothing /\ mode[r] = "apply"
    BY <1>0, <1>1 DEF Pinned, Gated, Local, Phase
<1>3. audit[r] = applied[r] /\ audit[r] \subseteq plan[r] /\ pin[r].action \in plan[r] /\ pin[r].action \notin audit[r]
    BY <1>0, <1>1, <1>2 DEF Local, Books, Once
<1>4. audit'[r] = audit[r] \union {pin[r].action}
    BY <1>0, <1>1 DEF TypeOK
<1>5. mode'[r] = mode[r]
    <2>1. Leave(r, 0) \/ Goto(r, "target")
        BY DEF Mutate
    <2>2. QED
        BY <1>0, <1>2, <2>1, LeaveMoves, GotoMoves, LabelsListed
<1>6. QED
    BY <1>1, <1>3, <1>4, <1>5

LEMMA ScanMakesPlan ==
    ASSUME ForwardInv, NEW r \in Runs, ScanOrphans(r)
    PROVE  mode'[r] = mode[r] /\ plan[r] = {} /\ plan'[r] # {}
<1>0. TypeOK /\ Local(r) /\ Laden(r)
    BY DEF ForwardInv, RefineInv, PinnedInv, OrderInv, ConsentInv, TypedInv
<1>1. pc[r] = "orphans" /\ mode' = mode
    BY DEF ScanOrphans, Goto
<1>2. PICK listed \in SUBSET Siblings[opt[r].ref] :
          plan' = [plan EXCEPT ![r] = Build(opt[r].ref, gate[r], Detect(opt[r].ref, listed))]
    BY DEF ScanOrphans, NamespaceObjects
<1>3. plan'[r] = Build(opt[r].ref, gate[r], Detect(opt[r].ref, listed))
    BY <1>0, <1>2 DEF TypeOK
<1>4. AllFinalizers(gate[r]) # {}
    BY <1>0, <1>1 DEF Laden
<1>5. QED
    BY <1>0, <1>1, <1>3, <1>4, BuildHasWork DEF Local, Books

(* For any number of invocations, actions, failed calls and foreign writes, no    *)
(* invocation returns to a place it has been in: every step of it goes on to the  *)
(* apply pass, makes its plan, records one more action or takes it further on.    *)
THEOREM ForwardCorrect == Spec => GoesForward
<1> DEFINE Forward(r) ==
               \/ mode[r] = "dry" /\ mode'[r] = "apply"
               \/ /\ mode'[r] = mode[r]
                  /\ \/ plan[r] = {} /\ plan'[r] # {}
                     \/ /\ plan'[r] = plan[r]
                        /\ \/ /\ audit[r] # audit'[r]
                              /\ audit[r] \subseteq audit'[r] /\ audit'[r] \subseteq plan[r]
                           \/ /\ audit'[r] = audit[r]
                              /\ Position[pc[r]] < Position[pc'[r]]
<1>1. Spec => []ForwardInv
    BY ForwardInvInit, ForwardInvStep, PTL DEF Spec
<1>2. ASSUME ForwardInv, [Next]_vars, NEW q \in Runs, Where(q)' # Where(q) PROVE Forward(q)
    <2>0. TypedInv /\ TypeOK
        BY <1>2 DEF ForwardInv, RefineInv, PinnedInv, TypedInv
    <2>1. ASSUME NEW r \in Runs, Start(r) \/ Step(r) \/ Prompt(r) \/ Crash(r) PROVE Forward(q)
        <3>1. CASE q # r
            <4>1. Same(q)
                BY <2>0, <2>1, <3>1, OnlyActorMoves
            <4>2. QED
                BY <1>2, <4>1 DEF Same, Where
        <3>2. CASE Start(r)
            <4>1. /\ pc[r] = "start" /\ pc'[r] = "resolve" /\ mode'[r] \in {"dry", "apply"}
                  /\ plan'[r] = plan[r] /\ audit'[r] = audit[r]
                BY <2>0, <3>2 DEF Start, TypeOK
            <4>2. mode[r] \in {"dry", "apply"} /\ (pc[r] = "start" => mode[r] = "dry")
                BY <1>2, <2>0 DEF ForwardInv, RefineInv, OrderInv, ConsentInv, Local, Phase, TypeOK
            <4>3. Position["start"] < Position["resolve"]
                BY DEF Position
            <4>4. Forward(r)
                BY <4>1, <4>2, <4>3
            <4>5. QED
                BY <3>1, <4>4
        <3>3. CASE Crash(r)
            <4>1. /\ pc[r] \in Labels \ {"crashed"} /\ pc'[r] = "crashed" /\ mode'[r] = mode[r]
                  /\ plan'[r] = plan[r] /\ audit'[r] = audit[r]
                BY <2>0, <3>3 DEF Crash, TypeOK
            <4>2. Position[pc[r]] < Position["crashed"]
                BY <4>1, LabelsListed DEF Position
            <4>3. Forward(r)
                BY <4>1, <4>2
            <4>4. QED
                BY <3>1, <4>3
        <3>4. CASE Mutate(r)
            <4>1. Forward(r)
                BY <1>2, <3>4, MutateRecords
            <4>2. QED
                BY <3>1, <4>1
        <3>5. CASE ScanOrphans(r)
            <4>1. Forward(r)
                BY <1>2, <3>5, ScanMakesPlan
            <4>2. QED
                BY <3>1, <4>1
        <3>6. CASE Ahead(r)
            <4>1. Forward(r)
                BY <3>6 DEF Ahead
            <4>2. QED
                BY <3>1, <4>1
        <3>7. QED
            BY <2>0, <2>1, <3>2, <3>3, <3>4, <3>5, <3>6, ActorIsAhead DEF Step
    <2>2. CASE UNCHANGED runVars
        BY <1>2, <2>2 DEF Where, runVars
    <2>3. QED
        BY <1>2, <2>1, <2>2 DEF Next, vars
<1>3. ForwardInv /\ [Next]_vars => [\A r \in Runs : Where(r)' # Where(r) => Forward(r)]_vars
    BY <1>2
<1>4. QED
    BY <1>1, <1>3, PTL DEF Spec, GoesForward
=============================================================================
