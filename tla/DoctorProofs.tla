---------------------------- MODULE DoctorProofs ----------------------------
(***************************************************************************)
(* What holds of Doctor for any objects, any cluster, any number of        *)
(* invocations, foreign writes and failed calls: its types, the effect of  *)
(* its writes, whose consent they have, and what it reports of them.       *)
(*                                                                         *)
(* The diagnosis enters these proofs only through the set its verdicts are *)
(* in and through JointlyDead.                                             *)
(***************************************************************************)
EXTENDS DoctorProperties, ClusterProofs

-----------------------------------------------------------------------------
(* Typing *)

(* An invocation has a command line from Start on, an action from Pin on, and   *)
(* an authorized target from PassGate on.                                       *)
Started == \A r \in Runs : pc[r] # "start" => opt[r] # Nothing
Pinned  == \A r \in Runs : pc[r] \in {"refetch", "mutate"} => pin[r] # Nothing
Gated   == \A r \in Runs : pc[r] \in {"orphans", "pin", "refetch", "mutate"} => gate[r] # Nothing

TypedInv == TypeOK /\ Started /\ Pinned /\ Gated

LEMMA LabelsListed ==
    /\ DOMAIN NextRead = {"apiservices", "crds", "webhooks", "mutating", "workloads", "pods",
                          "endpointslices"}
    /\ Labels = {"apiservices", "crds", "webhooks", "mutating", "workloads", "pods",
                 "endpointslices", "start", "resolve", "preflight", "check", "target", "judge",
                 "prompt", "orphans", "pin", "refetch", "mutate", "audit", "done", "crashed"}
    BY DEF Labels, NextRead

LEMMA NextReadLabel == \A source \in DOMAIN NextRead : NextRead[source] \in Labels \ {"orphans", "pin", "refetch", "mutate", "start"}
    BY LabelsListed DEF NextRead

LEMMA GotoMoves ==
    ASSUME TypeOK, NEW r \in Runs, NEW label \in Labels, Goto(r, label)
    PROVE  /\ pc' \in [Runs -> Labels] /\ pc'[r] = label
           /\ \A q \in Runs \ {r} : pc'[q] = pc[q]
           /\ mode' = mode /\ exit' = exit
    BY DEF TypeOK, Goto

(* The end of a pass: only r moves, to its end, its prompt or its second pass.  *)
LEMMA LeaveMoves ==
    ASSUME TypeOK, NEW r \in Runs, NEW code \in {0, 1, 2, 3}, Leave(r, code)
    PROVE  /\ pc' \in [Runs -> Labels] /\ pc'[r] \in {"prompt", "resolve", "audit", "done"}
           /\ mode' \in [Runs -> {"dry", "apply"}]
           /\ snap' \in [Runs -> Snapshots]
           /\ pin' \in [Runs -> Pins \union {Nothing}] /\ pin'[r] = Nothing
           /\ exit' \in [Runs -> {0, 1, 2, 3, Nothing}]
           /\ \A q \in Runs \ {r} : pc'[q] = pc[q] /\ pin'[q] = pin[q] /\ mode'[q] = mode[q]
           /\ pc'[r] \in {"audit", "done"} \/ (mode[r] = "dry" /\ opt[r].apply /\ mode'[r] = "apply")
           /\ pc'[r] \in {"audit", "done"} => mode'[r] = mode[r]
<1>1. CASE mode[r] = "dry" /\ opt[r].apply
    BY <1>1, EmptySnapshotType, LabelsListed DEF TypeOK, Leave
<1>2. CASE ~(mode[r] = "dry" /\ opt[r].apply)
    BY <1>2, EmptySnapshotType, LabelsListed DEF TypeOK, Leave
<1>3. QED
    BY <1>1, <1>2

LEMMA CallFailsType ==
    ASSUME TypeOK, CallFails PROVE faults' \in Nat
    BY DEF TypeOK, CallFails

(* What the plan of a gated target consists of.                                 *)
LEMMA BuildType ==
    ASSUME NEW ref \in Refs, NEW obj \in Objects, NEW orphans \in SUBSET Refs
    PROVE  /\ Build(ref, obj, orphans) \in SUBSET Actions
           /\ \A a \in Build(ref, obj, orphans) : a.kind # "CleanOrphan" =>
                 a.ref = ref /\ a.finalizer \in obj.meta \union obj.spec
<1>1. \A item \in AllFinalizers(obj) :
          /\ item.finalizer \in Finalizers /\ item.list \in {"metadata", "spec"}
          /\ item.finalizer \in obj.meta \union obj.spec
    BY DEF AllFinalizers, Objects
<1>2. QED
    BY <1>1 DEF Build, Actions

(* The mutating request of a pinned action that is accepted.                    *)
LEMMA PerformAdvances ==
    ASSUME ClusterTypeOK, NEW p \in Pins, Accepted(p), Perform(p)
    PROVE  Advances
<1>1. p.action \in Actions /\ p.action.ref \in Refs /\ Exists(p.action.ref)
    BY DEF Pins, Actions, Accepted, AcceptsDelete, AcceptsFinalize, AcceptsPatch, Precondition
<1>2. /\ RemoveFinalizer(p.meta, p.action.finalizer) \in SUBSET Finalizers
      /\ RemoveFinalizer(p.spec, p.action.finalizer) \in SUBSET Finalizers
    BY DEF Pins, RemoveFinalizer
<1>3. CASE p.action.kind = "CleanOrphan"
    BY <1>1, <1>3, DeleteAdvances DEF Perform
<1>4. CASE p.action.kind = "FinalizeNamespace"
    BY <1>1, <1>2, <1>4, FinalizeAdvances DEF Perform
<1>5. CASE p.action.kind = "ClearFinalizer"
    BY <1>1, <1>2, <1>5, PatchAdvances DEF Perform
<1>6. QED
    BY <1>1, <1>3, <1>4, <1>5 DEF Actions


LEMMA TypedInit == Init => TypedInv
<1> SUFFICES ASSUME Init PROVE TypedInv
    OBVIOUS
<1>1. ClusterTypeOK
    BY ClusterAssumption DEF Init, ClusterInit, ClusterTypeOK, Availability
<1>2. TypeOK
    BY <1>1, EmptySnapshotType, LabelsListed DEF Init, TypeOK
<1>3. QED
    BY <1>2 DEF Init, TypedInv, Started, Pinned, Gated

LEMMA TypedStep == TypedInv /\ [Next]_vars => TypedInv'
<1> SUFFICES ASSUME TypedInv, [Next]_vars PROVE TypedInv'
    OBVIOUS
<1> USE DEF TypedInv, runVars, clusterVars, evidenceVars
<1>0. TypeOK /\ ClusterTypeOK
    BY DEF TypeOK
<1>1. ASSUME NEW r \in Runs, Start(r) PROVE TypedInv'
    <2>1. PICK f \in Flags[r], token \in {shown[q] : q \in Runs} \union {Nothing} :
              opt' = [opt EXCEPT ![r] =
                        [name |-> f.name, ref |-> Parsed[f.name], apply |-> f.apply,
                         interactive |-> f.interactive, strategy |-> f.strategy,
                         audits |-> f.audits, denied |-> f.denied,
                         confirm |-> token, typed |-> FALSE]]
        BY <1>1 DEF Start
    <2>2. f \in CommandLines /\ Parsed[f.name] \in Refs /\ token \in Tokens \union {Nothing}
        BY DoctorAssumption DEF TypeOK, CommandLines
    <2>3. [name |-> f.name, ref |-> Parsed[f.name], apply |-> f.apply,
           interactive |-> f.interactive, strategy |-> f.strategy,
           audits |-> f.audits, denied |-> f.denied,
           confirm |-> token, typed |-> FALSE] \in Options
        BY <2>2 DEF Options, CommandLines
    <2>4. opt' \in [Runs -> Options \union {Nothing}] /\ opt'[r] # Nothing
        BY <2>1, <2>3, NothingAssumption DEF TypeOK
    <2>5. TypeOK'
        BY <1>1, <2>4, LabelsListed DEF Start, TypeOK, ClusterTypeOK
    <2>6. QED
        BY <1>1, <2>1, <2>4, <2>5 DEF Start, TypeOK, Started, Pinned, Gated
<1>2. ASSUME NEW r \in Runs, Preflight(r) PROVE TypedInv'
    <2>1. CASE Goto(r, "check") /\ UNCHANGED <<snap, pin, faults>>
        BY <1>2, <2>1, GotoMoves, LabelsListed DEF Preflight, TypeOK, ClusterTypeOK, Started, Pinned, Gated
    <2>2. CASE Leave(r, 1) /\ faults' \in Nat
        <3>1. TypeOK'
            BY <1>2, <2>2, LeaveMoves DEF Preflight, TypeOK, ClusterTypeOK
        <3>2. QED
            BY <1>2, <2>2, <3>1, LeaveMoves DEF Preflight, Started, Pinned, Gated
    <2>3. QED
        BY <1>2, <2>1, <2>2, CallFailsType DEF Preflight, TypeOK
<1>3. ASSUME NEW r \in Runs, Check(r) PROVE TypedInv'
    <2>1. CASE Goto(r, "target") /\ UNCHANGED <<snap, pin, faults>>
        BY <1>3, <2>1, GotoMoves, LabelsListed DEF Check, TypeOK, ClusterTypeOK, Started, Pinned, Gated
    <2>2. ASSUME NEW code \in {0, 1, 2, 3}, Leave(r, code), faults' \in Nat PROVE TypedInv'
        <3>1. TypeOK'
            BY <1>3, <2>2, LeaveMoves DEF Check, TypeOK, ClusterTypeOK
        <3>2. QED
            BY <1>3, <2>2, <3>1, LeaveMoves DEF Check, Started, Pinned, Gated
    <2>3. QED
        BY <1>3, <2>1, <2>2, CallFailsType DEF Check, TypeOK
<1>4. ASSUME NEW r \in Runs, ReadTarget(r) PROVE TypedInv'
    <2>1. opt[r] \in Options /\ opt[r].ref \in Refs
        BY <1>4 DEF ReadTarget, Started, TypeOK, Options
    <2>2. snap' \in [Runs -> Snapshots]
        <3>1. CASE UNCHANGED snap
            BY <3>1 DEF TypeOK
        <3>2. ASSUME Exists(opt[r].ref),
                     snap' = [snap EXCEPT ![r].obj = objects[opt[r].ref], ![r].readable = {"targets"}]
              PROVE  snap' \in [Runs -> Snapshots]
            <4>1. snap[r] \in Snapshots /\ objects[opt[r].ref] \in Objects
                BY <2>1, <3>2 DEF TypeOK, ClusterTypeOK, Exists
            <4>2. [snap[r] EXCEPT !.obj = objects[opt[r].ref], !.readable = {"targets"}] \in Snapshots
                BY <4>1 DEF Snapshots, Sources
            <4>3. snap' = [snap EXCEPT ![r] =
                              [snap[r] EXCEPT !.obj = objects[opt[r].ref], !.readable = {"targets"}]]
                BY <3>2 DEF TypeOK
            <4>4. QED
                BY <4>2, <4>3 DEF TypeOK
        <3>3. QED
            BY <1>4, <3>1, <3>2 DEF ReadTarget
    <2>3. faults' \in Nat
        BY <1>4, CallFailsType DEF ReadTarget, TypeOK
    <2>4. Goto(r, "apiservices")
        BY <1>4 DEF ReadTarget
    <2>5. TypeOK'
        BY <1>4, <2>2, <2>3, <2>4, GotoMoves, LabelsListed DEF ReadTarget, TypeOK, ClusterTypeOK
    <2>6. QED
        BY <1>4, <2>4, <2>5, GotoMoves, LabelsListed DEF ReadTarget, Started, Pinned, Gated
<1>5. ASSUME NEW r \in Runs, ReadSource(r) PROVE TypedInv'
    <2>1. NextRead[pc[r]] \in Labels \ {"orphans", "pin", "refetch", "mutate", "start"}
        BY <1>5, NextReadLabel DEF ReadSource
    <2>2. snap' \in [Runs -> Snapshots]
        BY <1>5, FillType DEF ReadSource, TypeOK
    <2>3. faults' \in Nat
        BY <1>5, CallFailsType DEF ReadSource, TypeOK
    <2>4. Goto(r, NextRead[pc[r]])
        BY <1>5 DEF ReadSource
    <2>5. TypeOK'
        BY <1>5, <2>1, <2>2, <2>3, <2>4, GotoMoves DEF ReadSource, TypeOK, ClusterTypeOK
    <2>6. pc[r] # "start"
        BY <1>5, LabelsListed DEF ReadSource
    <2>7. QED
        BY <1>5, <2>1, <2>4, <2>5, <2>6, GotoMoves DEF ReadSource, Started, Pinned, Gated
<1>6. ASSUME NEW r \in Runs, Report(r) PROVE TypedInv'
    <2>1. opt[r].ref \in Refs /\ snap[r] \in Snapshots
        BY <1>6 DEF Report, Started, TypeOK, Options
    <2>2. PICK code \in {0, 2} : Leave(r, code)
        BY <1>6 DEF Report
    <2>3. shown' \in [Runs -> Tokens \union {Nothing}]
        BY <1>6, <2>1, DigestType DEF Report, TypeOK
    <2>4. TypeOK'
        BY <1>6, <2>2, <2>3, LeaveMoves DEF Report, TypeOK, ClusterTypeOK
    <2>5. QED
        BY <1>6, <2>2, <2>4, LeaveMoves DEF Report, Started, Pinned, Gated
<1>7. ASSUME NEW r \in Runs, PassGate(r) PROVE TypedInv'
    <2>1. CASE Goto(r, "orphans") /\ snap[r].obj # Nothing /\ gate' = [gate EXCEPT ![r] = snap[r].obj]
                  /\ snap' = [snap EXCEPT ![r] = EmptySnapshot] /\ UNCHANGED pin
        <3>1. snap[r].obj \in Objects
            BY <2>1 DEF TypeOK, Snapshots
        <3>2. gate' \in [Runs -> Objects \union {Nothing}] /\ gate'[r] # Nothing
            BY <2>1, <3>1 DEF TypeOK
        <3>3. TypeOK'
            BY <1>7, <2>1, <3>2, GotoMoves, LabelsListed, EmptySnapshotType DEF PassGate, TypeOK, ClusterTypeOK
        <3>4. QED
            BY <1>7, <2>1, <3>2, <3>3, GotoMoves, LabelsListed DEF PassGate, TypeOK, Started, Pinned, Gated
    <2>2. ASSUME NEW code \in {0, 3}, Leave(r, code), UNCHANGED gate PROVE TypedInv'
        <3>1. TypeOK'
            BY <1>7, <2>2, LeaveMoves DEF PassGate, TypeOK, ClusterTypeOK
        <3>2. QED
            BY <1>7, <2>2, <3>1, LeaveMoves DEF PassGate, Started, Pinned, Gated
    <2>3. QED
        BY <1>7, <2>1, <2>2 DEF PassGate
<1>8. ASSUME NEW r \in Runs, ScanOrphans(r) PROVE TypedInv'
    <2>1. opt[r].ref \in Refs /\ gate[r] \in Objects
        BY <1>8 DEF ScanOrphans, Started, Gated, TypeOK, Options
    <2>2. PICK listed \in SUBSET Siblings[opt[r].ref] :
              plan' = [plan EXCEPT ![r] = Build(opt[r].ref, gate[r], Detect(opt[r].ref, listed))]
        BY <1>8 DEF ScanOrphans, NamespaceObjects
    <2>3. Detect(opt[r].ref, listed) \in SUBSET Refs
        BY <2>1, DoctorAssumption DEF Detect
    <2>4. plan' \in [Runs -> SUBSET Actions]
        BY <2>1, <2>2, <2>3, BuildType DEF TypeOK
    <2>5. Goto(r, "target")
        BY <1>8 DEF ScanOrphans
    <2>6. TypeOK'
        BY <1>8, <2>4, <2>5, GotoMoves, LabelsListed DEF ScanOrphans, TypeOK, ClusterTypeOK
    <2>7. QED
        BY <1>8, <2>5, <2>6, GotoMoves, LabelsListed DEF ScanOrphans, Started, Pinned, Gated
<1>9. ASSUME NEW r \in Runs, Reverify(r) PROVE TypedInv'
    <2>1. CASE Goto(r, "pin") /\ snap' = [snap EXCEPT ![r] = EmptySnapshot] /\ UNCHANGED pin
        <3>1. TypeOK'
            BY <1>9, <2>1, GotoMoves, LabelsListed, EmptySnapshotType DEF Reverify, TypeOK, ClusterTypeOK
        <3>2. QED
            BY <1>9, <2>1, <3>1, GotoMoves, LabelsListed DEF Reverify, Started, Pinned, Gated
    <2>2. CASE Leave(r, 3)
        <3>1. TypeOK'
            BY <1>9, <2>2, LeaveMoves DEF Reverify, TypeOK, ClusterTypeOK
        <3>2. QED
            BY <1>9, <2>2, <3>1, LeaveMoves DEF Reverify, Started, Pinned, Gated
    <2>3. QED
        BY <1>9, <2>1, <2>2 DEF Reverify
<1>10. ASSUME NEW r \in Runs, Pin(r) PROVE TypedInv'
    <2>1. PICK a \in NextActions(r) :
          \/ /\ Exists(a.ref)
             /\ pin' = [pin EXCEPT ![r] = [action |-> a, rv |-> objects[a.ref].rv,
                                           meta |-> objects[a.ref].meta, spec |-> objects[a.ref].spec]]
             /\ Goto(r, IF a.kind = "FinalizeNamespace" THEN "refetch" ELSE "mutate")
             /\ UNCHANGED <<snap, faults>>
          \/ Leave(r, 3) /\ faults' \in Nat
        BY <1>10, CallFailsType DEF Pin, TypeOK
    <2>2. a \in Actions /\ a.ref \in Refs
        BY DEF NextActions, TypeOK, Actions
    <2>3. CASE Leave(r, 3) /\ faults' \in Nat
        <3>1. TypeOK'
            BY <1>10, <2>3, LeaveMoves DEF Pin, TypeOK, ClusterTypeOK
        <3>2. QED
            BY <1>10, <2>3, <3>1, LeaveMoves DEF Pin, Started, Pinned, Gated
    <2>4. CASE /\ Exists(a.ref)
               /\ pin' = [pin EXCEPT ![r] = [action |-> a, rv |-> objects[a.ref].rv,
                                             meta |-> objects[a.ref].meta, spec |-> objects[a.ref].spec]]
               /\ Goto(r, IF a.kind = "FinalizeNamespace" THEN "refetch" ELSE "mutate")
               /\ UNCHANGED <<snap, faults>>
        <3>1. [action |-> a, rv |-> objects[a.ref].rv, meta |-> objects[a.ref].meta,
               spec |-> objects[a.ref].spec] \in Pins
            BY <2>2, <2>4 DEF TypeOK, ClusterTypeOK, Exists, Objects, Pins
        <3>2. pin' \in [Runs -> Pins \union {Nothing}] /\ pin'[r] # Nothing
            BY <2>4, <3>1, NothingAssumption DEF TypeOK
        <3>3. PICK label \in {"refetch", "mutate"} : Goto(r, label)
            BY <2>4
        <3>4. TypeOK'
            BY <1>10, <2>4, <3>2, <3>3, GotoMoves, LabelsListed DEF Pin, TypeOK, ClusterTypeOK
        <3>5. QED
            BY <1>10, <2>4, <3>2, <3>3, <3>4, GotoMoves, LabelsListed DEF Pin, TypeOK, Started, Pinned, Gated
    <2>5. QED
        BY <2>1, <2>3, <2>4
<1>11. ASSUME NEW r \in Runs, Refetch(r) PROVE TypedInv'
    <2>1. CASE Goto(r, "mutate") /\ UNCHANGED <<snap, pin, faults>>
        <3>1. TypeOK'
            BY <1>11, <2>1, GotoMoves, LabelsListed DEF Refetch, TypeOK, ClusterTypeOK
        <3>2. QED
            BY <1>11, <2>1, <3>1, GotoMoves, LabelsListed DEF Refetch, Started, Pinned, Gated
    <2>2. CASE Leave(r, 3) /\ faults' \in Nat
        <3>1. TypeOK'
            BY <1>11, <2>2, LeaveMoves DEF Refetch, TypeOK, ClusterTypeOK
        <3>2. QED
            BY <1>11, <2>2, <3>1, LeaveMoves DEF Refetch, Started, Pinned, Gated
    <2>3. QED
        BY <1>11, <2>1, <2>2, CallFailsType DEF Refetch, TypeOK
<1>12. ASSUME NEW r \in Runs, pc[r] = "mutate", Accepted(pin[r]), Perform(pin[r]),
              evidenceVars' = evidenceVars, foreign' = foreign
       PROVE  ClusterTypeOK' /\ pin[r] \in Pins /\ pin[r].action \in Actions
    <2>1. pin[r] \in Pins
        BY <1>12 DEF Pinned, TypeOK
    <2>2. Advances
        BY <1>0, <1>12, <2>1, PerformAdvances
    <2>3. QED
        BY <1>12, <2>1, <2>2, <1>0 DEF Advances, ClusterTypeOK, Pins
<1>13. ASSUME NEW r \in Runs, Mutate(r) PROVE TypedInv'
    <2>1. ClusterTypeOK' /\ pin[r].action \in Actions
        BY <1>12, <1>13 DEF Mutate
    <2>2. applied' \in [Runs -> SUBSET Actions] /\ audit' \in [Runs -> SUBSET Actions]
        BY <1>13, <2>1 DEF Mutate, TypeOK
    <2>3. CASE Leave(r, 0)
        <3>1. TypeOK'
            BY <1>13, <2>1, <2>2, <2>3, LeaveMoves DEF Mutate, TypeOK
        <3>2. QED
            BY <1>13, <2>3, <3>1, LeaveMoves DEF Mutate, Started, Pinned, Gated
    <2>4. CASE Goto(r, "target") /\ pin' = [pin EXCEPT ![r] = Nothing] /\ UNCHANGED snap
        <3>1. TypeOK'
            BY <1>13, <2>1, <2>2, <2>4, GotoMoves, LabelsListed DEF Mutate, TypeOK
        <3>2. QED
            BY <1>13, <2>4, <3>1, GotoMoves, LabelsListed DEF Mutate, TypeOK, Started, Pinned, Gated
    <2>5. QED
        BY <1>13, <2>3, <2>4 DEF Mutate
<1>14. ASSUME NEW r \in Runs, MutateUnanswered(r) PROVE TypedInv'
    <2>1. ClusterTypeOK' /\ pin[r].action \in Actions
        BY <1>12, <1>14 DEF MutateUnanswered
    <2>2. applied' \in [Runs -> SUBSET Actions] /\ faults' \in Nat
        BY <1>14, <2>1, CallFailsType DEF MutateUnanswered, TypeOK
    <2>3. TypeOK'
        BY <1>14, <2>1, <2>2, LeaveMoves DEF MutateUnanswered, TypeOK
    <2>4. QED
        BY <1>14, <2>3, LeaveMoves DEF MutateUnanswered, Started, Pinned, Gated
<1>15. ASSUME NEW r \in Runs, MutateFails(r) PROVE TypedInv'
    <2>1. faults' \in Nat
        BY <1>15, CallFailsType DEF MutateFails, TypeOK
    <2>2. TypeOK'
        BY <1>15, <2>1, LeaveMoves DEF MutateFails, TypeOK, ClusterTypeOK
    <2>3. QED
        BY <1>15, <2>2, LeaveMoves DEF MutateFails, Started, Pinned, Gated
<1>16. ASSUME NEW r \in Runs, Prompt(r) PROVE TypedInv'
    <2>1. PICK typed \in BOOLEAN : opt' = [opt EXCEPT ![r].typed = typed]
        BY <1>16 DEF Prompt
    <2>2. opt[r] \in Options
        BY <1>16 DEF Prompt, Started, TypeOK
    <2>3. [opt[r] EXCEPT !.typed = typed] \in Options
        BY <2>2 DEF Options
    <2>4. opt' \in [Runs -> Options \union {Nothing}] /\ \A q \in Runs : opt[q] # Nothing => opt'[q] # Nothing
        BY <2>1, <2>2, <2>3, NothingAssumption DEF TypeOK
    <2>5. TypeOK'
        BY <1>16, <2>4, GotoMoves, LabelsListed DEF Prompt, TypeOK, ClusterTypeOK
    <2>6. QED
        BY <1>16, <2>4, <2>5, GotoMoves, LabelsListed DEF Prompt, Started, Pinned, Gated
<1>17. ASSUME NEW r \in Runs, Crash(r) PROVE TypedInv'
    <2>1. TypeOK'
        BY <1>17, LabelsListed, EmptySnapshotType DEF Crash, TypeOK, ClusterTypeOK
    <2>2. QED
        BY <1>17, <2>1, LabelsListed DEF Crash, TypeOK, Started, Pinned, Gated
<1>18. CASE ForeignWrite /\ UNCHANGED <<runVars, faults>>
    <2>1. ClusterTypeOK'
        BY <1>0, <1>18, ForeignAdvances
    <2>2. QED
        BY <1>18, <2>1 DEF TypeOK, Started, Pinned, Gated
<1>19. CASE UNCHANGED vars
    BY <1>19 DEF vars, TypeOK, ClusterTypeOK, Started, Pinned, Gated
<1>20. ASSUME NEW r \in Runs, Resolve(r) PROVE TypedInv'
    <2>1. opt[r] \in Options
        BY <1>20 DEF Resolve, Started, TypeOK
    <2>2. PICK ref \in Refs : opt' = [opt EXCEPT ![r].ref = ref]
        <3>1. Matches[opt[r].name] \in Seq(Refs) /\ Parsed[opt[r].name] \in Refs
            BY <2>1, DoctorAssumption DEF Options
        <3>2. QED
            BY <1>20, <3>1 DEF Resolve
    <2>3. [opt[r] EXCEPT !.ref = ref] \in Options
        BY <2>1 DEF Options
    <2>4. opt' \in [Runs -> Options \union {Nothing}] /\ \A q \in Runs : opt[q] # Nothing => opt'[q] # Nothing
        BY <2>1, <2>2, <2>3, NothingAssumption DEF TypeOK
    <2>5. Goto(r, "preflight") /\ faults' \in Nat
        BY <1>20, CallFailsType DEF Resolve, TypeOK
    <2>6. TypeOK'
        BY <1>20, <2>4, <2>5, GotoMoves, LabelsListed DEF Resolve, TypeOK, ClusterTypeOK
    <2>7. QED
        BY <1>20, <2>4, <2>5, <2>6, GotoMoves, LabelsListed DEF Resolve, Started, Pinned, Gated
<1>21. ASSUME NEW r \in Runs, AppendAudit(r) PROVE TypedInv'
    <2>1. PICK written \in SUBSET audit[r] : logged' = [logged EXCEPT ![r] = written]
        BY <1>21 DEF AppendAudit
    <2>2. logged' \in [Runs -> SUBSET Actions]
        BY <2>1 DEF TypeOK
    <2>3. Goto(r, "done") /\ faults' \in Nat
        BY <1>21, CallFailsType DEF AppendAudit, TypeOK
    <2>4. TypeOK'
        BY <1>21, <2>2, <2>3, GotoMoves, LabelsListed DEF AppendAudit, TypeOK, ClusterTypeOK
    <2>5. QED
        BY <1>21, <2>3, <2>4, GotoMoves, LabelsListed DEF AppendAudit, Started, Pinned, Gated
<1>22. QED
    BY <1>1, <1>2, <1>3, <1>4, <1>5, <1>6, <1>7, <1>8, <1>9, <1>10, <1>11, <1>13, <1>14, <1>15,
       <1>16, <1>17, <1>18, <1>19, <1>20, <1>21 DEF Next, Step

(* Every variable stays within its type, for any objects and any invocations.   *)
THEOREM TypeCorrect == Spec => []TypeOK
<1>1. Spec => []TypedInv
    BY TypedInit, TypedStep, PTL DEF Spec
<1>2. TypedInv => TypeOK
    BY DEF TypedInv
<1>3. QED
    BY <1>1, <1>2, PTL

-----------------------------------------------------------------------------
(* Revisions: a pin never outlives the object it describes unnoticed.           *)

(* No resourceVersion anybody holds is newer than the store's last write.       *)
Versions ==
    /\ \A ref \in Refs : Exists(ref) => objects[ref].rv <= revision
    /\ \A r \in Runs : pin[r] # Nothing => pin[r].rv <= revision

PinnedInv == TypedInv /\ Versions /\ PinIsFaithful

(* A pin is kept or given up. *)
KeepsPins == \A q \in Runs : pin'[q] \in {pin[q], Nothing}

(* A write takes a revision no pin holds, so a pin stays right or becomes stale. *)
LEMMA KeptPinsFaithful ==
    ASSUME PinnedInv, Advances, KeepsPins
    PROVE  (Versions /\ PinIsFaithful)'
<1> USE DEF PinnedInv
<1>1. ASSUME NEW ref \in Refs, Exists(ref)' PROVE (objects[ref].rv)' <= revision'
    <2>1. CASE objects'[ref] = objects[ref]
        <3>1. objects[ref].rv \in Nat /\ objects[ref].rv <= revision /\ revision \in Nat
            BY <1>1, <2>1 DEF Versions, TypedInv, TypeOK, ClusterTypeOK, Exists, Objects
        <3>2. QED
            BY <2>1, <3>1 DEF Advances
    <2>2. CASE objects'[ref] # objects[ref]
        BY <1>1, <2>2 DEF Advances, Exists
    <2>3. QED
        BY <2>1, <2>2
<1>2. ASSUME NEW q \in Runs, pin'[q] # Nothing
      PROVE  /\ pin'[q] = pin[q] /\ pin[q] \in Pins /\ pin[q].rv \in Nat
             /\ pin[q].rv <= revision /\ revision <= revision' /\ pin[q].action.ref \in Refs
    <2>1. pin'[q] = pin[q]
        BY <1>2 DEF KeepsPins
    <2>2. pin[q] \in Pins
        BY <1>2, <2>1 DEF TypedInv, TypeOK
    <2>3. QED
        BY <1>2, <2>1, <2>2 DEF Versions, Advances, Pins, Actions
<1>3. ASSUME NEW q \in Runs, pin'[q] # Nothing PROVE pin'[q].rv <= revision'
    <2>1. revision \in Nat /\ revision' \in Nat
        BY DEF Advances, TypedInv, TypeOK, ClusterTypeOK
    <2>2. QED
        BY <1>2, <1>3, <2>1
<1>4. ASSUME NEW q \in Runs, pin'[q] # Nothing, Precondition(pin[q].action.ref, pin[q].rv)'
      PROVE  /\ objects'[pin[q].action.ref].meta = pin[q].meta
             /\ objects'[pin[q].action.ref].spec = pin[q].spec
    <2> DEFINE ref == pin[q].action.ref
    <2>1. objects'[ref] # Nothing /\ objects'[ref].rv = pin[q].rv /\ ref \in Refs
        BY <1>2, <1>4 DEF Precondition, Exists
    <2>2. objects'[ref] = objects[ref]
        <3>1. SUFFICES ASSUME objects'[ref] # objects[ref] PROVE FALSE
            OBVIOUS
        <3>2. revision < objects'[ref].rv
            BY <2>1, <3>1 DEF Advances
        <3>3. revision \in Nat
            BY DEF TypedInv, TypeOK, ClusterTypeOK
        <3>4. QED
            BY <1>2, <1>4, <2>1, <3>2, <3>3
    <2>3. Precondition(ref, pin[q].rv)
        BY <2>1, <2>2 DEF Precondition, Exists
    <2>4. pin[q] # Nothing
        BY <1>2, <1>4
    <2>5. QED
        BY <2>2, <2>3, <2>4 DEF PinIsFaithful
<1>5. QED
    BY <1>1, <1>2, <1>3, <1>4 DEF Versions, PinIsFaithful, Precondition, Exists

LEMMA NoWriteAdvances ==
    ASSUME TypedInv, UNCHANGED objectVars PROVE Advances
    BY DEF TypedInv, TypeOK, ClusterTypeOK, objectVars, Advances

LEMMA LeaveKeepsPins ==
    ASSUME TypeOK, NEW r \in Runs, NEW code \in {0, 1, 2, 3}, Leave(r, code) PROVE KeepsPins
    BY LeaveMoves DEF KeepsPins

(* A step that pins an action reads it off the store as it is. *)
PinsAction(r) ==
    /\ UNCHANGED objectVars
    /\ \A q \in Runs \ {r} : pin'[q] = pin[q]
    /\ pin'[r] \in Pins /\ Exists(pin'[r].action.ref)
    /\ LET o == objects[pin'[r].action.ref]
       IN  o.rv = pin'[r].rv /\ o.meta = pin'[r].meta /\ o.spec = pin'[r].spec

(* The two shapes a step can have, seen from the store and the pins. *)
LEMMA StepShape ==
    ASSUME TypedInv, [Next]_vars
    PROVE  (Advances /\ KeepsPins) \/ \E r \in Runs : PinsAction(r)
<1> DEFINE Shape == (Advances /\ KeepsPins) \/ \E r \in Runs : PinsAction(r)
<1>0. TypeOK /\ ClusterTypeOK
    BY DEF TypedInv, TypeOK
<1> USE DEF objectVars, clusterVars, runVars, evidenceVars
<1>1. ASSUME UNCHANGED objectVars, UNCHANGED pin PROVE Shape
    BY <1>1, NoWriteAdvances DEF KeepsPins
<1>2. ASSUME NEW r \in Runs, NEW code \in {0, 1, 2, 3}, Leave(r, code), UNCHANGED objectVars PROVE Shape
    BY <1>0, <1>2, NoWriteAdvances, LeaveKeepsPins
<1>3. ASSUME NEW r \in Runs,
             \/ Start(r) \/ Resolve(r) \/ ReadTarget(r) \/ ReadSource(r)
             \/ ScanOrphans(r) \/ AppendAudit(r) \/ Prompt(r)
      PROVE  Shape
    BY <1>1, <1>3 DEF Start, Resolve, ReadTarget, ReadSource, ScanOrphans, AppendAudit, Prompt
<1>4. ASSUME NEW r \in Runs, Preflight(r) \/ Check(r) PROVE Shape
    BY <1>1, <1>2, <1>4 DEF Preflight, Check
<1>5. ASSUME NEW r \in Runs, Report(r) \/ PassGate(r) \/ Reverify(r) PROVE Shape
    BY <1>1, <1>2, <1>5 DEF Report, PassGate, Reverify
<1>6. ASSUME NEW r \in Runs, Refetch(r) \/ MutateFails(r) PROVE Shape
    BY <1>1, <1>2, <1>6 DEF Refetch, MutateFails
<1>7. ASSUME NEW r \in Runs, Pin(r) PROVE Shape
    <2>1. UNCHANGED objectVars
        BY <1>7 DEF Pin
    <2>2. PICK a \in NextActions(r) :
          \/ /\ Exists(a.ref)
             /\ pin' = [pin EXCEPT ![r] = [action |-> a, rv |-> objects[a.ref].rv,
                                           meta |-> objects[a.ref].meta, spec |-> objects[a.ref].spec]]
          \/ Leave(r, 3)
        BY <1>7 DEF Pin
    <2>3. CASE Leave(r, 3)
        BY <1>2, <2>1, <2>3
    <2>4. CASE /\ Exists(a.ref)
               /\ pin' = [pin EXCEPT ![r] = [action |-> a, rv |-> objects[a.ref].rv,
                                             meta |-> objects[a.ref].meta, spec |-> objects[a.ref].spec]]
        <3> DEFINE p == [action |-> a, rv |-> objects[a.ref].rv,
                         meta |-> objects[a.ref].meta, spec |-> objects[a.ref].spec]
        <3>1. a \in Actions /\ a.ref \in Refs /\ objects[a.ref] \in Objects
            BY <1>0, <2>4 DEF NextActions, TypeOK, ClusterTypeOK, Actions, Exists
        <3>2. p \in Pins
            BY <3>1 DEF Pins, Objects
        <3>3. pin'[r] = p /\ \A q \in Runs \ {r} : pin'[q] = pin[q]
            BY <1>0, <2>4 DEF TypeOK
        <3>4. p.action = a /\ p.rv = objects[a.ref].rv /\ p.meta = objects[a.ref].meta
              /\ p.spec = objects[a.ref].spec
            OBVIOUS
        <3> HIDE DEF p
        <3>5. PinsAction(r)
            BY <2>1, <2>4, <3>2, <3>3, <3>4 DEF PinsAction
        <3>6. QED
            BY <3>5
    <2>5. QED
        BY <2>2, <2>3, <2>4
<1>8. ASSUME NEW r \in Runs, Mutate(r) \/ MutateUnanswered(r) PROVE Shape
    <2>1. pin[r] \in Pins
        BY <1>0, <1>8 DEF Mutate, MutateUnanswered, TypedInv, TypeOK, Pinned
    <2>2. Advances
        BY <1>0, <1>8, <2>1, PerformAdvances DEF Mutate, MutateUnanswered
    <2>3. (\E code \in {0, 3} : Leave(r, code)) \/ pin' = [pin EXCEPT ![r] = Nothing]
        BY <1>8 DEF Mutate, MutateUnanswered
    <2>4. KeepsPins
        <3>1. CASE \E code \in {0, 3} : Leave(r, code)
            BY <1>0, <3>1, LeaveKeepsPins
        <3>2. CASE pin' = [pin EXCEPT ![r] = Nothing]
            BY <1>0, <3>2 DEF KeepsPins, TypeOK
        <3>3. QED
            BY <2>3, <3>1, <3>2
    <2>5. QED
        BY <2>2, <2>4
<1>9. ASSUME NEW r \in Runs, Crash(r) PROVE Shape
    <2>1. Advances
        BY <1>9, NoWriteAdvances DEF Crash
    <2>2. KeepsPins
        BY <1>0, <1>9 DEF Crash, KeepsPins, TypeOK
    <2>3. QED
        BY <2>1, <2>2
<1>10. CASE ForeignWrite /\ UNCHANGED <<runVars, faults>>
    BY <1>0, <1>10, ForeignAdvances DEF KeepsPins
<1>11. CASE UNCHANGED vars
    BY <1>1, <1>11 DEF vars
<1>12. QED
    BY <1>3, <1>4, <1>5, <1>6, <1>7, <1>8, <1>9, <1>10, <1>11 DEF Next, Step

LEMMA PinnedInit == Init => PinnedInv
<1> SUFFICES ASSUME Init PROVE PinnedInv
    OBVIOUS
<1>1. TypedInv
    BY TypedInit
<1>2. Versions
    BY ClusterAssumption DEF Init, ClusterInit, Versions, Exists
<1>3. PinIsFaithful
    BY DEF Init, PinIsFaithful
<1>4. QED
    BY <1>1, <1>2, <1>3 DEF PinnedInv

LEMMA PinnedStep == PinnedInv /\ [Next]_vars => PinnedInv'
<1> SUFFICES ASSUME PinnedInv, [Next]_vars PROVE PinnedInv'
    OBVIOUS
<1>1. TypedInv /\ TypedInv'
    BY TypedStep DEF PinnedInv
<1>2. CASE Advances /\ KeepsPins
    BY <1>1, <1>2, KeptPinsFaithful DEF PinnedInv
<1>3. ASSUME NEW r \in Runs, PinsAction(r) PROVE (Versions /\ PinIsFaithful)'
    <2>1. objects' = objects /\ revision' = revision
        BY <1>3 DEF PinsAction, objectVars
    <2>2. pin'[r].action.ref \in Refs
        BY <1>3 DEF PinsAction, Pins, Actions
    <2>3. pin'[r].rv <= revision
        BY <1>3, <2>2 DEF PinsAction, PinnedInv, Versions
    <2>4. Versions'
        BY <1>3, <2>1, <2>3 DEF PinsAction, PinnedInv, Versions, Exists
    <2>5. PinIsFaithful'
        BY <1>3, <2>1 DEF PinsAction, PinnedInv, PinIsFaithful, Precondition, Exists
    <2>6. QED
        BY <2>4, <2>5
<1>4. QED
    BY <1>1, <1>2, <1>3, StepShape DEF PinnedInv

LEMMA PinnedAlways == Spec => []PinnedInv
    BY PinnedInit, PinnedStep, PTL DEF Spec

(* A pinned rv that is still the object's names the lists read with it, however *)
(* many invocations and strangers write in between.                             *)
THEOREM PinCorrect == Spec => []PinIsFaithful
<1>1. PinnedInv => PinIsFaithful
    BY DEF PinnedInv
<1>2. QED
    BY <1>1, PinnedAlways, PTL

-----------------------------------------------------------------------------
(* The blast radius of one write.                                               *)

LEMMA OneWriteRadius ==
    ASSUME PinnedInv, NEW r \in Runs, pc[r] = "mutate", Accepted(pin[r]), Perform(pin[r])
    PROVE  LET a    == pin[r].action
               old  == objects[a.ref]
               new  == objects'[a.ref]
               meta == IF a.kind = "ClearFinalizer" THEN old.meta \ {a.finalizer} ELSE old.meta
               spec == IF a.kind = "FinalizeNamespace" THEN old.spec \ {a.finalizer} ELSE old.spec
           IN  /\ \A ref \in Refs \ {a.ref} : objects'[ref] = objects[ref]
               /\ old # Nothing
               /\ IF new = Nothing THEN meta = {} /\ (a.ref \in NsRefs => spec = {})
                                   ELSE new.meta = meta /\ new.spec = spec
<1> DEFINE p == pin[r]
           a == p.action
           old == objects[a.ref]
<1>1. p \in Pins /\ p # Nothing /\ a \in Actions /\ a.ref \in Refs
    BY DEF PinnedInv, TypedInv, TypeOK, Pinned, Pins, Actions
<1>2. Precondition(a.ref, p.rv) /\ Exists(a.ref) /\ old # Nothing /\ old \in Objects
    <2>1. Precondition(a.ref, p.rv)
        BY <1>1 DEF Accepted, AcceptsDelete, AcceptsFinalize, AcceptsPatch, Actions
    <2>2. QED
        BY <1>1, <2>1 DEF Precondition, Exists, PinnedInv, TypedInv, TypeOK, ClusterTypeOK
<1>3. old.meta = p.meta /\ old.spec = p.spec
    BY <1>1, <1>2 DEF PinnedInv, PinIsFaithful
<1>4. ClusterTypeOK
    BY DEF PinnedInv, TypedInv, TypeOK
<1>5. CASE a.kind = "CleanOrphan"
    <2>1. Write(a.ref, [old EXCEPT !.terminating = TRUE])
        BY <1>5 DEF Perform, Delete
    <2>2. /\ [old EXCEPT !.terminating = TRUE] \in Objects
          /\ [old EXCEPT !.terminating = TRUE].meta = old.meta
          /\ [old EXCEPT !.terminating = TRUE].spec = old.spec
        BY <1>2 DEF Objects
    <2>3. QED
        BY <1>1, <1>2, <1>4, <1>5, <2>1, <2>2, WriteEffect DEF Held
<1>6. CASE a.kind = "ClearFinalizer"
    <2> DEFINE kept == old.meta \ {a.finalizer}
    <2>1. Write(a.ref, [old EXCEPT !.meta = kept])
        BY <1>3, <1>6 DEF Perform, PatchFinalizers, RemoveFinalizer
    <2>2. /\ [old EXCEPT !.meta = kept] \in Objects
          /\ [old EXCEPT !.meta = kept].meta = kept
          /\ [old EXCEPT !.meta = kept].spec = old.spec
        BY <1>2 DEF Objects
    <2>3. QED
        BY <1>1, <1>2, <1>4, <1>6, <2>1, <2>2, WriteEffect DEF Held
<1>7. CASE a.kind = "FinalizeNamespace"
    <2> DEFINE kept == old.spec \ {a.finalizer}
    <2>1. Write(a.ref, [old EXCEPT !.spec = kept])
        BY <1>3, <1>7 DEF Perform, FinalizeNamespace, RemoveFinalizer
    <2>2. /\ [old EXCEPT !.spec = kept] \in Objects
          /\ [old EXCEPT !.spec = kept].meta = old.meta
          /\ [old EXCEPT !.spec = kept].spec = kept
        BY <1>2 DEF Objects
    <2>3. QED
        BY <1>1, <1>2, <1>4, <1>7, <2>1, <2>2, WriteEffect DEF Held
<1>8. QED
    BY <1>1, <1>5, <1>6, <1>7 DEF Actions

(* Only the request of a pinned action is ever recorded as carried out.          *)
LEMMA OnlyMutateCarries ==
    ASSUME TypedInv, [Next]_vars, NEW r \in Runs, Carries(r)
    PROVE  pc[r] = "mutate" /\ Accepted(pin[r]) /\ Perform(pin[r])
<1>1. applied' # applied
    BY DEF Carries
<1>2. PICK q \in Runs : Mutate(q) \/ MutateUnanswered(q)
    BY <1>1 DEF Next, Step, vars, runVars, Start, Resolve, Preflight, Check, ReadTarget, ReadSource, Report,
                PassGate, ScanOrphans, Reverify, Pin, Refetch, MutateFails, AppendAudit, Prompt, Crash
<1>3. q = r
    BY <1>2 DEF Carries, Mutate, MutateUnanswered, TypedInv, TypeOK
<1>4. QED
    BY <1>2, <1>3 DEF Mutate, MutateUnanswered

(* An action carried out takes one finalizer off one list of one object, or     *)
(* deletes one orphan, and changes nothing else, whoever else has written.      *)
THEOREM BlastRadiusCorrect == Spec => LeastBlastRadius
<1>1. ASSUME PinnedInv, [Next]_vars, NEW r \in Runs, Carries(r)
      PROVE  pc[r] = "mutate" /\ Accepted(pin[r]) /\ Perform(pin[r])
    BY <1>1, OnlyMutateCarries DEF PinnedInv
<1>2. PinnedInv /\ [Next]_vars =>
        [\A r \in Runs : Carries(r) =>
          LET a   == pin[r].action
              old == objects[a.ref]
              new == objects'[a.ref]
              meta == IF a.kind = "ClearFinalizer" THEN old.meta \ {a.finalizer} ELSE old.meta
              spec == IF a.kind = "FinalizeNamespace" THEN old.spec \ {a.finalizer} ELSE old.spec
          IN  /\ \A ref \in Refs \ {a.ref} : objects'[ref] = objects[ref]
              /\ old # Nothing
              /\ IF new = Nothing THEN meta = {} /\ (a.ref \in NsRefs => spec = {})
                                  ELSE new.meta = meta /\ new.spec = spec]_vars
    BY <1>1, OneWriteRadius
<1>3. QED
    BY <1>2, PinnedAlways, PTL DEF Spec, LeastBlastRadius

-----------------------------------------------------------------------------
(* Consent and account: the inductive invariant, one invocation at a time.      *)

(* Where an invocation can be. *)
Phase(r) ==
    /\ gate[r] # Nothing => mode[r] = "apply" /\ pc[r] \notin {"start", "resolve", "preflight", "check", "prompt"}
    /\ pc[r] = "start" => mode[r] = "dry" /\ shown[r] = Nothing
    /\ pc[r] # "start" /\ mode[r] = "apply" => opt[r].apply
    /\ shown[r] # Nothing => mode[r] = "apply" \/ pc[r] \in {"audit", "done", "crashed"}

(* What it planned, carried out and recorded. *)
Books(r) ==
    /\ gate[r] = Nothing \/ pc[r] = "orphans" => plan[r] = {}
    /\ audit[r] \subseteq applied[r] /\ applied[r] \subseteq plan[r]
    /\ pc[r] \notin {"audit", "done", "crashed"} => audit[r] = applied[r]
    /\ pin[r] # Nothing => pin[r].action \in plan[r]
    /\ \A a, b \in applied[r] \ audit[r] : a = b
    /\ pc[r] \in {"audit", "done"} => /\ applied[r] # audit[r] => exit[r] = 3
                                      /\ exit[r] = 0 => audit[r] = plan[r]

(* The token of a target all of whose finalizers are DEAD. *)
DeadToken(ref, obj) ==
    [ref |-> ref, rv |-> obj.rv, pairs |-> (obj.meta \union obj.spec) \X {"DEAD"}]

(* What the gate let through. *)
Consent(r) ==
    /\ \A a \in plan[r] : a.kind # "CleanOrphan" =>
          a.ref = Target(r) /\ a.finalizer \in gate[r].meta \union gate[r].spec
    /\ gate[r] # Nothing => IF opt[r].interactive THEN opt[r].typed
                            ELSE opt[r].confirm = DeadToken(Target(r), gate[r])

Local(r) == Phase(r) /\ Books(r) /\ Consent(r)

(* A token given on a command line is one that was printed. *)
TokensShown ==
    \A r \in Runs : opt[r] # Nothing /\ opt[r].confirm # Nothing =>
        \E s \in Runs : shown[s] = opt[r].confirm

ConsentInv == TypedInv /\ TokensShown /\ \A r \in Runs : Local(r)

-----------------------------------------------------------------------------
(* What a step leaves alone. *)

(* Nothing of q that Local speaks of changes. *)
Same(q) ==
    /\ pc'[q] = pc[q] /\ opt'[q] = opt[q] /\ mode'[q] = mode[q] /\ shown'[q] = shown[q]
    /\ gate'[q] = gate[q] /\ plan'[q] = plan[q] /\ pin'[q] = pin[q] /\ audit'[q] = audit[q]
    /\ applied'[q] = applied[q] /\ exit'[q] = exit[q]

LEMMA SameKeepsLocal ==
    ASSUME NEW q \in Runs, Local(q), Same(q) PROVE Local(q)'
    BY DEF Local, Same, Phase, Books, Consent, DeadToken, Target

(* The part of Same that the end of a pass may disturb. *)
LEMMA LeaveSame ==
    ASSUME TypeOK, NEW r \in Runs, NEW code, Leave(r, code), NEW q \in Runs \ {r}
    PROVE  pc'[q] = pc[q] /\ mode'[q] = mode[q] /\ pin'[q] = pin[q] /\ exit'[q] = exit[q]
<1>1. CASE mode[r] = "dry" /\ opt[r].apply
    BY <1>1 DEF Leave, TypeOK
<1>2. CASE ~(mode[r] = "dry" /\ opt[r].apply)
    BY <1>2 DEF Leave, TypeOK
<1>3. QED
    BY <1>1, <1>2

LEMMA GotoSame ==
    ASSUME TypeOK, NEW r \in Runs, NEW label, Goto(r, label), NEW q \in Runs \ {r}
    PROVE  pc'[q] = pc[q] /\ mode'[q] = mode[q] /\ exit'[q] = exit[q]
    BY DEF Goto, TypeOK

(* An invocation changes nobody else's state. *)
LEMMA OnlyActorMoves ==
    ASSUME TypedInv, NEW r \in Runs, Start(r) \/ Step(r) \/ Prompt(r) \/ Crash(r),
           NEW q \in Runs \ {r}
    PROVE  Same(q)
<1>0. TypeOK
    BY DEF TypedInv
<1> USE DEF Same
<1>1. CASE Start(r)
    BY <1>0, <1>1 DEF Start, TypeOK
<1>2. CASE Preflight(r) \/ Check(r)
    BY <1>0, <1>2, LeaveSame, GotoSame DEF Preflight, Check
<1>3. CASE Resolve(r) \/ ReadTarget(r) \/ ReadSource(r) \/ AppendAudit(r) \/ Prompt(r)
    BY <1>0, <1>3, GotoSame DEF Resolve, ReadTarget, ReadSource, AppendAudit, Prompt, TypeOK
<1>4. CASE Report(r)
    BY <1>0, <1>4, LeaveSame DEF Report, TypeOK
<1>5. CASE PassGate(r)
    BY <1>0, <1>5, LeaveSame, GotoSame DEF PassGate, TypeOK
<1>6. CASE ScanOrphans(r)
    BY <1>0, <1>6, GotoSame DEF ScanOrphans, TypeOK
<1>7. CASE Reverify(r) \/ Refetch(r) \/ MutateFails(r)
    BY <1>0, <1>7, LeaveSame, GotoSame DEF Reverify, Refetch, MutateFails
<1>8. CASE Pin(r)
    BY <1>0, <1>8, LeaveSame, GotoSame DEF Pin, TypeOK
<1>9. CASE Mutate(r)
    BY <1>0, <1>9, LeaveSame, GotoSame DEF Mutate, TypeOK
<1>10. CASE MutateUnanswered(r)
    BY <1>0, <1>10, LeaveSame DEF MutateUnanswered, TypeOK
<1>11. CASE Crash(r)
    BY <1>0, <1>11 DEF Crash, TypeOK
<1>12. QED
    BY <1>1, <1>2, <1>3, <1>4, <1>5, <1>6, <1>7, <1>8, <1>9, <1>10, <1>11 DEF Step

-----------------------------------------------------------------------------
(* The actor's own state. *)

(* The end of a pass: what it recorded by then decides the code it may report. *)
LEMMA LeaveKeepsLocal ==
    ASSUME TypedInv, NEW r \in Runs, Local(r), NEW code \in {0, 1, 2, 3}, Leave(r, code),
           pc[r] \notin {"start", "audit", "done", "crashed"},
           opt'[r] = opt[r], gate'[r] = gate[r], plan'[r] = plan[r],
           audit'[r] \subseteq applied'[r], applied'[r] \subseteq plan[r],
           \A a, b \in applied'[r] \ audit'[r] : a = b,
           applied'[r] # audit'[r] => code = 3 /\ gate[r] # Nothing,
           code = 0 => audit'[r] = plan[r]
    PROVE  Local(r)'
<1>0. TypeOK
    BY DEF TypedInv
<1> DEFINE Ends == pc'[r] \in {"audit", "done"}
<1>1. /\ pc'[r] \in {"prompt", "resolve", "audit", "done"} /\ pin'[r] = Nothing
      /\ Ends \/ (mode[r] = "dry" /\ opt[r].apply /\ mode'[r] = "apply")
      /\ Ends => mode'[r] = mode[r]
    BY <1>0, LeaveMoves
<1>2. Ends => exit'[r] = code
    BY <1>0, <1>1 DEF Leave, TypeOK
<1>3. mode'[r] \in {"dry", "apply"}
    BY <1>0, LeaveMoves
<1>4. gate[r] # Nothing => Ends
    BY <1>1 DEF Local, Phase
<1>5. Phase(r)'
    BY <1>1, <1>3, <1>4 DEF Local, Phase
<1>6. Books(r)'
    BY <1>1, <1>2, <1>4 DEF Local, Books
<1>7. Consent(r)'
    BY DEF Local, Consent, DeadToken, Target
<1>8. QED
    BY <1>5, <1>6, <1>7 DEF Local

(* A step within a pass that decides nothing. *)
LEMMA GotoKeepsLocal ==
    ASSUME TypedInv, NEW r \in Runs, Local(r), NEW label \in Labels, Goto(r, label),
           pc[r] \notin {"start", "audit", "done", "crashed"},
           label \notin {"start", "audit", "done", "crashed", "orphans"},
           label \in {"resolve", "preflight", "check", "prompt"} => gate[r] = Nothing,
           shown[r] # Nothing => mode[r] = "apply",
           opt'[r] = opt[r], shown'[r] = shown[r], gate'[r] = gate[r], plan'[r] = plan[r],
           audit'[r] = applied'[r], applied'[r] \subseteq plan[r],
           pin'[r] # Nothing => pin'[r].action \in plan[r]
    PROVE  Local(r)'
<1>0. TypeOK
    BY DEF TypedInv
<1>1. pc'[r] = label /\ mode'[r] = mode[r] /\ exit'[r] = exit[r]
    BY <1>0, GotoMoves
<1>2. Phase(r)'
    BY <1>1 DEF Local, Phase
<1>3. Books(r)'
    BY <1>1 DEF Local, Books
<1>4. Consent(r)'
    BY DEF Local, Consent, DeadToken, Target
<1>5. QED
    BY <1>2, <1>3, <1>4 DEF Local

(* All verdicts DEAD, the digest is the dead token: no finalizer is left out.    *)
LEMMA DeadDigest ==
    ASSUME NEW ref, NEW s, NEW strategy, JointlyDead(Verdicts(ref, s, strategy))
    PROVE  Digest(ref, Verdicts(ref, s, strategy), s.obj.rv) = DeadToken(ref, s.obj)
<1> DEFINE V == Verdicts(ref, s, strategy)
           Pairs == {<<v.finalizer, v.state>> : v \in V}
<1>1. \A v \in V : v.state = "DEAD"
    BY DEF JointlyDead
<1>2. V = {[finalizer |-> item.finalizer,
            state |-> StateOf(item.finalizer, ref \in NsRefs, s.obj.conds, Evidences(s), strategy)] :
               item \in AllFinalizers(s.obj)}
    BY DEF Verdicts, Diagnose
<1>3. \A v \in V : v.finalizer \in s.obj.meta \union s.obj.spec
    BY <1>2 DEF AllFinalizers
<1>4. ASSUME NEW f \in s.obj.meta \union s.obj.spec PROVE \E v \in V : v.finalizer = f
    <2>1. PICK list \in {"metadata", "spec"} : [finalizer |-> f, list |-> list] \in AllFinalizers(s.obj)
        <3>1. CASE f \in s.obj.meta
            BY <3>1 DEF AllFinalizers
        <3>2. CASE f \in s.obj.spec
            BY <3>2 DEF AllFinalizers
        <3>3. QED
            BY <3>1, <3>2
    <2> DEFINE item == [finalizer |-> f, list |-> list]
               verdict == [finalizer |-> item.finalizer,
                   state |-> StateOf(item.finalizer, ref \in NsRefs, s.obj.conds, Evidences(s), strategy)]
    <2>2. verdict \in V
        BY <2>1 DEF Verdicts, Diagnose
    <2>3. verdict.finalizer = f
        OBVIOUS
    <2>4. QED
        BY <2>2, <2>3
<1> HIDE DEF V
<1>5. Pairs = (s.obj.meta \union s.obj.spec) \X {"DEAD"}
    <2>1. \A pair \in Pairs : pair \in (s.obj.meta \union s.obj.spec) \X {"DEAD"}
        BY <1>1, <1>3
    <2>2. ASSUME NEW f \in s.obj.meta \union s.obj.spec PROVE <<f, "DEAD">> \in Pairs
        BY <1>1, <1>4
    <2>3. QED
        BY <2>1, <2>2
<1>6. QED
    BY <1>5 DEF Digest, DeadToken, V

(* The gate: it starts an apply with nothing done, and the confirmed state.      *)
LEMMA GateKeepsLocal ==
    ASSUME TypedInv, NEW r \in Runs, Local(r), pc[r] = "judge", mode[r] = "apply", gate[r] = Nothing,
           snap[r].obj # Nothing,
           JointlyDead(Verdicts(opt[r].ref, snap[r], opt[r].strategy)),
           Authorize(opt[r], Digest(opt[r].ref, Verdicts(opt[r].ref, snap[r], opt[r].strategy), snap[r].obj.rv)),
           Goto(r, "orphans"), gate' = [gate EXCEPT ![r] = snap[r].obj],
           UNCHANGED <<pin, opt, shown, plan, audit, applied>>
    PROVE  Local(r)'
<1>0. TypeOK
    BY DEF TypedInv
<1>1. pc'[r] = "orphans" /\ mode'[r] = "apply" /\ gate'[r] = snap[r].obj
    BY <1>0, GotoMoves, LabelsListed DEF TypeOK
<1>2. plan[r] = {} /\ audit[r] = {} /\ applied[r] = {}
    BY DEF Local, Books
<1>3. Phase(r)'
    BY <1>1 DEF Local, Phase
<1>4. Books(r)'
    BY <1>1, <1>2 DEF Local, Books
<1>5. IF opt[r].interactive THEN opt[r].typed ELSE opt[r].confirm = DeadToken(opt[r].ref, snap[r].obj)
    BY DeadDigest DEF Authorize
<1>6. Consent(r)'
    BY <1>1, <1>2, <1>5 DEF Consent, Target, DeadToken
<1>7. QED
    BY <1>3, <1>4, <1>6 DEF Local

(* The orphan scan: the plan is for the finalizers of the authorized target.     *)
LEMMA PlanKeepsLocal ==
    ASSUME TypedInv, NEW r \in Runs, Local(r), ScanOrphans(r)
    PROVE  Local(r)'
<1>0. TypeOK
    BY DEF TypedInv
<1>1. pc'[r] = "target" /\ mode'[r] = mode[r]
    BY <1>0, GotoMoves, LabelsListed DEF ScanOrphans
<1>2. opt[r].ref \in Refs /\ gate[r] \in Objects /\ gate[r] # Nothing
    BY DEF ScanOrphans, TypedInv, Started, Gated, TypeOK, Options
<1>3. PICK listed \in SUBSET Siblings[opt[r].ref] :
          plan' = [plan EXCEPT ![r] = Build(opt[r].ref, gate[r], Detect(opt[r].ref, listed))]
    BY DEF ScanOrphans, NamespaceObjects
<1>4. Detect(opt[r].ref, listed) \in SUBSET Refs
    BY <1>2, DoctorAssumption DEF Detect
<1>5. plan'[r] = Build(opt[r].ref, gate[r], Detect(opt[r].ref, listed))
    BY <1>0, <1>3 DEF TypeOK
<1>6. \A a \in plan'[r] : a.kind # "CleanOrphan" =>
          a.ref = opt[r].ref /\ a.finalizer \in gate[r].meta \union gate[r].spec
    BY <1>2, <1>4, <1>5, BuildType
<1>7. audit[r] = {} /\ applied[r] = {} /\ pin[r] = Nothing
    BY DEF ScanOrphans, Local, Books
<1>8. Phase(r)'
    BY <1>1 DEF ScanOrphans, Local, Phase
<1>9. Books(r)'
    BY <1>1, <1>2, <1>7 DEF ScanOrphans, Books
<1>10. Consent(r)'
    BY <1>6 DEF ScanOrphans, Local, Consent, Target, DeadToken
<1>11. QED
    BY <1>8, <1>9, <1>10 DEF Local

LEMMA StartKeepsLocal ==
    ASSUME TypedInv, NEW r \in Runs, Local(r), Start(r)
    PROVE  Local(r)'
<1>0. TypeOK
    BY DEF TypedInv
<1>1. gate[r] = Nothing /\ shown[r] = Nothing /\ plan[r] = {} /\ audit[r] = {} /\ applied[r] = {}
    BY DEF Start, Local, Phase, Books
<1>2. PICK f \in Flags[r], token \in {shown[q] : q \in Runs} \union {Nothing} :
          /\ opt' = [opt EXCEPT ![r] = [name |-> f.name, ref |-> Parsed[f.name], apply |-> f.apply,
                        interactive |-> f.interactive, strategy |-> f.strategy,
                        audits |-> f.audits, denied |-> f.denied,
                        confirm |-> token, typed |-> FALSE]]
          /\ mode' = [mode EXCEPT ![r] = IF f.apply /\ ~f.interactive THEN "apply" ELSE "dry"]
    BY DEF Start
<1>3. /\ opt'[r].apply = f.apply /\ pc'[r] = "resolve"
      /\ mode'[r] = IF f.apply /\ ~f.interactive THEN "apply" ELSE "dry"
    BY <1>0, <1>2 DEF Start, TypeOK
<1>4. Phase(r)'
    BY <1>1, <1>3 DEF Start, Phase
<1>5. Books(r)'
    BY <1>1, <1>3 DEF Start, Local, Books
<1>6. Consent(r)'
    BY <1>1 DEF Start, Consent
<1>7. QED
    BY <1>4, <1>5, <1>6 DEF Local

(* The two answers to a write that is carried out.                               *)
LEMMA MutateKeepsLocal ==
    ASSUME TypedInv, NEW r \in Runs, Local(r), Mutate(r) \/ MutateUnanswered(r)
    PROVE  Local(r)'
<1>0. TypeOK
    BY DEF TypedInv
<1>1. pc[r] = "mutate" /\ gate[r] # Nothing /\ pin[r] # Nothing
    BY DEF Mutate, MutateUnanswered, TypedInv, Gated, Pinned
<1>2. pin[r].action \in plan[r] /\ audit[r] = applied[r] /\ applied[r] \subseteq plan[r]
      /\ (shown[r] # Nothing => mode[r] = "apply")
    BY <1>1 DEF Local, Books, Phase
<1>3. applied'[r] = applied[r] \union {pin[r].action}
    BY <1>0 DEF Mutate, MutateUnanswered, TypeOK
<1>4. CASE Mutate(r)
    <2>1. audit'[r] = audit[r] \union {pin[r].action}
        BY <1>0, <1>4 DEF Mutate, TypeOK
    <2>2. opt'[r] = opt[r] /\ gate'[r] = gate[r] /\ plan'[r] = plan[r] /\ shown'[r] = shown[r]
        BY <1>4 DEF Mutate
    <2>3. audit'[r] = applied'[r] /\ applied'[r] \subseteq plan[r]
        BY <1>2, <1>3, <2>1
    <2>4. CASE plan[r] \ (audit[r] \union {pin[r].action}) = {}
        <3>1. Leave(r, 0) /\ audit'[r] = plan[r]
            BY <1>4, <2>1, <2>3, <2>4 DEF Mutate
        <3>2. QED
            BY <1>1, <2>2, <2>3, <3>1, LeaveKeepsLocal
    <2>5. CASE plan[r] \ (audit[r] \union {pin[r].action}) # {}
        <3>1. Goto(r, "target") /\ pin'[r] = Nothing
            BY <1>0, <1>4, <2>5 DEF Mutate, TypeOK
        <3>2. QED
            BY <1>1, <1>2, <2>2, <2>3, <3>1, GotoKeepsLocal, LabelsListed
    <2>6. QED
        BY <2>4, <2>5
<1>5. CASE MutateUnanswered(r)
    <2>1. Leave(r, 3) /\ opt'[r] = opt[r] /\ gate'[r] = gate[r] /\ plan'[r] = plan[r] /\ audit'[r] = audit[r]
        BY <1>5 DEF MutateUnanswered
    <2>2. /\ audit'[r] \subseteq applied'[r] /\ applied'[r] \subseteq plan[r]
          /\ \A a, b \in applied'[r] \ audit'[r] : a = b
        BY <1>2, <1>3, <2>1
    <2>3. QED
        BY <1>1, <2>1, <2>2, LeaveKeepsLocal
<1>6. QED
    BY <1>4, <1>5

(* Whatever an invocation does, it keeps its own books.                          *)
LEMMA ActorKeepsLocal ==
    ASSUME TypedInv, NEW r \in Runs, Local(r), Start(r) \/ Step(r) \/ Prompt(r) \/ Crash(r)
    PROVE  Local(r)'
<1>0. TypeOK
    BY DEF TypedInv
<1> DEFINE Idle == opt'[r] = opt[r] /\ gate'[r] = gate[r] /\ plan'[r] = plan[r]
                   /\ audit'[r] = audit[r] /\ applied'[r] = applied[r]
           Active == pc[r] \notin {"start", "audit", "done", "crashed"}
<1>1. Active => /\ audit[r] = applied[r] /\ applied[r] \subseteq plan[r]
                /\ (shown[r] # Nothing => mode[r] = "apply")
                /\ (pin[r] # Nothing => pin[r].action \in plan[r])
                /\ (gate[r] # Nothing => pc[r] \notin {"start", "resolve", "preflight", "check", "prompt"})
                /\ (gate[r] = Nothing => audit[r] = plan[r])
                /\ (gate[r] # Nothing => mode[r] = "apply")
    BY DEF Local, Books, Phase
<1>2. ASSUME NEW code \in {0, 1, 2, 3}, Leave(r, code), Idle, Active, code = 0 => gate[r] = Nothing
      PROVE  Local(r)'
    BY <1>1, <1>2, LeaveKeepsLocal
<1>3. ASSUME NEW label \in Labels \ {"start", "audit", "done", "crashed", "orphans"}, Goto(r, label), Idle, Active,
             shown'[r] = shown[r], pin'[r] = pin[r],
             label \in {"resolve", "preflight", "check", "prompt"} => gate[r] = Nothing
      PROVE  Local(r)'
    BY <1>1, <1>3, GotoKeepsLocal
<1>4. CASE Start(r)
    BY <1>4, StartKeepsLocal
<1>5. CASE Preflight(r)
    <2>1. Active /\ Idle /\ shown'[r] = shown[r] /\ gate[r] = Nothing
        BY <1>1, <1>5 DEF Preflight
    <2>2. CASE Goto(r, "check") /\ UNCHANGED <<snap, pin, faults>>
        BY <1>3, <2>1, <2>2, LabelsListed
    <2>3. CASE Leave(r, 1)
        BY <1>2, <2>1, <2>3
    <2>4. QED
        BY <1>5, <2>2, <2>3 DEF Preflight
<1>6. CASE Check(r)
    <2>1. Active /\ Idle /\ shown'[r] = shown[r] /\ gate[r] = Nothing
        BY <1>1, <1>6 DEF Check
    <2>2. CASE Goto(r, "target") /\ UNCHANGED <<snap, pin, faults>>
        BY <1>3, <2>1, <2>2, LabelsListed
    <2>3. CASE \E code \in {0, 1, 3} : Leave(r, code)
        BY <1>2, <2>1, <2>3
    <2>4. QED
        BY <1>6, <2>2, <2>3 DEF Check
<1>7. CASE ReadTarget(r)
    <2>1. Active /\ Idle /\ shown'[r] = shown[r] /\ pin'[r] = pin[r] /\ Goto(r, "apiservices")
        BY <1>7 DEF ReadTarget
    <2>2. QED
        BY <1>3, <2>1, LabelsListed
<1>8. CASE ReadSource(r)
    <2>1. Active /\ Idle /\ shown'[r] = shown[r] /\ pin'[r] = pin[r] /\ Goto(r, NextRead[pc[r]])
        BY <1>8, LabelsListed DEF ReadSource
    <2>2. NextRead[pc[r]] \in Labels \ {"start", "resolve", "preflight", "check", "prompt", "orphans", "audit", "done", "crashed"}
        BY <1>8, LabelsListed DEF ReadSource, NextRead
    <2>3. QED
        BY <1>3, <2>1, <2>2
<1>9. CASE Report(r)
    <2>1. Active /\ Idle /\ gate[r] = Nothing
        BY <1>1, <1>9, NothingAssumption DEF Report
    <2>2. \E code \in {0, 2} : Leave(r, code)
        BY <1>9 DEF Report
    <2>3. QED
        BY <1>2, <2>1, <2>2
<1>10. CASE PassGate(r)
    <2>1. CASE \E code \in {0, 3} : Leave(r, code) /\ UNCHANGED gate
        <3>1. Active /\ Idle /\ gate[r] = Nothing
            BY <1>10, <2>1 DEF PassGate
        <3>2. QED
            BY <1>2, <2>1, <3>1
    <2>2. CASE ~\E code \in {0, 3} : Leave(r, code) /\ UNCHANGED gate
        BY <1>10, <2>2, GateKeepsLocal DEF PassGate
    <2>3. QED
        BY <2>1, <2>2
<1>11. CASE ScanOrphans(r)
    BY <1>11, PlanKeepsLocal
<1>12. CASE Reverify(r)
    <2>1. Active /\ Idle /\ shown'[r] = shown[r]
        BY <1>12 DEF Reverify
    <2>2. CASE Goto(r, "pin") /\ UNCHANGED pin
        BY <1>3, <2>1, <2>2, LabelsListed
    <2>3. CASE Leave(r, 3)
        BY <1>2, <2>1, <2>3
    <2>4. QED
        BY <1>12, <2>2, <2>3 DEF Reverify
<1>13. CASE Pin(r)
    <2>1. Active /\ Idle /\ shown'[r] = shown[r]
        BY <1>13 DEF Pin
    <2>2. PICK a \in NextActions(r) :
          \/ /\ pin' = [pin EXCEPT ![r] = [action |-> a, rv |-> objects[a.ref].rv,
                                           meta |-> objects[a.ref].meta, spec |-> objects[a.ref].spec]]
             /\ Goto(r, IF a.kind = "FinalizeNamespace" THEN "refetch" ELSE "mutate")
          \/ Leave(r, 3)
        BY <1>13 DEF Pin
    <2>3. CASE Leave(r, 3)
        BY <1>2, <2>1, <2>3
    <2>4. CASE /\ pin' = [pin EXCEPT ![r] = [action |-> a, rv |-> objects[a.ref].rv,
                                           meta |-> objects[a.ref].meta, spec |-> objects[a.ref].spec]]
               /\ Goto(r, IF a.kind = "FinalizeNamespace" THEN "refetch" ELSE "mutate")
        <3>1. pin'[r].action \in plan[r]
            BY <1>0, <2>4 DEF TypeOK, NextActions
        <3>2. \E label \in {"refetch", "mutate"} : Goto(r, label)
            BY <2>4
        <3>3. QED
            BY <1>1, <2>1, <3>1, <3>2, GotoKeepsLocal, LabelsListed
    <2>5. QED
        BY <2>2, <2>3, <2>4
<1>14. CASE Refetch(r)
    <2>1. Active /\ Idle /\ shown'[r] = shown[r]
        BY <1>14 DEF Refetch
    <2>2. CASE Goto(r, "mutate") /\ UNCHANGED <<snap, pin, faults>>
        BY <1>3, <2>1, <2>2, LabelsListed
    <2>3. CASE Leave(r, 3)
        BY <1>2, <2>1, <2>3
    <2>4. QED
        BY <1>14, <2>2, <2>3 DEF Refetch
<1>15. CASE Mutate(r) \/ MutateUnanswered(r)
    BY <1>15, MutateKeepsLocal
<1>16. CASE MutateFails(r)
    <2>1. Active /\ Idle /\ Leave(r, 3)
        BY <1>16 DEF MutateFails
    <2>2. QED
        BY <1>2, <2>1
<1>17. CASE Prompt(r)
    <2>1. gate[r] = Nothing /\ pc'[r] = "resolve" /\ mode'[r] = mode[r]
        BY <1>0, <1>1, <1>17, GotoMoves, LabelsListed DEF Prompt
    <2>2. opt'[r].apply = opt[r].apply
        BY <1>0, <1>17 DEF Prompt, TypeOK, TypedInv, Started, Options
    <2>3. Phase(r)'
        BY <1>1, <1>17, <2>1, <2>2 DEF Prompt, Local, Phase
    <2>4. Books(r)'
        BY <1>17, <2>1 DEF Prompt, Local, Books
    <2>5. Consent(r)'
        BY <1>17, <2>1, <2>4 DEF Prompt, Local, Books, Consent
    <2>6. QED
        BY <2>3, <2>4, <2>5 DEF Local
<1>18. CASE Crash(r)
    <2>1. Idle /\ shown'[r] = shown[r] /\ pc[r] # "start" /\ mode'[r] = mode[r]
        BY <1>18 DEF Crash
    <2>2. pin'[r] = Nothing /\ pc'[r] = "crashed"
        BY <1>0, <1>18 DEF Crash, TypeOK
    <2>3. Phase(r)'
        BY <2>1, <2>2 DEF Local, Phase
    <2>4. Books(r)'
        BY <2>1, <2>2 DEF Local, Books
    <2>5. Consent(r)'
        BY <2>1 DEF Local, Consent, DeadToken, Target
    <2>6. QED
        BY <2>3, <2>4, <2>5 DEF Local
<1>19. CASE Resolve(r)
    <2>1. opt[r] \in Options /\ pc[r] = "resolve" /\ gate[r] = Nothing /\ plan[r] = {}
        BY <1>19 DEF Resolve, TypedInv, Started, TypeOK, Local, Phase, Books
    <2>2. PICK ref : opt' = [opt EXCEPT ![r].ref = ref]
        BY <1>19 DEF Resolve
    <2>3. opt'[r].apply = opt[r].apply
        BY <1>0, <2>1, <2>2 DEF TypeOK, Options
    <2>4. pc'[r] = "preflight" /\ mode'[r] = mode[r]
        BY <1>0, <1>19, GotoMoves, LabelsListed DEF Resolve
    <2>5. Phase(r)'
        BY <1>19, <2>1, <2>3, <2>4 DEF Resolve, Local, Phase
    <2>6. Books(r)'
        BY <1>19, <2>1, <2>4 DEF Resolve, Local, Books
    <2>7. Consent(r)'
        BY <1>19, <2>1 DEF Resolve, Consent
    <2>8. QED
        BY <2>5, <2>6, <2>7 DEF Local
<1>20. CASE AppendAudit(r)
    <2>1. Idle /\ shown'[r] = shown[r] /\ pin'[r] = pin[r] /\ pc[r] = "audit"
        BY <1>20 DEF AppendAudit
    <2>2. pc'[r] = "done" /\ mode'[r] = mode[r] /\ exit'[r] = exit[r]
        BY <1>0, <1>20, GotoMoves, LabelsListed DEF AppendAudit
    <2>3. Phase(r)'
        BY <2>1, <2>2 DEF Local, Phase
    <2>4. Books(r)'
        BY <2>1, <2>2 DEF Local, Books
    <2>5. Consent(r)'
        BY <2>1 DEF Local, Consent, DeadToken, Target
    <2>6. QED
        BY <2>3, <2>4, <2>5 DEF Local
<1>21. QED
    BY <1>4, <1>5, <1>6, <1>7, <1>8, <1>9, <1>10, <1>11, <1>12, <1>13, <1>14, <1>15, <1>16,
       <1>17, <1>18, <1>19, <1>20 DEF Step

-----------------------------------------------------------------------------
(* The tokens that pass from one invocation to another. *)

(* A printed token is never withdrawn or replaced: only a dry pass prints, once. *)
LEMMA ShownStays ==
    ASSUME TypedInv, \A r \in Runs : Local(r), [Next]_vars, NEW s \in Runs, shown[s] # Nothing
    PROVE  shown'[s] = shown[s]
<1>1. CASE UNCHANGED shown
    BY <1>1
<1>2. ASSUME NEW r \in Runs, Report(r) PROVE shown'[s] = shown[s]
    <2>1. shown[r] = Nothing
        BY <1>2 DEF Report, Local, Phase
    <2>2. r # s
        BY <2>1
    <2>3. QED
        BY <1>2, <2>2 DEF Report, TypedInv, TypeOK
<1>3. QED
    BY <1>1, <1>2 DEF Next, Step, vars, runVars, Start, Resolve, Preflight, Check, ReadTarget,
       ReadSource, PassGate, ScanOrphans, Reverify, Pin, Refetch, Mutate, MutateUnanswered, MutateFails,
       AppendAudit, Prompt, Crash

(* A token is taken from what is printed when the command line is given.         *)
LEMMA TokenOrigin ==
    ASSUME TypedInv, TokensShown, [Next]_vars, NEW r \in Runs, opt'[r] # Nothing, opt'[r].confirm # Nothing
    PROVE  \E s \in Runs : shown[s] = opt'[r].confirm
<1>0. TypeOK
    BY DEF TypedInv
<1>1. CASE opt'[r] = opt[r]
    BY <1>1 DEF TokensShown
<1>2. ASSUME NEW q \in Runs, Start(q), opt'[r] # opt[r] PROVE \E s \in Runs : shown[s] = opt'[r].confirm
    <2>1. PICK f \in Flags[q], token \in {shown[s] : s \in Runs} \union {Nothing} :
              opt' = [opt EXCEPT ![q] = [name |-> f.name, ref |-> Parsed[f.name], apply |-> f.apply,
                        interactive |-> f.interactive, strategy |-> f.strategy,
                        audits |-> f.audits, denied |-> f.denied,
                        confirm |-> token, typed |-> FALSE]]
        BY <1>2 DEF Start
    <2>2. opt'[r].confirm = token
        BY <1>0, <1>2, <2>1 DEF TypeOK
    <2>3. QED
        BY <2>1, <2>2
<1>3. ASSUME NEW q \in Runs, Prompt(q), opt'[r] # opt[r] PROVE \E s \in Runs : shown[s] = opt'[r].confirm
    <2>1. q = r /\ opt[r] \in Options
        BY <1>0, <1>3 DEF Prompt, TypeOK, TypedInv, Started
    <2>2. PICK typed \in BOOLEAN : opt'[r] = [opt[r] EXCEPT !.typed = typed]
        BY <1>0, <1>3, <2>1 DEF Prompt, TypeOK
    <2>3. opt'[r].confirm = opt[r].confirm /\ opt[r] # Nothing
        BY <2>1, <2>2, NothingAssumption DEF Options
    <2>4. QED
        BY <2>3 DEF TokensShown
<1>4. ASSUME NEW q \in Runs, Resolve(q), opt'[r] # opt[r] PROVE \E s \in Runs : shown[s] = opt'[r].confirm
    <2>1. q = r /\ opt[r] \in Options
        BY <1>0, <1>4 DEF Resolve, TypeOK, TypedInv, Started
    <2>2. PICK ref : opt' = [opt EXCEPT ![q].ref = ref]
        BY <1>4 DEF Resolve
    <2>3. opt'[r].confirm = opt[r].confirm /\ opt[r] # Nothing
        BY <1>0, <2>1, <2>2, NothingAssumption DEF Options, TypeOK
    <2>4. QED
        BY <2>3 DEF TokensShown
<1>5. QED
    BY <1>1, <1>2, <1>3, <1>4 DEF Next, Step, vars, runVars, Preflight, Check, ReadTarget, ReadSource,
       Report, PassGate, ScanOrphans, Reverify, Pin, Refetch, Mutate, MutateUnanswered, MutateFails,
       AppendAudit, Crash

LEMMA ConsentInit == Init => ConsentInv
<1> SUFFICES ASSUME Init PROVE ConsentInv
    OBVIOUS
<1>1. TypedInv
    BY TypedInit
<1>2. TokensShown
    BY DEF Init, TokensShown
<1>3. ASSUME NEW r \in Runs PROVE Local(r)
    BY DEF Init, Local, Phase, Books, Consent
<1>4. QED
    BY <1>1, <1>2, <1>3 DEF ConsentInv

LEMMA ConsentStep == ConsentInv /\ [Next]_vars => ConsentInv'
<1> SUFFICES ASSUME ConsentInv, [Next]_vars PROVE ConsentInv'
    OBVIOUS
<1> USE DEF ConsentInv
<1>1. TypedInv'
    BY TypedStep
<1>2. TokensShown'
    <2>1. ASSUME NEW r \in Runs, opt'[r] # Nothing, opt'[r].confirm # Nothing
          PROVE  \E s \in Runs : shown'[s] = opt'[r].confirm
        <3>1. PICK s \in Runs : shown[s] = opt'[r].confirm
            BY <2>1, TokenOrigin
        <3>2. shown'[s] = shown[s]
            BY <2>1, <3>1, ShownStays
        <3>3. QED
            BY <3>1, <3>2
    <2>2. QED
        BY <2>1 DEF TokensShown
<1>3. ASSUME NEW q \in Runs PROVE Local(q)'
    <2>1. ASSUME NEW r \in Runs, Start(r) \/ Step(r) \/ Prompt(r) \/ Crash(r) PROVE Local(q)'
        <3>1. CASE q = r
            BY <2>1, <3>1, ActorKeepsLocal
        <3>2. CASE q # r
            BY <2>1, <3>2, OnlyActorMoves, SameKeepsLocal
        <3>3. QED
            BY <3>1, <3>2
    <2>2. CASE UNCHANGED runVars
        BY <2>2, SameKeepsLocal DEF runVars, Same
    <2>3. QED
        BY <2>1, <2>2 DEF Next, vars
<1>4. QED
    BY <1>1, <1>2, <1>3

LEMMA ConsentAlways == Spec => []ConsentInv
    BY ConsentInit, ConsentStep, PTL DEF Spec

(* No invocation mutates anything without the consent it needs: the very token   *)
(* some dry run printed for this target, rv and set of finalizers, all DEAD, or   *)
(* the typed name -- whichever invocation printed it, and however they interleave.*)
THEOREM ConsentCorrect == Spec => []OnlyConfirmedIsApplied
<1>1. ConsentInv => OnlyConfirmedIsApplied
    <2> SUFFICES ASSUME ConsentInv, NEW r \in Runs, applied[r] # {}
                 PROVE  /\ opt[r].apply /\ gate[r] # Nothing
                        /\ \A a \in applied[r] : a.kind # "CleanOrphan" =>
                              a.ref = Target(r) /\ a.finalizer \in gate[r].meta \union gate[r].spec
                        /\ IF opt[r].interactive THEN opt[r].typed
                           ELSE /\ opt[r].confirm \in {shown[s] : s \in Runs}
                                /\ opt[r].confirm = DeadToken(Target(r), gate[r])
        BY DEF OnlyConfirmedIsApplied, DeadToken
    <2>1. Local(r) /\ TypeOK
        BY DEF ConsentInv, TypedInv
    <2>2. applied[r] \subseteq plan[r] /\ gate[r] # Nothing
        BY <2>1 DEF Local, Books
    <2>3. opt[r].apply /\ pc[r] # "start"
        BY <2>1, <2>2 DEF Local, Phase
    <2>4. opt[r] \in Options /\ opt[r] # Nothing
        BY <2>1, <2>3 DEF ConsentInv, TypedInv, Started, TypeOK
    <2>5. ASSUME ~opt[r].interactive
          PROVE  opt[r].confirm = DeadToken(Target(r), gate[r]) /\ \E s \in Runs : shown[s] = opt[r].confirm
        <3>1. opt[r].confirm = DeadToken(Target(r), gate[r])
            BY <2>1, <2>2, <2>5 DEF Local, Consent
        <3>2. gate[r] \in Objects /\ Target(r) \in Refs
            BY <2>1, <2>2, <2>4 DEF TypeOK, Target, Options
        <3>3. DeadToken(Target(r), gate[r]) \in Tokens
            BY <3>2 DEF DeadToken, Tokens, Objects, States
        <3>4. opt[r].confirm # Nothing
            BY <3>1, <3>3, NothingAssumption
        <3>5. QED
            BY <2>4, <3>1, <3>4 DEF ConsentInv, TokensShown
    <2>6. QED
        BY <2>1, <2>2, <2>3, <2>5 DEF Local, Consent
<1>2. QED
    BY <1>1, ConsentAlways, PTL

(* What a finished invocation reports is what the cluster did, up to the one      *)
(* action whose answer was lost -- and then it does not exit 0.                   *)
THEOREM ReportCorrect == Spec => []ReportIsTruthful
<1>1. ConsentInv => ReportIsTruthful
    BY DEF ConsentInv, Local, Books, ReportIsTruthful
<1>2. QED
    BY <1>1, ConsentAlways, PTL
=============================================================================
