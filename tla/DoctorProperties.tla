-------------------------- MODULE DoctorProperties --------------------------
(***************************************************************************)
(* What an invocation of finalizer-doctor owes its operator and the cluster,*)
(* stated over the state of Doctor.                                        *)
(***************************************************************************)
EXTENDS Doctor

Target(r) == opt[r].ref

(* The API server carries out an action of r in this step. *)
Carries(r) == applied'[r] # applied[r]

-----------------------------------------------------------------------------
(* Safety *)

(* A pinned rv that is still the object's names the lists that were read with  *)
(* it: the reason a clear computed from those lists loses nobody's update.     *)
PinIsFaithful ==
    \A r \in Runs : pin[r] # Nothing =>
        LET ref == pin[r].action.ref
        IN  Precondition(ref, pin[r].rv) =>
                objects[ref].meta = pin[r].meta /\ objects[ref].spec = pin[r].spec

(* An action carried out takes the one finalizer it names off the one list it  *)
(* is about, out of whatever the list holds by then, and touches nothing else; *)
(* an object goes away only if that was the last thing holding it (perform,    *)
(* removeFinalizer, and the rv every mutating request is conditional on).      *)
LeastBlastRadius ==
    [][\A r \in Runs : Carries(r) =>
          LET a   == pin[r].action
              old == objects[a.ref]
              new == objects'[a.ref]
              meta == IF a.kind = "ClearFinalizer" THEN old.meta \ {a.finalizer} ELSE old.meta
              spec == IF a.kind = "FinalizeNamespace" THEN old.spec \ {a.finalizer} ELSE old.spec
          IN  /\ \A ref \in Refs \ {a.ref} : objects'[ref] = objects[ref]
              /\ old # Nothing
              /\ IF new = Nothing THEN meta = {} /\ (a.ref \in NsRefs => spec = {})
                                  ELSE new.meta = meta /\ new.spec = spec]_vars

(* Nothing is mutated but by an apply that its operator let through: without a  *)
(* terminal, by the very token some dry run printed for this target, this rv    *)
(* and this set of finalizers, all DEAD; with one, by the typed name (Gate,     *)
(* Digest).  And only finalizers of that target are cleared.                    *)
OnlyConfirmedIsApplied ==
    \A r \in Runs : applied[r] # {} =>
        /\ opt[r].apply /\ gate[r] # Nothing
        /\ \A a \in applied[r] : a.kind # "CleanOrphan" =>
              a.ref = Target(r) /\ a.finalizer \in gate[r].meta \union gate[r].spec
        /\ IF opt[r].interactive THEN opt[r].typed
           ELSE /\ opt[r].confirm \in {shown[s] : s \in Runs}
                /\ opt[r].confirm =
                      [ref |-> Target(r), rv |-> gate[r].rv,
                       pairs |-> (gate[r].meta \union gate[r].spec) \X {"DEAD"}]

(* plan.Build's order as the cluster sees it: no finalizer is touched while an  *)
(* orphan found is left, and /finalize, which lets the content of a namespace   *)
(* go, comes after every other finalizer of the namespace is cleared.           *)
FinalizeComesLast ==
    \A r \in Runs : \A a \in applied[r] :
        /\ a.kind # "CleanOrphan" =>
              {b \in plan[r] : b.kind = "CleanOrphan"} \subseteq applied[r]
        /\ a.kind = "FinalizeNamespace" =>
              \A f \in (gate[r].meta \union gate[r].spec) \ {Kubernetes} :
                  \E b \in applied[r] : b.kind = "ClearFinalizer" /\ b.finalizer = f

(* What a finished invocation says it did is what the cluster did: it lists no  *)
(* action that was not carried out, leaves out at most the one whose answer it  *)
(* lost, and then does not exit 0; exit 0 of an apply past its gate means the   *)
(* whole plan was carried out (Result, runApply).                               *)
ReportIsTruthful ==
    \A r \in Runs : pc[r] = "done" =>
        /\ audit[r] \subseteq applied[r] /\ applied[r] \subseteq plan[r]
        /\ \A a, b \in applied[r] \ audit[r] : a = b
        /\ applied[r] # audit[r] => exit[r] = 3
        /\ exit[r] = 0 => audit[r] = plan[r]

(* What the audit file holds of an invocation was carried out, and nothing that  *)
(* was carried out before it is missing; with no failed call an invocation that  *)
(* ended, well or not, left all it did (runApply, appendAudit).                 *)
AuditFileIsTruthful ==
    \A r \in Runs :
        /\ logged[r] \subseteq applied[r]
        /\ \A a \in logged[r], b \in applied[r] \ logged[r] : Rank(a) <= Rank(b)
        /\ pc[r] = "done" /\ opt[r].audits /\ faults = 0 => logged[r] = applied[r]

(* run.go:144-145: the access reviews spare an operator the mid-run 403 -- they  *)
(* do for the target's own verb; only the deletion of an orphan, and a clear of  *)
(* a namespace's metadata, may still be forbidden once the run is under way.    *)
PreflightCoversTarget ==
    \A r \in Runs : pc[r] = "mutate" /\ ~Allowed(r) =>
        \/ pin[r].action.kind = "CleanOrphan"
        \/ pin[r].action.kind = "ClearFinalizer" /\ Target(r) \in NsRefs

(* Exit 0 of an apply past its gate: the object that was authorized, if it is   *)
(* still there, has lost every metadata finalizer it was authorized with.       *)
ExitZeroClearsMetadata ==
    \A r \in Runs : exit[r] = 0 /\ gate[r] # Nothing =>
        LET o == objects[Target(r)]
        IN  o # Nothing /\ o.uid = gate[r].uid /\ gate[r].terminating =>
                \A f \in o.meta \intersect gate[r].meta : Target(r) \in NsRefs /\ f = Kubernetes

(* Nobody but r changes anything and no call fails.                             *)
Undisturbed(r) == foreign = 0 /\ faults = 0 /\ \A q \in Runs \ {r} : applied[q] = {}

(* Every webhook that must answer does, or is one that Blocks looks at.         *)
Admitted(r) ==
    \A hook \in hooks :
        \/ hook.policy = "Ignore"
        \/ Answers(hook.backend)
        \/ /\ RulesMatch(hook.rules, Target(r))
           /\ hook.backend \notin URLs /\ endpoints[hook.backend] # {}

(* The token given to r is of its own strategy, or r judges by strict, for which *)
(* everything is DEAD that is DEAD for score.                                   *)
Trusted(r) ==
    \A s \in Runs : shown[s] = opt[r].confirm =>
        opt[r].strategy = "strict" \/ opt[s].strategy = opt[r].strategy

(* What the plan's actions can take away: /finalize takes `kubernetes` off the  *)
(* spec of a namespace, every other action a finalizer off the metadata.        *)
Clearable(ref, obj) ==
    IF ref \in NsRefs THEN Kubernetes \notin obj.meta /\ obj.spec \subseteq {Kubernetes}
    ELSE obj.spec = {}

(* While nobody else writes and no call fails, a token a dry run printed is as   *)
(* good as its word: the apply it is given to passes the gate, never refuses    *)
(* its own half-finished work at a re-verify, exits 0, and the target is gone -- *)
(* if its operator has the rights, no webhook outside the tool's sight is down   *)
(* and every finalizer is in a list the tool can clear (Gate, Execute).          *)
QuietApplyClears ==
    \A r \in Runs :
        /\ pc[r] = "done" /\ opt[r].apply /\ opt[r].confirm # Nothing
        /\ opt[r].confirm.ref = Target(r) /\ opt[r].denied = {}
        /\ Undisturbed(r) /\ Admitted(r) /\ Trusted(r)
        => /\ gate[r] # Nothing
           /\ Clearable(Target(r), gate[r]) => exit[r] = 0 /\ ~Exists(Target(r))

-----------------------------------------------------------------------------
(* Refinement *)

Approvals == [ref : Refs, obj : Objects]

ASSUME ApprovalAssumption == Nothing \notin Approvals

Approval(r) == IF gate[r] = Nothing THEN Nothing ELSE [ref |-> Target(r), obj |-> gate[r]]

Abstract == INSTANCE Remediation WITH
    tokens   <- {shown[r] : r \in Runs} \ {Nothing},
    typed    <- {r \in Runs : opt[r] # Nothing /\ opt[r].typed},
    approved <- [r \in Runs |-> Approval(r)],
    carried  <- applied

(* Every step of every invocation, and of everybody else, is a step Remediation  *)
(* allows or changes nothing it can see: no other change to the store, no        *)
(* action without an approval, none twice, none out of order.                   *)
Remediates == Abstract!Spec

-----------------------------------------------------------------------------
(* Progress *)

Where(r) == <<mode[r], plan[r], audit[r], pc[r]>>

(* The order in which a pass, or the work on one action, goes through pc.       *)
Position ==
    [start |-> 1, prompt |-> 2, resolve |-> 3, preflight |-> 4, check |-> 5, target |-> 6,
     apiservices |-> 7, crds |-> 8, webhooks |-> 9, mutating |-> 10, workloads |-> 11, pods |-> 12,
     endpointslices |-> 13, judge |-> 14, orphans |-> 15, pin |-> 16, refetch |-> 17, mutate |-> 18,
     audit |-> 19, done |-> 20, crashed |-> 21]

(* No invocation goes round in circles: it leaves the dry pass for the apply    *)
(* pass once, then makes one plan, and starts over at target only with one more *)
(* action of that plan recorded; in between it goes forward, whatever it finds, *)
(* is refused or fails to read.  What EveryRunEnds rests on beside fairness:    *)
(* each of the four can happen but so often (RunE, runApply, Execute).          *)
GoesForward ==
    [][\A r \in Runs : Where(r)' # Where(r) =>
          \/ mode[r] = "dry" /\ mode'[r] = "apply"
          \/ /\ mode'[r] = mode[r]
             /\ \/ plan[r] = {} /\ plan'[r] # {}
                \/ /\ plan'[r] = plan[r]
                   /\ \/ /\ audit[r] # audit'[r]
                         /\ audit[r] \subseteq audit'[r] /\ audit'[r] \subseteq plan[r]
                      \/ /\ audit'[r] = audit[r]
                         /\ Position[pc[r]] < Position[pc'[r]]]_vars

-----------------------------------------------------------------------------
(* Liveness *)

(* An invocation that was started ends, or waits for its operator's answer,     *)
(* whatever the cluster does meanwhile (Execute's loop over a finite plan).     *)
EveryRunEnds ==
    \A r \in Runs : pc[r] # "start" ~> pc[r] \in {"done", "crashed", "prompt"}

-----------------------------------------------------------------------------
(* What the repository says of the tool and the code does not keep.            *)

(* run.go:146-147: "a missing target is an error, a live one is never           *)
(* diagnosed or cleared."                                                       *)
LiveIsNeverCleared ==
    [][\A r \in Runs : Carries(r) /\ pin[r].action.kind # "CleanOrphan" =>
          objects[pin[r].action.ref].terminating]_vars

(* README.md:94-95: exit 0 is "nothing stuck ... or apply cleared cleanly",     *)
(* exit 1 an operational error.                                                 *)
NothingStuckIsTrue ==
    [][\A r \in Runs : exit'[r] = 0 /\ exit[r] # 0 /\ gate[r] = Nothing =>
          ~(Exists(Target(r)) /\ Stuck(objects[Target(r)]))]_vars

(* README.md:23-24, the digest "binds the `--apply` confirmation to the exact    *)
(* state it showed you" -- and a confirmation typed on a terminal?               *)
ConfirmedIsShown ==
    \A r \in Runs : gate[r] # Nothing /\ opt[r].interactive =>
        shown[r] = [ref |-> Target(r), rv |-> gate[r].rv,
                    pairs |-> (gate[r].meta \union gate[r].spec) \X {"DEAD"}]
=============================================================================
