------------------------------- MODULE Doctor -------------------------------
(***************************************************************************)
(* Invocations of kubectl finalizer-doctor on one target each, against a   *)
(* cluster others write to: Run, diagnose and runApply of cli/run.go, the  *)
(* interactive prompt of cli/root.go, the gate and the executor of package *)
(* apply, and snapshot.Build.  One action is one call to the API server    *)
(* with the local computation that follows it.                             *)
(*                                                                         *)
(* An invocation walks through pc:                                         *)
(*                                                                         *)
(*   start, resolve              flags; discovery turns the name into a ref *)
(*   preflight, check            access reviews, the IsStuck test          *)
(*   target, apiservices, ...    the reads of one snapshot, in order       *)
(*   judge                       its verdicts, and what they decide        *)
(*   prompt                      (interactive) the typed name              *)
(*   orphans                     the orphan scan, which yields the plan    *)
(*   pin, refetch, mutate        one plan step: the Get that pins the rv,  *)
(*                               FinalizeNamespace's own Get, the write    *)
(*   audit                       (--audit-file) the file is appended to    *)
(*   done, crashed                                                         *)
(*                                                                         *)
(* Every plan step starts over at target: that snapshot is the re-verify.  *)
(***************************************************************************)
EXTENDS Reading

CONSTANTS
    Runs,       \* the invocations
    Names,      \* the targets as command lines name them
    Matches,    \* Matches[name]: the first match in each API group, in discovery order
    Parsed,     \* Parsed[name]: what it stands for if discovery does not know it
    Flags,      \* Flags[r]: the command lines r may be given
    Siblings,   \* Siblings[ref]: what a scan of ref's namespace can list
    MaxFaults   \* how many API calls fail, in all

Verbs == {"get", "patch", "finalize", "delete"}

(* Of the cluster's answers, a command line knows what its user may not do.    *)
CommandLines == [name : Names, apply : BOOLEAN, interactive : BOOLEAN, strategy : {"strict", "score"},
                 audits : BOOLEAN, denied : SUBSET Verbs]

ASSUME DoctorAssumption ==
    /\ Flags \in [Runs -> SUBSET CommandLines]
    /\ Matches \in [Names -> Seq(Refs)]
    /\ Parsed \in [Names -> Refs]
    /\ Siblings \in [Refs -> SUBSET Refs]
    /\ MaxFaults \in Nat

VARIABLES
    pc,
    opt,      \* the command line, the ref it names, the --confirm token, whether the name was typed
    mode,     \* the pass: "dry", or "apply" (an interactive apply makes both)
    shown,    \* the token the invocation printed, or Nothing
    snap,     \* the snapshot being read
    gate,     \* the target as the gate authorized it, or Nothing
    plan,     \* the actions planned
    pin,      \* the action under way and what Get returned for it, or Nothing
    audit,    \* the actions recorded as completed
    applied,  \* the actions the API server carried out
    logged,   \* the actions in the audit file
    exit,     \* the exit code, once known
    faults    \* failed calls so far

runVars == <<pc, opt, mode, shown, snap, gate, plan, pin, audit, applied, logged, exit>>
vars    == <<clusterVars, runVars, faults>>

-----------------------------------------------------------------------------
(* Values *)

Options == [name : Names, ref : Refs, apply : BOOLEAN, interactive : BOOLEAN,
            strategy : {"strict", "score"}, audits : BOOLEAN, denied : SUBSET Verbs,
            confirm : Tokens \union {Nothing}, typed : BOOLEAN]

Actions == [kind : {"CleanOrphan", "ClearFinalizer", "FinalizeNamespace"}, ref : Refs,
            finalizer : Finalizers \union {Nothing}, list : {"none", "metadata", "spec"}]

Pins == [action : Actions, rv : Nat, meta : SUBSET Finalizers, spec : SUBSET Finalizers]

ASSUME NothingAssumption == Nothing \notin Options \union Pins \union Tokens \union {0, 1, 2, 3}

Labels == DOMAIN NextRead \union
    {"start", "resolve", "preflight", "check", "target", "judge", "prompt", "orphans", "pin",
     "refetch", "mutate", "audit", "done", "crashed"}

TypeOK ==
    /\ ClusterTypeOK
    /\ pc \in [Runs -> Labels]
    /\ opt \in [Runs -> Options \union {Nothing}]
    /\ mode \in [Runs -> {"dry", "apply"}]
    /\ shown \in [Runs -> Tokens \union {Nothing}]
    /\ snap \in [Runs -> Snapshots]
    /\ gate \in [Runs -> Objects \union {Nothing}]
    /\ plan \in [Runs -> SUBSET Actions]
    /\ pin \in [Runs -> Pins \union {Nothing}]
    /\ audit \in [Runs -> SUBSET Actions]
    /\ applied \in [Runs -> SUBSET Actions]
    /\ logged \in [Runs -> SUBSET Actions]
    /\ exit \in [Runs -> {0, 1, 2, 3, Nothing}]
    /\ faults \in Nat

-----------------------------------------------------------------------------
(* The gate and the plan *)

(* Mutant of Authorize: a terminal is enough, whatever was typed.              *)
AuthorizeAnyTerminal(o, digest) == o.interactive \/ (o.confirm # Nothing /\ o.confirm = digest)

Authorize(o, digest) ==
    IF o.interactive THEN o.typed ELSE o.confirm # Nothing /\ o.confirm = digest

(* Mutant of Detect: the listed objects that have any owner.                   *)
DetectAnyOwned(ref, listed) == {o \in listed \ {ref} : Exists(o) /\ objects[o].owners # {}}

(* The listed objects, the target apart, that name the target as an owner.      *)
Detect(ref, listed) == {o \in listed \ {ref} : Exists(o) /\ ref \in objects[o].owners}

(* Orphans, a clear for each finalizer of the authorized target in each of its  *)
(* lists, and at most one namespace /finalize.  The gate has seen them all DEAD. *)
Build(ref, obj, orphans) ==
    LET finalizes(item) == ref \in NsRefs /\ item.finalizer = Kubernetes
        cleared         == {item \in AllFinalizers(obj) : ~finalizes(item)}
    IN  {[kind |-> "CleanOrphan", ref |-> o, finalizer |-> Nothing, list |-> "none"] : o \in orphans}
        \union
        {[kind |-> "ClearFinalizer", ref |-> ref, finalizer |-> item.finalizer, list |-> item.list] :
            item \in cleared}
        \union
        {[kind |-> "FinalizeNamespace", ref |-> ref, finalizer |-> item.finalizer, list |-> "spec"] :
            item \in AllFinalizers(obj) \ cleared}

(* Mutant of Rank: /finalize is put before the clears.                         *)
RankFinalizeEarly(a) == CASE a.kind = "CleanOrphan" -> 1
                          [] a.kind = "FinalizeNamespace" -> 2
                          [] a.kind = "ClearFinalizer" -> 3

(* Actions run by rank; clears of one list in any order, as its items are.    *)
Rank(a) == CASE a.kind = "CleanOrphan" -> 1
             [] a.kind = "ClearFinalizer" /\ a.list = "metadata" -> 2
             [] a.kind = "ClearFinalizer" /\ a.list # "metadata" -> 3
             [] a.kind = "FinalizeNamespace" -> 4

(* Mutant of NextActions: what is done already is taken again.                 *)
NextOfWholePlan(r) == {a \in plan[r] : \A b \in plan[r] : Rank(a) <= Rank(b)}

NextActions(r) == {a \in plan[r] \ audit[r] : \A b \in plan[r] \ audit[r] : Rank(a) <= Rank(b)}

(* Mutant of RemoveFinalizer: the list is sent back as it was.                 *)
KeepFinalizer(list, x) == list \union {x}

RemoveFinalizer(list, x) == list \ {x}

-----------------------------------------------------------------------------
(* The end of a pass, and of an invocation *)

(* A failed API call, read or write; MaxFaults bounds how many there are.     *)
CallFails == faults < MaxFaults /\ faults' = faults + 1

(* The dry pass of an interactive apply prompts if it found the target stuck   *)
(* (exit 2), and is otherwise followed by an apply pass without a typed name.  *)
(* Past the gate there is an audit record to append, however it ended.         *)
Leave(r, code) ==
    /\ snap' = [snap EXCEPT ![r] = EmptySnapshot]
    /\ pin' = [pin EXCEPT ![r] = Nothing]
    /\ IF mode[r] = "dry" /\ opt[r].apply
       THEN /\ mode' = [mode EXCEPT ![r] = "apply"]
            /\ pc' = [pc EXCEPT ![r] = IF code = 2 THEN "prompt" ELSE "resolve"]
            /\ UNCHANGED exit
       ELSE /\ pc' = [pc EXCEPT ![r] = IF gate[r] # Nothing /\ opt[r].audits THEN "audit" ELSE "done"]
            /\ exit' = [exit EXCEPT ![r] = code]
            /\ UNCHANGED mode

Goto(r, label) ==
    /\ pc' = [pc EXCEPT ![r] = label]
    /\ UNCHANGED <<mode, exit>>

-----------------------------------------------------------------------------
(* The actions *)

Start(r) ==
    /\ pc[r] = "start"
    /\ \E f \in Flags[r], token \in {shown[s] : s \in Runs} \union {Nothing} :
          /\ token # Nothing => f.apply /\ ~f.interactive
          /\ opt' = [opt EXCEPT ![r] =
                        [name |-> f.name, ref |-> Parsed[f.name], apply |-> f.apply,
                         interactive |-> f.interactive, strategy |-> f.strategy,
                         audits |-> f.audits, denied |-> f.denied,
                         confirm |-> token, typed |-> FALSE]]
          /\ mode' = [mode EXCEPT ![r] = IF f.apply /\ ~f.interactive THEN "apply" ELSE "dry"]
    /\ pc' = [pc EXCEPT ![r] = "resolve"]
    /\ UNCHANGED <<clusterVars, shown, snap, gate, plan, pin, audit, applied, logged, exit, faults>>

(* resolveGVR: the first match in discovery order.  Groups whose discovery      *)
(* fails are passed over; if nothing is left, the name stands for itself.       *)
Resolve(r) ==
    LET found == Matches[opt[r].name]
        known == Parsed[opt[r].name]
    IN  /\ pc[r] = "resolve"
        /\ Goto(r, "preflight")
        /\ \/ /\ opt' = [opt EXCEPT ![r].ref = IF found = <<>> THEN known ELSE found[1]]
              /\ UNCHANGED faults
           \/ /\ CallFails
              /\ \E ref \in {found[i] : i \in DOMAIN found} \union {known} :
                    opt' = [opt EXCEPT ![r].ref = ref]
        /\ UNCHANGED <<clusterVars, shown, snap, gate, plan, pin, audit, applied, logged>>

(* Mutant of Reviewed: the verb of the mutation is not reviewed.               *)
ReviewedForGet(r) == {"get"}

(* The verbs that are reviewed up front.                                       *)
Reviewed(r) ==
    {"get"} \union
    (IF mode[r] = "dry" THEN {} ELSE IF opt[r].ref \in NsRefs THEN {"finalize"} ELSE {"patch"})

(* The access reviews: a denial and a failed review both end the run.         *)
Preflight(r) ==
    /\ pc[r] = "preflight"
    /\ \/ Reviewed(r) \intersect opt[r].denied = {} /\ Goto(r, "check") /\ UNCHANGED <<snap, pin, faults>>
       \/ Reviewed(r) \intersect opt[r].denied # {} /\ Leave(r, 1) /\ UNCHANGED faults
       \/ Leave(r, 1) /\ CallFails
    /\ UNCHANGED <<clusterVars, opt, shown, gate, plan, audit, applied, logged>>

(* The Get that decides whether the target is stuck at all.                   *)
Check(r) ==
    LET ref == opt[r].ref
    IN  /\ pc[r] = "check"
        /\ \/ /\ Exists(ref) /\ Stuck(objects[ref])
              /\ Goto(r, "target")
              /\ UNCHANGED <<snap, pin, faults>>
           \/ /\ Exists(ref) /\ ~Stuck(objects[ref])
              /\ Leave(r, IF mode[r] = "apply" THEN 3 ELSE 0)
              /\ UNCHANGED faults
           \/ ~Exists(ref) /\ Leave(r, 1) /\ UNCHANGED faults
           \/ Leave(r, 1) /\ CallFails
        /\ UNCHANGED <<clusterVars, opt, shown, gate, plan, audit, applied, logged>>

(* snapshot.Build's Get of the target: missing or unreadable, it is left out.  *)
ReadTarget(r) ==
    /\ pc[r] = "target"
    /\ Goto(r, "apiservices")
    /\ \/ /\ Exists(opt[r].ref)
          /\ snap' = [snap EXCEPT ![r].obj = objects[opt[r].ref], ![r].readable = {"targets"}]
          /\ UNCHANGED faults
       \/ ~Exists(opt[r].ref) /\ UNCHANGED <<snap, faults>>
       \/ CallFails /\ UNCHANGED snap
    /\ UNCHANGED <<clusterVars, opt, shown, gate, plan, pin, audit, applied, logged>>

ReadSource(r) ==
    /\ pc[r] \in DOMAIN NextRead
    /\ Goto(r, NextRead[pc[r]])
    /\ \/ snap' = [snap EXCEPT ![r] = Fill(@, pc[r])] /\ UNCHANGED faults
       \/ CallFails /\ UNCHANGED snap
    /\ UNCHANGED <<clusterVars, opt, shown, gate, plan, pin, audit, applied, logged>>

(* Mutant of Report: every target that is found gets a token.                  *)
ReportAlwaysToken(r) ==
    LET ref == opt[r].ref
    IN  /\ pc[r] = "judge" /\ mode[r] = "dry"
        /\ IF snap[r].obj = Nothing
           THEN Leave(r, 0) /\ UNCHANGED shown
           ELSE /\ Leave(r, 2)
                /\ shown' = [shown EXCEPT ![r] =
                                Digest(ref, Verdicts(ref, snap[r], opt[r].strategy), snap[r].obj.rv)]
        /\ UNCHANGED <<clusterVars, opt, gate, plan, audit, applied, logged, faults>>

(* A dry run prints a token for a target that is all DEAD and not blocked.     *)
Report(r) ==
    LET ref      == opt[r].ref
        verdicts == Verdicts(ref, snap[r], opt[r].strategy)
    IN  /\ pc[r] = "judge" /\ mode[r] = "dry"
        /\ IF snap[r].obj = Nothing
           THEN Leave(r, 0) /\ UNCHANGED shown
           ELSE /\ Leave(r, 2)
                /\ shown' = IF JointlyDead(verdicts) /\ ~Blocks(snap[r], ref)
                            THEN [shown EXCEPT ![r] = Digest(ref, verdicts, snap[r].obj.rv)]
                            ELSE shown
        /\ UNCHANGED <<clusterVars, opt, gate, plan, audit, applied, logged, faults>>

(* The gate of an apply: all DEAD, no webhook in the way, and authorized.      *)
PassGate(r) ==
    LET ref      == opt[r].ref
        verdicts == Verdicts(ref, snap[r], opt[r].strategy)
    IN  /\ pc[r] = "judge" /\ mode[r] = "apply" /\ gate[r] = Nothing
        /\ IF snap[r].obj = Nothing
           THEN Leave(r, 0) /\ UNCHANGED gate
           ELSE IF /\ JointlyDead(verdicts)
                   /\ ~Blocks(snap[r], ref)
                   /\ Authorize(opt[r], Digest(ref, verdicts, snap[r].obj.rv))
           THEN /\ Goto(r, "orphans")
                /\ gate' = [gate EXCEPT ![r] = snap[r].obj]
                /\ snap' = [snap EXCEPT ![r] = EmptySnapshot]
                /\ UNCHANGED pin
           ELSE Leave(r, 3) /\ UNCHANGED gate
        /\ UNCHANGED <<clusterVars, opt, shown, plan, audit, applied, logged, faults>>

(* What a scan of ref's namespace may return: what cannot be listed is skipped. *)
NamespaceObjects(ref) == SUBSET Siblings[ref]

(* detectOrphans: the objects of the target's namespace that name the target   *)
(* as their owner, best-effort.  Unlike every other action it stands for       *)
(* several calls, discovery and one List per resource, taken as one step; any  *)
(* of the objects may be left out of it.                                       *)
ScanOrphans(r) ==
    LET ref == opt[r].ref
    IN  /\ pc[r] = "orphans"
        /\ Goto(r, "target")
        /\ \E listed \in NamespaceObjects(ref) :
              plan' = [plan EXCEPT ![r] = Build(ref, gate[r], Detect(ref, listed))]
        /\ UNCHANGED <<clusterVars, opt, shown, snap, gate, pin, audit, applied, logged, faults>>

(* Mutant of Reverify: the target must still have the authorized rv.           *)
ReverifyRevision(r) ==
    /\ pc[r] = "judge" /\ gate[r] # Nothing
    /\ IF snap[r].obj # Nothing /\ snap[r].obj.rv = gate[r].rv
       THEN /\ Goto(r, "pin")
            /\ snap' = [snap EXCEPT ![r] = EmptySnapshot]
            /\ UNCHANGED pin
       ELSE Leave(r, 3)
    /\ UNCHANGED <<clusterVars, opt, shown, gate, plan, audit, applied, logged, faults>>

(* Mutant of Reverify: the target must only still be there.                    *)
ReverifyExistence(r) ==
    /\ pc[r] = "judge" /\ gate[r] # Nothing
    /\ IF snap[r].obj # Nothing
       THEN /\ Goto(r, "pin")
            /\ snap' = [snap EXCEPT ![r] = EmptySnapshot]
            /\ UNCHANGED pin
       ELSE Leave(r, 3)
    /\ UNCHANGED <<clusterVars, opt, shown, gate, plan, audit, applied, logged, faults>>

(* The verdict half of the re-verify before an action.                         *)
Reverify(r) ==
    /\ pc[r] = "judge" /\ gate[r] # Nothing
    /\ IF snap[r].obj # Nothing /\ JointlyDead(Verdicts(opt[r].ref, snap[r], opt[r].strategy))
       THEN /\ Goto(r, "pin")
            /\ snap' = [snap EXCEPT ![r] = EmptySnapshot]
            /\ UNCHANGED pin
       ELSE Leave(r, 3)
    /\ UNCHANGED <<clusterVars, opt, shown, gate, plan, audit, applied, logged, faults>>

(* Mutant of Pin: the lists are those of the gate, only the rv is fresh.       *)
PinWithGatedLists(r) ==
    /\ pc[r] = "pin"
    /\ \E a \in NextActions(r) :
          IF Exists(a.ref)
          THEN /\ pin' = [pin EXCEPT ![r] = [action |-> a, rv |-> objects[a.ref].rv,
                                            meta |-> gate[r].meta, spec |-> gate[r].spec]]
               /\ Goto(r, IF a.kind = "FinalizeNamespace" THEN "refetch" ELSE "mutate")
               /\ UNCHANGED snap
          ELSE Leave(r, 3)
    /\ UNCHANGED <<clusterVars, opt, shown, gate, plan, audit, applied, logged, faults>>

(* Its other half: a Get of the action's own target for the rv and finalizers. *)
Pin(r) ==
    /\ pc[r] = "pin"
    /\ \E a \in NextActions(r) :
          \/ /\ Exists(a.ref)
             /\ pin' = [pin EXCEPT ![r] = [action |-> a, rv |-> objects[a.ref].rv,
                                           meta |-> objects[a.ref].meta, spec |-> objects[a.ref].spec]]
             /\ Goto(r, IF a.kind = "FinalizeNamespace" THEN "refetch" ELSE "mutate")
             /\ UNCHANGED <<snap, faults>>
          \/ ~Exists(a.ref) /\ Leave(r, 3) /\ UNCHANGED faults
          \/ CallFails /\ Leave(r, 3)
    /\ UNCHANGED <<clusterVars, opt, shown, gate, plan, audit, applied, logged>>

(* FinalizeNamespace reads the namespace again and compares the rv itself.     *)
Refetch(r) ==
    /\ pc[r] = "refetch"
    /\ \/ Precondition(pin[r].action.ref, pin[r].rv) /\ Goto(r, "mutate") /\ UNCHANGED <<snap, pin, faults>>
       \/ ~Precondition(pin[r].action.ref, pin[r].rv) /\ Leave(r, 3) /\ UNCHANGED faults
       \/ CallFails /\ Leave(r, 3)
    /\ UNCHANGED <<clusterVars, opt, shown, gate, plan, audit, applied, logged>>

(* Mutant of Accepted: the request is sent without a resourceVersion.          *)
AcceptedUnconditionally(p) == Exists(p.action.ref)

(* perform: the request an action becomes, as the API server answers it.       *)
Accepted(p) ==
    CASE p.action.kind = "CleanOrphan" -> AcceptsDelete(p.action.ref, p.rv)
      [] p.action.kind = "FinalizeNamespace" -> AcceptsFinalize(p.action.ref, p.rv)
      [] p.action.kind = "ClearFinalizer" ->
            AcceptsPatch(p.action.ref, RemoveFinalizer(p.meta, p.action.finalizer), p.rv)

Verb(a) ==
    CASE a.kind = "CleanOrphan" -> "delete"
      [] a.kind = "FinalizeNamespace" -> "finalize"
      [] a.kind = "ClearFinalizer" -> "patch"

Allowed(r) == Verb(pin[r].action) \notin opt[r].denied

(* Mutant of Perform: a clear or a finalize rewrites the metadata from spec.   *)
PerformOnMetadata(p) ==
    IF p.action.kind = "CleanOrphan" THEN Delete(p.action.ref)
    ELSE PatchFinalizers(p.action.ref, RemoveFinalizer(p.spec, p.action.finalizer))

Perform(p) ==
    CASE p.action.kind = "CleanOrphan" -> Delete(p.action.ref)
      [] p.action.kind = "FinalizeNamespace" ->
            FinalizeNamespace(p.action.ref, RemoveFinalizer(p.spec, p.action.finalizer))
      [] p.action.kind = "ClearFinalizer" ->
            PatchFinalizers(p.action.ref, RemoveFinalizer(p.meta, p.action.finalizer))

(* The request is carried out and answered: on to the next action, or exit 0.  *)
Mutate(r) ==
    LET a == pin[r].action
    IN  /\ pc[r] = "mutate"
        /\ Allowed(r) /\ Accepted(pin[r])
        /\ Perform(pin[r])
        /\ applied' = [applied EXCEPT ![r] = @ \union {a}]
        /\ audit' = [audit EXCEPT ![r] = @ \union {a}]
        /\ IF plan[r] \ (audit[r] \union {a}) = {}
           THEN Leave(r, 0)
           ELSE /\ Goto(r, "target")
                /\ pin' = [pin EXCEPT ![r] = Nothing]
                /\ UNCHANGED snap
        /\ UNCHANGED <<evidenceVars, foreign, opt, shown, gate, plan, logged, faults>>

(* The request is carried out and its answer lost or timed out: an error.      *)
MutateUnanswered(r) ==
    /\ pc[r] = "mutate"
    /\ CallFails
    /\ Allowed(r) /\ Accepted(pin[r])
    /\ Perform(pin[r])
    /\ applied' = [applied EXCEPT ![r] = @ \union {pin[r].action}]
    /\ Leave(r, 3)
    /\ UNCHANGED <<evidenceVars, foreign, opt, shown, gate, plan, audit, logged>>

(* Mutant of MutateFails: the action is recorded before it is known to be done.*)
MutateFailsRecorded(r) ==
    /\ pc[r] = "mutate"
    /\ \/ ~(Allowed(r) /\ Accepted(pin[r])) /\ UNCHANGED faults
       \/ CallFails
    /\ Leave(r, 3)
    /\ audit' = [audit EXCEPT ![r] = @ \union {pin[r].action}]
    /\ UNCHANGED <<clusterVars, opt, shown, gate, plan, applied, logged>>

(* Mutant of MutateFails: after a conflict the action is taken up again.       *)
MutateFailsRetried(r) ==
    /\ pc[r] = "mutate"
    /\ \/ ~(Allowed(r) /\ Accepted(pin[r])) /\ UNCHANGED faults
       \/ CallFails
    /\ Goto(r, "target")
    /\ pin' = [pin EXCEPT ![r] = Nothing]
    /\ UNCHANGED <<clusterVars, opt, shown, snap, gate, plan, audit, applied, logged>>

(* The request is refused, or never arrives.                                   *)
MutateFails(r) ==
    /\ pc[r] = "mutate"
    /\ \/ ~(Allowed(r) /\ Accepted(pin[r])) /\ UNCHANGED faults
       \/ CallFails
    /\ Leave(r, 3)
    /\ UNCHANGED <<clusterVars, opt, shown, gate, plan, audit, applied, logged>>

(* Mutant of AppendAudit: only a run that went well leaves a record.           *)
AppendAuditOfSuccess(r) ==
    /\ pc[r] = "audit"
    /\ Goto(r, "done")
    /\ logged' = [logged EXCEPT ![r] = IF exit[r] = 0 THEN audit[r] ELSE {}]
    /\ UNCHANGED <<clusterVars, opt, shown, snap, gate, plan, pin, audit, applied, faults>>

(* The records go to the file in order; a write that fails is a warning.       *)
AppendAudit(r) ==
    /\ pc[r] = "audit"
    /\ Goto(r, "done")
    /\ \/ logged' = [logged EXCEPT ![r] = audit[r]] /\ UNCHANGED faults
       \/ /\ CallFails
          /\ \E written \in SUBSET audit[r] :
                /\ \A a \in written, b \in audit[r] \ written : Rank(a) <= Rank(b)
                /\ logged' = [logged EXCEPT ![r] = written]
    /\ UNCHANGED <<clusterVars, opt, shown, snap, gate, plan, pin, audit, applied>>

(* The operator answers the prompt, with the target's name or otherwise.       *)
Prompt(r) ==
    /\ pc[r] = "prompt"
    /\ \E typed \in BOOLEAN : opt' = [opt EXCEPT ![r].typed = typed]
    /\ Goto(r, "resolve")
    /\ UNCHANGED <<clusterVars, shown, snap, gate, plan, pin, audit, applied, logged, faults>>

(* The process is killed; nothing it knew is kept.                             *)
Crash(r) ==
    /\ "crash" \in Disturbances
    /\ pc[r] \notin {"start", "done", "crashed"}
    /\ pc' = [pc EXCEPT ![r] = "crashed"]
    /\ exit' = [exit EXCEPT ![r] = Nothing]
    /\ snap' = [snap EXCEPT ![r] = EmptySnapshot]
    /\ pin' = [pin EXCEPT ![r] = Nothing]
    /\ UNCHANGED <<clusterVars, opt, mode, shown, gate, plan, audit, applied, logged, faults>>

-----------------------------------------------------------------------------
Init ==
    /\ ClusterInit
    /\ pc = [r \in Runs |-> "start"]
    /\ opt = [r \in Runs |-> Nothing]
    /\ mode = [r \in Runs |-> "dry"]
    /\ shown = [r \in Runs |-> Nothing]
    /\ snap = [r \in Runs |-> EmptySnapshot]
    /\ gate = [r \in Runs |-> Nothing]
    /\ plan = [r \in Runs |-> {}]
    /\ pin = [r \in Runs |-> Nothing]
    /\ audit = [r \in Runs |-> {}]
    /\ applied = [r \in Runs |-> {}]
    /\ logged = [r \in Runs |-> {}]
    /\ exit = [r \in Runs |-> Nothing]
    /\ faults = 0

(* What an invocation does by itself once started. *)
Step(r) ==
    \/ Resolve(r)
    \/ Preflight(r)
    \/ Check(r)
    \/ ReadTarget(r)
    \/ ReadSource(r)
    \/ Report(r)
    \/ PassGate(r)
    \/ ScanOrphans(r)
    \/ Reverify(r)
    \/ Pin(r)
    \/ Refetch(r)
    \/ Mutate(r)
    \/ MutateUnanswered(r)
    \/ MutateFails(r)
    \/ AppendAudit(r)

Terminated == \A r \in Runs : pc[r] \in {"done", "crashed"}

Next ==
    \/ \E r \in Runs : Start(r) \/ Step(r) \/ Prompt(r) \/ Crash(r)
    \/ ForeignWrite /\ UNCHANGED <<runVars, faults>>
    \/ Terminated /\ UNCHANGED vars

Spec == Init /\ [][Next]_vars

(* An invocation that waits for nobody goes from one call to the next.  It can: *)
(* a state in which Running(r) holds and Step(r) is not enabled would be a      *)
(* deadlock, and every Step(r) changes pc[r], so that weak fairness of Moves(r) *)
(* is that of Step(r), without TLC working out ENABLED of a diagnosis.          *)
Running(r) == pc[r] \notin {"start", "prompt", "done", "crashed"}

Moves(r) == Running(r) /\ \E label \in Labels \ {pc[r]} : pc' = [pc EXCEPT ![r] = label]

(* Every call has a deadline (--timeout), so an invocation keeps moving; the   *)
(* operator and the rest of the cluster owe nothing.                           *)
FairSpec == Spec /\ \A r \in Runs : WF_pc(Moves(r))
=============================================================================
