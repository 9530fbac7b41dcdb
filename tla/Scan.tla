-------------------------------- MODULE Scan --------------------------------
(***************************************************************************)
(* kubectl finalizer-doctor --all: discovery, a list of every resource,    *)
(* a Get of every object found stuck, the evidence sources, and a report   *)
(* of them all (discover.Scan, and Run for several targets).  It mutates   *)
(* nothing.  The rest of the cluster writes meanwhile.                     *)
(***************************************************************************)
EXTENDS Reading

CONSTANTS
    Catalog,    \* the preferred resources [group, resource, list], in discovery order
    Strategy,   \* --verdict
    MaxFaults   \* how many API calls fail, beside those on the groups of dead APIServices

ASSUME ScanAssumption ==
    /\ \A i \in DOMAIN Catalog : Catalog[i].list \in BOOLEAN
    /\ \A ref \in Refs : \E i \in DOMAIN Catalog :
          Catalog[i].group = Resource[ref].group /\ Catalog[i].resource = Resource[ref].resource
    /\ Strategy \in {"strict", "score"}
    /\ MaxFaults \in Nat

VARIABLES
    pc,         \* discover, list, get, the reads of NextRead, judge, done
    skipped,    \* the groups whose discovery failed, named in the warning
    todo,       \* the resources still to be listed, as positions in Catalog
    unlisted,   \* those whose list failed; the code forgets them
    refs,       \* the objects found stuck and not read yet
    targets,    \* targets[ref]: what its Get returned, or Nothing
    unread,     \* the objects whose Get failed
    snap,       \* the evidence
    reported,   \* the objects in the report
    printed,    \* the tokens in it
    exit,       \* the exit code, once done
    faults      \* failed calls so far

scanVars == <<pc, skipped, todo, unlisted, refs, targets, unread, snap, reported, printed, exit>>
vars     == <<clusterVars, scanVars, faults>>

Groups == {Catalog[i].group : i \in DOMAIN Catalog}

ScanTypeOK ==
    /\ ClusterTypeOK
    /\ pc \in {"discover", "list", "get", "judge", "done"} \union DOMAIN NextRead
    /\ skipped \subseteq Groups
    /\ todo \subseteq DOMAIN Catalog /\ unlisted \subseteq DOMAIN Catalog
    /\ refs \subseteq Refs /\ unread \subseteq Refs /\ reported \subseteq Refs
    /\ targets \in [Refs -> Objects \union {Nothing}]
    /\ snap \in Snapshots
    /\ printed \subseteq Tokens
    /\ exit \in {0, 1, 2, Nothing}
    /\ faults \in Nat

CallFails == faults < MaxFaults /\ faults' = faults + 1

(* The groups a dead aggregated API serves: calls about them fail.             *)
DeadGroups ==
    {Registrations[i].group : i \in {j \in DOMAIN Registrations :
        Registrations[j].aggregated /\ available[j] = "False"}} \intersect Groups

-----------------------------------------------------------------------------
(* The actions *)

Finish(code) == pc' = "done" /\ exit' = code

(* PreferredResources: the groups that resolved, and the names of the others.  *)
Discover ==
    /\ pc = "discover"
    /\ \/ \E failed \in SUBSET Groups :
             /\ DeadGroups \subseteq failed
             /\ (failed = DeadGroups /\ UNCHANGED faults) \/ CallFails
             /\ skipped' = failed
             /\ todo' = {i \in DOMAIN Catalog : Catalog[i].list /\ Catalog[i].group \notin failed}
             /\ IF todo' = {} THEN Finish(0) ELSE pc' = "list" /\ UNCHANGED exit
       \/ CallFails /\ Finish(1) /\ UNCHANGED <<skipped, todo>>
    /\ UNCHANGED <<clusterVars, unlisted, refs, targets, unread, snap, reported, printed>>

StuckIn(r) ==
    {ref \in Refs : /\ Resource[ref].group = r.group /\ Resource[ref].resource = r.resource
                    /\ Exists(ref) /\ Stuck(objects[ref])}

(* After the last list: no object found ends the scan.                         *)
ListsEnd ==
    IF todo' # {} THEN UNCHANGED <<pc, exit>>
    ELSE IF refs' # {} THEN pc' = "get" /\ UNCHANGED exit ELSE Finish(0)

(* Mutant of ListNext: a list that fails ends the scan.                        *)
ListUntilFailure ==
    /\ pc = "list"
    /\ \E i \in todo :
          /\ \A j \in todo : i <= j
          /\ \/ /\ Catalog[i].group \notin DeadGroups
                /\ refs' = refs \union StuckIn(Catalog[i]) /\ todo' = todo \ {i}
                /\ UNCHANGED <<unlisted, faults>>
             \/ /\ (Catalog[i].group \in DeadGroups /\ UNCHANGED faults) \/ CallFails
                /\ unlisted' = unlisted \union {i} /\ todo' = {} /\ UNCHANGED refs
    /\ ListsEnd
    /\ UNCHANGED <<clusterVars, skipped, targets, unread, snap, reported, printed>>

(* Mutant of ListNext: a list that fails is tried again.                       *)
ListRetried ==
    /\ pc = "list"
    /\ \E i \in todo :
          /\ \A j \in todo : i <= j
          /\ \/ /\ Catalog[i].group \notin DeadGroups
                /\ refs' = refs \union StuckIn(Catalog[i]) /\ todo' = todo \ {i}
                /\ UNCHANGED <<unlisted, faults>>
             \/ /\ (Catalog[i].group \in DeadGroups /\ UNCHANGED faults) \/ CallFails
                /\ UNCHANGED <<unlisted, todo, refs>>
    /\ ListsEnd
    /\ UNCHANGED <<clusterVars, skipped, targets, unread, snap, reported, printed>>

(* One resource, in discovery order; what cannot be listed is left out.        *)
ListNext ==
    /\ pc = "list"
    /\ \E i \in todo :
          /\ \A j \in todo : i <= j
          /\ todo' = todo \ {i}
          /\ \/ /\ Catalog[i].group \notin DeadGroups
                /\ refs' = refs \union StuckIn(Catalog[i])
                /\ UNCHANGED <<unlisted, faults>>
             \/ /\ (Catalog[i].group \in DeadGroups /\ UNCHANGED faults) \/ CallFails
                /\ unlisted' = unlisted \union {i} /\ UNCHANGED refs
    /\ ListsEnd
    /\ UNCHANGED <<clusterVars, skipped, targets, unread, snap, reported, printed>>

(* snapshot.Build's Get of each, in any order: gone, or unreadable, it is left  *)
(* out.                                                                        *)
GetNext ==
    /\ pc = "get"
    /\ \E ref \in refs :
          /\ refs' = refs \ {ref}
          /\ \/ /\ Exists(ref) /\ Resource[ref].group \notin DeadGroups
                /\ targets' = [targets EXCEPT ![ref] = objects[ref]]
                /\ UNCHANGED <<unread, faults>>
             \/ /\ ~Exists(ref) \/ Resource[ref].group \in DeadGroups
                /\ unread' = unread \union {ref} /\ UNCHANGED <<targets, faults>>
             \/ CallFails /\ unread' = unread \union {ref} /\ UNCHANGED targets
    /\ IF refs' # {}
       THEN UNCHANGED <<pc, snap>>
       ELSE /\ pc' = "apiservices"
            /\ snap' = [snap EXCEPT !.readable = IF unread' = {} THEN {"targets"} ELSE {}]
    /\ UNCHANGED <<clusterVars, skipped, todo, unlisted, reported, printed, exit>>

ReadSource ==
    /\ pc \in DOMAIN NextRead
    /\ pc' = NextRead[pc]
    /\ \/ snap' = Fill(snap, pc) /\ UNCHANGED faults
       \/ CallFails /\ UNCHANGED snap
    /\ UNCHANGED <<clusterVars, skipped, todo, unlisted, refs, targets, unread, reported, printed, exit>>

Judged(ref) == Verdicts(ref, [snap EXCEPT !.obj = targets[ref]], Strategy)

(* renderDryRun: a token for each target that is all DEAD and not blocked.     *)
Report ==
    /\ pc = "judge"
    /\ reported' = {ref \in Refs : targets[ref] # Nothing}
    /\ printed' = {Digest(ref, Judged(ref), targets[ref].rv) :
                      ref \in {ref \in reported' : JointlyDead(Judged(ref)) /\ ~Blocks(snap, ref)}}
    /\ Finish(IF reported' = {} THEN 0 ELSE 2)
    /\ UNCHANGED <<clusterVars, skipped, todo, unlisted, refs, targets, unread, snap, faults>>

-----------------------------------------------------------------------------
Init ==
    /\ ClusterInit
    /\ pc = "discover"
    /\ skipped = {} /\ unlisted = {} /\ unread = {} /\ reported = {} /\ printed = {}
    /\ todo = {} /\ refs = {}
    /\ targets = [ref \in Refs |-> Nothing]
    /\ snap = EmptySnapshot
    /\ exit = Nothing
    /\ faults = 0

Step == Discover \/ ListNext \/ GetNext \/ ReadSource \/ Report

Next ==
    \/ Step
    \/ ForeignWrite /\ UNCHANGED <<scanVars, faults>>
    \/ pc = "done" /\ UNCHANGED vars

Spec == Init /\ [][Next]_vars

(* Every call has a deadline (--timeout), so the scan keeps moving.  Report     *)
(* makes no call: its fairness is stated by the labels, which spares TLC        *)
(* working out ENABLED of a diagnosis.                                         *)
FairSpec ==
    /\ Spec
    /\ WF_vars(Discover \/ ListNext \/ GetNext \/ ReadSource)
    /\ WF_pc(pc = "judge" /\ pc' = "done")
=============================================================================
