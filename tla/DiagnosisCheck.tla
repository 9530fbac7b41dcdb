--------------------------- MODULE DiagnosisCheck ---------------------------
(***************************************************************************)
(* One question put to Diagnosis: a finalizer, whether it sits on a        *)
(* namespace and under which conditions, a strategy, and a snapshot.  The  *)
(* behaviours range over every question a bounded cluster can put.         *)
(***************************************************************************)
EXTENDS Diagnosis

CONSTANTS
    Questions,         \* what is asked about: [finalizer, isNamespace, conds]
    Groups,            \* the API groups of the cluster
    Strategies,        \* the values of --verdict
    MaxRegistrations,  \* how many APIServices a cluster lists
    MaxCRDs            \* how many CRDs it lists

ASSUME DiagnosisAssumption == MaxRegistrations \in Nat /\ MaxCRDs \in Nat

VARIABLES query, verdict

vars == <<query, verdict>>

Registrations == [group : Groups, aggregated : BOOLEAN, available : {"True", "False"}]

(* A source that could not be read contributes an empty list. *)
Snapshots ==
    {s \in [apiservices : BoundedSeq(Registrations, MaxRegistrations),
            crds        : BoundedSeq(Groups, MaxCRDs),
            readable    : SUBSET {"apiservices", "crds", "pods"}] :
        /\ "apiservices" \notin s.readable => s.apiservices = <<>>
        /\ "crds" \notin s.readable => s.crds = <<>>}

Queries == [about : Questions, strategy : Strategies, snap : Snapshots]

(* The state of the finalizer a query is about, with another snapshot.         *)
Answer(snap) ==
    StateOf(query.about.finalizer, query.about.isNamespace, query.about.conds, snap, query.strategy)

Init == query \in Queries /\ verdict = "pending"

Judge ==
    /\ verdict = "pending"
    /\ verdict' = Answer(query.snap)
    /\ UNCHANGED query

Next == Judge

Spec == Init /\ [][Next]_vars

-----------------------------------------------------------------------------
Dead == verdict = "DEAD"

Domain == query.about.finalizer.domain

(* The finalizer NamespaceKubernetes judges; every other one has an owner.     *)
OfNamespace == query.about.isNamespace /\ query.about.finalizer = Kubernetes

Registered == ToSet(query.snap.apiservices)

Unavailable(s) == s.aggregated /\ s.available = "False"

(* DEAD is only said of a finalizer whose domain is, or ends in, the group of *)
(* an aggregated APIService that the snapshot read and found unavailable, and *)
(* never of a core controller's finalizer (Strict, Score, For, Map).          *)
DeadNeedsHardProof ==
    Dead /\ ~OfNamespace =>
        /\ query.about.finalizer \notin BuiltinTable
        /\ "apiservices" \in query.snap.readable
        /\ \E s \in Registered : Unavailable(s) /\ IsSuffix(s.group, Domain)

(* The groups that CRDs define and the domain is, or ends in.                 *)
CRDOwners == {g \in ToSet(query.snap.crds) : GroupMatches(g, Domain)}

(* CRDs outrank APIServices (mapping.go:20): when groups of CRDs match, it is  *)
(* the aggregated APIService of one of them that must be down, and the outage  *)
(* of a group the domain also ends in, but no CRD has, does not count (Map's   *)
(* order, and For asking by owner.Group).  Which of several such groups it is  *)
(* depends on the order of the list: BestOwnerDecides.                         *)
CRDsComeFirst ==
    Dead /\ ~OfNamespace /\ CRDOwners # {} =>
        \E s \in Registered : s.group \in CRDOwners /\ Unavailable(s)

(* The four requirements NamespaceKubernetes lists, together exactly: a broken *)
(* discovery, nothing that still holds or fails to empty the namespace, both   *)
(* sources read, and a dead aggregated group without stored content.           *)
NamespaceDeadIsProven ==
    Dead /\ OfNamespace =>
        /\ {"DiscoveryFailure", "GroupVersionParsingFailure"} \intersect query.about.conds # {}
        /\ {"FinalizersRemaining", "ContentFailure", "ContentRemaining"} \intersect query.about.conds = {}
        /\ {"apiservices", "crds"} \subseteq query.snap.readable
        /\ \E s \in Registered : Unavailable(s) /\ s.group \notin ToSet(query.snap.crds)

-----------------------------------------------------------------------------
(* What the repository says of the diagnosis and the code does not keep.   *)

(* README.md:21-22: "Anything it cannot read ... blocks the verdict": what is   *)
(* DEAD without the CRD list is not contradicted by any CRD list it could have  *)
(* read.                                                                        *)
UnreadCRDsNeverMakeDead ==
    Dead /\ ~OfNamespace /\ "crds" \notin query.snap.readable =>
        \A g \in Groups :
            Answer([query.snap EXCEPT !.crds = <<g>>, !.readable = @ \union {"crds"}]) = "DEAD"

(* mapping.go:11, "its best owner candidate", and model/verdict.go:20, "exact  *)
(* group > suffix": of the groups of the kind that is asked first, CRDs if any *)
(* match, the one that is the very domain owns the finalizer wherever it is    *)
(* listed.  If it is registered and both lists were read, DEAD rests on its    *)
(* own outage and not on that of a group the domain merely ends in.            *)
BestOwnerDecides ==
    LET asked == IF CRDOwners # {} THEN CRDOwners
                 ELSE {g \in {s.group : s \in Registered} : GroupMatches(g, Domain)}
        own   == {s \in Registered : s.group = Domain}
    IN  Dead /\ ~OfNamespace /\ "crds" \in query.snap.readable /\ Domain \in asked /\ own # {} =>
            \E s \in own : s.available = "False"

(* README.md:107-109: DEAD needs "hard proof the owner is gone; a live signal  *)
(* ... never yields DEAD": no registration of the owner's group is Available.  *)
OwnerIsGone ==
    Dead /\ ~OfNamespace =>
        \A s \in Registered :
            s.group = MapOwner(query.about.finalizer, query.snap).group => s.available = "False"
=============================================================================
