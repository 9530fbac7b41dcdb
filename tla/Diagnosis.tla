------------------------------ MODULE Diagnosis ------------------------------
(***************************************************************************)
(* The pure middle of finalizer-doctor: from what one snapshot read of the *)
(* cluster to a verdict on each finalizer (packages mapping, probe and     *)
(* verdict, and diagnose in cli/run.go).                                   *)
(*                                                                         *)
(* An API group or a finalizer's domain is the sequence of its dot-        *)
(* separated labels, the empty sequence when there is none; a finalizer    *)
(* "<domain>/<name>" is a record of the two.  A snapshot is a record       *)
(*   apiservices  the registrations in the order the API server lists them,*)
(*                each with its group, whether it is aggregated (spec.     *)
(*                service is set) and the status of its Available condition*)
(*   crds         the groups of the CustomResourceDefinitions, in order    *)
(*   readable     the evidence sources whose read succeeded                *)
(* The list of a source that could not be read is empty.                   *)
(***************************************************************************)
EXTENDS Integers, SequencesExt

States == {"DEAD", "SLOW", "UNKNOWN"}

Classes == {"DeadHard", "DeadSoft", "Live", "Neutral", "Unreadable"}

LivenessSources == {"workloads", "pods", "endpointslices"}

Sources == LivenessSources \union {"targets", "apiservices", "crds", "webhooks"}

Evidence == [class : Classes, source : Sources, weight : Nat]

ScoreThreshold == 60

Readable(snap, source) == source \in snap.readable

-----------------------------------------------------------------------------
(* Attribution: from a finalizer to the group that owns it. *)

Kubernetes == [domain |-> <<"kubernetes">>, name |-> ""]

BuiltinTable ==
    {Kubernetes} \union
    {[domain |-> <<"kubernetes", "io">>, name |-> n] : n \in {"pv-protection", "pvc-protection"}} \union
    {[domain |-> <<d>>, name |-> ""] : d \in {"foregroundDeletion", "orphan"}} \union
    {[domain |-> <<"service", "kubernetes", "io">>, name |-> "load-balancer-cleanup"]}

DomainOf(finalizer) == finalizer.domain

GroupMatches(group, left) == group # <<>> /\ IsSuffix(group, left)

RankFor(group, domain) == IF group = domain THEN 80 ELSE 50

Candidate(kind, group, rank) == [kind |-> kind, group |-> group, rank |-> rank]

Unknown == Candidate("Unknown", <<>>, 0)

(* Mutant of MapOwner: APIServices are asked before CRDs.                     *)
MapOwnerByAPIFirst(finalizer, snap) ==
    LET left == DomainOf(finalizer)
        crd  == SelectInSeq(snap.crds, LAMBDA g : GroupMatches(g, left))
        api  == SelectInSeq(snap.apiservices, LAMBDA s : GroupMatches(s.group, left))
        Found(kind, group) == Candidate(kind, group, RankFor(group, left))
    IN  CASE finalizer \in BuiltinTable -> Candidate("Builtin", <<>>, 100)
          [] finalizer \notin BuiltinTable /\ left = <<>> -> Unknown
          [] OTHER -> IF api > 0 THEN Found("APIService", snap.apiservices[api].group)
                      ELSE IF crd > 0 THEN Found("CRD", snap.crds[crd])
                      ELSE Unknown

(* The first CRD, then the first APIService, in list order. *)
MapOwner(finalizer, snap) ==
    LET left == DomainOf(finalizer)
        crd  == SelectInSeq(snap.crds, LAMBDA g : GroupMatches(g, left))
        api  == SelectInSeq(snap.apiservices, LAMBDA s : GroupMatches(s.group, left))
        Found(kind, group) == Candidate(kind, group, RankFor(group, left))
    IN  CASE finalizer \in BuiltinTable -> Candidate("Builtin", <<>>, 100)
          [] finalizer \notin BuiltinTable /\ left = <<>> -> Unknown
          [] OTHER -> IF crd > 0 THEN Found("CRD", snap.crds[crd])
                      ELSE IF api > 0 THEN Found("APIService", snap.apiservices[api].group)
                      ELSE Unknown

-----------------------------------------------------------------------------
(* Probing: the evidence on one owner. *)

(* Mutant of ProbeAPIService: a local APIService counts as dead as well.       *)
ProbeAnyAPIService(owner, snap) ==
    IF \E i \in DOMAIN snap.apiservices :
          snap.apiservices[i].group = owner.group /\ snap.apiservices[i].available = "False"
    THEN <<[class |-> "DeadHard", source |-> "apiservices", weight |-> 40]>>
    ELSE <<>>

(* Registrations of the owner's group are taken in list order: the first   *)
(* local one ends the search with nothing, the first unavailable           *)
(* aggregated one with a hard dead signal.                                 *)
ProbeAPIService(owner, snap) ==
    LET last == SelectInSeq(snap.apiservices, LAMBDA s :
                    s.group = owner.group /\ (~s.aggregated \/ s.available = "False"))
    IN  CASE owner.group = <<>> -> <<>>
          [] owner.group # <<>> /\ ~Readable(snap, "apiservices") ->
                <<[class |-> "Unreadable", source |-> "apiservices", weight |-> 0]>>
          [] OTHER -> IF last > 0 /\ snap.apiservices[last].aggregated
                      THEN <<[class |-> "DeadHard", source |-> "apiservices", weight |-> 40]>>
                      ELSE <<>>

ProbeFor(owner, snap) ==
    IF owner.kind = "Builtin"
    THEN <<[class |-> "Live", source |-> "targets", weight |-> 0]>>
    ELSE ProbeAPIService(owner, snap)

-----------------------------------------------------------------------------
(* The verdict strategies. *)

HasClass(ev, class) == \E i \in DOMAIN ev : ev[i].class = class

UnreadableLiveness(ev) ==
    \E i \in DOMAIN ev : ev[i].class = "Unreadable" /\ ev[i].source \in LivenessSources

IsDeadward(class) == class \in {"DeadHard", "DeadSoft"}

AnyDeadward(ev) == \E i \in DOMAIN ev : IsDeadward(ev[i].class)

ScoreOf(ev) ==
    FoldSeq(LAMBDA e, total : IF IsDeadward(e.class) THEN total + e.weight ELSE total, 0, ev)

Strict(owner, ev) ==
    IF owner.kind = "Unknown" THEN "UNKNOWN"
    ELSE IF UnreadableLiveness(ev) THEN "UNKNOWN"
    ELSE IF HasClass(ev, "Live") THEN "SLOW"
    ELSE IF HasClass(ev, "DeadHard") THEN "DEAD"
    ELSE "UNKNOWN"

Score(owner, ev) ==
    IF owner.kind = "Unknown" THEN "UNKNOWN"
    ELSE IF UnreadableLiveness(ev) THEN "UNKNOWN"
    ELSE IF HasClass(ev, "Live") THEN "SLOW"
    ELSE IF HasClass(ev, "DeadHard") /\ ScoreOf(ev) >= ScoreThreshold THEN "DEAD"
    ELSE IF AnyDeadward(ev) THEN "SLOW"
    ELSE "UNKNOWN"

StrategyFor(strategy, owner, ev) ==
    IF strategy = "score" THEN Score(owner, ev) ELSE Strict(owner, ev)

-----------------------------------------------------------------------------
(* The namespace `kubernetes` finalizer, judged by the namespace's          *)
(* conditions (the set of those that are True) and by the first dead        *)
(* aggregated APIService.                                                   *)

Conditions == {"DiscoveryFailure", "GroupVersionParsingFailure", "FinalizersRemaining",
               "ContentFailure", "ContentRemaining"}

DeadAggregatedAPIService(snap) ==
    SelectInSeq(snap.apiservices, LAMBDA s : s.aggregated /\ s.available = "False")

(* Mutant of CRDExistsForGroup: the loop returns after the first CRD.          *)
FirstCRDIsOfGroup(snap, group) == snap.crds # <<>> /\ Head(snap.crds) = group

CRDExistsForGroup(snap, group) == Contains(snap.crds, group)

(* Mutant of NamespaceKubernetes: the condition alone is taken for a proof.    *)
NamespaceByConditions(conds, snap) ==
    IF conds \intersect {"DiscoveryFailure", "GroupVersionParsingFailure"} = {} THEN "UNKNOWN"
    ELSE IF conds \intersect {"FinalizersRemaining", "ContentFailure", "ContentRemaining"} # {} THEN "SLOW"
    ELSE IF ~Readable(snap, "apiservices") \/ ~Readable(snap, "crds") THEN "UNKNOWN"
    ELSE "DEAD"

NamespaceKubernetes(conds, snap) ==
    LET dead == DeadAggregatedAPIService(snap)
    IN  IF conds \intersect {"DiscoveryFailure", "GroupVersionParsingFailure"} = {} THEN "UNKNOWN"
        ELSE IF conds \intersect {"FinalizersRemaining", "ContentFailure"} # {} THEN "SLOW"
        ELSE IF ~Readable(snap, "apiservices") \/ ~Readable(snap, "crds") THEN "UNKNOWN"
        ELSE IF dead = 0 THEN "SLOW"
        ELSE IF CRDExistsForGroup(snap, snap.apiservices[dead].group) THEN "UNKNOWN"
        ELSE IF "ContentRemaining" \in conds THEN "SLOW"
        ELSE "DEAD"

-----------------------------------------------------------------------------
(* All the finalizers of one object: a verdict for each, metadata and spec. *)

StateOf(finalizer, isNamespace, conds, snap, strategy) ==
    LET owner == MapOwner(finalizer, snap)
    IN  IF isNamespace /\ finalizer = Kubernetes
        THEN NamespaceKubernetes(conds, snap)
        ELSE StrategyFor(strategy, owner, ProbeFor(owner, snap))

AllFinalizers(obj) ==
    {[finalizer |-> f, list |-> "metadata"] : f \in obj.meta} \union
    {[finalizer |-> f, list |-> "spec"] : f \in obj.spec}

Diagnose(obj, isNamespace, snap, strategy) ==
    {[finalizer |-> item.finalizer,
      state     |-> StateOf(item.finalizer, isNamespace, obj.conds, snap, strategy)] :
        item \in AllFinalizers(obj)}

(* combinedState: no verdict at all is not DEAD either. *)
JointlyDead(verdicts) == verdicts # {} /\ \A v \in verdicts : v.state = "DEAD"
=============================================================================
