------------------------------- MODULE Reading -------------------------------
(***************************************************************************)
(* What an invocation reads and what it makes of it: one snapshot of the   *)
(* evidence sources (package snapshot), the verdicts on an object          *)
(* (diagnose), the admission webhooks in the way (package webhook) and the *)
(* digest of it all (package apply).                                       *)
(***************************************************************************)
EXTENDS Cluster

Tokens == [ref : Refs, pairs : SUBSET (Finalizers \X States), rv : Nat]

Snapshots == [obj : Objects \union {Nothing}, available : [DOMAIN Registrations -> Availability],
              crds : SUBSET (DOMAIN CRDGroups), hooks : SUBSET Hooks,
              endpoints : [Backends -> SUBSET SUBSET Readiness], readable : SUBSET Sources]

EmptySnapshot == [obj |-> Nothing, available |-> [i \in DOMAIN Registrations |-> "Absent"],
                  crds |-> {}, hooks |-> {}, endpoints |-> [b \in Backends |-> {}], readable |-> {}]

-----------------------------------------------------------------------------
(* Reading *)

(* The evidence sources in the order Build reads them.                         *)
NextRead == [apiservices |-> "crds", crds |-> "webhooks", webhooks |-> "mutating",
             mutating |-> "workloads", workloads |-> "pods", pods |-> "endpointslices",
             endpointslices |-> "judge"]

(* Mutant of Fill: every read is tracked under its own name.                   *)
FillTracksAll(s, source) == [s EXCEPT !.readable = @ \union {source}]

(* What a successful read adds to the snapshot.  The mutating webhooks' read   *)
(* is not tracked; nothing looks inside workloads and pods.                    *)
Fill(s, source) ==
    LET read == [s EXCEPT !.readable = @ \union ({source} \intersect Sources)]
    IN  CASE source = "apiservices" -> [read EXCEPT !.available = available]
          [] source = "crds" -> [read EXCEPT !.crds = installed]
          [] source \in {"webhooks", "mutating"} ->
                [read EXCEPT !.hooks = @ \union {hook \in hooks : hook.config = source}]
          [] source = "endpointslices" -> [read EXCEPT !.endpoints = endpoints]
          [] OTHER -> read

-----------------------------------------------------------------------------
(* Judging *)

(* A source returns what is there in the order of its list.                   *)
InOrder(positions) ==
    CHOOSE seq \in [1..Cardinality(positions) -> positions] :
        \A i, j \in DOMAIN seq : i < j => seq[i] < seq[j]

(* The lists as the sources returned them. *)
Evidences(s) ==
    LET services == InOrder({i \in DOMAIN Registrations : s.available[i] # "Absent"})
        crds     == InOrder(s.crds)
    IN  [apiservices |-> [k \in DOMAIN services |->
                             [group      |-> Registrations[services[k]].group,
                              aggregated |-> Registrations[services[k]].aggregated,
                              available  |-> s.available[services[k]]]],
         crds        |-> [k \in DOMAIN crds |-> CRDGroups[crds[k]]],
         readable    |-> s.readable]

Verdicts(ref, s, strategy) == Diagnose(s.obj, ref \in NsRefs, Evidences(s), strategy)

-----------------------------------------------------------------------------
(* The webhooks in the way *)

SliceMatches(values, any, want) == {any, want} \intersect values # {}

(* Mutant of RulesMatch: a rule for any operation will do.                     *)
RulesMatchAnyOperation(rules, ref) ==
    \E rule \in rules : /\ SliceMatches(rule.groups, AnyGroup, Resource[ref].group)
                        /\ SliceMatches(rule.resources, AnyName, Resource[ref].resource)

RulesMatch(rules, ref) ==
    \E rule \in rules : /\ SliceMatches(rule.operations, AnyName, "UPDATE")
                        /\ SliceMatches(rule.groups, AnyGroup, Resource[ref].group)
                        /\ SliceMatches(rule.resources, AnyName, Resource[ref].resource)

(* Mutant of ServiceDeadByEndpoints: one slice without a ready endpoint will do. *)
SomeSliceDead(s, backend) ==
    Readable(s, "endpointslices") /\ \E slice \in s.endpoints[backend] : "ready" \notin slice

(* Slices of the service were seen, and a ready endpoint in none of them.      *)
ServiceDeadByEndpoints(s, backend) ==
    /\ Readable(s, "endpointslices")
    /\ s.endpoints[backend] # {}
    /\ \A slice \in s.endpoints[backend] : "ready" \notin slice

(* A webhook that must answer an update of ref, by a service that cannot.      *)
Blocks(s, ref) ==
    \E hook \in s.hooks :
        /\ hook.policy # "Ignore"
        /\ RulesMatch(hook.rules, ref)
        /\ hook.backend \notin URLs
        /\ ServiceDeadByEndpoints(s, hook.backend)

-----------------------------------------------------------------------------
(* Binding a confirmation to it *)

(* Mutant of Digest: the token leaves the rv out.                              *)
DigestWithoutRevision(ref, verdicts, rv) ==
    [ref |-> ref, pairs |-> {<<v.finalizer, v.state>> : v \in verdicts}, rv |-> 0]

Digest(ref, verdicts, rv) ==
    [ref |-> ref, pairs |-> {<<v.finalizer, v.state>> : v \in verdicts}, rv |-> rv]
=============================================================================
