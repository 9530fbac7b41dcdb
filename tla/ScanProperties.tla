---------------------------- MODULE ScanProperties ----------------------------
(***************************************************************************)
(* What a scan of the whole cluster owes its operator.                     *)
(***************************************************************************)
EXTENDS Scan

StuckNow(ref) == Exists(ref) /\ objects[ref].terminating /\ objects[ref].meta \union objects[ref].spec # {}

InCatalog(ref, r) == r.group = Resource[ref].group /\ r.resource = Resource[ref].resource

(* Why an object is missing from the report; the operator is told of the first   *)
(* two only.                                                                    *)
Excused(ref) ==
    \/ exit = 1
    \/ Resource[ref].group \in skipped
    \/ \E i \in DOMAIN Catalog : InCatalog(ref, Catalog[i]) /\ (~Catalog[i].list \/ i \in unlisted)
    \/ ref \in unread

(* What is stuck from beginning to end is reported, or its group was named in    *)
(* the warning, or its resource cannot or could not be listed, or its own Get    *)
(* failed: one failure hides no other object (Scan's and Build's continue).      *)
NothingHidden ==
    \A ref \in Refs : []StuckNow(ref) => [](pc = "done" => ref \in reported \/ Excused(ref))

(* A snapshot of the target and the sources as they are now.                    *)
Full(ref) ==
    [obj |-> objects[ref], available |-> available, crds |-> installed, hooks |-> hooks,
     endpoints |-> endpoints, readable |-> Sources]

Deserves(ref) == JointlyDead(Verdicts(ref, Full(ref), Strategy))

(* The readiness of a backend is stated by what the tool reads.                 *)
Stated(backend) ==
    backend \notin URLs /\ endpoints[backend] # {} /\ \A slice \in endpoints[backend] : "unset" \notin slice

(* The requests that clear the finalizers ref has (Build, perform): a patch of   *)
(* the object, the PUT of namespaces/finalize, or both.                         *)
Patched(ref)   == \E item \in AllFinalizers(objects[ref]) : ref \notin NsRefs \/ item.finalizer # Kubernetes
Finalized(ref) == ref \in NsRefs /\ \E item \in AllFinalizers(objects[ref]) : item.finalizer = Kubernetes

RejectsClear(ref) ==
    \/ Patched(ref) /\ Rejects(ref, "UPDATE", ResourceNames(ref))
    \/ Finalized(ref) /\ Rejects(ref, "UPDATE", FinalizeNames)

(* Where Blocks, which asks about an update of the resource by its name or `*`,   *)
(* is known to answer about something else: a rule on `*/*` or on a subresource  *)
(* of namespaces, and a namespace of which no patch is sent.                    *)
Unforeseen(hook) == \E rule \in hook.rules : rule.resources \intersect ({"*/*"} \union FinalizeNames) # {}

RefusedForNothing(ref) == ~Patched(ref) /\ Rejects(ref, "UPDATE", ResourceNames(ref))

(* While nobody else writes and no call fails: a token is printed for what is    *)
(* DEAD and for nothing else.  It is withheld for a webhook if the API server    *)
(* would reject a request the clear consists of, and only then (Blocks;          *)
(* webhook.go:17-19, "conservative against false refusals"), but for three       *)
(* mistakes of the gate, and no other: it takes an endpoint that states no       *)
(* readiness for one that is not ready; it overlooks rules that name            *)
(* subresources; and for a namespace that only needs a /finalize it asks about   *)
(* the patch that is not sent.                                                 *)
TokenIffItWorks ==
    pc = "done" /\ exit = 2 /\ foreign = 0 /\ faults = 0 =>
        \A ref \in reported :
            LET offered  == \E token \in printed : token.ref = ref /\ token.rv = objects[ref].rv
                rejected == RejectsClear(ref)
                backends == {hook.backend : hook \in hooks}
            IN  /\ offered => Deserves(ref)
                /\ Deserves(ref) /\ ~offered =>
                      rejected \/ RefusedForNothing(ref) \/ \E b \in backends \ URLs : ~Stated(b)
                /\ offered /\ rejected =>
                      (\E b \in backends : ~Stated(b)) \/ \E hook \in hooks : Unforeseen(hook)

(* Every API that may own f is up; `kubernetes` is judged by any of them.        *)
OwnersUp(f) ==
    \A i \in DOMAIN Registrations :
        /\ Registrations[i].aggregated
        /\ f = Kubernetes \/ IsSuffix(Registrations[i].group, f.domain)
        => available[i] # "False"

(* A scan reads its objects and its sources one after the other while APIs and   *)
(* objects come and go, and any read may fail; still no token it prints calls a   *)
(* finalizer DEAD whose possible owners were up all the time: what was missed or  *)
(* read at different times never adds up to a proof (Build, Map, For, Strict,    *)
(* NamespaceKubernetes).                                                        *)
ServedIsNeverDead ==
    \A f \in Finalizers :
        []OwnersUp(f) => [](\A token \in printed : <<f, "DEAD">> \notin token.pairs)

(* A scan ends, however many APIs are dead and whatever the cluster does.        *)
ScanEnds == <>(pc = "done")
=============================================================================
