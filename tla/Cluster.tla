------------------------------- MODULE Cluster -------------------------------
(***************************************************************************)
(* The Kubernetes cluster as cluster.Client shows it to finalizer-doctor:  *)
(* versioned objects, the evidence sources, and everybody else who writes  *)
(* to them while the tool runs.  It is not code of the repository; it is   *)
(* modelled from the calls cluster/clientgo.go makes and the preconditions *)
(* it sends.                                                               *)
(*                                                                         *)
(* Every write takes the next revision of the store, and an object's       *)
(* resourceVersion (rv) is the revision of its last write.  Finalizers are *)
(* sets, as the API server treats them.                                    *)
(***************************************************************************)
EXTENDS Diagnosis

CONSTANTS
    Refs,            \* the objects (group, resource, namespace and name)
    Resource,        \* Resource[ref]: its [group, resource]
    Finalizers,      \* the finalizers objects may carry
    Registrations,   \* the APIServices [group, aggregated], in list order
    CRDGroups,       \* the groups of the CRDs, in list order
    Hooks,           \* the admission webhooks there may be
    Backends,        \* the services and URLs that answer them
    URLs,            \* those of them that are URLs
    EndpointSets,    \* what may stand behind a backend
    InitialHooks,    \* the webhooks a behaviour may start with
    Births,          \* Births[ref]: the contents ref may be created with
    InitialObjects,  \* the stores a behaviour may start from
    Disturbances,    \* the kinds of foreign writes that happen
    MaxForeign,      \* how many foreign writes happen
    Nothing          \* no object, no token, no plan step

Availability == {"True", "False", "Absent"}

(* The ready condition of one endpoint of a slice, which may say nothing.     *)
Readiness == {"ready", "notReady", "unset"}

(* The wildcards of a webhook rule; a group is a sequence of labels.          *)
AnyGroup == <<"*">>
AnyName  == "*"

Contents == [meta : SUBSET Finalizers, spec : SUBSET Finalizers,
             conds : SUBSET Conditions, owners : SUBSET Refs]

Objects == [rv : Nat, uid : Nat, terminating : BOOLEAN,
            meta : SUBSET Finalizers, spec : SUBSET Finalizers,
            conds : SUBSET Conditions, owners : SUBSET Refs]

ASSUME ClusterAssumption ==
    /\ Registrations \in Seq([group : Seq(STRING), aggregated : BOOLEAN])
    /\ CRDGroups \in Seq(Seq(STRING))
    /\ \A hook \in Hooks : hook.config \in {"webhooks", "mutating"} /\ hook.backend \in Backends
    /\ InitialHooks \subseteq SUBSET Hooks
    /\ EndpointSets \subseteq SUBSET SUBSET Readiness
    /\ Births \in [Refs -> SUBSET Contents]
    /\ InitialObjects \subseteq [Refs -> Objects \union {Nothing}]
    /\ \A store \in InitialObjects, ref \in Refs :
          store[ref] # Nothing => store[ref].rv = 0 /\ store[ref].uid = 0
    /\ Nothing \notin Objects
    /\ MaxForeign \in Nat

VARIABLES
    objects,      \* the object of each ref, or Nothing
    revision,     \* the revision of the last write
    available,    \* the Available condition of each registration
    installed,    \* the CRDs (indexes of CRDGroups) that are installed
    hooks,        \* the webhooks that are configured
    endpoints,    \* endpoints[b]: the endpoint slices of b, each the readiness of its endpoints
    foreign       \* how many foreign writes there were

objectVars   == <<objects, revision>>
evidenceVars == <<available, installed, hooks, endpoints>>
clusterVars  == <<objects, revision, available, installed, hooks, endpoints, foreign>>

ClusterTypeOK ==
    /\ objects \in [Refs -> Objects \union {Nothing}]
    /\ revision \in Nat
    /\ available \in [DOMAIN Registrations -> Availability]
    /\ installed \in SUBSET (DOMAIN CRDGroups)
    /\ hooks \in SUBSET Hooks
    /\ endpoints \in [Backends -> SUBSET SUBSET Readiness]
    /\ foreign \in Nat

ClusterInit ==
    /\ objects \in InitialObjects
    /\ revision = 0
    /\ available \in [DOMAIN Registrations -> {"True", "False"}]
    /\ installed \in {{}, DOMAIN CRDGroups}
    /\ hooks \in InitialHooks
    /\ endpoints \in [Backends -> EndpointSets]
    /\ foreign = 0

-----------------------------------------------------------------------------
(* Writing one object. *)

Exists(ref) == objects[ref] # Nothing

Stuck(o) == o.terminating /\ (o.meta # {} \/ o.spec # {})

NsRefs == {ref \in Refs : Resource[ref].resource = "namespaces"}

(* A namespace is also held by spec.finalizers. *)
Held(ref, o) == o.meta # {} \/ (ref \in NsRefs /\ o.spec # {})

(* An object that is being deleted goes away with its last finalizer. *)
Store(ref, o) ==
    /\ revision' = revision + 1
    /\ objects' = [objects EXCEPT ![ref] =
                      IF o.terminating /\ ~Held(ref, o) THEN Nothing
                      ELSE [o EXCEPT !.rv = revision + 1]]

(* A write that changes nothing is not a write. *)
Write(ref, o) == IF o = objects[ref] THEN UNCHANGED objectVars ELSE Store(ref, o)

-----------------------------------------------------------------------------
(* Admission: a webhook that must answer and does not rejects the request.  A  *)
(* rule names a resource, a subresource, or with a wildcard one or the other.  *)

Intercepts(hook, ref, operation, names) ==
    /\ hook.policy # "Ignore"
    /\ \E rule \in hook.rules :
          /\ rule.operations \intersect {AnyName, operation} # {}
          /\ rule.groups \intersect {AnyGroup, Resource[ref].group} # {}
          /\ rule.resources \intersect names # {}

(* An endpoint whose readiness is not stated serves as well.                   *)
Answers(backend) == \E slice \in endpoints[backend] : slice \intersect {"ready", "unset"} # {}

Rejects(ref, operation, names) ==
    \E hook \in hooks : Intercepts(hook, ref, operation, names) /\ ~Answers(hook.backend)

ResourceNames(ref) == {AnyName, "*/*", Resource[ref].resource}

FinalizeNames == {"*/*", "namespaces/*", "namespaces/finalize"}

-----------------------------------------------------------------------------
(* The three mutating requests.  Each carries the rv it is conditional on.    *)

Precondition(ref, rv) == Exists(ref) /\ objects[ref].rv = rv

(* A merge patch that replaces metadata.finalizers: an object being deleted     *)
(* takes no new ones.                                                          *)
AcceptsPatch(ref, meta, rv) ==
    /\ Precondition(ref, rv)
    /\ ~Rejects(ref, "UPDATE", ResourceNames(ref))
    /\ objects[ref].terminating => meta \subseteq objects[ref].meta

PatchFinalizers(ref, meta) == Write(ref, [objects[ref] EXCEPT !.meta = meta])

(* PUT of namespaces/finalize with spec.finalizers replaced. *)
AcceptsFinalize(ref, rv) == Precondition(ref, rv) /\ ~Rejects(ref, "UPDATE", FinalizeNames)

FinalizeNamespace(ref, spec) == Write(ref, [objects[ref] EXCEPT !.spec = spec])

(* DELETE: what no finalizer holds goes at once. *)
AcceptsDelete(ref, rv) == Precondition(ref, rv) /\ ~Rejects(ref, "DELETE", ResourceNames(ref))

Delete(ref) == Write(ref, [objects[ref] EXCEPT !.terminating = TRUE])

-----------------------------------------------------------------------------
(* Everybody else. *)

Foreign(kind) == kind \in Disturbances /\ foreign < MaxForeign /\ foreign' = foreign + 1

Create(ref) ==
    /\ Foreign("create")
    /\ ~Exists(ref)
    /\ \E b \in Births[ref] :
          Store(ref, [rv |-> 0, uid |-> revision + 1, terminating |-> FALSE, meta |-> b.meta,
                      spec |-> b.spec, conds |-> b.conds, owners |-> b.owners])
    /\ UNCHANGED evidenceVars

RequestDelete(ref) ==
    /\ Foreign("delete")
    /\ Exists(ref) /\ ~objects[ref].terminating
    /\ Delete(ref)
    /\ UNCHANGED evidenceVars

AddFinalizer(ref) ==
    /\ Foreign("add")
    /\ Exists(ref) /\ ~objects[ref].terminating
    /\ \E f \in Finalizers \ objects[ref].meta :
          PatchFinalizers(ref, objects[ref].meta \union {f})
    /\ UNCHANGED evidenceVars

(* A controller that does its work, or a person with an editor. *)
DropFinalizer(ref) ==
    /\ Foreign("drop")
    /\ Exists(ref)
    /\ \E f \in objects[ref].meta : PatchFinalizers(ref, objects[ref].meta \ {f})
    /\ UNCHANGED evidenceVars

(* A status update that touches nothing the tool reads but the rv. *)
Touch(ref) ==
    /\ Foreign("touch")
    /\ Exists(ref)
    /\ Store(ref, objects[ref])
    /\ UNCHANGED evidenceVars

SetConditions(ref) ==
    /\ Foreign("conditions")
    /\ ref \in NsRefs /\ Exists(ref)
    /\ \E c \in {{}, {"DiscoveryFailure"}, {"DiscoveryFailure", "ContentRemaining"}} :
          Write(ref, [objects[ref] EXCEPT !.conds = c])
    /\ UNCHANGED evidenceVars

(* Ownership moves to another object, or is given up. *)
Reown(ref) ==
    /\ Foreign("reown")
    /\ Exists(ref)
    /\ \E owners \in {{}} \union {{other} : other \in Refs \ {ref}} :
          Write(ref, [objects[ref] EXCEPT !.owners = owners])
    /\ UNCHANGED evidenceVars

ChangeAPIService ==
    /\ Foreign("apiservice")
    /\ revision' = revision + 1
    /\ \E i \in DOMAIN Registrations, a \in Availability : available' = [available EXCEPT ![i] = a]
    /\ UNCHANGED <<objects, installed, hooks, endpoints>>

ChangeCRD ==
    /\ Foreign("crd")
    /\ revision' = revision + 1
    /\ \E i \in DOMAIN CRDGroups :
          installed' = IF i \in installed THEN installed \ {i} ELSE installed \union {i}
    /\ UNCHANGED <<objects, available, hooks, endpoints>>

ChangeWebhook ==
    /\ Foreign("webhook")
    /\ revision' = revision + 1
    /\ \E hook \in Hooks : hooks' = IF hook \in hooks THEN hooks \ {hook} ELSE hooks \union {hook}
    /\ UNCHANGED <<objects, available, installed, endpoints>>

ChangeEndpoints ==
    /\ Foreign("endpoints")
    /\ revision' = revision + 1
    /\ \E b \in Backends, slices \in EndpointSets : endpoints' = [endpoints EXCEPT ![b] = slices]
    /\ UNCHANGED <<objects, available, installed, hooks>>

ForeignWrite ==
    \/ \E ref \in Refs :
          \/ Create(ref)
          \/ RequestDelete(ref)
          \/ AddFinalizer(ref)
          \/ DropFinalizer(ref)
          \/ Touch(ref)
          \/ SetConditions(ref)
          \/ Reown(ref)
    \/ ChangeAPIService
    \/ ChangeCRD
    \/ ChangeWebhook
    \/ ChangeEndpoints
=============================================================================
