---------------------------- MODULE ClusterProofs ----------------------------
(***************************************************************************)
(* What the invocations of Doctor and of Scan share: the types of what is  *)
(* read and judged, and the effect of one write on the store.              *)
(***************************************************************************)
EXTENDS Reading, DiagnosisFacts

-----------------------------------------------------------------------------
(* What is read *)

LEMMA EmptySnapshotType == EmptySnapshot \in Snapshots
    BY DEF EmptySnapshot, Snapshots, Availability

LEMMA ReadsListed ==
    DOMAIN NextRead = {"apiservices", "crds", "webhooks", "mutating", "workloads", "pods", "endpointslices"}
    BY DEF NextRead

LEMMA FillType ==
    ASSUME ClusterTypeOK, NEW s \in Snapshots, NEW source \in DOMAIN NextRead
    PROVE  Fill(s, source) \in Snapshots
    BY ReadsListed DEF ClusterTypeOK, Fill, Snapshots, Sources

(* Every verdict is one of the three states.                                    *)
LEMMA StateOfType ==
    ASSUME NEW f, NEW n, NEW c, NEW s, NEW strategy
    PROVE  StateOf(f, n, c, s, strategy) \in States
<1>1. \A o, ev : Strict(o, ev) \in States /\ Score(o, ev) \in States
    BY DEF Strict, Score, States
<1>2. NamespaceKubernetes(c, s) \in States
    BY DEF NamespaceKubernetes, States
<1>3. QED
    BY <1>1, <1>2 DEF StateOf, StrategyFor

(* The digest of the verdicts on a stored object is a token.                    *)
LEMMA DigestType ==
    ASSUME NEW ref \in Refs, NEW s \in Snapshots, s.obj # Nothing, NEW strategy
    PROVE  Digest(ref, Verdicts(ref, s, strategy), s.obj.rv) \in Tokens
<1>1. s.obj \in Objects
    BY DEF Snapshots
<1>2. \A item \in AllFinalizers(s.obj) : item.finalizer \in Finalizers
    BY <1>1 DEF AllFinalizers, Objects
<1>3. \A v \in Verdicts(ref, s, strategy) : v.finalizer \in Finalizers /\ v.state \in States
    BY <1>2, StateOfType DEF Verdicts, Diagnose
<1>4. {<<v.finalizer, v.state>> : v \in Verdicts(ref, s, strategy)} \in SUBSET (Finalizers \X States)
    BY <1>3
<1>5. QED
    BY <1>1, <1>4 DEF Digest, Tokens, Objects

(* The positions of a list, put in order.                                       *)
LEMMA InOrderListed ==
    ASSUME NEW n \in Nat, NEW S \in SUBSET (1..n)
    PROVE  Cardinality(S) \in Nat /\ InOrder(S) \in [1..Cardinality(S) -> S]
<1>1. Cardinality(S) \in Nat
    <2>1. IsFiniteSet(1..n)
        BY FS_Interval
    <2>2. QED
        BY <2>1, FS_Subset, FS_CardinalityType
<1>2. \E seq \in [1..Cardinality(S) -> S] : \A i, j \in DOMAIN seq : i < j => seq[i] < seq[j]
    BY OrderExists
<1>3. QED
    BY <1>1, <1>2 DEF InOrder

LEMMA ListIsSeq ==
    ASSUME NEW n \in Nat, NEW S, NEW list \in [1..n -> S] PROVE list \in Seq(S)
    OBVIOUS

(* The lists of a snapshot hold what was read of the registrations, and no more. *)
LEMMA EvidencesListed ==
    ASSUME NEW s \in Snapshots
    PROVE  /\ Listed(Evidences(s))
           /\ \A k \in 1..Len(Evidences(s).apiservices) :
                 \E i \in DOMAIN Registrations :
                    Evidences(s).apiservices[k] = [group      |-> Registrations[i].group,
                                                   aggregated |-> Registrations[i].aggregated,
                                                   available  |-> s.available[i]]
<1> DEFINE listed   == {i \in DOMAIN Registrations : s.available[i] # "Absent"}
           services == InOrder(listed)
           crds     == InOrder(s.crds)
           Entry(i) == [group      |-> Registrations[i].group,
                        aggregated |-> Registrations[i].aggregated,
                        available  |-> s.available[i]]
           Entries  == {Entry(i) : i \in DOMAIN Registrations}
           Groups   == {CRDGroups[i] : i \in DOMAIN CRDGroups}
<1>1. /\ DOMAIN Registrations = 1..Len(Registrations) /\ Len(Registrations) \in Nat
      /\ DOMAIN CRDGroups = 1..Len(CRDGroups) /\ Len(CRDGroups) \in Nat
    BY ClusterAssumption
<1>2. /\ Cardinality(listed) \in Nat /\ services \in [1..Cardinality(listed) -> listed]
      /\ Cardinality(s.crds) \in Nat /\ crds \in [1..Cardinality(s.crds) -> s.crds]
    <2>1. listed \in SUBSET (1..Len(Registrations)) /\ s.crds \in SUBSET (1..Len(CRDGroups))
        BY <1>1 DEF Snapshots
    <2>2. QED
        BY <1>1, <2>1, InOrderListed
<1>3. /\ Evidences(s).apiservices = [k \in DOMAIN services |-> Entry(services[k])]
      /\ Evidences(s).crds = [k \in DOMAIN crds |-> CRDGroups[crds[k]]]
    BY DEF Evidences
<1>4. s.crds \subseteq DOMAIN CRDGroups /\ listed \subseteq DOMAIN Registrations
    BY DEF Snapshots
<1> HIDE DEF services, crds, listed, Entry
<1>5. Evidences(s).apiservices \in [1..Cardinality(listed) -> Entries]
    BY <1>2, <1>3, <1>4
<1>6. Evidences(s).crds \in [1..Cardinality(s.crds) -> Groups]
    BY <1>2, <1>3, <1>4
<1> HIDE DEF Entries, Groups
<1>7. Evidences(s).apiservices \in Seq(Entries) /\ Evidences(s).crds \in Seq(Groups)
    BY <1>2, <1>5, <1>6, ListIsSeq
<1>8. ASSUME NEW k \in 1..Len(Evidences(s).apiservices)
      PROVE  \E i \in DOMAIN Registrations : Evidences(s).apiservices[k] = Entry(i)
    <2>1. Evidences(s).apiservices[k] \in Entries
        BY <1>7
    <2>2. QED
        BY <2>1 DEF Entries
<1>9. QED
    BY <1>7, <1>8 DEF Listed, Entry

(* What DEAD rests on, however the reads of the snapshot straddle changes: an    *)
(* aggregated API that was read to be down, and but for the `kubernetes` of a  *)
(* namespace one of a group that may own the finalizer.                         *)
LEMMA DeadRestsOnDown ==
    ASSUME NEW s \in Snapshots, NEW f, NEW isNamespace, NEW conds, NEW strategy,
           StateOf(f, isNamespace, conds, Evidences(s), strategy) = "DEAD"
    PROVE  \E i \in DOMAIN Registrations :
              /\ Registrations[i].aggregated /\ s.available[i] = "False"
              /\ \/ isNamespace /\ f = Kubernetes
                 \/ IsSuffix(Registrations[i].group, f.domain)
<1> DEFINE e == Evidences(s)
<1>1. /\ Listed(e)
      /\ \A k \in 1..Len(e.apiservices) : \E i \in DOMAIN Registrations :
            e.apiservices[k] = [group      |-> Registrations[i].group,
                                aggregated |-> Registrations[i].aggregated,
                                available  |-> s.available[i]]
    BY EvidencesListed
<1>2. StateOf(f, isNamespace, conds, e, strategy) = "DEAD"
    OBVIOUS
<1> HIDE DEF e
<1>3. ASSUME NEW k \in 1..Len(e.apiservices), IsDown(e.apiservices[k])
      PROVE  \E i \in DOMAIN Registrations : /\ Registrations[i].aggregated /\ s.available[i] = "False"
                                             /\ Registrations[i].group = e.apiservices[k].group
    <2>1. PICK i \in DOMAIN Registrations :
              e.apiservices[k] = [group      |-> Registrations[i].group,
                                  aggregated |-> Registrations[i].aggregated,
                                  available  |-> s.available[i]]
        BY <1>1
    <2>2. Registrations[i].aggregated /\ s.available[i] = "False"
        BY <1>3, <2>1 DEF IsDown
    <2>3. QED
        BY <2>1, <2>2
<1>4. CASE isNamespace /\ f = Kubernetes
    <2>1. NamespaceKubernetes(conds, e) = "DEAD"
        BY <1>2, <1>4 DEF StateOf
    <2>2. \E k \in 1..Len(e.apiservices) : IsDown(e.apiservices[k])
        BY <1>1, <2>1, DeadNamespaceIsProven
    <2>3. QED
        BY <1>3, <1>4, <2>2
<1>5. CASE ~(isNamespace /\ f = Kubernetes)
    <2>1. /\ GroupMatches(MapOwner(f, e).group, f.domain)
          /\ \E k \in 1..Len(e.apiservices) :
                e.apiservices[k].group = MapOwner(f, e).group /\ IsDown(e.apiservices[k])
        BY <1>1, <1>2, <1>5, DeadOwnerIsDown
    <2>2. QED
        BY <1>3, <2>1 DEF GroupMatches
<1>6. QED
    BY <1>4, <1>5

-----------------------------------------------------------------------------
(* Writes *)

(* A write puts a new revision on the one object it is about, and on no other.  *)
Advances ==
    /\ objects' \in [Refs -> Objects \union {Nothing}]
    /\ revision' \in Nat /\ revision <= revision'
    /\ \A ref \in Refs : objects'[ref] # objects[ref] /\ objects'[ref] # Nothing =>
          revision < objects'[ref].rv /\ objects'[ref].rv <= revision'

LEMMA StoreAdvances ==
    ASSUME ClusterTypeOK, NEW ref \in Refs, NEW o \in Objects, Store(ref, o)
    PROVE  Advances
<1>1. [o EXCEPT !.rv = revision + 1] \in Objects /\ [o EXCEPT !.rv = revision + 1].rv = revision + 1
    BY DEF ClusterTypeOK, Objects
<1>2. QED
    BY <1>1 DEF ClusterTypeOK, Store, Advances

LEMMA WriteAdvances ==
    ASSUME ClusterTypeOK, NEW ref \in Refs, NEW o \in Objects, Write(ref, o)
    PROVE  Advances
<1>1. CASE o = objects[ref]
    BY <1>1 DEF Write, objectVars, Advances, ClusterTypeOK
<1>2. CASE o # objects[ref]
    BY <1>2, StoreAdvances DEF Write
<1>3. QED
    BY <1>1, <1>2

LEMMA PatchAdvances ==
    ASSUME ClusterTypeOK, NEW ref \in Refs, Exists(ref), NEW meta \in SUBSET Finalizers,
           PatchFinalizers(ref, meta)
    PROVE  Advances
<1>1. [objects[ref] EXCEPT !.meta = meta] \in Objects
    BY DEF ClusterTypeOK, Exists, Objects
<1>2. QED
    BY <1>1, WriteAdvances DEF PatchFinalizers

LEMMA FinalizeAdvances ==
    ASSUME ClusterTypeOK, NEW ref \in Refs, Exists(ref), NEW spec \in SUBSET Finalizers,
           FinalizeNamespace(ref, spec)
    PROVE  Advances
<1>1. [objects[ref] EXCEPT !.spec = spec] \in Objects
    BY DEF ClusterTypeOK, Exists, Objects
<1>2. QED
    BY <1>1, WriteAdvances DEF FinalizeNamespace

LEMMA DeleteAdvances ==
    ASSUME ClusterTypeOK, NEW ref \in Refs, Exists(ref), Delete(ref)
    PROVE  Advances
<1>1. [objects[ref] EXCEPT !.terminating = TRUE] \in Objects
    BY DEF ClusterTypeOK, Exists, Objects
<1>2. QED
    BY <1>1, WriteAdvances DEF Delete

(* What the rest of the cluster does keeps its types.                           *)
LEMMA ForeignAdvances ==
    ASSUME ClusterTypeOK, ForeignWrite
    PROVE  ClusterTypeOK' /\ Advances
<1> SUFFICES Advances /\ foreign' \in Nat /\ ClusterTypeOK!3' /\ ClusterTypeOK!4'
                      /\ ClusterTypeOK!5' /\ ClusterTypeOK!6'
    BY DEF ClusterTypeOK, Advances
<1> USE DEF Foreign, evidenceVars
<1>1. ASSUME NEW ref \in Refs, Create(ref)
      PROVE  Advances
    <2>1. PICK b \in Births[ref] :
              Store(ref, [rv |-> 0, uid |-> revision + 1, terminating |-> FALSE, meta |-> b.meta,
                          spec |-> b.spec, conds |-> b.conds, owners |-> b.owners])
        BY <1>1 DEF Create
    <2>2. [rv |-> 0, uid |-> revision + 1, terminating |-> FALSE, meta |-> b.meta,
           spec |-> b.spec, conds |-> b.conds, owners |-> b.owners] \in Objects
        BY ClusterAssumption DEF ClusterTypeOK, Objects, Contents
    <2>3. QED
        BY <2>1, <2>2, StoreAdvances
<1>2. ASSUME NEW ref \in Refs, RequestDelete(ref)
      PROVE  Advances
    BY <1>2, DeleteAdvances DEF RequestDelete
<1>3. ASSUME NEW ref \in Refs, AddFinalizer(ref)
      PROVE  Advances
    <2>1. PICK f \in Finalizers : PatchFinalizers(ref, objects[ref].meta \union {f})
        BY <1>3 DEF AddFinalizer
    <2>2. objects[ref].meta \union {f} \in SUBSET Finalizers
        BY <1>3 DEF AddFinalizer, ClusterTypeOK, Exists, Objects
    <2>3. QED
        BY <1>3, <2>1, <2>2, PatchAdvances DEF AddFinalizer
<1>4. ASSUME NEW ref \in Refs, DropFinalizer(ref)
      PROVE  Advances
    <2>1. PICK f : PatchFinalizers(ref, objects[ref].meta \ {f})
        BY <1>4 DEF DropFinalizer
    <2>2. objects[ref].meta \ {f} \in SUBSET Finalizers
        BY <1>4 DEF DropFinalizer, ClusterTypeOK, Exists, Objects
    <2>3. QED
        BY <1>4, <2>1, <2>2, PatchAdvances DEF DropFinalizer
<1>5. ASSUME NEW ref \in Refs, Touch(ref)
      PROVE  Advances
    <2>1. objects[ref] \in Objects
        BY <1>5 DEF Touch, ClusterTypeOK, Exists
    <2>2. QED
        BY <1>5, <2>1, StoreAdvances DEF Touch
<1>6. ASSUME NEW ref \in Refs, SetConditions(ref)
      PROVE  Advances
    <2>1. PICK c \in {{}, {"DiscoveryFailure"}, {"DiscoveryFailure", "ContentRemaining"}} :
              Write(ref, [objects[ref] EXCEPT !.conds = c])
        BY <1>6 DEF SetConditions
    <2>2. [objects[ref] EXCEPT !.conds = c] \in Objects
        BY <1>6 DEF SetConditions, ClusterTypeOK, Exists, Objects, Conditions
    <2>3. QED
        BY <2>1, <2>2, WriteAdvances
<1>7. ASSUME NEW ref \in Refs, Reown(ref)
      PROVE  Advances
    <2>1. PICK owners \in {{}} \union {{other} : other \in Refs \ {ref}} :
              Write(ref, [objects[ref] EXCEPT !.owners = owners])
        BY <1>7 DEF Reown
    <2>2. [objects[ref] EXCEPT !.owners = owners] \in Objects
        BY <1>7 DEF Reown, ClusterTypeOK, Exists, Objects
    <2>3. QED
        BY <2>1, <2>2, WriteAdvances
<1>8. CASE \E ref \in Refs : \/ Create(ref) \/ RequestDelete(ref) \/ AddFinalizer(ref)
                             \/ DropFinalizer(ref) \/ Touch(ref) \/ SetConditions(ref) \/ Reown(ref)
    <2>1. Advances
        BY <1>8, <1>1, <1>2, <1>3, <1>4, <1>5, <1>6, <1>7
    <2>2. foreign' \in Nat /\ UNCHANGED evidenceVars
        BY <1>8 DEF ClusterTypeOK, Create, RequestDelete, AddFinalizer, DropFinalizer, Touch,
                    SetConditions, Reown
    <2>3. QED
        BY <2>1, <2>2 DEF ClusterTypeOK
<1>9. CASE ChangeAPIService
    <2>1. PICK i \in DOMAIN Registrations, a \in Availability :
              available' = [available EXCEPT ![i] = a]
        BY <1>9 DEF ChangeAPIService
    <2>2. available' \in [DOMAIN Registrations -> Availability]
        BY <2>1 DEF ClusterTypeOK
    <2>3. QED
        BY <1>9, <2>2 DEF ChangeAPIService, ClusterTypeOK, Advances
<1>10. CASE ChangeCRD
    BY <1>10 DEF ChangeCRD, ClusterTypeOK, Advances
<1>11. CASE ChangeWebhook
    BY <1>11 DEF ChangeWebhook, ClusterTypeOK, Advances
<1>12. CASE ChangeEndpoints
    <2>1. PICK b \in Backends, slices \in EndpointSets : endpoints' = [endpoints EXCEPT ![b] = slices]
        BY <1>12 DEF ChangeEndpoints
    <2>2. slices \in SUBSET SUBSET Readiness
        BY ClusterAssumption
    <2>3. endpoints' \in [Backends -> SUBSET SUBSET Readiness]
        BY <2>1, <2>2 DEF ClusterTypeOK
    <2>4. QED
        BY <1>12, <2>3 DEF ChangeEndpoints, ClusterTypeOK, Advances
<1>13. QED
    BY <1>8, <1>9, <1>10, <1>11, <1>12 DEF ForeignWrite

(* A write of o takes out of the store at most the object it is about.          *)
LEMMA WriteEffect ==
    ASSUME ClusterTypeOK, NEW ref \in Refs, Exists(ref), NEW o \in Objects, Write(ref, o)
    PROVE  /\ \A other \in Refs \ {ref} : objects'[other] = objects[other]
           /\ IF objects'[ref] = Nothing THEN ~Held(ref, o)
              ELSE objects'[ref].meta = o.meta /\ objects'[ref].spec = o.spec
<1>1. CASE o = objects[ref]
    BY <1>1 DEF Write, objectVars, Exists
<1>2. CASE o # objects[ref]
    <2>1. [o EXCEPT !.rv = revision + 1] \in Objects
        BY DEF ClusterTypeOK, Objects
    <2>2. [o EXCEPT !.rv = revision + 1] # Nothing
        BY <2>1, ClusterAssumption
    <2>3. [o EXCEPT !.rv = revision + 1].meta = o.meta /\ [o EXCEPT !.rv = revision + 1].spec = o.spec
        BY DEF Objects
    <2>4. objects'[ref] = IF o.terminating /\ ~Held(ref, o) THEN Nothing ELSE [o EXCEPT !.rv = revision + 1]
        BY <1>2 DEF Write, Store, ClusterTypeOK
    <2>5. \A other \in Refs \ {ref} : objects'[other] = objects[other]
        BY <1>2 DEF Write, Store, ClusterTypeOK
    <2>6. QED
        BY <2>2, <2>3, <2>4, <2>5
<1>3. QED
    BY <1>1, <1>2

LEMMA StoreTouchesOne ==
    ASSUME ClusterTypeOK, NEW ref \in Refs, NEW o, Store(ref, o) \/ Write(ref, o)
    PROVE  \A other \in Refs \ {ref} : objects'[other] = objects[other]
<1>1. CASE UNCHANGED objectVars
    BY <1>1 DEF objectVars
<1>2. CASE Store(ref, o)
    BY <1>2 DEF Store, ClusterTypeOK
<1>3. QED
    BY <1>1, <1>2 DEF Write

LEMMA ForeignTouchesOne ==
    ASSUME ClusterTypeOK, ForeignWrite
    PROVE  /\ foreign' = foreign + 1
           /\ \A ref, other \in Refs :
                 objects'[ref] # objects[ref] /\ objects'[other] # objects[other] => ref = other
<1>1. ASSUME NEW ref \in Refs, NEW o, Store(ref, o) \/ Write(ref, o), foreign' = foreign + 1
      PROVE  /\ foreign' = foreign + 1
             /\ \A one, other \in Refs :
                   objects'[one] # objects[one] /\ objects'[other] # objects[other] => one = other
    BY <1>1, StoreTouchesOne
<1>2. ASSUME NEW ref \in Refs, \/ Create(ref) \/ RequestDelete(ref) \/ AddFinalizer(ref) \/ DropFinalizer(ref)
                               \/ Touch(ref) \/ SetConditions(ref) \/ Reown(ref)
      PROVE  foreign' = foreign + 1 /\ \E o : Store(ref, o) \/ Write(ref, o)
    BY <1>2 DEF Foreign, Create, RequestDelete, AddFinalizer, DropFinalizer, Touch, SetConditions, Reown,
                Delete, PatchFinalizers
<1>3. CASE ChangeAPIService \/ ChangeCRD \/ ChangeWebhook \/ ChangeEndpoints
    BY <1>3 DEF Foreign, ChangeAPIService, ChangeCRD, ChangeWebhook, ChangeEndpoints
<1>4. QED
    BY <1>1, <1>2, <1>3 DEF ForeignWrite
=============================================================================
