----------------------------- MODULE ScanProofs -----------------------------
(***************************************************************************)
(* What holds of a scan of any cluster, however many API groups are down,  *)
(* calls fail and others write meanwhile.                                  *)
(***************************************************************************)
EXTENDS ScanProperties, ClusterProofs

-----------------------------------------------------------------------------
(* Typing *)

LEMMA JudgedType ==
    ASSUME ScanTypeOK, NEW ref \in Refs, targets[ref] # Nothing
    PROVE  Digest(ref, Judged(ref), targets[ref].rv) \in Tokens
<1> DEFINE s == [snap EXCEPT !.obj = targets[ref]]
<1>1. s \in Snapshots /\ s.obj = targets[ref]
    BY DEF ScanTypeOK, Snapshots
<1> HIDE DEF s
<1>2. Digest(ref, Verdicts(ref, s, Strategy), s.obj.rv) \in Tokens
    BY <1>1, DigestType
<1>3. QED
    BY <1>1, <1>2 DEF Judged, s

LEMMA ScanTypedInit == Init => ScanTypeOK
<1> SUFFICES ASSUME Init PROVE ScanTypeOK
    OBVIOUS
<1>1. ClusterTypeOK
    BY ClusterAssumption DEF Init, ClusterInit, ClusterTypeOK, Availability
<1>2. QED
    BY <1>1, EmptySnapshotType DEF Init, ScanTypeOK

LEMMA ScanTypedStep == ScanTypeOK /\ [Next]_vars => ScanTypeOK'
<1> SUFFICES ASSUME ScanTypeOK, [Next]_vars PROVE ScanTypeOK'
    OBVIOUS
<1>0. ClusterTypeOK /\ (CallFails => faults' \in Nat)
    BY DEF ScanTypeOK, CallFails
<1>1. ASSUME UNCHANGED clusterVars PROVE ClusterTypeOK'
    BY <1>0, <1>1 DEF ClusterTypeOK, clusterVars
<1>2. CASE Discover
    <2>1. skipped' \subseteq Groups /\ todo' \subseteq DOMAIN Catalog /\ faults' \in Nat
        BY <1>0, <1>2 DEF Discover, ScanTypeOK
    <2>2. pc' \in {"list", "done"} /\ exit' \in {0, 1, exit}
        BY <1>2 DEF Discover, Finish
    <2>3. QED
        BY <1>1, <1>2, <2>1, <2>2 DEF Discover, ScanTypeOK
<1>3. CASE ListNext
    <2>1. todo' \subseteq DOMAIN Catalog /\ unlisted' \subseteq DOMAIN Catalog /\ refs' \subseteq Refs
              /\ faults' \in Nat
        BY <1>0, <1>3 DEF ListNext, ScanTypeOK, StuckIn
    <2>2. pc' \in {"list", "get", "done"} /\ exit' \in {0, exit}
        BY <1>3 DEF ListNext, ListsEnd, Finish
    <2>3. QED
        BY <1>1, <1>3, <2>1, <2>2 DEF ListNext, ScanTypeOK
<1>4. CASE GetNext
    <2>1. refs' \subseteq Refs /\ unread' \subseteq Refs /\ faults' \in Nat
        BY <1>0, <1>4 DEF GetNext, ScanTypeOK
    <2>2. targets' \in [Refs -> Objects \union {Nothing}]
        BY <1>0, <1>4 DEF GetNext, ScanTypeOK, ClusterTypeOK
    <2>3. pc' \in {"get", "apiservices"} /\ snap' \in Snapshots
        BY <1>4 DEF GetNext, ScanTypeOK, Snapshots, Sources
    <2>4. QED
        BY <1>1, <1>4, <2>1, <2>2, <2>3, ReadsListed DEF GetNext, ScanTypeOK
<1>5. CASE ReadSource
    <2>1. pc' \in DOMAIN NextRead \union {"judge"}
        BY <1>5, ReadsListed DEF ReadSource, NextRead
    <2>2. snap' \in Snapshots /\ faults' \in Nat
        BY <1>0, <1>5, FillType DEF ReadSource, ScanTypeOK
    <2>3. QED
        BY <1>1, <1>5, <2>1, <2>2 DEF ReadSource, ScanTypeOK
<1>6. CASE Report
    <2>1. reported' \subseteq Refs /\ \A ref \in reported' : targets[ref] # Nothing
        BY <1>6 DEF Report
    <2>2. printed' \subseteq Tokens
        BY <1>6, <2>1, JudgedType DEF Report
    <2>3. pc' = "done" /\ exit' \in {0, 2}
        BY <1>6 DEF Report, Finish
    <2>4. QED
        BY <1>1, <1>6, <2>1, <2>2, <2>3 DEF Report, ScanTypeOK
<1>7. CASE ForeignWrite /\ UNCHANGED <<scanVars, faults>>
    BY <1>0, <1>7, ForeignAdvances DEF scanVars, ScanTypeOK
<1>8. CASE UNCHANGED vars
    BY <1>1, <1>8 DEF vars, scanVars, ScanTypeOK
<1>9. QED
    BY <1>2, <1>3, <1>4, <1>5, <1>6, <1>7, <1>8 DEF Next, Step

(* Every variable of a scan stays within its type; in particular what it prints    *)
(* are tokens of objects it has read.                                             *)
THEOREM ScanTypeCorrect == Spec => []ScanTypeOK
    BY ScanTypedInit, ScanTypedStep, PTL DEF Spec

-----------------------------------------------------------------------------
(* Nothing is hidden *)

(* The resources of an object in the catalog. *)
Entry(ref) == {i \in DOMAIN Catalog : InCatalog(ref, Catalog[i])}

(* Excused for good: its group was not resolved, its list or its Get failed.       *)
LeftOut(ref) ==
    \/ Resource[ref].group \in skipped
    \/ \E i \in Entry(ref) : ~Catalog[i].list \/ i \in unlisted
    \/ ref \in unread

(* Where a scan stands with an object that is stuck: it is about to be listed, to  *)
(* be read, or to be reported, if it is not excused.                              *)
Followed(ref) ==
    \/ pc = "discover"
    \/ pc # "discover" /\ LeftOut(ref)
    \/ pc = "done" /\ exit = 1
    \/ pc = "list" /\ (Entry(ref) \intersect todo # {} \/ ref \in refs)
    \/ pc = "get" /\ (ref \in refs \/ targets[ref] # Nothing)
    \/ pc \in DOMAIN NextRead \union {"judge"} /\ targets[ref] # Nothing
    \/ pc = "done" /\ ref \in reported

(* No step loses sight of an object that is stuck while it is taken.               *)
LEMMA StaysFollowed ==
    ASSUME ScanTypeOK, [Next]_vars, NEW ref \in Refs, StuckNow(ref), Followed(ref)
    PROVE  Followed(ref)'
<1>1. CASE Discover
    <2>1. CASE pc' = "done" /\ exit' = 1
        BY <2>1 DEF Followed
    <2>2. CASE ~(pc' = "done" /\ exit' = 1)
        <3>1. PICK failed \in SUBSET Groups :
                  /\ skipped' = failed
                  /\ todo' = {i \in DOMAIN Catalog : Catalog[i].list /\ Catalog[i].group \notin failed}
                  /\ IF todo' = {} THEN Finish(0) ELSE pc' = "list" /\ UNCHANGED exit
            BY <1>1, <2>2 DEF Discover, Finish
        <3>2. PICK i \in DOMAIN Catalog : InCatalog(ref, Catalog[i])
            BY ScanAssumption DEF InCatalog
        <3>3. CASE Resource[ref].group \in failed \/ ~Catalog[i].list
            BY <3>1, <3>2, <3>3 DEF Followed, LeftOut, Entry, Finish
        <3>4. CASE Resource[ref].group \notin failed /\ Catalog[i].list
            BY <3>1, <3>2, <3>4 DEF Followed, Entry, InCatalog
        <3>5. QED
            BY <3>3, <3>4
    <2>3. QED
        BY <2>1, <2>2
<1>2. CASE ListNext
    <2>1. PICK i \in todo : /\ todo' = todo \ {i}
                            /\ \/ refs' = refs \union StuckIn(Catalog[i]) /\ UNCHANGED unlisted
                               \/ unlisted' = unlisted \union {i} /\ UNCHANGED refs
        BY <1>2 DEF ListNext
    <2>2. /\ pc = "list" /\ UNCHANGED <<skipped, unread>>
          /\ todo' # {} => pc' = "list"
          /\ refs' # {} => pc' \in {"list", "get"}
          /\ pc' \in {"list", "get", "done"}
        BY <1>2 DEF ListNext, ListsEnd, Finish
    <2>3. CASE LeftOut(ref)
        BY <2>1, <2>2, <2>3 DEF Followed, LeftOut
    <2>4. CASE ref \in refs
        BY <2>1, <2>2, <2>4 DEF Followed
    <2>5. CASE Entry(ref) \intersect todo' # {}
        BY <2>2, <2>5 DEF Followed, Entry
    <2>6. CASE i \in Entry(ref)
        <3>1. ref \in StuckIn(Catalog[i])
            BY <2>6 DEF Entry, InCatalog, StuckIn, StuckNow, Stuck
        <3>2. QED
            BY <2>1, <2>2, <2>6, <3>1 DEF Followed, LeftOut, Entry
    <2>7. QED
        BY <2>1, <2>2, <2>3, <2>4, <2>5, <2>6, ReadsListed DEF Followed, Entry
<1>3. CASE GetNext
    <2>1. PICK r \in refs : /\ refs' = refs \ {r}
                            /\ \/ targets' = [targets EXCEPT ![r] = objects[r]] /\ UNCHANGED unread
                               \/ unread' = unread \union {r} /\ UNCHANGED targets
        BY <1>3 DEF GetNext
    <2>2. /\ pc = "get" /\ UNCHANGED <<skipped, unlisted>>
          /\ IF refs' # {} THEN pc' = "get" ELSE pc' = "apiservices"
        BY <1>3 DEF GetNext
    <2>3. CASE LeftOut(ref)
        BY <2>1, <2>2, <2>3 DEF Followed, LeftOut, Entry
    <2>4. objects[ref] # Nothing
        BY DEF StuckNow, Exists
    <2>5. ~LeftOut(ref) => ref \in unread' \/ ref \in refs' \/ targets'[ref] # Nothing
        BY <2>1, <2>2, <2>4, ReadsListed DEF Followed, ScanTypeOK
    <2>6. QED
        BY <2>2, <2>3, <2>5, ReadsListed DEF Followed, LeftOut
<1>4. CASE ReadSource
    <2>1. pc' \in DOMAIN NextRead \union {"judge"}
        BY <1>4, ReadsListed DEF ReadSource, NextRead
    <2>2. QED
        BY <1>4, <2>1, ReadsListed DEF ReadSource, Followed, LeftOut, Entry
<1>5. CASE Report
    <2>1. LeftOut(ref) \/ targets[ref] # Nothing
        BY <1>5, ReadsListed DEF Report, Followed
    <2>2. pc' = "done" /\ (targets[ref] # Nothing => ref \in reported') /\ UNCHANGED <<skipped, unlisted, unread>>
        BY <1>5 DEF Report, Finish
    <2>3. QED
        BY <2>1, <2>2 DEF Followed, LeftOut, Entry
<1>6. CASE UNCHANGED scanVars
    BY <1>6 DEF scanVars, Followed, LeftOut, Entry
<1>7. QED
    BY <1>1, <1>2, <1>3, <1>4, <1>5, <1>6 DEF Next, Step, vars

(* Whatever is stuck from the first to the last moment of a scan is in its report,  *)
(* or the scan failed, or its group, its resource or it alone could not be read:    *)
(* in Scan and Build no failure hides another object.                               *)
THEOREM NothingIsHidden == Spec => NothingHidden
<1> SUFFICES ASSUME NEW ref \in Refs
             PROVE  Spec => ([]StuckNow(ref) => [](pc = "done" => ref \in reported \/ Excused(ref)))
    BY DEF NothingHidden
<1>1. Init => ScanTypeOK /\ Followed(ref)
    BY ScanTypedInit DEF Init, Followed
<1>2. StuckNow(ref) /\ (ScanTypeOK /\ Followed(ref)) /\ [Next]_vars => (ScanTypeOK /\ Followed(ref))'
    BY ScanTypedStep, StaysFollowed
<1>3. ScanTypeOK /\ Followed(ref) => (pc = "done" => ref \in reported \/ Excused(ref))
    BY ReadsListed DEF Followed, LeftOut, Entry, Excused
<1>4. QED
    BY <1>1, <1>2, <1>3, PTL DEF Spec

-----------------------------------------------------------------------------
(* A token is printed where it works *)

(* While nobody else writes and no call fails: what a scan has read so far is what  *)
(* is there, and its report is about that.                                        *)
Judging == pc = "judge" \/ (pc = "done" /\ exit = 2)

ServicesRead == Judging \/ pc \in {"crds", "webhooks", "mutating", "workloads", "pods", "endpointslices"}

CRDsRead == Judging \/ pc \in {"webhooks", "mutating", "workloads", "pods", "endpointslices"}

HooksRead ==
    CASE pc \in {"workloads", "pods", "endpointslices"} \/ Judging -> hooks
      [] pc = "mutating" -> {hook \in hooks : hook.config = "webhooks"}
      [] OTHER -> {}

Quiet == foreign = 0 /\ faults = 0

ReadsTrue ==
    /\ pc \in {"discover", "list", "get"} => snap = EmptySnapshot
    /\ \A ref \in Refs : targets[ref] \in {Nothing, objects[ref]}
    /\ ServicesRead => snap.available = available /\ "apiservices" \in snap.readable
    /\ CRDsRead => snap.crds = installed /\ "crds" \in snap.readable
    /\ pc # "done" \/ exit = 2 => snap.hooks = HooksRead
    /\ Judging => snap.endpoints = endpoints /\ "endpointslices" \in snap.readable
    /\ pc = "done" /\ exit = 2 =>
          /\ reported = {ref \in Refs : targets[ref] # Nothing}
          /\ printed = {Digest(ref, Judged(ref), targets[ref].rv) :
                           ref \in {ref \in reported : JointlyDead(Judged(ref)) /\ ~Blocks(snap, ref)}}

LEMMA QuietStep ==
    ASSUME ScanTypeOK, [Next]_vars, Quiet'
    PROVE  Quiet /\ UNCHANGED clusterVars
<1>1. ForeignWrite => foreign' = foreign + 1
    BY ForeignTouchesOne DEF ScanTypeOK
<1>2. /\ foreign \in Nat /\ faults \in Nat
      /\ CallFails => faults' = faults + 1
    BY DEF ScanTypeOK, ClusterTypeOK, CallFails
<1>3. foreign' = 0 /\ faults' = 0
    BY DEF Quiet
<1>4. ~ForeignWrite /\ ~CallFails
    BY <1>1, <1>2, <1>3
<1>5. CASE Step
    <2>1. faults' = faults /\ UNCHANGED clusterVars
        BY <1>4, <1>5 DEF Step, Discover, ListNext, GetNext, ReadSource, Report
    <2>2. QED
        BY <1>3, <2>1 DEF Quiet, clusterVars
<1>6. CASE UNCHANGED vars
    BY <1>3, <1>6 DEF vars, Quiet, clusterVars
<1>7. QED
    BY <1>4, <1>5, <1>6 DEF Next

LEMMA ReadsTrueStep ==
    ASSUME ScanTypeOK, Quiet, ReadsTrue, [Next]_vars, UNCHANGED clusterVars, faults' = faults
    PROVE  ReadsTrue'
<1>0. UNCHANGED <<objects, available, installed, hooks, endpoints>> /\ ~CallFails
    BY DEF clusterVars, CallFails, ScanTypeOK
<1>1. CASE Discover
    <2>1. /\ pc' \in {"list", "done"} /\ (pc' = "done" => exit' = 0) /\ UNCHANGED <<targets, snap>>
          /\ pc = "discover"
        BY <1>0, <1>1 DEF Discover, Finish
    <2>2. ~Judging' /\ ~ServicesRead' /\ ~CRDsRead' /\ HooksRead' = {} /\ HooksRead = {}
        BY <2>1 DEF ServicesRead, CRDsRead, HooksRead, Judging
    <2>3. QED
        BY <1>0, <2>1, <2>2 DEF ReadsTrue
<1>2. CASE ListNext
    <2>1. /\ pc' \in {"list", "get", "done"} /\ (pc' = "done" => exit' = 0) /\ UNCHANGED <<targets, snap>>
          /\ pc = "list"
        BY <1>2 DEF ListNext, ListsEnd, Finish
    <2>2. ~Judging' /\ ~ServicesRead' /\ ~CRDsRead' /\ HooksRead' = {} /\ HooksRead = {}
        BY <2>1 DEF ServicesRead, CRDsRead, HooksRead, Judging
    <2>3. QED
        BY <1>0, <2>1, <2>2 DEF ReadsTrue
<1>3. CASE GetNext
    <2>1. PICK r : UNCHANGED targets \/ targets' = [targets EXCEPT ![r] = objects[r]]
        BY <1>3 DEF GetNext
    <2>2. \A ref \in Refs : targets'[ref] \in {Nothing, objects'[ref]}
        BY <1>0, <2>1 DEF ReadsTrue, ScanTypeOK
    <2>3. /\ pc = "get"
          /\ \/ pc' = "get" /\ UNCHANGED snap
             \/ pc' = "apiservices" /\ snap'.hooks = snap.hooks
        BY <1>3 DEF GetNext, ScanTypeOK, Snapshots
    <2>4. snap = EmptySnapshot /\ snap.hooks = {}
        BY <2>3 DEF ReadsTrue, EmptySnapshot
    <2>5. QED
        BY <1>0, <2>2, <2>3, <2>4 DEF ReadsTrue, ServicesRead, CRDsRead, HooksRead, Judging
<1>4. CASE ReadSource
    <2>1. pc \in DOMAIN NextRead /\ pc' = NextRead[pc] /\ snap' = Fill(snap, pc) /\ UNCHANGED targets
        BY <1>0, <1>4 DEF ReadSource
    <2>2. \A hook \in hooks : hook.config \in {"webhooks", "mutating"}
        BY ClusterAssumption DEF ScanTypeOK, ClusterTypeOK
    <2>3. snap'.hooks = HooksRead'
        <3>1. snap.hooks = HooksRead
            BY <2>1, ReadsListed DEF ReadsTrue
        <3>2. snap'.hooks = IF pc \in {"webhooks", "mutating"}
                            THEN snap.hooks \union {hook \in hooks : hook.config = pc} ELSE snap.hooks
            BY <2>1, ReadsListed DEF Fill, ScanTypeOK, Snapshots
        <3>3. pc \in {"workloads", "pods", "endpointslices"} => HooksRead = hooks /\ HooksRead' = hooks'
            BY <2>1 DEF NextRead, HooksRead, Judging
        <3>4. pc \in {"apiservices", "crds"} => HooksRead = {} /\ HooksRead' = {}
            BY <2>1 DEF NextRead, HooksRead, Judging
        <3>5. pc = "webhooks" => HooksRead = {} /\ HooksRead' = {hook \in hooks' : hook.config = "webhooks"}
            BY <2>1 DEF NextRead, HooksRead, Judging
        <3>6. pc = "mutating" => HooksRead = {hook \in hooks : hook.config = "webhooks"} /\ HooksRead' = hooks'
            BY <2>1 DEF NextRead, HooksRead, Judging
        <3>7. QED
            BY <1>0, <2>1, <2>2, <3>1, <3>2, <3>3, <3>4, <3>5, <3>6, ReadsListed
    <2>4. /\ pc' # "judge" => pc' \in {"crds", "webhooks", "mutating", "workloads", "pods", "endpointslices"}
          /\ pc' # "done"
          /\ pc' = "crds" => pc = "apiservices"
          /\ pc' = "webhooks" => pc = "crds"
          /\ pc' = "judge" => pc = "endpointslices"
          /\ pc' \in {"mutating", "workloads", "pods", "endpointslices"} =>
                pc \in {"webhooks", "mutating", "workloads", "pods"}
        BY <2>1, ReadsListed DEF NextRead
    <2>5. snap.readable \subseteq snap'.readable
        BY <2>1, ReadsListed DEF Fill, ScanTypeOK, Snapshots
    <2>6. ServicesRead' => snap'.available = available' /\ "apiservices" \in snap'.readable
        BY <1>0, <2>1, <2>4, <2>5, ReadsListed DEF Fill, ReadsTrue, ServicesRead, Judging, ScanTypeOK, Snapshots, Sources
    <2>7. CRDsRead' => snap'.crds = installed' /\ "crds" \in snap'.readable
        BY <1>0, <2>1, <2>4, <2>5, ReadsListed DEF Fill, ReadsTrue, CRDsRead, Judging, ScanTypeOK, Snapshots, Sources
    <2>8. Judging' => snap'.endpoints = endpoints' /\ "endpointslices" \in snap'.readable
        BY <1>0, <2>1, <2>4, ReadsListed DEF Fill, Judging, ScanTypeOK, Snapshots, Sources, LivenessSources
    <2>9. \A ref \in Refs : targets'[ref] \in {Nothing, objects'[ref]}
        BY <1>0, <2>1 DEF ReadsTrue
    <2>10. QED
        BY <2>3, <2>4, <2>6, <2>7, <2>8, <2>9 DEF ReadsTrue
<1>5. CASE Report
    <2>1. pc = "judge" /\ pc' = "done" /\ UNCHANGED <<targets, snap>>
        BY <1>5 DEF Report, Finish
    <2>2. /\ reported' = {ref \in Refs : targets'[ref] # Nothing}
          /\ printed' = {Digest(ref, Judged(ref)', targets'[ref].rv) :
                           ref \in {ref \in reported' : JointlyDead(Judged(ref)') /\ ~Blocks(snap', ref)}}
        BY <1>5, <2>1 DEF Report, Judged
    <2>3. QED
        BY <1>0, <2>1, <2>2 DEF ReadsTrue, ServicesRead, CRDsRead, HooksRead, Judging
<1>6. CASE UNCHANGED scanVars
    <2>1. \A ref : Judged(ref)' = Judged(ref)
        BY <1>6 DEF scanVars, Judged
    <2>2. QED
        BY <1>0, <1>6, <2>1 DEF scanVars, ReadsTrue, ServicesRead, CRDsRead, HooksRead, Judging
<1>7. QED
    BY <1>1, <1>2, <1>3, <1>4, <1>5, <1>6 DEF Next, Step, vars

(* A verdict rests on the two lists and on whether those were read.                *)
LEMMA SameState ==
    ASSUME NEW a, NEW b, a.apiservices = b.apiservices, a.crds = b.crds,
           Readable(a, "apiservices") <=> Readable(b, "apiservices"), Readable(a, "crds") <=> Readable(b, "crds"),
           NEW f, NEW isNamespace, NEW conds, NEW strategy
    PROVE  StateOf(f, isNamespace, conds, a, strategy) = StateOf(f, isNamespace, conds, b, strategy)
<1>1. MapOwner(f, a) = MapOwner(f, b)
    BY DEF MapOwner
<1>2. \A owner : ProbeAPIService(owner, a) = ProbeAPIService(owner, b)
    BY DEF ProbeAPIService
<1>3. \A owner : ProbeFor(owner, a) = ProbeFor(owner, b)
    BY <1>2 DEF ProbeFor
<1>4. DeadAggregatedAPIService(a) = DeadAggregatedAPIService(b)
    BY DEF DeadAggregatedAPIService
<1>5. \A group : CRDExistsForGroup(a, group) = CRDExistsForGroup(b, group)
    BY DEF CRDExistsForGroup
<1>6. NamespaceKubernetes(conds, a) = NamespaceKubernetes(conds, b)
    BY <1>4, <1>5 DEF NamespaceKubernetes
<1>7. QED
    BY <1>1, <1>3, <1>6 DEF StateOf

LEMMA SameVerdicts ==
    ASSUME NEW ref, NEW s, NEW t, s.obj = t.obj, s.available = t.available, s.crds = t.crds,
           {"apiservices", "crds"} \subseteq s.readable, {"apiservices", "crds"} \subseteq t.readable,
           NEW strategy
    PROVE  Verdicts(ref, s, strategy) = Verdicts(ref, t, strategy)
<1> DEFINE a == Evidences(s)  b == Evidences(t)
<1>1. a.apiservices = b.apiservices /\ a.crds = b.crds
    BY DEF Evidences
<1>2. /\ Readable(a, "apiservices") /\ Readable(b, "apiservices")
      /\ Readable(a, "crds") /\ Readable(b, "crds")
    BY DEF Evidences, Readable
<1> HIDE DEF a, b
<1>3. \A f, n, c : StateOf(f, n, c, a, strategy) = StateOf(f, n, c, b, strategy)
    BY <1>1, <1>2, SameState
<1>4. Diagnose(s.obj, ref \in NsRefs, a, strategy) = Diagnose(t.obj, ref \in NsRefs, b, strategy)
    BY <1>3 DEF Diagnose
<1>5. QED
    BY <1>4 DEF Verdicts, a, b

(* At the end, a token stands for its object's verdict and for the webhooks.        *)
LEMMA Offered ==
    ASSUME ScanTypeOK, Quiet, ReadsTrue, pc = "done", exit = 2, NEW ref \in reported
    PROVE  (\E token \in printed : token.ref = ref /\ token.rv = objects[ref].rv)
               <=> Deserves(ref) /\ ~Blocks(snap, ref)
<1>1. /\ reported = {r \in Refs : targets[r] # Nothing}
      /\ printed = {Digest(r, Judged(r), targets[r].rv) :
                       r \in {r \in reported : JointlyDead(Judged(r)) /\ ~Blocks(snap, r)}}
    BY DEF ReadsTrue
<1>2. ref \in Refs /\ targets[ref] = objects[ref]
    BY <1>1 DEF ReadsTrue
<1>3. snap.available = available /\ snap.crds = installed /\ {"apiservices", "crds"} \subseteq snap.readable
    BY DEF ReadsTrue, ServicesRead, CRDsRead, Judging
<1>4. Judged(ref) = Verdicts(ref, Full(ref), Strategy)
    <2> DEFINE s == [snap EXCEPT !.obj = targets[ref]]
               t == Full(ref)
    <2>1. /\ s.obj = objects[ref] /\ s.available = available /\ s.crds = installed
          /\ {"apiservices", "crds"} \subseteq s.readable
        BY <1>2, <1>3 DEF ScanTypeOK, Snapshots
    <2>2. /\ t.obj = objects[ref] /\ t.available = available /\ t.crds = installed
          /\ {"apiservices", "crds"} \subseteq t.readable
        BY DEF Full, Sources
    <2> HIDE DEF s, t
    <2>3. Verdicts(ref, s, Strategy) = Verdicts(ref, t, Strategy)
        BY <2>1, <2>2, SameVerdicts
    <2>4. QED
        BY <2>3 DEF Judged, s, t
<1>5. \A r, v, rv : Digest(r, v, rv).ref = r /\ Digest(r, v, rv).rv = rv
    BY DEF Digest
<1>6. QED
    BY <1>1, <1>2, <1>4, <1>5 DEF Deserves

(* Where readiness is stated, a dead backend is one that does not answer.           *)
LEMMA StatedBackend ==
    ASSUME ScanTypeOK, Quiet, ReadsTrue, pc = "done", exit = 2, NEW b \in Backends
    PROVE  /\ Stated(b) /\ ~Answers(b) => b \notin URLs /\ ServiceDeadByEndpoints(snap, b)
           /\ Stated(b) /\ ServiceDeadByEndpoints(snap, b) => ~Answers(b)
<1>1. snap.endpoints = endpoints /\ "endpointslices" \in snap.readable
    BY DEF ReadsTrue, Judging
<1>2. QED
    BY <1>1 DEF Stated, Answers, ServiceDeadByEndpoints, Readable

(* A token is printed for what is DEAD and for nothing else; for a webhook it is     *)
(* withheld if a request of the clear would be rejected and only then, but where     *)
(* readiness is not stated, a rule names subresources, or a namespace needs a        *)
(* /finalize and no patch: those are all the mistakes Blocks makes, for any set of   *)
(* webhooks, rules, backends and endpoint slices and any objects.                   *)
THEOREM TokenIsDue == Spec => []TokenIffItWorks
<1> DEFINE Inv == ScanTypeOK /\ (Quiet => ReadsTrue)
<1>1. Init => Inv
    BY ScanTypedInit DEF Init, ReadsTrue, ServicesRead, CRDsRead, HooksRead, Judging, EmptySnapshot
<1>2. Inv /\ [Next]_vars => Inv'
    <2> SUFFICES ASSUME Inv, [Next]_vars, Quiet' PROVE ReadsTrue'
        BY ScanTypedStep
    <2>1. Quiet /\ UNCHANGED clusterVars
        BY QuietStep
    <2>2. faults' = faults
        BY <2>1 DEF Quiet
    <2>3. QED
        BY <2>1, <2>2, ReadsTrueStep
<1>3. Inv => TokenIffItWorks
    <2> SUFFICES ASSUME ScanTypeOK, Quiet, ReadsTrue, pc = "done", exit = 2, NEW ref \in reported,
                        NEW offered \in BOOLEAN,
                        offered = \E token \in printed : token.ref = ref /\ token.rv = objects[ref].rv,
                        NEW backends, backends = {hook.backend : hook \in hooks}
                 PROVE  LET rejected == RejectsClear(ref)
                        IN  /\ offered => Deserves(ref)
                            /\ Deserves(ref) /\ ~offered =>
                                  rejected \/ RefusedForNothing(ref) \/ \E b \in backends \ URLs : ~Stated(b)
                            /\ offered /\ rejected =>
                                  (\E b \in backends : ~Stated(b)) \/ \E hook \in hooks : Unforeseen(hook)
        BY DEF TokenIffItWorks, Quiet
    <2>1. offered <=> Deserves(ref) /\ ~Blocks(snap, ref)
        BY Offered
    <2>2. snap.hooks = hooks /\ \A hook \in hooks : hook.backend \in Backends /\ hook.backend \in backends
        BY ClusterAssumption DEF ReadsTrue, HooksRead, Judging, ScanTypeOK, ClusterTypeOK
    <2>3. ASSUME Blocks(snap, ref), \A b \in backends \ URLs : Stated(b)
          PROVE  RejectsClear(ref) \/ RefusedForNothing(ref)
        <3>1. PICK hook \in hooks : /\ hook.policy # "Ignore" /\ RulesMatch(hook.rules, ref)
                                    /\ hook.backend \notin URLs /\ ServiceDeadByEndpoints(snap, hook.backend)
            BY <2>2, <2>3 DEF Blocks
        <3>2. ~Answers(hook.backend)
            BY <2>2, <2>3, <3>1, StatedBackend
        <3>3. Intercepts(hook, ref, "UPDATE", ResourceNames(ref))
            BY <3>1 DEF RulesMatch, SliceMatches, Intercepts, ResourceNames
        <3>4. Rejects(ref, "UPDATE", ResourceNames(ref))
            BY <3>2, <3>3 DEF Rejects
        <3>5. QED
            BY <3>4 DEF RejectsClear, RefusedForNothing
    <2>4. ASSUME RejectsClear(ref), \A b \in backends : Stated(b), \A hook \in hooks : ~Unforeseen(hook)
          PROVE  Blocks(snap, ref)
        <3>1. ~Rejects(ref, "UPDATE", FinalizeNames)
            BY <2>4 DEF Rejects, Intercepts, Unforeseen
        <3>2. PICK hook \in hooks : Intercepts(hook, ref, "UPDATE", ResourceNames(ref)) /\ ~Answers(hook.backend)
            BY <2>4, <3>1 DEF RejectsClear, Rejects
        <3>3. hook.backend \notin URLs /\ ServiceDeadByEndpoints(snap, hook.backend)
            BY <2>2, <2>4, <3>2, StatedBackend
        <3>4. RulesMatch(hook.rules, ref)
            BY <2>4, <3>2 DEF RulesMatch, SliceMatches, Intercepts, ResourceNames, Unforeseen
        <3>5. QED
            BY <2>2, <3>2, <3>3, <3>4 DEF Blocks, Intercepts
    <2>5. QED
        BY <2>1, <2>3, <2>4
<1>4. QED
    BY <1>1, <1>2, <1>3, PTL DEF Spec

-----------------------------------------------------------------------------
(* What is served is not DEAD *)

(* No snapshot shows an API down that may own f, and no token says it is DEAD.      *)
UpSeen(f) ==
    \A i \in DOMAIN Registrations :
        /\ Registrations[i].aggregated
        /\ f = Kubernetes \/ IsSuffix(Registrations[i].group, f.domain)
        => snap.available[i] # "False"

NotOffered(f) == \A token \in printed : <<f, "DEAD">> \notin token.pairs

(* A snapshot shows of the APIs what it was given before, or what is there.         *)
LEMMA AvailableRead ==
    ASSUME ScanTypeOK, [Next]_vars
    PROVE  snap'.available \in {snap.available, available}
<1>1. CASE ReadSource
    <2>1. CASE snap' = Fill(snap, pc)
        BY <1>1, <2>1, ReadsListed DEF ReadSource, Fill, ScanTypeOK, Snapshots
    <2>2. CASE UNCHANGED snap
        BY <2>2
    <2>3. QED
        BY <1>1, <2>1, <2>2 DEF ReadSource
<1>2. CASE GetNext
    BY <1>2 DEF GetNext, ScanTypeOK, Snapshots
<1>3. CASE Discover \/ ListNext \/ Report \/ UNCHANGED scanVars
    BY <1>3 DEF Discover, ListNext, Report, scanVars
<1>4. QED
    BY <1>1, <1>2, <1>3 DEF Next, Step, vars

LEMMA ReportOffersNot ==
    ASSUME ScanTypeOK, Report, NEW f, UpSeen(f)
    PROVE  NotOffered(f)'
<1> SUFFICES ASSUME NEW ref \in Refs, targets[ref] # Nothing
             PROVE  <<f, "DEAD">> \notin Digest(ref, Judged(ref), targets[ref].rv).pairs
    BY DEF Report, NotOffered
<1> DEFINE s == [snap EXCEPT !.obj = targets[ref]]
           isNs == ref \in NsRefs
<1>1. s \in Snapshots /\ s.available = snap.available /\ s.obj = targets[ref]
    BY DEF ScanTypeOK, Snapshots
<1>2. Judged(ref) = Verdicts(ref, s, Strategy)
    BY DEF Judged
<1> HIDE DEF s
<1>3. ASSUME NEW v \in Verdicts(ref, s, Strategy), v.finalizer = f
      PROVE  v.state # "DEAD"
    <2>1. v.state = StateOf(f, isNs, s.obj.conds, Evidences(s), Strategy)
        BY <1>3 DEF Verdicts, Diagnose
    <2> HIDE DEF isNs
    <2>2. QED
        BY <1>1, <2>1, DeadRestsOnDown DEF UpSeen
<1>4. QED
    BY <1>2, <1>3 DEF Digest

(* For any registrations, objects and failures, and whoever writes meanwhile: a     *)
(* finalizer whose possible owners are up from the first to the last moment of a    *)
(* scan is DEAD in no token of it.                                                *)
THEOREM ServedCorrect == Spec => ServedIsNeverDead
<1> SUFFICES ASSUME NEW f \in Finalizers
             PROVE  Spec => ([]OwnersUp(f) => [](\A token \in printed : <<f, "DEAD">> \notin token.pairs))
    BY DEF ServedIsNeverDead
<1> DEFINE Inv == ScanTypeOK /\ UpSeen(f) /\ NotOffered(f)
<1>1. Init => Inv
    BY ScanTypedInit DEF Init, UpSeen, NotOffered, EmptySnapshot
<1>2. OwnersUp(f) /\ Inv /\ [Next]_vars => Inv'
    <2> SUFFICES ASSUME OwnersUp(f), ScanTypeOK, UpSeen(f), NotOffered(f), [Next]_vars
                 PROVE  UpSeen(f)' /\ NotOffered(f)'
        BY ScanTypedStep
    <2>1. UpSeen(f)'
        BY AvailableRead DEF OwnersUp, UpSeen
    <2>2. CASE Report
        BY <2>1, <2>2, ReportOffersNot
    <2>3. CASE ~Report
        <3>1. printed' = printed
            BY <2>3 DEF Next, Step, Discover, ListNext, GetNext, ReadSource, vars, scanVars
        <3>2. QED
            BY <2>1, <3>1 DEF NotOffered
    <2>4. QED
        BY <2>2, <2>3
<1>3. Inv => \A token \in printed : <<f, "DEAD">> \notin token.pairs
    BY DEF NotOffered
<1>4. QED
    BY <1>1, <1>2, <1>3, PTL DEF Spec
=============================================================================
