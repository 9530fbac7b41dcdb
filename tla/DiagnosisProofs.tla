--------------------------- MODULE DiagnosisProofs ---------------------------
(***************************************************************************)
(* What DEAD rests on, for snapshots of any length, any groups, finalizers *)
(* and conditions, and either strategy.                                    *)
(***************************************************************************)
EXTENDS DiagnosisCheck, DiagnosisFacts

(* A verdict that was given is the answer to the question put. *)
AnswerInv == query \in Queries /\ verdict \in {"pending", Answer(query.snap)}

LEMMA QueryListed ==
    ASSUME query \in Queries
    PROVE  Listed(query.snap)
<1>1. query.snap.apiservices \in BoundedSeq(Registrations, MaxRegistrations)
          /\ query.snap.crds \in BoundedSeq(Groups, MaxCRDs)
    BY DEF Queries, Snapshots
<1>2. query.snap.apiservices \in Seq(Registrations) /\ query.snap.crds \in Seq(Groups)
    BY <1>1, DiagnosisAssumption DEF BoundedSeq, SeqOf
<1>3. QED
    BY <1>2 DEF Listed

LEMMA AnswerAlways == Spec => []AnswerInv
<1>1. Init => AnswerInv
    BY DEF Init, AnswerInv
<1>2. AnswerInv /\ [Next]_vars => AnswerInv'
    <2> SUFFICES ASSUME AnswerInv, [Next]_vars PROVE AnswerInv'
        OBVIOUS
    <2>1. query' = query
        BY DEF Next, Judge, vars
    <2>2. Answer(query.snap)' = Answer(query.snap)
        BY <2>1 DEF Answer
    <2>3. QED
        BY <2>1, <2>2 DEF AnswerInv, Next, Judge, vars
<1>3. QED
    BY <1>1, <1>2, PTL DEF Spec

(* A finalizer other than a namespace's `kubernetes` is DEAD only if it is no     *)
(* core controller's and an unavailable aggregated APIService was read whose      *)
(* group its domain is or ends in.                                               *)
THEOREM DeadCorrect == Spec => []DeadNeedsHardProof
<1>1. AnswerInv => DeadNeedsHardProof
    <2> SUFFICES ASSUME AnswerInv, Dead, ~OfNamespace
                 PROVE  /\ query.about.finalizer \notin BuiltinTable
                        /\ "apiservices" \in query.snap.readable
                        /\ \E s \in Registered : Unavailable(s) /\ IsSuffix(s.group, Domain)
        BY DEF DeadNeedsHardProof
    <2>1. Answer(query.snap) = "DEAD" /\ Listed(query.snap)
        BY QueryListed DEF AnswerInv, Dead
    <2>2. /\ query.about.finalizer \notin BuiltinTable
          /\ Readable(query.snap, "apiservices")
          /\ GroupMatches(MapOwner(query.about.finalizer, query.snap).group, query.about.finalizer.domain)
          /\ \E i \in 1..Len(query.snap.apiservices) :
                query.snap.apiservices[i].group = MapOwner(query.about.finalizer, query.snap).group
                /\ IsDown(query.snap.apiservices[i])
        BY <2>1, DeadOwnerIsDown DEF Answer, OfNamespace
    <2>3. PICK i \in 1..Len(query.snap.apiservices) :
              IsSuffix(query.snap.apiservices[i].group, Domain) /\ Unavailable(query.snap.apiservices[i])
        BY <2>2 DEF GroupMatches, Domain, IsDown, Unavailable
    <2>4. query.snap.apiservices[i] \in Registered
        BY <2>1 DEF Registered, ToSet, Listed
    <2>5. QED
        BY <2>2, <2>3, <2>4 DEF Readable
<1>2. QED
    BY <1>1, AnswerAlways, PTL

(* However long the lists are and in whatever order: if groups of CRDs own the     *)
(* domain, the aggregated APIService of one of these groups is down, and the       *)
(* outage of a group without a CRD makes nothing DEAD.                             *)
THEOREM CRDFirstCorrect == Spec => []CRDsComeFirst
<1>1. AnswerInv => CRDsComeFirst
    <2> SUFFICES ASSUME AnswerInv, Dead, ~OfNamespace, CRDOwners # {}
                 PROVE  \E s \in Registered : s.group \in CRDOwners /\ Unavailable(s)
        BY DEF CRDsComeFirst
    <2>1. Answer(query.snap) = "DEAD" /\ Listed(query.snap)
        BY QueryListed DEF AnswerInv, Dead
    <2>2. DOMAIN query.snap.crds = 1..Len(query.snap.crds)
        BY <2>1 DEF Listed
    <2> DEFINE first == FirstCRD(query.snap, Domain)
    <2>3. first \in 1..Len(query.snap.crds) /\ GroupMatches(query.snap.crds[first], Domain)
        <3>1. \E i \in 1..Len(query.snap.crds) : GroupMatches(query.snap.crds[i], Domain)
            BY <2>2 DEF CRDOwners, ToSet
        <3>2. QED
            BY <2>1, <3>1, FirstCRDFound
    <2> HIDE DEF first
    <2>4. query.snap.crds[first] \in CRDOwners
        BY <2>2, <2>3 DEF CRDOwners, ToSet
    <2>5. PICK i \in 1..Len(query.snap.apiservices) :
              query.snap.apiservices[i].group = query.snap.crds[first] /\ IsDown(query.snap.apiservices[i])
        <3>1. first = FirstCRD(query.snap, query.about.finalizer.domain) /\ first > 0
            BY <2>3 DEF first, Domain
        <3>2. QED
            BY <2>1, <3>1, DeadOwnerIsDown DEF Answer, OfNamespace
    <2>6. query.snap.apiservices[i] \in Registered
        BY <2>1 DEF Registered, ToSet, Listed
    <2>7. QED
        BY <2>4, <2>5, <2>6 DEF IsDown, Unavailable
<1>2. QED
    BY <1>1, AnswerAlways, PTL

(* The `kubernetes` finalizer of a namespace is DEAD only under all four           *)
(* requirements: broken discovery, nothing left in the namespace, both sources    *)
(* read, and a dead aggregated group without a CRD.                               *)
THEOREM NamespaceCorrect == Spec => []NamespaceDeadIsProven
<1>1. AnswerInv => NamespaceDeadIsProven
    <2> SUFFICES ASSUME AnswerInv, Dead, OfNamespace
                 PROVE  NamespaceDeadIsProven
        BY DEF NamespaceDeadIsProven
    <2>1. NamespaceKubernetes(query.about.conds, query.snap) = "DEAD" /\ Listed(query.snap)
        BY QueryListed DEF AnswerInv, Dead, Answer, StateOf, OfNamespace
    <2>2. /\ query.about.conds \intersect {"DiscoveryFailure", "GroupVersionParsingFailure"} # {}
          /\ {"FinalizersRemaining", "ContentFailure", "ContentRemaining"} \intersect query.about.conds = {}
          /\ Readable(query.snap, "apiservices") /\ Readable(query.snap, "crds")
        BY <2>1, DeadNamespaceIsProven
    <2>3. PICK i \in 1..Len(query.snap.apiservices) :
              /\ IsDown(query.snap.apiservices[i])
              /\ \A j \in 1..Len(query.snap.crds) : query.snap.crds[j] # query.snap.apiservices[i].group
        BY <2>1, DeadNamespaceIsProven
    <2>4. query.snap.apiservices[i] \in Registered
        BY <2>1 DEF Registered, ToSet, Listed
    <2>5. ASSUME NEW g \in ToSet(query.snap.crds) PROVE query.snap.apiservices[i].group # g
        <3>1. PICK j \in DOMAIN query.snap.crds : g = query.snap.crds[j]
            BY DEF ToSet
        <3>2. j \in 1..Len(query.snap.crds)
            BY <2>1 DEF Listed
        <3>3. QED
            BY <2>3, <3>1, <3>2
    <2>6. QED
        BY <2>2, <2>3, <2>4, <2>5 DEF NamespaceDeadIsProven, IsDown, Unavailable, Readable
<1>2. QED
    BY <1>1, AnswerAlways, PTL
=============================================================================
