--------------------------- MODULE DiagnosisFacts ---------------------------
(***************************************************************************)
(* What the operators of Diagnosis promise of lists of any length: where   *)
(* an owner comes from, what evidence is, and what DEAD rests on.          *)
(***************************************************************************)
EXTENDS Diagnosis, FiniteSetTheorems, WellFoundedInduction, TLAPS

-----------------------------------------------------------------------------
(* Searching a list *)

(* A nonempty set of natural numbers has a least element, and Min is it.        *)
LEMMA MinExists ==
    ASSUME NEW S \in SUBSET Nat, S # {}
    PROVE  Min(S) \in S /\ \A y \in S : Min(S) <= y
<1>1. PICK x \in S : \A y \in S : <<y, x>> \notin OpToRel(<, Nat)
    BY NatLessThanWellFounded, IsWellFoundedOnSubset, WFMin
<1>2. \A y \in S : ~(y < x)
    BY <1>1 DEF OpToRel
<1>3. \A y \in S : x <= y
    BY <1>2
<1>4. QED
    BY <1>3 DEF Min

(* What SelectInSeq makes of the positions S of a list that pass its test.      *)
LEMMA FirstPosition ==
    ASSUME NEW n \in Nat, NEW S \in SUBSET (1..n),
           NEW first, first = IF S # {} THEN Min(S) ELSE 0
    PROVE  /\ first > 0 <=> S # {}
           /\ first > 0 => first \in S /\ \A i \in S : first <= i
           /\ ~(first > 0) => first = 0
<1>1. S \in SUBSET Nat
    OBVIOUS
<1>2. CASE S = {}
    BY <1>2
<1>3. CASE S # {}
    <2>1. first = Min(S) /\ Min(S) \in S /\ \A i \in S : Min(S) <= i
        BY <1>1, <1>3, MinExists
    <2>2. first \in 1..n
        BY <2>1
    <2>3. QED
        BY <1>3, <2>1, <2>2
<1>4. QED
    BY <1>2, <1>3

(* The members of a set of positions can be listed in order.                    *)
LEMMA OrderExists ==
    ASSUME NEW n \in Nat, NEW S \in SUBSET (1..n)
    PROVE  \E seq \in [1..Cardinality(S) -> S] : \A i, j \in DOMAIN seq : i < j => seq[i] < seq[j]
<1> DEFINE Listable(T) == \E seq \in [1..Cardinality(T) -> T] : \A i, j \in DOMAIN seq : i < j => seq[i] < seq[j]
           Bad == {c \in Nat : \E T \in SUBSET (1..n) : Cardinality(T) = c /\ ~Listable(T)}
<1>1. ASSUME NEW T \in SUBSET (1..n) PROVE IsFiniteSet(T) /\ Cardinality(T) \in Nat
    <2>1. IsFiniteSet(1..n)
        BY FS_Interval
    <2>2. QED
        BY <2>1, FS_Subset, FS_CardinalityType
<1>2. SUFFICES ASSUME Bad # {} PROVE FALSE
    BY <1>1
<1> HIDE DEF Listable
<1>3. PICK c \in Nat : c \in Bad /\ \A other \in Bad : c <= other
    <2>1. Bad \in SUBSET Nat
        OBVIOUS
    <2> HIDE DEF Bad
    <2>2. QED
        BY <1>2, <2>1, MinExists
<1>4. PICK T \in SUBSET (1..n) : Cardinality(T) = c /\ ~Listable(T)
    BY <1>3
<1>5. \A x \in T : x \in Nat /\ n - x \in Nat
    OBVIOUS
<1>6. T # {}
    <2> SUFFICES ASSUME T = {} PROVE FALSE
        OBVIOUS
    <2>1. Cardinality(T) = 0
        BY FS_EmptySet
    <2> DEFINE none == [i \in 1..0 |-> i]
    <2>2. none \in [1..0 -> T] /\ DOMAIN none = {}
        OBVIOUS
    <2> HIDE DEF none
    <2>3. Listable(T)
        BY <2>1, <2>2 DEF Listable
    <2>4. QED
        BY <1>4, <2>3
<1> HIDE DEF Bad
<1>7. PICK m \in T : \A x \in T : x <= m
    <2> DEFINE U == {n - x : x \in T}
    <2>1. U \in SUBSET Nat /\ U # {}
        BY <1>6, <1>5
    <2>2. PICK u \in U : \A v \in U : u <= v
        <3> HIDE DEF U
        <3>1. QED
            BY <2>1, MinExists
    <2>3. PICK m \in T : u = n - m
        BY <2>2
    <2>4. \A x \in T : n - m <= n - x
        BY <2>2, <2>3
    <2>5. QED
        BY <2>4
<1>8. Cardinality(T \ {m}) = c - 1 /\ c - 1 \in Nat
    <2>1. IsFiniteSet(T) /\ IsFiniteSet(T \ {m}) /\ Cardinality(T \ {m}) \in Nat
        BY <1>1
    <2>2. Cardinality(T \ {m}) = c - 1
        BY <1>4, <2>1, FS_RemoveElement
    <2>3. QED
        BY <2>1, <2>2
<1>9. Listable(T \ {m})
    <2>1. c - 1 \notin Bad
        BY <1>3, <1>8
    <2>2. T \ {m} \in SUBSET (1..n)
        OBVIOUS
    <2>3. QED
        BY <1>8, <2>1, <2>2 DEF Bad
<1>10. PICK seq \in [1..(c - 1) -> T \ {m}] : \A i, j \in 1..(c - 1) : i < j => seq[i] < seq[j]
    BY <1>8, <1>9 DEF Listable
<1> DEFINE longer == [i \in 1..c |-> IF i = c THEN m ELSE seq[i]]
<1>11. longer \in [1..Cardinality(T) -> T]
    BY <1>4, <1>8, <1>10
<1>12. ASSUME NEW i \in 1..c, NEW j \in 1..c, i < j PROVE longer[i] < longer[j]
    <2>1. i \in 1..(c - 1) /\ longer[i] = seq[i] /\ seq[i] \in T \ {m}
        BY <1>8, <1>10, <1>12
    <2>2. CASE j = c
        <3>1. longer[j] = m
            BY <2>2
        <3>2. seq[i] # m /\ seq[i] <= m /\ seq[i] \in Nat /\ m \in Nat
            BY <1>7, <1>5, <2>1
        <3> HIDE DEF longer
        <3>3. QED
            BY <2>1, <3>1, <3>2
    <2>3. CASE j # c
        BY <1>8, <1>10, <1>12, <2>1, <2>3
    <2>4. QED
        BY <2>2, <2>3
<1>13. QED
    <2>1. DOMAIN longer = 1..Cardinality(T)
        BY <1>4
    <2> HIDE DEF longer
    <2>2. QED
        BY <1>4, <1>11, <1>12, <2>1 DEF Listable

(* The lists of a snapshot; nothing is asked of their length.                   *)
Listed(snap) == \E R, G : snap.apiservices \in Seq(R) /\ snap.crds \in Seq(G)

IsDown(service) == service.aggregated /\ service.available = "False"

(* The first CRD whose group owns a finalizer's domain. *)
FirstCRD(snap, domain) == SelectInSeq(snap.crds, LAMBDA g : GroupMatches(g, domain))

(* If the group of a CRD owns a domain, FirstCRD is the position of such a group. *)
LEMMA FirstCRDFound ==
    ASSUME NEW snap, Listed(snap), NEW domain,
           \E i \in 1..Len(snap.crds) : GroupMatches(snap.crds[i], domain)
    PROVE  /\ FirstCRD(snap, domain) \in 1..Len(snap.crds)
           /\ GroupMatches(snap.crds[FirstCRD(snap, domain)], domain)
<1> DEFINE C == {i \in 1..Len(snap.crds) : GroupMatches(snap.crds[i], domain)}
           first == IF C # {} THEN Min(C) ELSE 0
<1>1. first = FirstCRD(snap, domain)
    BY DEF FirstCRD, SelectInSeq
<1>2. first \in C
    <2>1. first = IF C # {} THEN Min(C) ELSE 0
        OBVIOUS
    <2>2. C \in SUBSET (1..Len(snap.crds)) /\ C # {} /\ Len(snap.crds) \in Nat
        BY DEF Listed
    <2> HIDE DEF first, C
    <2>3. QED
        BY <2>1, <2>2, FirstPosition
<1>3. QED
    BY <1>1, <1>2

-----------------------------------------------------------------------------
(* Attribution *)

(* An owner other than a core controller or nobody is a group that the domain    *)
(* is or ends in -- the group of the first such CRD if there is one (Map).      *)
LEMMA OwnerMatches ==
    ASSUME NEW snap, Listed(snap), NEW f, MapOwner(f, snap).kind \notin {"Builtin", "Unknown"}
    PROVE  /\ f \notin BuiltinTable
           /\ GroupMatches(MapOwner(f, snap).group, f.domain)
           /\ FirstCRD(snap, f.domain) > 0 => MapOwner(f, snap).group = snap.crds[FirstCRD(snap, f.domain)]
<1> DEFINE left == f.domain
           C == {i \in 1..Len(snap.crds) : GroupMatches(snap.crds[i], left)}
           A == {i \in 1..Len(snap.apiservices) : GroupMatches(snap.apiservices[i].group, left)}
           crd == IF C # {} THEN Min(C) ELSE 0
           api == IF A # {} THEN Min(A) ELSE 0
<1>1. /\ crd = SelectInSeq(snap.crds, LAMBDA g : GroupMatches(g, left))
      /\ api = SelectInSeq(snap.apiservices, LAMBDA s : GroupMatches(s.group, left))
    BY DEF SelectInSeq
<1>2. Len(snap.crds) \in Nat /\ Len(snap.apiservices) \in Nat
    BY DEF Listed
<1>3. crd > 0 => crd \in C
    <2> HIDE DEF crd
    <2>1. crd = IF C # {} THEN Min(C) ELSE 0
        BY DEF crd
    <2> HIDE DEF C
    <2>2. C \in SUBSET (1..Len(snap.crds))
        BY DEF C
    <2>3. QED
        BY <1>2, <2>1, <2>2, FirstPosition
<1>4. api > 0 => api \in A
    <2> HIDE DEF api
    <2>1. api = IF A # {} THEN Min(A) ELSE 0
        BY DEF api
    <2> HIDE DEF A
    <2>2. A \in SUBSET (1..Len(snap.apiservices))
        BY DEF A
    <2>3. QED
        BY <1>2, <2>1, <2>2, FirstPosition
<1> HIDE DEF crd, api
<1>5. f \notin BuiltinTable
    BY DEF MapOwner, Candidate
<1>6. left # <<>>
    BY <1>5 DEF MapOwner, Candidate, Unknown, DomainOf
<1>7. MapOwner(f, snap) =
          IF crd > 0 THEN Candidate("CRD", snap.crds[crd], RankFor(snap.crds[crd], left))
          ELSE IF api > 0 THEN Candidate("APIService", snap.apiservices[api].group,
                                         RankFor(snap.apiservices[api].group, left))
          ELSE Unknown
    BY <1>1, <1>5, <1>6 DEF MapOwner, DomainOf
<1>8. crd > 0 \/ api > 0
    BY <1>7 DEF Candidate, Unknown
<1>9. GroupMatches(MapOwner(f, snap).group, left)
    BY <1>3, <1>4, <1>7, <1>8 DEF Candidate
<1>10. QED
    BY <1>1, <1>5, <1>7, <1>9 DEF FirstCRD, Candidate

-----------------------------------------------------------------------------
(* Evidence *)

(* A hard dead signal is an aggregated APIService of the owner's own group that  *)
(* was read and is not available (For).                                         *)
LEMMA HardSignalIsReal ==
    ASSUME NEW snap, Listed(snap), NEW owner, HasClass(ProbeAPIService(owner, snap), "DeadHard")
    PROVE  /\ Readable(snap, "apiservices")
           /\ \E i \in 1..Len(snap.apiservices) :
                 snap.apiservices[i].group = owner.group /\ IsDown(snap.apiservices[i])
<1> DEFINE S == {i \in 1..Len(snap.apiservices) :
                    snap.apiservices[i].group = owner.group
                    /\ (~snap.apiservices[i].aggregated \/ snap.apiservices[i].available = "False")}
           last == IF S # {} THEN Min(S) ELSE 0
<1>1. last = SelectInSeq(snap.apiservices, LAMBDA s :
                 s.group = owner.group /\ (~s.aggregated \/ s.available = "False"))
    BY DEF SelectInSeq
<1>2. last > 0 => last \in S
    <2>1. last = IF S # {} THEN Min(S) ELSE 0
        OBVIOUS
    <2>2. S \in SUBSET (1..Len(snap.apiservices)) /\ Len(snap.apiservices) \in Nat
        BY DEF Listed
    <2> HIDE DEF last, S
    <2>3. QED
        BY <2>1, <2>2, FirstPosition
<1> HIDE DEF last
<1>3. ProbeAPIService(owner, snap) # <<>>
    BY DEF HasClass
<1>4. Readable(snap, "apiservices")
    BY <1>3 DEF ProbeAPIService, HasClass
<1>5. last > 0 /\ snap.apiservices[last].aggregated
    BY <1>1, <1>3, <1>4 DEF ProbeAPIService
<1>6. QED
    BY <1>2, <1>4, <1>5 DEF IsDown

-----------------------------------------------------------------------------
(* Verdicts *)

(* README.md:87-88, "at least as safe as strict": on any owner and any evidence,  *)
(* of whatever length and weights, what score mode calls DEAD strict mode does:   *)
(* it shares strict mode's vetoes and its hard-signal test.                       *)
THEOREM ScoreImpliesStrict ==
    ASSUME NEW o, NEW e, Score(o, e) = "DEAD"
    PROVE  Strict(o, e) = "DEAD"
    BY DEF Score, Strict

(* What the evidence has shown it goes on showing; what it shows anew is shown by *)
(* the piece added.                                                              *)
LEMMA EvidenceGrows ==
    ASSUME NEW S, NEW old \in Seq(S), NEW e \in S, NEW new, new = Append(old, e)
    PROVE  /\ Last(new) = e
           /\ \A class : HasClass(new, class) <=> HasClass(old, class) \/ e.class = class
           /\ UnreadableLiveness(old) => UnreadableLiveness(new)
<1>1. /\ DOMAIN old = 1..Len(old) /\ DOMAIN new = 1..(Len(old) + 1) /\ Len(new) = Len(old) + 1
      /\ Len(old) \in Nat
      /\ \A i \in DOMAIN old : i \in DOMAIN new /\ new[i] = old[i]
      /\ new[Len(old) + 1] = e
    OBVIOUS
<1>2. Last(new) = e
    BY <1>1 DEF Last
<1>3. \A i \in DOMAIN new : i \in DOMAIN old \/ i = Len(old) + 1
    BY <1>1
<1>4. Len(old) + 1 \in DOMAIN new
    BY <1>1
<1>5. ASSUME NEW class PROVE HasClass(new, class) <=> HasClass(old, class) \/ e.class = class
    BY <1>1, <1>3, <1>4 DEF HasClass
<1>6. UnreadableLiveness(old) => UnreadableLiveness(new)
    BY <1>1 DEF UnreadableLiveness
<1>7. QED
    BY <1>2, <1>5, <1>6

(* Evidence against death is final: on one more piece of evidence, whatever was    *)
(* gathered before, a live signal or an unreadable liveness source still vetoes    *)
(* DEAD in both modes, and only a piece that points at a dead owner makes DEAD of   *)
(* what was not (strict.go, score.go).                                            *)
THEOREM OnePieceMore ==
    ASSUME NEW o, NEW S, NEW old \in Seq(S), NEW e \in S, NEW new, new = Append(old, e)
    PROVE  /\ HasClass(old, "Live") \/ UnreadableLiveness(old) =>
                 "DEAD" \notin {Strict(o, new), Score(o, new)}
           /\ "DEAD" \notin {Strict(o, old), Score(o, old)}
                 /\ "DEAD" \in {Strict(o, new), Score(o, new)} => IsDeadward(Last(new).class)
<1>1. /\ Last(new) = e
      /\ \A class : HasClass(new, class) <=> HasClass(old, class) \/ e.class = class
      /\ UnreadableLiveness(old) => UnreadableLiveness(new)
    BY EvidenceGrows
<1>2. ASSUME "DEAD" \in {Strict(o, new), Score(o, new)}
      PROVE  Strict(o, new) = "DEAD"
    BY <1>2, ScoreImpliesStrict
<1>3. ASSUME HasClass(old, "Live") \/ UnreadableLiveness(old), Strict(o, new) = "DEAD" PROVE FALSE
    BY <1>1, <1>3 DEF Strict
<1>4. ASSUME Strict(o, old) # "DEAD", Strict(o, new) = "DEAD" PROVE IsDeadward(e.class)
    <2>1. /\ o.kind # "Unknown" /\ ~UnreadableLiveness(new)
          /\ ~HasClass(new, "Live") /\ HasClass(new, "DeadHard")
        BY <1>4 DEF Strict
    <2>2. ~UnreadableLiveness(old) /\ ~HasClass(old, "Live")
        BY <1>1, <2>1
    <2>3. ~HasClass(old, "DeadHard")
        BY <1>4, <2>1, <2>2 DEF Strict
    <2>4. e.class = "DeadHard"
        BY <1>1, <2>1, <2>3
    <2>5. QED
        BY <2>4 DEF IsDeadward
<1>5. QED
    BY <1>1, <1>2, <1>3, <1>4

(* In either mode DEAD takes a known owner, no live signal and a hard dead one.  *)
LEMMA DeadTakesHardSignal ==
    ASSUME NEW strategy, NEW o, NEW e, StrategyFor(strategy, o, e) = "DEAD"
    PROVE  o.kind # "Unknown" /\ ~HasClass(e, "Live") /\ HasClass(e, "DeadHard")
<1>1. Strict(o, e) = "DEAD"
    BY ScoreImpliesStrict DEF StrategyFor
<1>2. QED
    BY <1>1 DEF Strict

(* What DEAD says of an owned finalizer: whatever the lists, the strategy and    *)
(* the order of registrations, the owner's group was read to be down.           *)
LEMMA DeadOwnerIsDown ==
    ASSUME NEW snap, Listed(snap), NEW f, NEW isNamespace, NEW conds, NEW strategy,
           StateOf(f, isNamespace, conds, snap, strategy) = "DEAD",
           ~(isNamespace /\ f = Kubernetes)
    PROVE  /\ f \notin BuiltinTable
           /\ Readable(snap, "apiservices")
           /\ GroupMatches(MapOwner(f, snap).group, f.domain)
           /\ \E i \in 1..Len(snap.apiservices) :
                 snap.apiservices[i].group = MapOwner(f, snap).group /\ IsDown(snap.apiservices[i])
           /\ FirstCRD(snap, f.domain) > 0 => MapOwner(f, snap).group = snap.crds[FirstCRD(snap, f.domain)]
<1> DEFINE owner == MapOwner(f, snap)
<1>1. StrategyFor(strategy, owner, ProbeFor(owner, snap)) = "DEAD"
    BY DEF StateOf
<1> HIDE DEF owner
<1>2. owner.kind # "Unknown" /\ ~HasClass(ProbeFor(owner, snap), "Live")
          /\ HasClass(ProbeFor(owner, snap), "DeadHard")
    BY <1>1, DeadTakesHardSignal
<1>3. owner.kind # "Builtin"
    BY <1>2 DEF ProbeFor, HasClass
<1>4. HasClass(ProbeAPIService(owner, snap), "DeadHard")
    BY <1>2, <1>3 DEF ProbeFor
<1>5. QED
    BY <1>2, <1>3, <1>4, HardSignalIsReal, OwnerMatches DEF owner

(* What DEAD says of the `kubernetes` finalizer of a namespace.                 *)
LEMMA DeadNamespaceIsProven ==
    ASSUME NEW snap, Listed(snap), NEW conds, NamespaceKubernetes(conds, snap) = "DEAD"
    PROVE  /\ conds \intersect {"DiscoveryFailure", "GroupVersionParsingFailure"} # {}
           /\ {"FinalizersRemaining", "ContentFailure", "ContentRemaining"} \intersect conds = {}
           /\ Readable(snap, "apiservices") /\ Readable(snap, "crds")
           /\ \E i \in 1..Len(snap.apiservices) :
                 /\ IsDown(snap.apiservices[i])
                 /\ \A j \in 1..Len(snap.crds) : snap.crds[j] # snap.apiservices[i].group
<1> DEFINE S == {i \in 1..Len(snap.apiservices) :
                    snap.apiservices[i].aggregated /\ snap.apiservices[i].available = "False"}
           dead == IF S # {} THEN Min(S) ELSE 0
<1>1. dead = DeadAggregatedAPIService(snap)
    BY DEF DeadAggregatedAPIService, SelectInSeq
<1>2. (dead > 0 => dead \in S) /\ (~(dead > 0) => dead = 0)
    <2>1. dead = IF S # {} THEN Min(S) ELSE 0
        OBVIOUS
    <2>2. S \in SUBSET (1..Len(snap.apiservices)) /\ Len(snap.apiservices) \in Nat
        BY DEF Listed
    <2> HIDE DEF dead, S
    <2>3. QED
        BY <2>1, <2>2, FirstPosition
<1> HIDE DEF dead
<1>3. /\ conds \intersect {"DiscoveryFailure", "GroupVersionParsingFailure"} # {}
      /\ conds \intersect {"FinalizersRemaining", "ContentFailure"} = {}
      /\ Readable(snap, "apiservices") /\ Readable(snap, "crds")
      /\ dead # 0 /\ ~CRDExistsForGroup(snap, snap.apiservices[dead].group)
      /\ "ContentRemaining" \notin conds
    BY <1>1 DEF NamespaceKubernetes
<1>4. dead \in S
    BY <1>2, <1>3
<1>5. \A j \in 1..Len(snap.crds) : snap.crds[j] # snap.apiservices[dead].group
    BY <1>3 DEF CRDExistsForGroup, Contains
<1>6. QED
    BY <1>3, <1>4, <1>5 DEF IsDown
=============================================================================
