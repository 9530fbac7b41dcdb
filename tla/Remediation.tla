----------------------------- MODULE Remediation -----------------------------
(***************************************************************************)
(* What finalizer-doctor promises, without how it finds out: the store     *)
(* changes through others, or through an action that an operator approved  *)
(* for the state it was about.  An action is carried out once, in order,   *)
(* and takes one finalizer off one object or deletes an orphan.            *)
(*                                                                         *)
(* An approval is a token that was printed, all of whose finalizers are    *)
(* DEAD, or a name typed on a terminal.                                    *)
(***************************************************************************)
EXTENDS Integers

CONSTANTS Runs, Refs, NsRefs, Objects, Actions, InitialObjects, Kubernetes, Nothing

VARIABLES
    objects,    \* the store
    foreign,    \* how many writes others made
    tokens,     \* the tokens printed
    typed,      \* the invocations whose operator typed the name
    approved,   \* approved[r]: the target r may remediate and its state, or Nothing
    carried     \* carried[r]: the actions of r the API server carried out

vars == <<objects, foreign, tokens, typed, approved, carried>>

FinalizersOf(obj) == obj.meta \union obj.spec

TokenFor(target) ==
    [ref |-> target.ref, pairs |-> FinalizersOf(target.obj) \X {"DEAD"}, rv |-> target.obj.rv]

Init ==
    /\ objects \in InitialObjects
    /\ foreign = 0
    /\ tokens = {}
    /\ typed = {}
    /\ approved = [r \in Runs |-> Nothing]
    /\ carried = [r \in Runs |-> {}]

Show ==
    /\ tokens \subseteq tokens'
    /\ \A token \in tokens' \ tokens : token.pairs # {} /\ \A pair \in token.pairs : pair[2] = "DEAD"
    /\ UNCHANGED <<objects, foreign, typed, approved, carried>>

Confirm(r) ==
    /\ typed' = typed \union {r}
    /\ UNCHANGED <<objects, foreign, tokens, approved, carried>>

Approve(r) ==
    /\ approved[r] = Nothing
    /\ approved'[r] \in [ref : Refs, obj : Objects]
    /\ approved' = [approved EXCEPT ![r] = approved'[r]]
    /\ r \in typed \/ TokenFor(approved'[r]) \in tokens
    /\ UNCHANGED <<objects, foreign, tokens, typed, carried>>

(* Orphans are nobody's finalizers; /finalize comes after every other finalizer. *)
MayCarry(r, a) ==
    /\ approved[r] # Nothing /\ a \notin carried[r]
    /\ a.kind # "CleanOrphan" =>
          a.ref = approved[r].ref /\ a.finalizer \in FinalizersOf(approved[r].obj)
    /\ a.kind = "CleanOrphan" => \A b \in carried[r] : b.kind = "CleanOrphan"
    /\ a.kind = "FinalizeNamespace" =>
          \A f \in FinalizersOf(approved[r].obj) \ {Kubernetes} :
              \E b \in carried[r] : b.kind = "ClearFinalizer" /\ b.finalizer = f

(* The object as the action leaves it, but for its new resourceVersion.          *)
Outcome(a, o) ==
    CASE a.kind = "CleanOrphan"       -> [o EXCEPT !.terminating = TRUE]
      [] a.kind = "ClearFinalizer"    -> [o EXCEPT !.meta = @ \ {a.finalizer}]
      [] a.kind = "FinalizeNamespace" -> [o EXCEPT !.spec = @ \ {a.finalizer}]

Releases(ref, o) == o.terminating /\ o.meta = {} /\ (ref \in NsRefs => o.spec = {})

Carry(r) ==
    /\ \E a \in Actions :
          /\ MayCarry(r, a)
          /\ objects[a.ref] # Nothing
          /\ \A ref \in Refs \ {a.ref} : objects'[ref] = objects[ref]
          /\ LET o   == Outcome(a, objects[a.ref])
                 new == objects'[a.ref]
             IN  IF new = Nothing THEN Releases(a.ref, o) ELSE new = [o EXCEPT !.rv = new.rv]
          /\ carried' = [carried EXCEPT ![r] = @ \union {a}]
    /\ UNCHANGED <<foreign, tokens, typed, approved>>

(* Others write what they like, one object at a time.                           *)
Others ==
    /\ foreign' = foreign + 1
    /\ \A ref, other \in Refs :
          objects'[ref] # objects[ref] /\ objects'[other] # objects[other] => ref = other
    /\ objects' \in [Refs -> Objects \union {Nothing}]
    /\ UNCHANGED <<tokens, typed, approved, carried>>

Next == Show \/ Others \/ \E r \in Runs : Confirm(r) \/ Approve(r) \/ Carry(r)

Spec == Init /\ [][Next]_vars
=============================================================================
