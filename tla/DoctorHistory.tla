--------------------------- MODULE DoctorHistory ---------------------------
(***************************************************************************)
(* Doctor with history variables: which APIs were down since an            *)
(* invocation's previous mutation, and what its target owned since it was  *)
(* authorized.  They record, and restrict nothing.                         *)
(***************************************************************************)
EXTENDS DoctorProperties

VARIABLES
    downSince,  \* downSince[r]: the aggregated APIServices down at some time since then
    ownedSince  \* ownedSince[r]: what named r's target as its owner at some time since its gate

historyVars == <<vars, downSince, ownedSince>>

Down == {i \in DOMAIN Registrations : Registrations[i].aggregated /\ available[i] = "False"}

Owned(r) ==
    IF gate[r] = Nothing THEN {} ELSE {ref \in Refs : Exists(ref) /\ Target(r) \in objects[ref].owners}

HInit ==
    /\ Init
    /\ downSince = [r \in Runs |-> Down]
    /\ ownedSince = [r \in Runs |-> {}]

HNext ==
    /\ Next
    /\ downSince' = [r \in Runs |-> IF Carries(r) THEN Down' ELSE downSince[r] \union Down']
    /\ ownedSince' = [r \in Runs |-> ownedSince[r] \union Owned(r)']

HSpec == HInit /\ [][HNext]_historyVars

(* The target as authorized, then being deleted already: it gets no finalizer.    *)
SameAsGated(r, o) == gate[r].terminating /\ o.uid = gate[r].uid

(* README.md:113-114, "a recovered controller aborts the run": nothing is carried *)
(* out unless some API was down after the invocation's previous mutation, and a  *)
(* finalizer of the object that was authorized is cleared only if the API that   *)
(* owns it was down then -- not merely when the run was authorized (Execute's    *)
(* re-verify before every action).  Of an object that is not being deleted the   *)
(* re-verify says less: a finalizer may come back after it.                      *)
RecoveredOwnerAborts ==
    [][\A r \in Runs : Carries(r) =>
          LET a == pin[r].action
              o == objects[a.ref]
          IN  /\ downSince[r] # {}
              /\ a.kind = "ClearFinalizer" /\ a.finalizer \in o.meta /\ SameAsGated(r, o) =>
                    \E i \in downSince[r] : IsSuffix(Registrations[i].group, a.finalizer.domain)]_historyVars

(* orphan.go:2-3, "limited to objects owned by the target": what is deleted as   *)
(* an orphan named the target as its owner at some time after the gate.  It need *)
(* not do so any more: ownership is not read again before the delete.           *)
OrphanWasOwned ==
    [][\A r \in Runs : Carries(r) /\ pin[r].action.kind = "CleanOrphan" =>
          pin[r].action.ref \in ownedSince[r]]_historyVars
=============================================================================
