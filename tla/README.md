# finalizer-doctor in TLA+

`kubectl finalizer-doctor` finds objects that hang in deletion because a controller that
owed them a finalizer's removal is gone, says of each finalizer whether its owner is
DEAD, SLOW or UNKNOWN, and, when all are DEAD and the operator confirms, removes them.
Clearing a finalizer cannot be undone, so the interesting questions are about what the
tool may do in a cluster that changes while it looks.

This directory models the decision (what is DEAD) and the protocol around it (read,
confirm, read again, mutate one step at a time), checks both with TLC on small clusters and
proves the parts that matter most for all of them with TLAPS.

## The system

| Component | State | Operations | Talks to |
|---|---|---|---|
| `cli/root.go` | flags, exit code, typed name | parse, interactive dry pass, prompt, `Run` again | cli run, operator |
| `cli/run.go` | one invocation: refs, snapshot, results, plan | `Run`, `preflight`, `diagnose`, `renderDryRun`, `runApply`, `detectOrphans`, audit file | everything below |
| `discover` | none | `ParseTarget`, `IsStuck`, `Scan` (`--all`), `NamespaceObjects` | cluster client |
| `cluster` | none (client-go) | reads, partial discovery (`PreferredResources`), access reviews, three mutating requests with a resourceVersion precondition | API server |
| `snapshot` | the snapshot being built | `Build`: eight reads in a row, each may fail by itself | cluster client |
| `mapping` | built-in table | `Map`: finalizer to owner group | snapshot |
| `probe` | none | `For`: owner to evidence | snapshot |
| `verdict` | none | `Strict`, `Score`, `NamespaceKubernetes` | evidence, snapshot |
| `webhook` | none | `Blocks`: would admission reject the patch | snapshot |
| `orphan` | none | `Detect`: objects owned by the target | scan result |
| `plan` | none | `Build`: ordered actions | verdicts, orphans |
| `apply` | progress of one plan, audit | `Digest`, `Gate.Authorize`, `Execute`, `perform` | cluster client, re-verify callback |
| `model` | none | the records passed along | |
| `render`, `version`, `main` | none | output | |

The components call each other in a pipeline inside one process; nothing in the process is
concurrent. All concurrency is with the cluster: controllers, people and other invocations
write between any two of the tool's calls, calls fail, answers get lost and the process can
be killed. An invocation shares state with the others only through the cluster and through the
`--confirm` token, which a dry run prints and an apply is given.

What is hard in each:

- **mapping, probe, verdict**: nested API groups, several registrations of one group, and sources
  that could not be read. Correct when DEAD always rests on a registration that is
  unavailable, and nothing vetoes it.
- **snapshot**: partial failure and reads that straddle changes.
- **digest and gate**: a token outlives the state it was printed for. Correct when what is
  authorized is exactly what was shown and judged DEAD.
- **plan and executor**: every action is preceded by a re-verify and by a Get of its own target;
  between these and the mutation others write. Correct when a mutation takes off exactly one
  finalizer of the object it read, in plan order, and the report agrees with the cluster.
- **webhook**: the gate predicts admission from rules and endpoint slices. Correct when it refuses
  what the API server would reject, and nothing else.
- **discover**: partial discovery and lists that fail. Correct when one failure hides no other
  object, and when a name means the same object each time it is resolved.
- **cli**: early returns with an exit code of which scripts make decisions, an audit file that
  is written at the end, rights that are reviewed at the start.

PROJECT.json lists the hazards line by line under `hazards`, each with the property that covers it.

## The modules

```
Diagnosis <- Cluster <- Reading <- Doctor <- DoctorProperties <- DoctorHistory
                               \                  \-- INSTANCE Remediation
                                <- Scan <- ScanProperties

DiagnosisFacts (Diagnosis) <- DiagnosisProofs (DiagnosisCheck)
                           <- ClusterProofs (Reading)
ClusterProofs <- DoctorProofs (DoctorProperties) <- RefinementProofs <- OutcomeProofs (DoctorHistory)
              <- ScanProofs (ScanProperties)
```

`A (B) <- C (D)`: A extends B, and C extends A and D.

- `Diagnosis` -- pure operators: `MapOwner`, `ProbeFor`, `Strict`, `Score`,
  `NamespaceKubernetes`, `Diagnose`, `JointlyDead` (`combinedState`). A domain or group is the
  sequence of its dot-separated labels, so that `strings.HasSuffix(left, "."+g)` is `IsSuffix`.
- `DiagnosisCheck` -- one step that puts a question to `Diagnosis`; `MCDiagnosis` gives it groups
  and questions.
- `Cluster` -- the API server's store (objects with `rv` and `uid`, a global `revision`), its
  admission and its answer to the three mutating requests, the evidence sources, and everybody
  else's writes. It is external to the repository and modelled from the requests
  `cluster/clientgo.go` sends.
- `Reading` -- what both kinds of invocation make of what they read: the snapshot and the order of
  its reads, the verdicts, the webhook gate (`Blocks` with `RulesMatch` and
  `ServiceDeadByEndpoints`) and the digest. A backend has a set of endpoint slices, a slice the set of
  the readiness values its endpoints state.
- `Doctor` -- the core: invocations on one target each against `Cluster`. One action is one API
  call with the local computation that follows it; `pc` names the next call. The one exception is
  `ScanOrphans`, which stands for a discovery and one List per resource in one step: each object of the
  namespace may be missing from what it finds, as when its list failed or came too early. A scan that
  sees the ownership of two objects at two different moments is left out.

  | Action | Code |
  |---|---|
  | `Start`, `Prompt`, `Leave` | `root.go` `RunE`: flags, the dry pass of an interactive apply, typed name, exit code |
  | `Resolve` | `resolveGVR`, in each pass: the first match of discovery, or the guess |
  | `Preflight` | `preflight`, the access reviews |
  | `Check` | `Run`'s Get and `IsStuck` |
  | `ReadTarget`, `ReadSource` | `snapshot.Build`, one action per read |
  | `Report` | `renderDryRun`: exit 2 and a token |
  | `PassGate` | `runApply` up to `Authorize` |
  | `ScanOrphans` | `detectOrphans`, `NamespaceObjects`, `orphan.Detect` and `plan.Build` |
  | `Reverify`, `Pin` | the `reverify` callback: verdicts, then the Get of the action's target |
  | `Refetch` | `FinalizeNamespace`'s own Get and comparison |
  | `Mutate`, `MutateUnanswered`, `MutateFails` | `perform` and `Execute`'s bookkeeping: done, done but the answer lost, refused |
  | `AppendAudit` | `appendAudit`, whole or up to the write that failed |
  | `Crash` | the process is killed |

  The digest is the record it hashes; a plan is a set of actions with `Rank` for the order.
- `DoctorProperties` -- what an invocation owes, over `Doctor`; `DoctorHistory` adds history
  variables for `RecoveredOwnerAborts` and `OrphanWasOwned`.
- `Remediation` -- the abstract specification: a store, tokens, typed names, approvals and actions
  carried out; no reads, no passes, no failures. `DoctorProperties` instantiates it
  (`Abstract`) with `tokens` the tokens shown, `typed` the invocations whose operator answered,
  `approved` the target and the object the gate let through, and `carried` what the API server
  did. `Report` is then its `Show`, a matching `Prompt` its `Confirm`, `PassGate` its `Approve`,
  `Mutate` and `MutateUnanswered` its `Carry`, a foreign write its `Others`, and every other
  step a stutter.
- `Scan` -- `--all`: `Discover` (`PreferredResources`), `ListNext` (one resource at a time, in the
  order of discovery), `GetNext` (one object at a time, in any order), `ReadSource`, `Report`. A group served by a dead aggregated API
  fails in discovery, and its lists and Gets fail. `ScanProperties` says what it owes.
- `MCDoctor`, `MCHistory`, `MCScan` -- the instances: a *widget* (two finalizers of two aggregated
  APIs, perhaps with a child, and for `typed_name` a twin of the same name in another group), a
  namespace *team* (`kubernetes` in `spec.finalizers`, perhaps one in metadata), and for `--all`
  a *gadget* whose own API may be down.
- Proofs: `DiagnosisFacts` (what `Diagnosis` promises of lists of any length), `DiagnosisProofs`;
  `ClusterProofs` (types of what is read, what DEAD rests on, the effect of one
  write), `DoctorProofs` (types, writes, consent, report), `RefinementProofs` (order, refinement,
  progress), `OutcomeProofs` (audit file, rights, exit 0, why each action was taken, and that an
  undisturbed token does what it stands for) and `ScanProofs`.

A definition whose comment starts with "Mutant of" is a deliberately wrong variant of the one after it. No
action uses it: it documents which mistake each property catches (PROJECT.json, `mutants`).

## What is checked

Every run is listed in PROJECT.json with its properties.

Properties that hold:

- `diagnosis`: `DeadNeedsHardProof`, `CRDsComeFirst` and `NamespaceDeadIsProven` over every
  snapshot of up to 3 APIServices and 2 CRDs of two nested groups. `CRDsComeFirst`: when groups of
  CRDs match the finalizer's domain, the API that is down is one of theirs, and the outage of a group that only
  some APIService registers does not count. It does not say which of several; see `best_owner`. Two groups are enough for one
  to shadow the other and three registrations for one group to have two versions beside another
  group's; a third unrelated group behaves as either does.
- `widget`: a dry run and a confirmed apply, with two foreign writes. `OnlyConfirmedIsApplied` (the
  token an apply was given is one that was printed, for this target, `rv` and finalizers, all DEAD),
  `LeastBlastRadius` (a mutation takes off exactly one finalizer and loses nobody's update),
  `ExitZeroClearsMetadata`, and `Remediates`: the whole is a behaviour of `Remediation`.
- `namespace`: the same with `/finalize`, with one foreign write and one failed call:
  `FinalizeComesLast`, `LeastBlastRadius`,
  `RecoveredOwnerAborts` (nothing is carried out unless some API was down since the previous
  mutation, and a finalizer of the object that was authorized, then being deleted, only if the API
  that owns it was) and `OrphanWasOwned` (what is deleted as an orphan named the target after the
  gate). The first part is about every action, the second leaves out an object that is not being
  deleted or has been recreated: there a finalizer may come back between the re-verify and the pin,
  and is cleared on the verdict about the others. `QuietApplyClears` is about the behaviours in which
  nothing interferes: a printed token passes the gate, no re-verify refuses what the run has done
  so far, it exits 0 and the target is gone. Its premises are that nobody else writes, no call
  fails and no other invocation acts (`Undisturbed`); that every webhook answers, is Ignore, or is one
  `Blocks` looks at (`Admitted`); that the token is of the same strategy or the apply judges by strict
  (`Trusted`); and that each finalizer is in a list the tool clears (`Clearable`). The run has no
  webhook (`Admitted` holds of every state of it); the theorem has them all. The property shows that the
  other properties do not hold merely because nothing is ever applied.
- `race`: two applies with the same token: `PinIsFaithful`, `ReportIsTruthful` and
  `AuditFileIsTruthful` under a lost answer, a failing write of the file or a kill, and
  `PreflightCoversTarget` with an operator who lacks a right.
- `terminal`: an interactive apply on the namespace under a webhook that may come and go and whose
  endpoints may die in the middle of the plan, by an operator who perhaps may not patch namespaces:
  `OnlyConfirmedIsApplied` for the typed name, `ReportIsTruthful` when the plan is refused half-way, `GoesForward` (a step enters the apply pass, makes the one
  plan, records one more action of it, or goes on to a later call: nothing is retried) and
  `EveryRunEnds`.
- `scan`: `--all`. `NothingHidden` (what is stuck throughout is reported, or its own group, list or
  Get failed), `TokenIffItWorks` (undisturbed, a token is printed only for what is DEAD, and withheld
  for a webhook only if admission would reject one of the requests the clear consists of -- the patch of
  the object for its finalizers, the PUT of `namespaces/finalize` for `kubernetes` -- but for three mistakes
  of the gate, which the property names and which are described below),
  `ServedIsNeverDead` (a finalizer is DEAD in no token if the APIs that may own it were up all the
  time, whatever else changes or fails between the reads), `ScanEnds`. The six webhooks differ in what decides: group and resource, operation, policy,
  configuration or URL, and one is on `*/*` of every group, which the gate does not see coming.

Statements of the repository that the code does not keep, each shown by a run that ends in a
counterexample (PROJECT.json, `findings`, quotes the lines):

- `live_cleared`: "a live one is never diagnosed or cleared" -- `IsStuck` is not part of the
  re-verify; a target recreated under its name while the run is under way is cleared.
- `nothing_stuck`: exit 0, "nothing stuck", after one failed Get of a stuck target.
- `typed_name`: "binds the `--apply` confirmation to the exact state it showed you" -- a name typed
  on a terminal is bound to nothing but the name: after a failed call in the dry pass the
  operator confirms a report that is not about the state the apply pass finds.
- `unread_crds`: "Anything it cannot read ... blocks the verdict" -- a failed read of the CRDs
  can turn UNKNOWN into DEAD.
- `best_owner`: "its best owner candidate", "exact group > suffix" -- `Map` takes the first group of the list
  that matches and never compares ranks: with `example.com` listed before `apps.example.com`, an
  outage of the former makes a finalizer of the domain `apps.example.com` DEAD while the latter is up.
- `owner_gone`: "hard proof the owner is gone" -- one unavailable version of a group decides although
  another is available.

Met while modelling and not kept as runs:

- an apply exits 0 with a finalizer left that no action of its plan writes to: one of
  `spec.finalizers` other than `kubernetes` becomes a patch of metadata (`plan.go:39`), and
  `kubernetes` in a namespace's metadata becomes the `/finalize` of its spec, once.
  `ExitZeroClearsMetadata` says what exit 0 does mean;
- ownership of an orphan is not read again before it is deleted (`run.go:318`): it may have been
  handed to another owner since the scan. The delete's precondition is the rv of after that;
- the webhook gate is to detect webhooks "that would reject the mutating request finalizer-doctor is
  about to send" (`webhook.go:1-3`) and "is conservative against false refusals" (`webhook.go:17-19`). It
  asks about an update of the resource, also for a namespace that only needs a `/finalize`, whose
  request rules on `namespaces` or `*` do not intercept: under a dead webhook on `*` the namespace
  of the `scan` run gets no token although its clear would be accepted (`RefusedForNothing` in
  `TokenIffItWorks`). The other way round it overlooks rules on subresources, `*/*` among them
  (`Unforeseen`), and it reads no selectors and match conditions;
- an endpoint that does not state its readiness is taken for not ready (`webhook.go:116`), though
  the API says it should be treated as ready (`Stated` in `TokenIffItWorks`);
- `--all` names the groups whose discovery failed and says nothing of lists that failed, so it
  exits 0 with "no stuck resources found" when all it could not list is stuck; an object
  recreated between the list and the Get is reported although it is live;
- with two dead aggregated groups `NamespaceKubernetes` asks only the first for a CRD; no probe looks
  at workloads, pods or endpoint slices, so their unreadability vetoes nothing;
- the comment in `probe.go` that a CRD-owned finalizer always verdicts UNKNOWN does not hold when
  its group has an aggregated APIService; in score mode the only weight the probes emit, 40, is
  below the threshold of 60, so that DEAD is reached by the namespace finalizer alone.

### Bounds

`MaxForeign` (foreign writes) and `MaxFaults` (failed calls) appear only in the guards of the
environment, never of the tool. Two foreign writes suffice for the races there are: a delete and
a recreate, or a change and its undoing, within one window between two calls; each property about
one window needs one write more than the window. One failed call suffices for each early return,
since every failure but a snapshot read, a list and a write of the audit file ends the run; a dead
API makes any number of calls fail in `Scan` beside that one. `MaxRegistrations` and `MaxCRDs`
bound lists as said above. `Disturbances` selects which kinds of foreign writes a
run has, so that no run carries all of them at once; between the runs all happen. `Scan` has one
webhook at a time (`OneHook`): the gate looks at each by itself.

In `Doctor` the API of the target itself is none of the registrations, so that it fails only as a
failed call; `Scan` has the other case.

The runs of `MCDiagnosis` stop after their question and do not check for deadlock. All runs of `Doctor` and `Scan` do: a state in which an invocation is
neither ended nor waiting and has no step would be reported.

### Fairness

`FairSpec` of `Doctor` asks that an invocation that waits for nobody keeps taking steps: the
process is a single thread that is always either computing or in a call, and every call has the
deadline of `--timeout` (`root.go:93`, `root.go:127`; a positive one, as the default is), after
which it fails. Nothing is asked of the operator (a prompt may stay unanswered) or of the rest of
the cluster. The formula is weak fairness of `Moves(r)`, any change of `pc[r]` while the invocation
is `Running`, which under `Next` is that of `Step(r)` or `Crash(r)`: every `Step(r)` changes `pc[r]`,
and while `Running(r)` one is enabled, which the deadlock check of `terminal` establishes for its
one invocation. It spares TLC working out ENABLED of a diagnosis. `Scan` states weak
fairness of its calls, and of its report in the same way.

## What is proved

The theorems hold for every value of the constants: any objects and finalizers, any cluster, any
number of invocations, foreign writes and failed calls. They rest on the assumptions the
modules name, which TLC evaluates in every run of those modules:

- `ClusterAssumption` and `DoctorAssumption`: the constants have their types (the registrations and
  CRDs are sequences, their groups sequences of labels), and a store starts at revision 0;
- `ScanAssumption`: the catalog is typed and lists the resource of every object there is;
- `NothingAssumption` and `ApprovalAssumption`: `Nothing` is none of the values it stands beside,
  exit codes among them;
- `DiagnosisAssumption`: the bounds are natural numbers.

| Theorem | Property | Argument |
|---|---|---|
| `DiagnosisFacts!ScoreImpliesStrict` | | on any evidence score mode says DEAD only where strict mode does: they share their vetoes and `Score` asks more |
| `DiagnosisFacts!OnePieceMore` | | one more piece of evidence lifts no veto, and makes DEAD only by pointing to it: `EvidenceGrows` |
| `DiagnosisProofs!DeadCorrect` | `DeadNeedsHardProof` | `DeadOwnerIsDown` of every answer |
| `DiagnosisProofs!CRDFirstCorrect` | `CRDsComeFirst` | the same, as `Map` finds one of the matching CRD groups: `FirstCRDFound` |
| `DiagnosisProofs!NamespaceCorrect` | `NamespaceDeadIsProven` | `DeadNamespaceIsProven` of every answer |
| `DoctorProofs!TypeCorrect` | `TypeOK` | inductive: `TypedInv` |
| `DoctorProofs!PinCorrect` | `PinIsFaithful` | inductive: `PinnedInv` |
| `DoctorProofs!BlastRadiusCorrect` | `LeastBlastRadius` | action property, from `PinnedInv` |
| `DoctorProofs!ConsentCorrect` | `OnlyConfirmedIsApplied` | inductive: `ConsentInv` |
| `DoctorProofs!ReportCorrect` | `ReportIsTruthful` | from `ConsentInv` |
| `RefinementProofs!OrderCorrect` | `FinalizeComesLast` | inductive: `OrderInv` |
| `RefinementProofs!RefinementCorrect` | `Remediates` | `RefineInit`, `RefineStep` under the inductive `RefineInv` |
| `RefinementProofs!ForwardCorrect` | `GoesForward` | action property, from the inductive `ForwardInv` |
| `OutcomeProofs!AuditFileCorrect` | `AuditFileIsTruthful` | inductive: `FiledInv` |
| `OutcomeProofs!PreflightCorrect` | `PreflightCoversTarget` | inductive: `GrantedInv` |
| `OutcomeProofs!ExitZeroCorrect` | `ExitZeroClearsMetadata` | inductive: `LineageInv` |
| `OutcomeProofs!RecoveredCorrect` | `RecoveredOwnerAborts` | action property, from the inductive `HistoryInv` |
| `OutcomeProofs!OrphanCorrect` | `OrphanWasOwned` | the same |
| `OutcomeProofs!QuietCorrect` | `QuietApplyClears` | inductive: `QuietInv`, with `LineageInv` |
| `ScanProofs!ScanTypeCorrect` | `ScanTypeOK` | inductive by itself |
| `ScanProofs!NothingIsHidden` | `NothingHidden` | `Followed`, inductive while the object stays stuck |
| `ScanProofs!TokenIsDue` | `TokenIffItWorks` | inductive: `ScanTypeOK` and, while all is quiet, `ReadsTrue` |
| `ScanProofs!ServedCorrect` | `ServedIsNeverDead` | `UpSeen` and `NotOffered`, inductive while the owners are up |

The diagnosis:

- `FirstPosition` says what `SelectInSeq` returns (the least matching position, or 0), by
  `MinExists`. From it `OwnerMatches`: an owner's group is the domain or a suffix of it and comes
  from the list that was searched first. `HardSignalIsReal`: DeadHard evidence names an
  unavailable aggregated APIService of the owner's own group. `DeadTakesHardSignal`: neither strategy says
  DEAD without hard dead evidence, or against a live signal. Together: `DeadOwnerIsDown`.
- `OnePieceMore` and `ScoreImpliesStrict` are about evidence lists of any length, which no run has: the
  probes emit one piece, and lists of several are the strategies' own contract (source README, 87-88).

One invocation among others:

- `TypedInv` is `TypeOK` with `Started`, `Pinned` and `Gated`: past `Start` there is a command line,
  at `refetch` and `mutate` a pinned action, from the gate on an authorized object. Types alone do
  not survive a step, because `Mutate` applies the fields of `pin[r]`, which may be `Nothing`.
- `PinnedInv` adds `Versions`: no resourceVersion in the store or in a pin is newer than the
  last write. `StepShape` says that a step either writes (`Advances`: what it
  changes gets a revision later than all of these) and keeps or drops pins, or pins an object as it
  is. So a pin is right or its revision is gone for good, and the API server, which compares
  revisions, refuses what was computed from a stale list. `LeastBlastRadius` follows: the list sent
  is the list that is there, less one finalizer.
- `ConsentInv` is, per invocation, `Phase` (where it can be: nothing is authorized before the apply pass,
  a token is printed only as a dry pass ends), `Books` (recorded is within carried out is
  within planned, and only an ended run differs between the first two, by one action) and `Consent` (the
  plan is about the authorized object; its token is `DeadToken`, by `DeadDigest`), and between them
  `TokensShown`: a token given is one that was printed and stays printed. A step of one invocation is `Same` for the others
  (`OnlyActorMoves`), which reduces the proof to the one that moves.
- `OrderInv` adds `Ordered`: carried out is closed under smaller `Rank`, and the pinned action has the
  smallest rank left.
- `RefineInv` is `PinnedInv`, `OrderInv` and `Once`: the pinned action has not been carried out, and
  nobody has typed a name before the prompt. Then `PassGate` finds its token among those shown or its
  name typed, and `Mutate` does what `Carry` allows: the effect from `PinnedInv`, the order from
  `OrderInv`, the consent from `ConsentInv`, that it is new from `Once`.
- `ForwardInv` adds `Laden`: what the gate let through has a finalizer, so that no plan is empty
  (`BuildHasWork`). With `Once`, `Mutate` records an action that was not recorded (`MutateRecords`); all
  other steps but `ScanOrphans` and the change of pass raise `Position` (`ActorIsAhead`). Where a
  plan is finite -- an object has finitely many finalizers and its namespace finitely many objects --
  no invocation therefore takes infinitely many steps: what `EveryRunEnds` adds is that a step
  is enabled and is taken.

How it ends:

- `FiledInv` adds `Filed`: nothing is in the file before the run reaches it, what was recorded is
  closed under smaller `Rank`, and without a failed call the file of an ended run is the record, which
  is all it carried out. A prefix of a prefix is a prefix, whether the writer or the run was stopped.
- `GrantedInv` adds `Granted`: from the access reviews to the end of the apply pass the verbs
  reviewed are allowed, and a plan has a `/finalize` only for a namespace.
- `LineageInv`: exit 0 is about the object at the end, after writes of strangers the run never
  saw. `StepAges`: a step leaves an object that is being deleted with no finalizer more than it
  had, and a new object gets a uid later than every revision before. So what was read `Descends`
  to what is there (`Traced`), and a finalizer once carried off stays off the same object
  (`Cleared`); when the plan is done, all the authorized ones are off. That a recreated target is
  told from the authorized one rests on the uid.
- `HistoryInv`: an APIService a snapshot shows down was down since the previous mutation (`Noticed`),
  as each mutation empties the window and each re-verify reads anew. A re-verify that passes makes
  the run `Evident` (`ReverifyProves`, by `DeadOwnerIsDown` and `DeadNamespaceIsProven`): some API
  was down, and so was the owner of every finalizer there. It stays evident until the mutation
  (`EvidentStays`), because by `StepAges` no finalizer comes back. This needs that the lists a
  snapshot makes are lists of registrations (`InOrderListed`, `EvidencesListed`): `InOrder` gives an
  increasing enumeration, which `OrderExists` shows to exist.
- `QuietInv` is about an invocation that is still `Undisturbed`, `Admitted` and `Trusted` and was given a
  token of its target. What it has read is what is there (`ReadTrue`). Before its gate nothing
  has changed since the token was printed (`ShownTrue`), so that it goes straight on to the gate
  (`Faithful`) and passes it (`GatePasses`); what is DEAD for either strategy is DEAD for strict
  (`DeadUnderStrict`, from `ScoreImpliesStrict`). Past the gate (`Settled`) the target is the authorized
  object less what was carried out (`HalfDone`). As long as an action is left it is there
  (`UnfinishedHolds`) with a part of the finalizers that were DEAD (`RemainderIsDead`), on the same
  evidence. So every re-verify passes, every pin is accepted (`PinAccepted`), and the last write removes
  the target (`CarriedSettles`).

The whole cluster:

- `Followed` says where a scan stands with an object: about to be listed, read, judged or reported, or
  excused for good. No step taken while the object is stuck loses it (`StaysFollowed`).
- `ReadsTrue`: in a quiet cluster each part of the snapshot is true from its read on, and the report is
  computed from that. `SameVerdicts` and `Offered` compare it with a snapshot of the present, and
  `Blocks` with the `Rejects` of each request that is sent, hook by hook. A hook the gate sees and that rejects
  no such request is one on the patch of a namespace that is sent none (`RefusedForNothing`) or
  has a backend that states no readiness (`StatedBackend`); one that rejects and is not seen has
  a rule on a subresource (`Unforeseen`) or, again, such a backend.
- `ServedIsNeverDead` is about a cluster that is not quiet. A snapshot shows of the APIs what it
  showed before or what is there (`AvailableRead`), so it shows none down that may own the finalizer
  (`UpSeen`); and DEAD rests on one that it shows down (`DeadRestsOnDown`, which `HistoryInv` uses as well).

`DoctorProofs` and `RefinementProofs` know of the diagnosis only the set its verdicts are in
(`StateOfType`) and `JointlyDead`, so that they hold whatever the strategies do; `HistoryInv` and
`ServedIsNeverDead` use what DEAD rests on, `QuietInv` how the two strategies compare.

Only model-checked:

- `EveryRunEnds` and `ScanEnds`: liveness under fairness, out of the prover's reach. The safety part
  of the first is `GoesForward`.
- The value of `ScoreOf`, a fold over a list of any length: induction over data. The theorems about
  `Score` need no value of it.
- The six statements the code does not keep, which have counterexamples.


## What is not modelled

- Flag validation and kubeconfig loading: they end the process before its first call. `ParseTarget`
  is the constant `Parsed`, what a command line's name stands for.
- Rendering, JSON output (which prints no token), versions, `main`: no state that matters to a
  property.
- Selectors, match conditions and the match policy of webhooks, which the code does not read.
- Collisions of the 48-bit digest. The model compares what is hashed.
- The memory of the API server's watch cache: a Get returns the current object.
- The in-memory client of the unit tests, and build, release and end-to-end scripts.

## Plan

Done: `Diagnosis`, `Cluster`, `Reading`, `Doctor`, `Remediation` and `Scan` with their checks, and
the proofs listed above: every safety property the runs check is a theorem. Left is a
specification of what `--all` promises, more abstract than its properties, and `Scan` shown to
implement it.
