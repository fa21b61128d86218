# Verification of the vSphere Kubernetes Drivers Operator (VDO)

TLA+ modules of the operator's controllers, TLC configurations that check them
on small instances, and TLAPS proofs of the main safety results. Paths are
relative to the repository; `vdoconfig_controller.go` is
`controllers/vdoconfig_controller.go`.

## 1. The system

VDO is one process with three controllers (controller-runtime, one worker each)
and a command line, `vdoctl`, that writes the resources they read.

| Part | State | Operations | Modelled in |
|---|---|---|---|
| VDOConfig controller, rollout | phases in `.status`; in memory only: the deployed versions, their manifests (`CurrentC?IDeployedVersion`, `C?iDeploymentYamls`) and the global `CsiNamespace`; in the cluster: secrets, configmap, manifests, namespace | `Reconcile` and all it calls | `VDOConfigReconciler` |
| VDOConfig controller, nodes | `NodeStatus`, the label on nodes | `validateNode`, `reconcileNodeProviderID`, `reconcileNodeLabel` | `NodeSync` |
| Compatibility matrix | ConfigMap `compat-matrix-config`, environment variables, global `VDO_NAMESPACE` | `updateMatrixInfo`, `getMatrixConfig`, the watch, `vdoctl configure/update matrix`, start of the container | `MatrixConfig` |
| CompatibilityConfig controller | the resource | `Reconcile` | `MatrixConfig` |
| Version selection | - | `compareVersions`, `compareSkewVersions`, `Fetch?DeploymentYamls` | `VersionSelection`, used by `CloudConfig` |
| VsphereCloudConfig controller | status of the resource, its queue | `Reconcile` | `CloudConfig` |
| vCenter session cache | sessions by server and user, a lock | `GetOrCreate` | `CloudConfig`; one process in `ConfigureDrivers` |
| Rendering of secrets and configmaps | - | `cpiutil`, `csiutil` | which vCenter gets which data: `CloudConfig`; when it is written: `VDOConfigReconciler` |
| Rewriting of kubelet paths | - | `updateCSIDaemonSet` | whether it is done: `VDOConfigReconciler` |
| `vdoctl configure drivers` | answers, secrets, VsphereCloudConfigs, VDOConfigs | the questions and what they write | `ConfigureDrivers` |
| `vdoctl` deploy, delete, status, version | - | one-shot commands | - |

How the parts interact. Everything goes through the API server. `vdoctl` writes
the ConfigMap, the VDOConfig, the VsphereCloudConfigs and their secrets, after it
has tried them on vCenter itself. The VsphereCloudConfig controller logs in to
vCenter and writes *verified* or *failed*, which the VDOConfig controller reads
but does not watch. A request for the VDOConfig controller comes from the
VDOConfig (its own status writes included), from the matrix ConfigMap, from a
labelled node with a providerID, from a retry, or from the resync of the
informers after 10 hours. A Reconcile selects versions, removes what another
version deployed, then drives CPI and CSI through secret, configmap, manifests,
checks and node status, with a status write at each change of phase.

What is hard here:

- a Reconcile is a sequence of some twenty writes without a transaction: a
  crash, a failing call or a conflict can come between any two, and what the
  next Reconcile does depends on the phase the last one managed to write;
- reads are from informers that may be behind, the controller's own writes
  included;
- what is deployed is known from memory alone;
- deletion of the old version is best effort, creation skips what exists;
- the namespace of CSI changes with the version, and namespaces take time to go;
- node and ConfigMap events are filtered by state that the controller itself
  has to have written before;
- two controllers share one session per vCenter and user, which outlives the
  password it was opened with, remembers the version vCenter had then, and is
  replaced whenever the datacenters asked for are others;
- neither secrets nor vCenter are watched;
- `vdoctl configure drivers` is a dialogue whose answers survive from one attempt
  to the next, that may end between any two of the objects it writes, and that
  nothing keeps two people from having at the same time.

What makes it correct: drivers do not run without credentials; the controller
does not rest in a phase of success over a missing driver; a changed matrix,
credential or node ends up applied; problems end up in the status; it comes to
rest; and it does not go back to an older matrix. A VsphereCloudConfig is verified
only for what it says, and ends up verified or failed as it deserves; the drivers
that are selected and the data they get end up being those for the vCenters as
they are. What `vdoctl` stores was accepted by vCenter, and a VDOConfig refers to
objects that are there.

## 2. Modules

**`VDOConfigReconciler`** is the core. One action is one function of the
controller up to its next write; `pc` says where the one worker is. Names are
those of the Go functions; `...Phase`, `CpiDeployed` and `CsiDeployed` are the
`updateC?IPhase` calls that follow a write in the same function.
`UpdateStatus` is `r.Status().Update`: it fails when the copy (`loc`) is out of
date (`locFresh`), and the phase in `loc` has then changed all the same, as in
the code. `Goto("retry")` is a returned error. `FetchCpiDeploymentYamls` and its
CSI twin contain the deletion of the old version: any subset of the calls may
fail, an absent object fails, a file stops at its first failure, the next file
is tried. `reconcile?Deployment` creates up to the first failure. `Crash` resets
`mem`, the fields and globals of the process.

Data is reduced to what phases depend on: the vSphere configuration is one value
of `Confs`, a manifest the sequence of its documents with the file each is in,
the nodes one of *none, pending, ready, unmanaged*, a DaemonSet's pods
*unobserved, unready, ready*. Documents other than DaemonSets, CSIDriver, the
feature-state ConfigMap and the Namespace are one document `rbac` for CPI. The
version selection is the variable `matrix`, which changes at any time. Status
messages are left out, except that a repeated failure may or may not be a new
version of the resource (`KeepsVersion`).

The manager's client reads from informers. `cache` is the informer's VDOConfig.
`dsSeen` is the informer's copy of each DaemonSet: absent, as in its manifest, or
with the custom kubelet paths; `Copy` is what a `Get` returns. With `InformerLag`
the copies stay as they are when a step changes a DaemonSet (`DaemonSetsChange`
notes which ones are behind in `dsBehind`) until the watch catches up
(`InformerSync`, all copies in one step). So a check may find a DaemonSet that has
just been deleted; an update of a copy that is behind is a conflict; and `updateDS`
leaves a copy alone that has the custom paths already, whatever the DaemonSet has.
`misled` is a history variable: the steps whose last read showed what was not there.
A copy that is behind in its status only makes an update fail, like any failing
call. Secrets and configmaps come from the same client and are taken to be current:
a stale one makes the write that follows fail (*AlreadyExists* or a conflict), which
is a failing call, too; a VsphereCloudConfig that is read late is a later
`CloudConfigStatus`.

`FetchVsphereVersions` needs a session with every listed vCenter (those of CPI, if
there are any); `login` says whether it gets them. It is an input of its own, beside
`verified`, since the verdicts are written by the other controller at another time;
`CloudConfig` has both from one source. Any registered CSIDriver passes
`verifyCSIDriverRegisteration`; `OtherCsiDriver` says that another vendor's is there.
CSINodes are not modelled: their check passes, or fails as a call does. The
VDOConfig is created once and not deleted; that Reconcile refuses to work with
several is not modelled.

`MCVDOConfigReconciler` has the manifests for TLC: three shapes that the
repository's matrices have (CSI 2.2 in kube-system, 2.4 and 2.5 in one file, 2.6
with the Namespace document in a file of its own).

**`MatrixConfig`** follows a matrix from its publication to its use. A matrix is
the number of its publication. The operator is *down*, *started* (environment
read, informers empty) or *running*. `AUTO_UPGRADE` comes from the ConfigMap and
is not optional (`config/manager/manager.yaml`), so the container waits for it.
Reconcile is one step: only it uses the variables, and it reads the informer
once. The CompatibilityConfig controller does what its code does: nothing.

**`NodeSync`** has the nodes one by one: the list for the status, the status
write, the second list for the labels, and one update per label with the
conflict that the CPI driver's own update of the node causes. The rollout is the
one step `Drivers`, of which the CPI phase matters.

**`VersionSelection`** has no state: the order in which `sort.Strings` puts
versions, the entries that suit a vSphere and a Kubernetes version, the search
from the end of the list, its errors, and the loop over vCenters in which the last
result wins; beside it a reference, the newest version that suits all vCenters.
A driver version is the tuple of its numbers, an entry that does not parse is not
`valid`.

**`CloudConfig`** is about the connection to vCenter. Two workers, the
VsphereCloudConfig controller (`vcc`) and the VDOConfig controller (`vdo`), meet in
`GetOrCreate`, which is split at its calls to vCenter (`Lookup`, `Login`, `Find`)
and holds `lock` over them. `vcc` takes resources from a queue, reads the resource
and the secret (`VccBegin`), and writes the verdict (`VccFinish`), which the API
server refuses when the resource has changed (`fresh`). `vdo` reads the version of
Kubernetes and, vCenter by vCenter, that of vSphere, selects
(`CheckCompatAndRetrieveSpec`, through `VersionSelection`), asks for the verdicts and
renders the data. Of the rest of that Reconcile, which is `VDOConfigReconciler`,
nothing is repeated. vCenter has a password, datacenters and a version; a session
is active or not, has inventory paths, and the version it was opened with. A
datacenter is written by name or by path, and only paths are found again in a
session, as `reflect.DeepEqual` compares the names as written. All resources of a
vCenter use one user. The password stands for all that only a login checks.

**`ConfigureDrivers`** is the dialogue of `vdoctl configure drivers` for several
users. `pc` is the question or the write a run is at; `QuestionAfter` is the
nest of labelled loops, `GetOrCreate` what vCenter or the process's own cache
answer, `Kept` which earlier answers stay. The objects are written one by one;
`Exit` is an interruption, an error of the API server or a conflict, at any of
them. What a user types as datacenters is a name, a path, a list of several that exist, or
something else; `Found` says which of them the lookup finds. A careful user gives
answers that can be accepted; a user becomes careful at some time. `rivals` is a
history variable: whose runs were under way when the first VDOConfig was created.
VDO is deployed and has a matrix; topology, kubelet path and file volumes are
passed through and left out.

**`DriverRollout`** is what `VDOConfigReconciler` promises for one driver, in ten
actions over six variables: whether its credentials are there, which version was
chosen since the start of the process, which is installed, the phase, whether the
copy that the controller looks at shows a driver, and whether the last look was at a
copy of a driver that had been removed.
`CpiRollout`, at the end of `VDOConfigReconciler`, is that specification under the
mapping from the controller's state.

How they fit together. `VDOConfigReconciler`, `NodeSync` and `CloudConfig` are three
views of one Reconcile: what one leaves out is an input of another (`matrix`,
`nodes`, `verified`, `Confs`) or one step (`Drivers`). `CloudConfig` shows what its
inputs `matrix` and `verified` come from and that they settle, which is what the
liveness properties of `VDOConfigReconciler` start from; the product of the two
would be far beyond TLC. `ConfigureDrivers` ends where `CloudConfig` starts.

Definitions marked *Slip* are mistakes the code could plausibly have; they are
used by nothing, and stand beside the definition they would replace to show that
the properties notice them.

## 3. Runs

All runs finish within four minutes on two cores.

| Run | Checks | Shows |
|---|---|---|
| `RolloutFaults` | `TypeOK`, `CpiDriverHasCredentials`, `SettledCpiPresent`, `SettledCsiConfigured`, `CpiRollout` | two disturbances (matrix change, edit, failing call, crash) anywhere in a rollout of two CPI versions and CSI 2.5.1 with a custom kubelet path, and informers that lag; every step implements the abstract rollout |
| `CsiNamespaces` | `CsiDriverHasCredentials`, `SettledCsiPresent` | three changes among CSI 2.2, 2.4 and 2.6 or failing calls, and informers that lag, so that a namespace is left, deleted and entered again while it terminates |
| `Upgrade` | `CpiUpgradeCompletes`, `CsiUpgradeCompletes`, `ProblemsShown` | a change of the matrix, of the verdict on the cloud configs, of the login, of the nodes or of the pods at any moment, from verified or unverified cloud configs, with informers that lag, ends with the selected drivers; a CSI cloud config or a node that stays wrong is shown |
| `Recovery` | `Stabilises`, `CredentialsCurrent` | changed credentials, failures, crashes and lagging informers, two of them at any moment |
| `MatrixUpdates` | `TypeOK`, `NeverOlderMatrix`, `MatrixFollowed` | three publications by URL with three deletions, crashes, failures or CompatibilityConfigs |
| `Nodes` | `TypeOK`, `ConfiguredMeansReady`, `RecordedAreLabelled`, `PendingBecomesReady`, `NodeStatusCurrent` | two nodes, one of them unknown to vCenter, two disturbances: they join, leave and come back, and the CPI driver's update falls anywhere |
| `CloudConfigs` | `TypeOK`, `SessionHasDatacenters`, `VerifiedAsWritten`, `WorkingVerified`, `BrokenShown`, `SelectionCurrent`, `DriverDataCurrent` | two resources on two vCenters, or on one with the same datacenters, one of them for CPI and CSI; one edit, changed secret or password, lost datacenter, upgrade, fault, crash or ended session between any two calls, and all that users repair afterwards |
| `ConfigureDrivers` | `TypeOK`, `ReferencesExist`, `StoredIsValidated`, `NoneAfterConfigured`, `GetsThrough` | two users at once, one of them with answers that are not accepted, a run that is broken off and one that is repeated |
| `CsiUpgradeStuck` | `CsiUpgradeCompletes`, violated | see below |
| `UpgradeLostAtRestart` | `CpiUpgradeCompletes`, violated | see below |
| `MatrixModeChange` | `MatrixFollowed`, violated | see below |
| `PasswordUnchecked` | `StoredIsValidated`, violated | see below |

Bounds. `MaxDisturb`, `MaxEvents` and `MaxWrites` bound what the environment
does, never what the controller does: retries, resyncs and pod starts are
unbounded. Two disturbances are enough for a second one to hit the recovery from
the first; the namespace run needs three changes to leave and re-enter a
namespace. A rollout starts from any matrix of `MCFirst`, also one without a fitting
version. The passing runs have `InformerLag` TRUE; for the two violations a behaviour
with informers that keep up is enough. The bounds, the manifests and the versions do not limit the
theorems. No symmetry is used. `Upgrade` has CSI versions below 2.5.0 only,
because the ones above do not hold (`CsiUpgradeStuck`); `MatrixUpdates` has URLs
only, for the same reason (`MatrixModeChange`). MatrixConfig's runs do not check
for deadlock: users stop, and a container without its ConfigMap waits.
`CloudConfigs` has one disturbance (`MaxEvents`), but `RepairSecret`, resyncs and
sessions that end with them are not counted; a session shared by resources with
different datacenters needs only the two resources and an edit, and one with the same
datacenters is there from the start. Its matrix has drivers for each of the four
pairs of vSphere and Kubernetes versions, so that no upgrade leaves the properties
without a case, and versions whose order as text and as versions is the same.
`BrokenShown` was also checked with two changes of secrets and passwords. `ConfigureDrivers` types
datacenters by name, for the reason `PasswordUnchecked` shows; two users, two
vCenters and one repetition are enough for objects of one run to be overwritten by
another between any two of its steps.

Fairness. The worker takes steps (weak fairness of Reconcile; in `MatrixConfig`
and `NodeSync` each request is served, since the workqueue is first in first
out); informers deliver; the DaemonSet and namespace controllers and the kubelet
make progress; the resync returns (controller-runtime's default of 10 hours). In
`NodeSync` the resync is no part of the fairness: `PendingBecomesReady` holds without
it, and `NodeStatusCurrent` states it as its hypothesis. In `CloudConfig` each worker is strongly fair, since it may have to wait for the lock:
Go's mutex gives it to a waiter, and calls to vCenter are taken to end; a resync
finds sessions ended again and again, since vCenter ends those not used for 30
minutes, and is strongly fair because it is enabled only between Reconciles. In
`ConfigureDrivers` a run goes on, questions are answered, and a user takes care at
some time. Nothing is assumed of disturbances: none has
to happen, and none has to stop other than by its bound.

### Where the code departs from its documents

Four disagreements have a run of their own:

- `CsiUpgradeStuck`: with the phase *Deployed*, a change to CSI 2.5.0 or later
  deletes the old objects, does not apply the new ones (the phase forbids it),
  and then fails on the missing feature-state ConfigMap before the check that
  would set *Failed*. Every retry does the same.
- `UpgradeLostAtRestart`: after a restart the operator does not know what is
  deployed; a matrix that changes around it leaves the old driver.
- `MatrixModeChange`: after a change from URL to file, or back, both variables
  are set and every Reconcile fails until a restart.
- `PasswordUnchecked`: `vdoctl` asks for the credentials of CSI after those of CPI,
  and validates them with a session that is cached by server and user; for a
  datacenter typed as an inventory path the session of CPI is returned, and a wrong
  password for CSI is stored.

The model also has these, without a run of their own:

- the check after a deletion may read a DaemonSet that is gone: the controller then
  rests on *Deployed* without a driver, until the resync or another request
  (`"cpiCheck"` and `"csiCheck"` in `misled`);
- a DaemonSet that was replaced while the informer still showed the rewritten old one
  keeps the default kubelet paths until the next request (`"csiKubelet"` in `misled`);
- when the removal of 2.6.2 deletes the namespace but fails to delete the DaemonSet,
  the check of 2.4.0 finds it in the terminating namespace, and the controller rests
  on *Deployed* until the resync (`NamespaceThere`);
- a DaemonSet that a failing DELETE has left is taken for that of the new version;
- a wrong credential of a CPI vCenter does not show in the VDOConfig: Reconcile ends
  in `FetchVsphereVersions`, before it would write *Failed*;
- when the matrix has no fitting CSI version the driver is deleted and the
  status stays *Deployed*;
- errors of the CSI cloud config are written to the CPI status, where they
  alternate with the phase of the healthy driver;
- *Deployed* is written as soon as the DaemonSet exists, before the DaemonSet
  controller has looked at it;
- the ConfigMap's deletion before the first Reconcile of the process is dropped,
  and its matrix stays in use;
- the CompatibilityConfig controller returns before it reads the resource;
- a node that joins after the first rollout, or comes back under its name, has
  no label, so none of its events counts until something else causes a Reconcile;
- with vCenters of different versions the drivers are those for the last one
  listed, whether or not they suit the others; `SelectionCurrent` says no more;
- two VsphereCloudConfigs with one vCenter and the same datacenters, as paths, share a
  session: while one of them works, a wrong password of the other is not noticed, and
  reaches the drivers (`ShareSession`);
- while one VsphereCloudConfig fails, the retries of the VDOConfig controller keep the
  sessions of the others in use, and what has become wrong with them is not noticed
  (`KeptInUse`);
- versions are ordered as text: 2.10.0 would come before 2.9.0;
- while no version of the drivers suits, the retries of the VDOConfig controller
  keep a session in use, and a password that has become wrong is not noticed
  (`BrokenShown` is about supported versions);
- a session for datacenters that are given by name is never found again: each
  Reconcile logs in anew, and nothing logs out;
- `strings.SplitAfter` leaves the commas in what `vdoctl` reads: the list that
  `docs/getting-started/configure_drivers.md` describes (line 17) and shows (line 30,
  `dc0, dc1`) is rejected as datacenters that do not exist, as often as it is typed.
  `GetsThrough` is therefore about users who end up typing a single one;
- after a failed attempt with another server, its thumbprint stays: an insecure
  connection for CPI then fails for ever, because the thumbprint is not asked for
  (`LeftOver`); only an interruption ends the run;
- two runs of `vdoctl configure drivers` that start before either has ended create
  two VDOConfigs, and Reconcile refuses both;
- the phase *Deploying* is never written, because `updateStatus` is shadowed in
  `reconcileCPIDeployment` and `reconcileCSIDeployment`.

## 4. Proofs

| Module | Theorem | Argument |
|---|---|---|
| `VDOConfigReconciler_proofs` | `TypeCorrect` | `TypeOK` is inductive; one step per action |
| | `CpiDriverHasCredentialsAlways` | `CredentialsInv` |
| | `SettledCpiPresentAlways` | `SettledInv` |
| `MatrixConfig_proofs` | `TypeCorrect` | `TypeOK` is inductive |
| | `NeverOlderMatrixAlways` | `Order` |
| `NodeSync_proofs` | `TypeCorrect` | `TypeOK` with `StatusInv` for the copies of the status |
| | `ConfiguredMeansReadyAlways` | `StatusInv` |
| | `RecordedAreLabelledAlways` | `LabelInv` |
| `CsiDriver_proofs` | `SettledCsiPresentAlways` | `CsiSettledInv` |
| | `SettledCsiConfiguredAlways` | `CsiSettledInv` |
| | `CsiDriverHasCredentialsAlways` | `NamespaceEmpty`, `CsiCopiesInv`, `SecretInv`, while no driver is left in the other namespace |
| `DriverRollout_proofs` | `ImplementsCpiRollout` | `RolloutInv` with `CredentialsInv` and `SettledInv`, one step per action |
| `VersionSelection_proofs` | `SelectionOutcome` | the text order is a strict total order, so that the sets of versions that suit have a last element |
| | `SelectsNewest` | `SelectionOutcome`, and text and numbers in the same order, for `SameDigits` and `AllValid` |
| `CloudConfig_proofs` | `SessionHasDatacentersAlways` | `SessionsInv`, `CallsInv` |
| | `VerifiedAsWrittenAlways` | the same |
| | `TypeCorrect` | `TypeInv` with `CallsInv` and `SelectionOutcome` |
| `ConfigureDrivers_proofs` | `TypeCorrect` | `TypeInv` |
| | `ReferencesExistAlways` | `ReferencesInv` |
| | `StoredIsValidatedAlways` | `ValidInv`, for `"path" \notin Typed` |
| | `NoneAfterConfiguredAlways` | `CountInv` |

They hold for all versions, manifests, nodes, bounds and sets of disturbances,
from the assumptions named in the modules (`VersionsAssumption`,
`DocsAssumption`, `SwitchesAssumption`, `MatrixAssumption`, `NodesAssumption`,
`VersionSelectionAssumption`, `SectionsAssumption`, `CloudConfigAssumption`,
`ConfigureDriversAssumption`, `UsersAssumption`),
which say no more than the types of the constants, that `None` and `Absent` are
no values, that no node has the name of the VDOConfig's request, that 2.5.0 is
after 2.3.0, that there are finitely many users, and that a matrix has finitely many
versions, with numbers of at most two digits.

`CpiDriverHasCredentials` is not inductive: `reconcileCPIDeployment` creates the
DaemonSet without a look at the secret. `CredentialsInv` adds that from
`cpiConfigMap` on the secret exists, and from `cpiDeploy` on the configmap too,
through every path that leads there; neither is ever deleted.

`SettledCpiPresent` is about states at rest, so its invariant has to say why a
Reconcile that found no DaemonSet cannot come to rest. `SettledInv` says: at any
point past the DaemonSet check the DaemonSet exists, or the check was misled (only
the selection step deletes it, and it is before the check); a worker that is idle
with nothing queued got there past the check, since each earlier exit requeues. For a
VDOConfig without CPI the phase is never one of success. Nothing is assumed of the
informer: `misled` is part of the property, and the first item of the list above is
what it stands for.

The CSI driver lives in a namespace that changes with its version and may be deleted
under it, so its properties have a condition on the state at rest (`NamespaceThere`).
`CsiSettledInv` follows a Reconcile through its last steps: past `updateCSIConfigmap`
the feature state is set, past `updateCSIDaemonSet` the kubelet paths are rewritten or
the copy was one of a replaced DaemonSet, past the check the DaemonSet is there or the
check was misled, each unless the namespace has been lost meanwhile; and the versions
with a namespace of their own are looked for there. The condition is needed, as the
list above says: TLC reaches rest on *Deployed* in a terminating namespace with a
change of the matrix and a failing call.

`CsiDriverHasCredentials` needs to know that a namespace that is not there is empty
(`NamespaceEmpty`), that a copy of the latest version has the latest phase
(`CsiCopiesInv`), and that from `reconcileCSISecret` on the secret is in the namespace
the driver goes to, unless that is lost (`SecretInv`). The manifests may bring the
namespace back, and with it a driver without a secret; they are only applied in a
phase that is then changed, and that change is another request. A driver that a failed
deletion left in the namespace that CSI has moved away from is not followed by
`SecretInv`, hence the theorem's condition. With three disturbances of any kind TLC
finds no such driver without its secret.

`Order` relates the copies of a matrix: the ConfigMap's is the newest, then comes
the informer's, then the variables of the environment; an environment that
selects a matrix at all is not older than the one in use; and an operator that
is not running has no informer's copy. It is needed because the environment is
set from two sources, the container's start and the informer.

`StatusInv` carries *Configured implies no pending node* from the API server to
the informer's copy, the local copy and the copy about to be written.

`RecordedAreLabelled` is about states at rest, too. `LabelInv` says when the
controller may rest: only with nothing *outstanding* (an informer's copy that is
behind, or a request that Reconcile will not skip), and then every recorded node is
labelled. Its parts are the reasons: a fresh copy is the status at every step that
goes on to the labels (`CopiesInv`); a Reconcile that works on an old copy, or that
fails, leaves something outstanding, also when its own request is one that would be
skipped (`FollowedInv`); past the list, what the copy records is labelled or still to
do (`LabelsInv`).

`SessionHasDatacenters` needs to know that every cached session has inventory paths
and that the lookup compares them with what is asked for: `SessionsInv` says so of
the cache, where either worker may have put a session, and of the sessions in
progress. `CallsInv` adds that a call is about a vCenter there is, and that the call
of the VsphereCloudConfig controller is about its resource as it is now, as long as
its copy is the latest (`fresh`). From both together `VerifiedAsWritten` follows:
only `VccFinish` writes *verified*, only over a fresh copy, and only after a session.

`SelectionOutcome` says what the nested loops of `FetchC?IDeploymentYamls` compute, for
any matrix and any vCenters: `Found` and `Selected` are written with CHOOSE, so the
proof has to show that there is something to choose. `Lexicographic` is a strict total
order (by the first place at which two versions differ), `Text` is injective, and a
finite set has a last element in such an order. `SelectsNewest` compares the result
with the reference for vCenters of one version. Its hypothesis `SameDigits` is what
the code relies on without saying so: 1.20.0 and 1.22.1 may be in one matrix, 2.9.0 and
2.10.0 may not.

`TypeCorrect` of `CloudConfig` rests on both: a selected version is one of the matrix
by `SelectionOutcome`, and `TypeInv` adds to the types that a worker has arguments, a
session and the versions read wherever its next step uses them. `CallsInv` gives that
the loop over the vCenters does not run past its list.

`ReferencesInv` follows the objects through a run: past `createSecret` the secret is
there, before `createVDOConfig` the VsphereCloudConfig too, and every vCenter in
`vcIPList` has both. No step takes an object away, which is what keeps other users'
VDOConfigs right. `ValidInv` says that a run that has come to `createSecret` has
answers that vCenter accepted; it needs that no session is reused. `CountInv` adds to
the VDOConfigs there are the users that may still create one: a run that starts when
there is one ends at once, so from the first VDOConfig on their sum never exceeds the
number of `rivals`.

`ImplementsCpiRollout` maps *installed* to the version the DaemonSet was created
from, *chosen* to `CurrentCPIDeployedVersion`, *provided* to the secret and the
configmap, *seen* to what the informer shows, *misled* to the history of the check.
Most steps stutter; the ones that do not are the selection (`Choose`,
`Replace`), the configmap (`Provide`), the manifests (`Install`), the informer
(`CatchUp`), the check (`Look`), the phase writes and the restart. It uses the type invariant, `CredentialsInv`, `SettledInv` and
`RolloutInv`: a copy of the latest version has the latest phase, manifests in memory
are those of the chosen version, a driver that is there, or that a copy or a check
still shows, has left a phase, and the
steps after the check of the DaemonSet are taken in the phase that leads to them.

Only model-checked: all liveness properties (the prover has no fairness).

## 5. Not modelled

Parsing and download of manifests (one call that may fail), the format of
secrets and configmaps, the text of kubelet paths and its replacement, CSINodes,
wording of status messages, output of `vdoctl`, `vdoctl deploy`, `delete`, `status`
and `version` (one-shot commands that apply or delete a manifest or print what they
read), `main.go`'s flags and probes, generated deep copies, deployment files.

## 6. Plan

Done: the rollout, the matrix, the nodes; the version selection; the connection to
vCenter; `vdoctl configure drivers`; the abstract rollout and its refinement.

Left:

1. An abstract rollout for CSI, whose namespace changes with the version, and its
   refinement, from `CsiSettledInv` and `SecretInv`.
2. The rewriting of kubelet paths with a second path, if the paths can be reduced
   to something smaller than their text.
