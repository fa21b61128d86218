------------------------- MODULE VDOConfigReconciler -------------------------
(***************************************************************************)
(* The VDOConfig controller (controllers/vdoconfig_controller.go): one     *)
(* worker that, on every request, selects the driver versions of the       *)
(* compatibility matrix, removes what another version had deployed, and    *)
(* drives the CPI and the CSI driver through their phases.                 *)
(*                                                                         *)
(* One action is one function of the controller up to its next write to    *)
(* the API server, so that a crash, an edit of the resource or a step of   *)
(* the cluster's own controllers can fall between any two writes.          *)
(*                                                                         *)
(* Abstracted: the contents of secrets and configmaps are one value of     *)
(* Confs (what the VsphereCloudConfigs and credentials said when they were *)
(* read); a manifest is the sequence of its documents; the outcome of the  *)
(* version selection is the variable matrix; the nodes are summarised by   *)
(* one value (see module NodeSync).                                        *)
(***************************************************************************)
EXTENDS Naturals, Sequences

CONSTANTS
    CpiVersions,    \* versions of the CPI section of the matrix
    CsiVersions,    \* versions of the CSI section of the matrix
    CpiDocs,        \* CpiDocs[v]: documents of v's deploymentPath, in order
    CsiDocs,        \* CsiDocs[v]: the same for CSI
    OwnNsVersions,  \* CSI versions >= 2.3.0: live in vmware-system-csi
    FssVersions,    \* CSI versions >= 2.5.0: need the feature-state ConfigMap
    Confs,          \* contents of the vSphere configuration
    FirstMatrices,  \* versions the first matrix may yield
    FirstConf,      \* the first vSphere configuration
    CpiConfigured,  \* spec.cloudProvider.vsphereCloudConfigs is not empty
    CustomKubelet,  \* spec.storageProvider.customKubeletPath is not empty
    InformerLag,    \* the DaemonSet informer may be behind the API server
    OtherCsiDriver, \* a CSIDriver of another vendor is registered
    Disturbances,   \* which disturbances of the environment a run allows
    MaxDisturb,     \* bound on their number
    None            \* absent

\* Objects of a manifest: the DaemonSets, the feature-state ConfigMap, the
\* CSIDriver, the Namespace document, and one object for all the rest (RBAC).
CpiKeys == {"rbac", "ds"}
Namespaces == {"own", "kube"}      \* vmware-system-csi, kube-system
NsKey == <<"namespace", "cluster">>
DriverKey == <<"csidriver", "cluster">>
DsKey(n) == <<"ds", n>>
FssKey == <<"fss", "own">>
CsiKeys == {DriverKey, FssKey} \cup {DsKey(n) : n \in Namespaces}

\* What a matrix may yield for this cluster: a version of each driver, or none.
Matrices == [cpi : CpiVersions \cup {None}, csi : CsiVersions \cup {None}]

Kinds == {"matrix", "conf", "cloudconfig", "edit", "fault", "crash", "nodes",
          "pods"}

ASSUME VersionsAssumption ==
    /\ None \notin CpiVersions \cup CsiVersions \cup Confs
    /\ OwnNsVersions \subseteq CsiVersions
    /\ FssVersions \subseteq OwnNsVersions
    /\ FirstMatrices \subseteq Matrices
    /\ FirstConf \in Confs

ASSUME DocsAssumption ==
    /\ CpiDocs \in [CpiVersions -> Seq([file : Nat, key : CpiKeys])]
    /\ CsiDocs \in [CsiVersions -> Seq([file : Nat, key : CsiKeys \cup {NsKey}])]

ASSUME SwitchesAssumption ==
    /\ CpiConfigured \in BOOLEAN
    /\ CustomKubelet \in BOOLEAN
    /\ InformerLag \in BOOLEAN
    /\ OtherCsiDriver \in BOOLEAN
    /\ Disturbances \subseteq Kinds
    /\ MaxDisturb \in Nat

-----------------------------------------------------------------------------
VARIABLES
    (* the VDOConfig resource and its copies *)
    status,      \* .status phases in the API server
    cache,       \* the copy in the informer
    cacheFresh,  \* the informer has the latest resourceVersion
    loc,         \* the copy the running Reconcile works on
    locFresh,    \* its resourceVersion is still the latest
    (* the controller *)
    queued,      \* the workqueue holds a request
    pc,          \* where Reconcile is
    mem,         \* fields of VDOConfigReconciler and CsiNamespace (lost at exit)
    items,       \* vSphere configuration read by the running Reconcile
    (* inputs *)
    matrix,      \* versions the current matrix yields for this cluster
    conf,        \* the vSphere configuration
    login,       \* the vCenters of FetchVsphereVersions can be logged in to
    verified,    \* Status.Config = "verified" of the CPI and CSI cloud configs
    nodes,       \* summary of the nodes, see NodePhase
    (* what the controller writes to the cluster *)
    cpiSecret, cpiConfigMap, csiSecret,
    cpiObjs,     \* CPI objects: the version each was created from
    csiObjs,     \* CSI objects: the same
    fssOn,       \* use-csinode-id is "true" in the feature-state ConfigMap
    custom,      \* CSI DaemonSets whose kubelet paths were rewritten
    (* what the cluster does *)
    ns,          \* vmware-system-csi: absent, active, terminating
    pods,        \* status of each DaemonSet: unobserved, unready, ready
    dsSeen,      \* the informer's copy of each DaemonSet
    dsBehind,    \* the copies that are older than their DaemonSet
    (* history *)
    misled,      \* steps whose last read of a DaemonSet showed what was not there
    used         \* disturbances so far

resource == <<status, cache, cacheFresh>>
local == <<loc, locFresh, items>>
inputs == <<matrix, conf, login, verified, nodes>>
cpiOut == <<cpiSecret, cpiConfigMap, cpiObjs>>
csiOut == <<csiSecret, csiObjs, fssOn, custom, ns>>
informer == <<dsSeen, dsBehind>>
cluster == <<pods, informer, misled>>
vars == <<resource, local, queued, pc, mem, inputs, cpiOut, csiOut, cluster,
          used>>

Phases == {"", "Deploying", "Deployed", "Configuring", "Configured", "Failed"}
Status == [cpi : Phases, csi : Phases]
DaemonSets == {"cpi"} \cup Namespaces
DsStates == {"none", "plain", "custom"}    \* custom: with the custom kubelet paths

\* The steps that read a DaemonSet.
Reads == {"cpiCheck", "csiKubelet", "csiCheck"}

Steps == {"idle", "versions", "cpiYamls", "csiYamls", "csiNs",
          "cpiCloudConfig", "cpiSecret", "cpiSecretPhase", "cpiConfigMap",
          "cpiConfigMapPhase", "cpiDeploy", "cpiCheck", "cpiDeployed",
          "cpiNodes", "cpiLabels", "cpiError",
          "csiCloudConfig", "csiSecret", "csiSecretPhase", "csiDeploy",
          "csiFss", "csiKubelet", "csiCheck", "csiDeployed", "csiError"}

TypeOK ==
    /\ status \in Status /\ cache \in Status /\ loc \in Status
    /\ cacheFresh \in BOOLEAN /\ locFresh \in BOOLEAN /\ queued \in BOOLEAN
    /\ pc \in Steps
    /\ mem \in [cpiCur : CpiVersions \cup {None}, cpiYamls : CpiVersions \cup {None},
                csiCur : CsiVersions \cup {None}, csiYamls : CsiVersions \cup {None},
                csiNs : Namespaces]
    /\ items \in Confs /\ conf \in Confs
    /\ matrix \in Matrices
    /\ login \in BOOLEAN /\ verified \in [cpi : BOOLEAN, csi : BOOLEAN]
    /\ nodes \in {"none", "pending", "ready", "unmanaged"}
    /\ cpiSecret \in Confs \cup {None} /\ cpiConfigMap \in Confs \cup {None}
    /\ csiSecret \in [Namespaces -> Confs \cup {None}]
    /\ cpiObjs \in [CpiKeys -> CpiVersions \cup {None}]
    /\ csiObjs \in [CsiKeys -> CsiVersions \cup {None}]
    /\ fssOn \in BOOLEAN /\ custom \subseteq Namespaces
    /\ ns \in {"absent", "active", "terminating"}
    /\ pods \in [DaemonSets -> {"unobserved", "unready", "ready"}]
    /\ dsSeen \in [DaemonSets -> DsStates] /\ dsBehind \subseteq DaemonSets
    /\ misled \subseteq Reads
    /\ used \in 0 .. MaxDisturb

-----------------------------------------------------------------------------
(* Helpers *)

\* A disturbance of the environment, within the run's bound.
Disturb(kind) ==
    /\ kind \in Disturbances
    /\ used < MaxDisturb
    /\ used' = used + 1

\* A step that is no disturbance.
Calm == UNCHANGED used

\* Where Reconcile goes next; "retry" is a returned error: the request goes
\* back to the workqueue.
Goto(step) ==
    /\ pc' = IF step = "retry" THEN "idle" ELSE step
    /\ queued' = (queued \/ step = "retry")

Exists(d) ==
    IF d = "cpi" THEN cpiObjs["ds"] # None ELSE csiObjs[DsKey(d)] # None

DsState(d) ==
    IF ~Exists(d) THEN "none" ELSE IF d \in custom THEN "custom" ELSE "plain"

\* What r.Get of a DaemonSet returns: the informer's copy.
Copy(d) == IF InformerLag THEN dsSeen[d] ELSE DsState(d)

Visible(d) == Copy(d) # "none"

\* What a step has done to the DaemonSets: one that is removed has no pods, and
\* the informer does not see a change at once.  (A copy that is behind in its
\* status only makes an update fail like any call, see CallFails.)
DaemonSetsChange ==
    /\ pods' = [d \in DaemonSets |-> IF Exists(d)' THEN pods[d] ELSE "unobserved"]
    /\ dsSeen' = dsSeen
    /\ dsBehind' = IF InformerLag
                   THEN dsBehind \cup {d \in DaemonSets : DsState(d)' # DsState(d)}
                   ELSE dsBehind

\* Whether the read of this step showed what was not there.
Note(wrong) == misled' = IF wrong THEN misled \cup {pc} ELSE misled \ {pc}

\* Pods().List and DaemonSet status: no unavailable pod is known.  A DaemonSet
\* nobody has processed yet has NumberUnavailable = 0 and no pods.
PodsReady(d) == pods[d] # "unready"

CsiPresent == {k \in CsiKeys : csiObjs[k] # None}
              \cup (IF ns = "absent" THEN {} ELSE {NsKey})
CpiPresent == {k \in CpiKeys : cpiObjs[k] # None}

\* ParseAndProcessK8sObjects: a file is processed up to its first document
\* that fails.
Processed(docs, i, fails) ==
    \A j \in 1 .. i : docs[j].file = docs[i].file => j \notin fails

\* DELETE of the files one after the other, whatever becomes of each: an absent
\* object is an error; bad are the documents whose call failed.
Deleted(docs, present, bad) ==
    LET fails == bad \cup {i \in DOMAIN docs : docs[i].key \notin present}
    IN {docs[i].key : i \in {i \in DOMAIN docs : Processed(docs, i, fails)}}

\* CREATE of the documents before the first one that fails; existing objects
\* are left as they are.
Created(docs, present, stop) ==
    {docs[i].key : i \in {i \in DOMAIN docs : i < stop}} \ present

-----------------------------------------------------------------------------
(* Status updates of the VDOConfig resource *)

\* A write that changes nothing makes no new resourceVersion; a failure may
\* have another message than the one before.
KeepsVersion(new) ==
    IF new # status THEN {FALSE}
    ELSE IF "Failed" \in {new.cpi, new.csi} THEN BOOLEAN
    ELSE {TRUE}

\* r.Status().Update(ctx, vdoConfig): rejected when the copy is out of date
\* (or the call fails); the copy in memory is changed in any case.
UpdateStatus(new, ok, err) ==
    /\ loc' = new
    /\ \/ /\ locFresh
          /\ status' = new
          /\ \E same \in KeepsVersion(new) : cacheFresh' = (cacheFresh /\ same)
          /\ Goto(ok) /\ Calm
       \/ /\ ~locFresh
          /\ UNCHANGED <<status, cacheFresh>>
          /\ Goto(err) /\ Calm
       \/ /\ Disturb("fault")
          /\ UNCHANGED <<status, cacheFresh>>
          /\ Goto(err)
    /\ UNCHANGED <<cache, locFresh, items, mem, inputs, cpiOut, csiOut, cluster>>

updateCPIPhase(phase, ok, err) ==
    UpdateStatus([loc EXCEPT !.cpi = phase], ok, err)

updateCSIPhase(phase, ok, err) ==
    UpdateStatus([loc EXCEPT !.csi = phase], ok, err)

\* Slip: an error is returned but not written to the status.
updateCPIStatusForErrorSilent ==
    /\ pc = "cpiError"
    /\ Goto("retry") /\ Calm
    /\ UNCHANGED <<resource, local, mem, inputs, cpiOut, csiOut, cluster>>

\* A failed update of the error status is only logged.
updateCPIStatusForError ==
    /\ pc = "cpiError"
    /\ updateCPIPhase("Failed", "retry", "retry")

updateCSIStatusForError ==
    /\ pc = "csiError"
    /\ updateCSIPhase("Failed", "retry", "retry")

-----------------------------------------------------------------------------
(* Reconcile: the version selection *)

\* Reconcile starts with the informer's copy of the resource.
Begin ==
    /\ pc = "idle" /\ queued
    /\ queued' = FALSE
    /\ pc' = "versions"
    /\ loc' = cache /\ locFresh' = cacheFresh
    /\ Calm
    /\ UNCHANGED <<resource, items, mem, inputs, cpiOut, csiOut, cluster>>

\* The versions of the vCenters, each from a session: without one, Reconcile
\* ends with an error, before any phase is written.
FetchVsphereVersions ==
    /\ pc = "versions"
    /\ Goto(IF ~login THEN "retry" ELSE IF CpiConfigured THEN "cpiYamls" ELSE "csiYamls")
    /\ Calm
    /\ UNCHANGED <<resource, local, mem, inputs, cpiOut, csiOut, cluster>>

\* A request that was not selected leaves the yamls empty but keeps the version.
Selected(old, sel, teardown) ==
    [cur |-> IF sel = None THEN old.cur ELSE sel,
     yamls |-> IF sel # None THEN sel ELSE IF teardown THEN None ELSE old.yamls]

\* Another version was deployed by this process.
Replaces(cur, sel) == sel # cur /\ cur # None

\* FetchCpiDeploymentYamls and deleteCPIDeployment, whose errors are swallowed.
FetchCpiDeploymentYamls ==
    /\ pc = "cpiYamls"
    /\ LET sel == matrix.cpi
           teardown == Replaces(mem.cpiCur, sel)
           docs == IF teardown /\ mem.cpiYamls # None THEN CpiDocs[mem.cpiYamls]
                   ELSE <<>>
           next == Selected([cur |-> mem.cpiCur, yamls |-> mem.cpiYamls], sel, teardown)
       IN \E bad \in SUBSET DOMAIN docs :
            LET gone == Deleted(docs, CpiPresent, bad)
            IN /\ IF bad = {} THEN Calm ELSE Disturb("fault")
               /\ cpiObjs' = [k \in CpiKeys |-> IF k \in gone THEN None ELSE cpiObjs[k]]
               /\ mem' = [mem EXCEPT !.cpiCur = next.cur, !.cpiYamls = next.yamls]
               /\ Goto(IF sel = None THEN "retry" ELSE "csiYamls")
    /\ UNCHANGED <<resource, local, inputs, cpiSecret, cpiConfigMap, csiOut, misled>>
    /\ DaemonSetsChange

\* Documents whose object may be gone, with its namespace, before their own
\* DELETE: that one then fails with NotFound.
LostToNamespace(docs) ==
    {i \in DOMAIN docs : /\ docs[i].key[2] = "own"
                         /\ \E j \in 1 .. i : docs[j].key = NsKey}

\* FetchCsiDeploymentYamls and deleteCSIDeployment.
FetchCsiDeploymentYamls ==
    /\ pc = "csiYamls"
    /\ LET sel == matrix.csi
           teardown == Replaces(mem.csiCur, sel)
           docs == IF teardown /\ mem.csiYamls # None THEN CsiDocs[mem.csiYamls]
                   ELSE <<>>
           next == Selected([cur |-> mem.csiCur, yamls |-> mem.csiYamls], sel, teardown)
       IN \E bad \in SUBSET DOMAIN docs, lost \in SUBSET LostToNamespace(docs) :
            LET gone == Deleted(docs, CsiPresent, bad \cup lost)
                        \cup {docs[i].key : i \in lost}
            IN /\ lost # {} => NsKey \in gone
               /\ IF bad = {} THEN Calm ELSE Disturb("fault")
               /\ csiObjs' = [k \in CsiKeys |-> IF k \in gone THEN None ELSE csiObjs[k]]
               /\ fssOn' = (fssOn /\ FssKey \notin gone)
               /\ custom' = {n \in custom : DsKey(n) \notin gone}
               /\ ns' = IF NsKey \in gone THEN "terminating" ELSE ns
               /\ mem' = [mem EXCEPT !.csiCur = next.cur, !.csiYamls = next.yamls]
               /\ Goto(IF sel = None THEN "retry" ELSE "csiNs")
    /\ UNCHANGED <<resource, local, inputs, cpiOut, csiSecret, misled>>
    /\ DaemonSetsChange

\* The namespace after Create; a terminating one is AlreadyExists.
createCSINamespace == IF ns = "absent" THEN "active" ELSE ns

\* The namespace after Delete.
deleteCSINamespace == IF ns = "active" THEN "terminating" ELSE ns

\* CsiNamespace is set before the one call and after the other.
CsiNamespaceStep ==
    /\ pc = "csiNs"
    /\ \E ok \in BOOLEAN :
          /\ IF ok THEN Calm ELSE Disturb("fault")
          /\ Goto(IF ~ok THEN "retry"
                  ELSE IF CpiConfigured THEN "cpiCloudConfig" ELSE "csiCloudConfig")
          /\ \/ /\ mem.csiCur \in OwnNsVersions
                /\ mem' = [mem EXCEPT !.csiNs = "own"]
                /\ ns' = IF ok THEN createCSINamespace ELSE ns
             \/ /\ mem.csiCur \notin OwnNsVersions
                /\ mem' = IF ok THEN [mem EXCEPT !.csiNs = "kube"] ELSE mem
                /\ ns' = IF ok THEN deleteCSINamespace ELSE ns
    /\ UNCHANGED <<resource, local, inputs, cpiOut, csiSecret, csiObjs, fssOn,
                   custom, cluster>>

-----------------------------------------------------------------------------
(* Reconcile: the CPI driver *)

AfterVerify(ok) == IF ok THEN "cpiSecret" ELSE "cpiError"

\* fetchVsphereCloudConfigItems and verifyVsphereCloudConfig.
VerifyCpiCloudConfigs ==
    /\ pc = "cpiCloudConfig"
    /\ items' = conf
    /\ Goto(AfterVerify(verified.cpi))
    /\ Calm
    /\ UNCHANGED <<resource, loc, locFresh, mem, inputs, cpiOut, csiOut, cluster>>

\* Slip: an existing secret is never updated.
SecretDataOnce(old) == IF old = None THEN items ELSE old

\* The data the secret has afterwards: created or updated when it is not what
\* the configuration says.
SecretData(old) == items

\* Slip: the configmap is only looked at after the secret was written.
AfterSecretSkips(same) == IF same THEN "cpiDeploy" ELSE "cpiSecretPhase"

AfterSecret(same) == IF same THEN "cpiConfigMap" ELSE "cpiSecretPhase"

reconcileCPISecret ==
    /\ pc = "cpiSecret"
    /\ cpiSecret' = SecretData(cpiSecret)
    /\ Goto(AfterSecret(cpiSecret = items))
    /\ Calm
    /\ UNCHANGED <<resource, local, mem, inputs, cpiConfigMap, cpiObjs, csiOut, cluster>>

reconcileCPISecretPhase ==
    /\ pc = "cpiSecretPhase"
    /\ updateCPIPhase("Configuring", "cpiConfigMap", "cpiError")

reconcileConfigMap ==
    /\ pc = "cpiConfigMap"
    /\ cpiConfigMap' = items
    /\ Goto(IF cpiConfigMap = items THEN "cpiDeploy" ELSE "cpiConfigMapPhase")
    /\ Calm
    /\ UNCHANGED <<resource, local, mem, inputs, cpiSecret, cpiObjs, csiOut, cluster>>

reconcileConfigMapPhase ==
    /\ pc = "cpiConfigMapPhase"
    /\ updateCPIPhase("Configuring", "cpiDeploy", "cpiError")

\* Slip: a failed deployment is not applied again.
DeploysOnce(phase) == phase = "Configuring"

\* The phases in which the manifests are applied.
Deploys(phase) == phase \in {"Configuring", "Failed"}

\* The loop's updateStatus shadows the one returned, which stays false: the
\* phase Deploying is never written.
reconcileCPIDeployment ==
    /\ pc = "cpiDeploy"
    /\ LET docs == IF Deploys(loc.cpi) /\ mem.cpiYamls # None
                   THEN CpiDocs[mem.cpiYamls] ELSE <<>>
       IN \E stop \in 1 .. Len(docs) + 1 :
            LET new == Created(docs, CpiPresent, stop)
            IN /\ IF stop > Len(docs) THEN Calm ELSE Disturb("fault")
               /\ Goto(IF stop > Len(docs) THEN "cpiCheck" ELSE "cpiError")
               /\ cpiObjs' = [k \in CpiKeys |-> IF k \in new THEN mem.cpiYamls
                                                ELSE cpiObjs[k]]
    /\ UNCHANGED <<resource, local, mem, inputs, cpiSecret, cpiConfigMap, csiOut, misled>>
    /\ DaemonSetsChange

\* Slip: a DaemonSet that is not found counts as one without failing pods.
DaemonSetNotUnhealthy(d) == Visible(d) => PodsReady(d)

\* fetchDaemonSetPodStatus.
DaemonSetHealthy(d) == Visible(d) /\ PodsReady(d)

\* Slip: the condition that the CSI side uses.
BecomesDeployedAlways(phase) == phase # "Deployed"

BecomesDeployed(phase) == phase \in {"Deploying", "Failed"}

reconcileCPIDeploymentStatus ==
    /\ pc = "cpiCheck"
    /\ Goto(IF ~DaemonSetHealthy("cpi") THEN "cpiError"
            ELSE IF BecomesDeployed(loc.cpi) THEN "cpiDeployed"
            ELSE "cpiNodes")
    /\ Note(Visible("cpi") /\ ~Exists("cpi"))
    /\ Calm
    /\ UNCHANGED <<resource, local, mem, inputs, cpiOut, csiOut, pods, informer>>

CpiDeployed ==
    /\ pc = "cpiDeployed"
    /\ updateCPIPhase("Deployed", "cpiNodes", "retry")

\* Slip: the status of a node is written as the phase.
NodePhaseOfNode == IF nodes = "ready" THEN "ready" ELSE "pending"

\* reconcileNodeProviderID: the phase that the nodes call for.
NodePhase == IF nodes = "ready" THEN "Configured" ELSE "Configuring"

reconcileNodeProviderID ==
    /\ pc = "cpiNodes"
    /\ IF nodes \in {"pending", "ready"} /\ loc.cpi # NodePhase
       THEN updateCPIPhase(NodePhase, "cpiLabels", "retry")
       ELSE /\ Goto(IF nodes = "unmanaged" THEN "cpiError" ELSE "cpiLabels")
            /\ Calm
            /\ UNCHANGED <<resource, local, mem, inputs, cpiOut, csiOut, cluster>>

\* The labels themselves are in module NodeSync.
reconcileNodeLabel ==
    /\ pc = "cpiLabels"
    /\ Goto("csiCloudConfig")
    /\ Calm
    /\ UNCHANGED <<resource, local, mem, inputs, cpiOut, csiOut, cluster>>

-----------------------------------------------------------------------------
(* Reconcile: the CSI driver *)

\* Errors of the CSI cloud config go to the status of CPI.
VerifyCsiCloudConfig ==
    /\ pc = "csiCloudConfig"
    /\ items' = conf
    /\ Goto(IF verified.csi THEN "csiSecret" ELSE "cpiError")
    /\ Calm
    /\ UNCHANGED <<resource, loc, locFresh, mem, inputs, cpiOut, csiOut, cluster>>

\* Objects can be created in the namespace.
Usable(n) == n = "kube" \/ ns = "active"

\* Slip: the namespace of the current versions, whatever the version.
SecretNamespaceFixed == "own"

\* csiSecretKey
SecretNamespace == mem.csiNs

\* The secret as it is found; an empty phase is repaired.
NeedsPhase(secret) == secret # items \/ loc.csi = ""

reconcileCSISecret ==
    /\ pc = "csiSecret"
    /\ LET n == SecretNamespace
       IN IF csiSecret[n] = None /\ ~Usable(n)
          THEN /\ Goto("csiError")
               /\ UNCHANGED csiSecret
          ELSE /\ csiSecret' = [csiSecret EXCEPT ![n] = items]
               /\ Goto(IF NeedsPhase(csiSecret[n]) THEN "csiSecretPhase"
                       ELSE "csiDeploy")
    /\ Calm
    /\ UNCHANGED <<resource, local, mem, inputs, cpiOut, csiObjs, fssOn, custom, ns,
                   cluster>>

reconcileCSISecretPhase ==
    /\ pc = "csiSecretPhase"
    /\ updateCSIPhase("Configuring", "csiDeploy", "csiError")

\* The documents the API server rejects: objects of a namespace that is not
\* there, or is being deleted.
Rejected(docs) ==
    {i \in DOMAIN docs :
        /\ docs[i].key[2] = "own"
        /\ ns # "active"
        /\ ~(ns = "absent" /\ \E j \in 1 .. i : docs[j].key = NsKey)}

reconcileCSIDeployment ==
    /\ pc = "csiDeploy"
    /\ LET docs == IF Deploys(loc.csi) /\ mem.csiYamls # None
                   THEN CsiDocs[mem.csiYamls] ELSE <<>>
       IN \E stop \in 1 .. Len(docs) + 1 :
            LET new == Created(docs, CsiPresent, stop)
            IN /\ \A i \in Rejected(docs) : stop <= i
               /\ IF stop > Len(docs) \/ stop \in Rejected(docs) THEN Calm
                  ELSE Disturb("fault")
               /\ Goto(IF stop > Len(docs) THEN "csiFss" ELSE "csiError")
               /\ csiObjs' = [k \in CsiKeys |-> IF k \in new THEN mem.csiYamls
                                                ELSE csiObjs[k]]
               /\ ns' = IF NsKey \in new THEN "active" ELSE ns
    /\ UNCHANGED <<resource, local, mem, inputs, cpiOut, csiSecret, fssOn, custom, misled>>
    /\ DaemonSetsChange

NeedsFeatureState == mem.csiCur \in FssVersions

\* From 2.5.0 on; a missing ConfigMap is an error the status does not show.
updateCSIConfigmap ==
    /\ pc = "csiFss"
    /\ IF NeedsFeatureState
       THEN /\ fssOn' = (csiObjs[FssKey] # None)
            /\ Goto(IF csiObjs[FssKey] # None THEN "csiKubelet" ELSE "retry")
       ELSE Goto("csiKubelet") /\ UNCHANGED fssOn
    /\ Calm
    /\ UNCHANGED <<resource, local, mem, inputs, cpiOut, csiSecret, csiObjs, custom, ns,
                   cluster>>

\* Slip: the paths are only rewritten when the driver has just been deployed.
RewritesOnce(n) == Copy(n) = "plain" /\ Deploys(loc.csi)

\* updateDS: the copy still has the default paths.
Rewrites(n) == Copy(n) = "plain"

\* Rewrites the kubelet paths of the DaemonSet as the informer shows it.  The
\* update of a copy that is behind is a conflict; a copy that has the custom
\* paths is left alone.
updateCSIDaemonSet ==
    /\ pc = "csiKubelet"
    /\ LET n == mem.csiNs
           conflict == Rewrites(n) /\ n \in dsBehind
       IN IF CustomKubelet
          THEN /\ custom' = IF Rewrites(n) /\ ~conflict THEN custom \cup {n} ELSE custom
               /\ Goto(IF Visible(n) /\ ~conflict THEN "csiCheck" ELSE "retry")
               /\ Note(Copy(n) = "custom" /\ n \notin custom)
          ELSE Goto("csiCheck") /\ UNCHANGED <<custom, misled>>
    /\ Calm
    /\ UNCHANGED <<resource, local, mem, inputs, cpiOut, csiSecret, csiObjs, fssOn, ns>>
    /\ DaemonSetsChange

\* verifyCSIDriverRegisteration: any CSIDriver will do.
CsiDriverRegistered == OtherCsiDriver \/ csiObjs[DriverKey] # None

\* The DaemonSet, then the CSINodes, then the registration of a CSIDriver.
reconcileCSIDeploymentStatus ==
    /\ pc = "csiCheck"
    /\ Goto(IF ~DaemonSetHealthy(mem.csiNs) \/ ~CsiDriverRegistered THEN "csiError"
            ELSE IF loc.csi # "Deployed" THEN "csiDeployed"
            ELSE "idle")
    /\ Note(Visible(mem.csiNs) /\ ~Exists(mem.csiNs))
    /\ Calm
    /\ UNCHANGED <<resource, local, mem, inputs, cpiOut, csiOut, pods, informer>>

CsiDeployed ==
    /\ pc = "csiDeployed"
    /\ updateCSIPhase("Deployed", "idle", "retry")

\* Where an error of a call leads: the status of a driver, or the log only.
ErrorStep(step) ==
    CASE step \in {"cpiCloudConfig", "cpiSecret", "cpiConfigMap", "cpiCheck", "cpiNodes",
                   "cpiLabels", "csiCloudConfig"} -> "cpiError"
      [] step \in {"csiSecret", "csiCheck"} -> "csiError"
      [] step \in {"versions", "cpiYamls", "csiYamls", "csiFss", "csiKubelet"} -> "retry"

\* A call to the API server, to vCenter or for a yaml fails before it has any
\* effect.  The failures of status updates, of the namespace and of partly
\* applied manifests are in the actions above.
CallFails ==
    /\ pc \in {"cpiCloudConfig", "cpiSecret", "cpiConfigMap", "cpiCheck", "cpiNodes",
               "cpiLabels", "csiCloudConfig", "csiSecret", "csiCheck", "versions",
               "cpiYamls", "csiYamls", "csiFss", "csiKubelet"}
    /\ Disturb("fault")
    /\ Goto(ErrorStep(pc))
    /\ UNCHANGED <<resource, local, mem, inputs, cpiOut, csiOut, cluster>>

-----------------------------------------------------------------------------
(* The rest of the process and the cluster *)

\* The watch delivers the resource: the informer is up to date, and the event
\* enqueues the resource.
CacheSync ==
    /\ ~cacheFresh
    /\ cache' = status /\ cacheFresh' = TRUE
    /\ queued' = TRUE
    /\ Calm
    /\ UNCHANGED <<status, local, pc, mem, inputs, cpiOut, csiOut, cluster>>

\* The informers' periodic resync enqueues every resource.  Its period of 10
\* hours is far longer than a Reconcile, during which it is not considered.
Resync ==
    /\ pc = "idle" /\ ~queued
    /\ queued' = TRUE
    /\ Calm
    /\ UNCHANGED <<resource, local, pc, mem, inputs, cpiOut, csiOut, cluster>>

\* The watch of the DaemonSets catches up.
InformerSync ==
    /\ dsBehind # {}
    /\ dsSeen' = [d \in DaemonSets |-> DsState(d)]
    /\ dsBehind' = {}
    /\ Calm
    /\ UNCHANGED <<resource, local, queued, pc, mem, inputs, cpiOut, csiOut, pods, misled>>

InitialMem == [cpiCur |-> None, cpiYamls |-> None, csiCur |-> None, csiYamls |-> None,
               csiNs |-> "own"]

\* The operator pod dies and is restarted; the initial list of the informers
\* enqueues the resource.
Crash ==
    /\ Disturb("crash")
    /\ pc' = "idle" /\ queued' = TRUE
    /\ mem' = InitialMem
    /\ cache' = status /\ cacheFresh' = TRUE
    /\ dsSeen' = IF InformerLag THEN [d \in DaemonSets |-> DsState(d)] ELSE dsSeen
    /\ dsBehind' = {}
    /\ UNCHANGED <<status, local, inputs, cpiOut, csiOut, pods, misled>>

\* The compat-matrix ConfigMap is updated; its watch enqueues a request.
MatrixUpdate ==
    /\ Disturb("matrix")
    /\ \E m \in Matrices \ {matrix} : matrix' = m
    /\ queued' = TRUE
    /\ UNCHANGED <<resource, local, pc, mem, conf, login, verified, nodes, cpiOut, csiOut,
                   cluster>>

\* VsphereCloudConfigs and credential secrets are not watched.
ConfUpdate ==
    /\ Disturb("conf")
    /\ \E c \in Confs \ {conf} : conf' = c
    /\ UNCHANGED <<resource, local, queued, pc, mem, matrix, login, verified, nodes, cpiOut,
                   csiOut, cluster>>

CloudConfigStatus ==
    /\ Disturb("cloudconfig")
    /\ \E v \in [cpi : BOOLEAN, csi : BOOLEAN] : v # verified /\ verified' = v
    /\ UNCHANGED <<resource, local, queued, pc, mem, matrix, conf, login, nodes, cpiOut, csiOut,
                   cluster>>

\* A secret, a password or a datacenter of a listed vCenter is lost or found.
LoginChange ==
    /\ Disturb("cloudconfig")
    /\ login' = ~login
    /\ UNCHANGED <<resource, local, queued, pc, mem, matrix, conf, verified, nodes, cpiOut,
                   csiOut, cluster>>

\* A user edits the VDOConfig.
EditSpec ==
    /\ Disturb("edit")
    /\ cacheFresh' = FALSE /\ locFresh' = FALSE
    /\ UNCHANGED <<status, cache, loc, items, queued, pc, mem, inputs, cpiOut, csiOut, cluster>>

\* Nodes join, leave or change; only labelled nodes with a providerID enqueue.
NodesChange ==
    /\ Disturb("nodes")
    /\ \E n \in {"none", "pending", "ready", "unmanaged"} \ {nodes} : nodes' = n
    /\ queued' \in {queued, TRUE}
    /\ UNCHANGED <<resource, local, pc, mem, matrix, conf, login, verified, cpiOut, csiOut,
                   cluster>>

\* The DaemonSet controller and the kubelets.
PodsProgress ==
    /\ \E d \in DaemonSets :
          /\ Exists(d)
          /\ \/ pods[d] = "unobserved" /\ pods' = [pods EXCEPT ![d] = "unready"]
             \/ pods[d] = "unready" /\ pods' = [pods EXCEPT ![d] = "ready"]
    /\ Calm
    /\ UNCHANGED <<resource, local, queued, pc, mem, inputs, cpiOut, csiOut, informer, misled>>

PodsFail ==
    /\ Disturb("pods")
    /\ \E d \in DaemonSets : /\ Exists(d) /\ pods[d] = "ready"
                             /\ pods' = [pods EXCEPT ![d] = "unready"]
    /\ UNCHANGED <<resource, local, queued, pc, mem, inputs, cpiOut, csiOut, informer, misled>>

InOwnNs == {k \in CsiKeys : k[2] = "own" /\ csiObjs[k] # None}

\* The namespace controller empties a terminating namespace, then removes it.
NamespaceController ==
    /\ ns = "terminating"
    /\ \/ /\ csiSecret["own"] # None
          /\ csiSecret' = [csiSecret EXCEPT !["own"] = None]
          /\ UNCHANGED <<csiObjs, fssOn, custom, ns>>
       \/ /\ \E k \in InOwnNs :
                /\ csiObjs' = [csiObjs EXCEPT ![k] = None]
                /\ fssOn' = (fssOn /\ k # FssKey)
                /\ custom' = {n \in custom : k # DsKey(n)}
          /\ UNCHANGED <<csiSecret, ns>>
       \/ /\ csiSecret["own"] = None /\ InOwnNs = {}
          /\ ns' = "absent"
          /\ UNCHANGED <<csiSecret, csiObjs, fssOn, custom>>
    /\ Calm
    /\ UNCHANGED <<resource, local, queued, pc, mem, inputs, cpiOut, misled>>
    /\ DaemonSetsChange

-----------------------------------------------------------------------------
\* An input the run does not disturb has its ordinary value.
Init ==
    /\ status = [cpi |-> "", csi |-> ""]
    /\ cache = status /\ cacheFresh = TRUE
    /\ loc = status /\ locFresh = FALSE
    /\ queued = TRUE /\ pc = "idle"
    /\ mem = InitialMem
    /\ matrix \in FirstMatrices
    /\ conf = FirstConf /\ items = conf
    /\ verified \in {[cpi |-> TRUE, csi |-> TRUE]}
                    \cup IF "cloudconfig" \in Disturbances
                         THEN {[cpi |-> FALSE, csi |-> FALSE]} ELSE {}
    /\ login = verified.cpi
    /\ nodes = "ready"
    /\ cpiSecret = None /\ cpiConfigMap = None
    /\ csiSecret = [n \in Namespaces |-> None]
    /\ cpiObjs = [k \in CpiKeys |-> None]
    /\ csiObjs = [k \in CsiKeys |-> None]
    /\ fssOn = FALSE /\ custom = {}
    /\ ns = "absent"
    /\ pods = [d \in DaemonSets |-> "unobserved"]
    /\ dsSeen = [d \in DaemonSets |-> "none"] /\ dsBehind = {}
    /\ misled = {}
    /\ used = 0

Reconcile ==
    \/ Begin \/ FetchVsphereVersions
    \/ FetchCpiDeploymentYamls \/ FetchCsiDeploymentYamls \/ CsiNamespaceStep
    \/ VerifyCpiCloudConfigs
    \/ reconcileCPISecret \/ reconcileCPISecretPhase
    \/ reconcileConfigMap \/ reconcileConfigMapPhase
    \/ reconcileCPIDeployment \/ reconcileCPIDeploymentStatus \/ CpiDeployed
    \/ reconcileNodeProviderID \/ reconcileNodeLabel
    \/ VerifyCsiCloudConfig
    \/ reconcileCSISecret \/ reconcileCSISecretPhase
    \/ reconcileCSIDeployment
    \/ updateCSIConfigmap \/ updateCSIDaemonSet
    \/ reconcileCSIDeploymentStatus \/ CsiDeployed
    \/ updateCPIStatusForError \/ updateCSIStatusForError

Environment ==
    \/ CacheSync \/ Resync \/ InformerSync
    \/ PodsProgress \/ NamespaceController
    \/ CallFails \/ Crash
    \/ MatrixUpdate \/ ConfUpdate \/ CloudConfigStatus \/ LoginChange \/ EditSpec
    \/ NodesChange \/ PodsFail

Next == Reconcile \/ Environment

Spec == Init /\ [][Next]_vars

\* The worker, the watches and the cluster's controllers keep running; the
\* resync comes again and again (every 10 hours); disturbances need not happen.
Fairness ==
    /\ WF_vars(Reconcile)
    /\ WF_vars(CacheSync)
    /\ WF_vars(Resync)
    /\ WF_vars(InformerSync)
    /\ WF_vars(PodsProgress)
    /\ WF_vars(NamespaceController)

FairSpec == Spec /\ Fairness

-----------------------------------------------------------------------------
(* Properties *)

\* Nothing is left to do until the environment acts: no request is queued or
\* running, and the informer holds the latest resource.
Quiescent == pc = "idle" /\ ~queued /\ cacheFresh

\* The pods of the CPI driver never exist without the secret and the configmap
\* they mount, however Reconcile was interrupted between writing these and
\* applying the manifests (reconcileCPISecret, reconcileConfigMap,
\* reconcileCPIDeployment).
CpiDriverHasCredentials ==
    cpiObjs["ds"] # None => cpiSecret # None /\ cpiConfigMap # None

\* Once the controller is at rest, a CSI driver has its secret in its own
\* namespace.  (Before, it may lack it for a while: the secret can vanish with
\* a terminating namespace between reconcileCSISecret and the manifests.)
CsiDriverHasCredentials ==
    Quiescent => \A n \in Namespaces : csiObjs[DsKey(n)] # None =>
                    csiSecret[n] # None \/ (n = "own" /\ ns = "terminating")

\* The controller does not come to rest with a CPI phase of success while the
\* DaemonSet is missing, unless the informer showed the last check a DaemonSet
\* that was already removed (fetchDaemonSetPodStatus reads its copy): any other
\* way past the removal of the old version is an error that requeues, or a new
\* deployment.
SettledCpiPresent ==
    Quiescent /\ status.cpi \in {"Deployed", "Configured"} =>
        Exists("cpi") \/ "cpiCheck" \in misled

\* The namespace of the CSI driver, once there, is not going away.
NamespaceThere == mem.csiNs = "kube" \/ ns = "active"

\* The same for the CSI driver, as long as its namespace is not being deleted
\* under it (a failing DELETE can leave the old DaemonSet in a namespace that
\* is terminating, where the check still finds it).
SettledCsiPresent ==
    Quiescent /\ status.csi = "Deployed" /\ NamespaceThere =>
        Exists(mem.csiNs) \/ "csiCheck" \in misled

\* At rest, a CSI driver reported as Deployed has the feature state and the
\* kubelet paths that updateCSIConfigmap and updateCSIDaemonSet write, also
\* when the objects were deleted and created again in between.  Two exceptions:
\* its namespace is being deleted, or the informer showed updateCSIDaemonSet
\* a rewritten DaemonSet that had been replaced.
SettledCsiConfigured ==
    Quiescent /\ status.csi = "Deployed" /\ NamespaceThere =>
        /\ mem.csiCur \in FssVersions => fssOn
        /\ CustomKubelet => mem.csiNs \in custom \/ "csiKubelet" \in misled

\* The matrix has a version of both drivers for this cluster.
Selects == matrix.cpi # None /\ matrix.csi # None
Healthy == Selects /\ login /\ verified.cpi /\ verified.csi /\ nodes # "unmanaged"

\* After the last change of the matrix the CPI driver that runs is the one the
\* matrix selects.
CpiUpgradeCompletes == <>[](Healthy => cpiObjs["ds"] = matrix.cpi)

\* The same for the CSI driver.
CsiUpgradeCompletes == <>[](Healthy => csiObjs[DsKey(mem.csiNs)] = matrix.csi)

\* The controller's own status writes do not keep it busy for ever: it comes
\* to rest again and again.
Stabilises == []<>(Healthy => Quiescent)

\* Secrets and configmap end up with the vSphere configuration, although its
\* changes are not watched and Reconcile may be interrupted after any write.
CredentialsCurrent ==
    <>[](Healthy => /\ cpiSecret = conf /\ cpiConfigMap = conf
                    /\ csiSecret[mem.csiNs] = conf)

\* While the listed vCenters can be logged in to, a CSI cloud config that stays
\* unverified, or a node that no vCenter knows, shows up in the CPI status as
\* Failed again and again, although other steps of each Reconcile write phases
\* of success there (verifyVsphereCloudConfig, reconcileNodeProviderID).  What is
\* wrong with the cloud configs of CPI is not shown: it makes the login fail, and
\* Reconcile ends in FetchVsphereVersions.
ProblemsShown ==
    <>[](Selects /\ login /\ (~verified.csi \/ nodes = "unmanaged"))
        => []<>(status.cpi = "Failed")

\* The CPI driver as DriverRollout sees it.
Rollout == INSTANCE DriverRollout
    WITH Versions <- CpiVersions, driver <- cpiObjs["ds"], chosen <- mem.cpiCur,
         provided <- cpiSecret # None /\ cpiConfigMap # None, phase <- status.cpi,
         seen <- Visible("cpi"), misled <- "cpiCheck" \in misled

\* The controller implements the rollout of the CPI driver: installed next to
\* its secret and configmap, in the version that Reconcile chose, removed only
\* for another choice, and reported as Deployed or Configured only while it is
\* there or while an informer that is behind has shown it to the last check,
\* although every write is made from a copy of the status that may be out of
\* date.
CpiRollout == Rollout!Spec
=============================================================================
