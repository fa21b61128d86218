------------------------ MODULE DriverRollout_proofs ------------------------
(***************************************************************************)
(* The VDOConfig controller implements DriverRollout for the CPI driver,   *)
(* for any versions, manifests and configurations, any number of           *)
(* disturbances, and an informer that may be behind.                       *)
(***************************************************************************)
EXTENDS VDOConfigReconciler_proofs

\* The steps at which the copy of the running Reconcile is the status, if the
\* copy's version is the latest: a CPI phase whose write fails is left in the
\* copy, and Reconcile then only reports the failure and returns.
Working == Steps \ {"idle", "cpiError"}

\* A copy of the latest version has the latest phase, and the first phase is
\* left for good.
CopiesInv ==
    /\ cacheFresh => cache.cpi = status.cpi
    /\ pc \in Working /\ locFresh => loc.cpi = status.cpi
    /\ cache.cpi # "" => status.cpi # ""
    /\ pc \in Working /\ loc.cpi # "" => status.cpi # ""
    /\ "Deploying" \notin {status.cpi, cache.cpi, loc.cpi}

\* The manifests that are applied are those of the version that was chosen.
YamlsInv == mem.cpiYamls # None => mem.cpiYamls = mem.cpiCur

\* What the last check was shown.
Misled == "cpiCheck" \in misled

\* There is a driver, or a trace of one.
Shown == cpiObjs["ds"] # None \/ dsSeen["cpi"] # "none" \/ Misled

\* A driver that was installed has left a phase.
DriverInv == Shown => status.cpi # ""

\* What reconcileCPIDeploymentStatus has seen of the phase.
PhaseInv ==
    /\ pc = "cpiDeployed" => loc.cpi = "Failed"
    /\ pc = "cpiNodes" => loc.cpi # "Failed"

RolloutInv == CopiesInv /\ YamlsInv /\ DriverInv /\ PhaseInv

-----------------------------------------------------------------------------
(* The invariant *)

\* A step that leaves the copies alone.
LEMMA CopiesFrame ==
    ASSUME CopiesInv, UNCHANGED <<resource, loc, locFresh>>,
           pc' \in Working => pc \in Working
    PROVE  CopiesInv'
BY DEF CopiesInv, resource

\* A status update with a new CPI phase, which is abandoned when it fails.
LEMMA CopiesCpiUpdate ==
    ASSUME TypeOK, CopiesInv, NEW phase \in Phases \ {"", "Deploying"}, NEW ok,
           NEW err \in {"cpiError", "retry"}, updateCPIPhase(phase, ok, err)
    PROVE  CopiesInv'
<1>. DEFINE new == [loc EXCEPT !.cpi = phase]
<1>1. UpdateStatus(new, ok, err) /\ new.cpi = phase /\ phase \notin {"", "Deploying"}
  BY DEF updateCPIPhase, TypeOK, Status
<1>. HIDE DEF new
<1>2. loc' = new /\ cache' = cache /\ locFresh' = locFresh
  BY <1>1 DEF UpdateStatus
<1>3. CASE locFresh /\ status' = new /\ cacheFresh' = cacheFresh /\ new = status
  BY <1>1, <1>2, <1>3 DEF CopiesInv
<1>4. CASE locFresh /\ status' = new /\ ~cacheFresh'
  BY <1>1, <1>2, <1>4 DEF CopiesInv
<1>5. CASE UNCHANGED <<status, cacheFresh>> /\ Goto(err)
  <2>1. pc' \notin Working
    BY <1>5 DEF Goto, Working
  <2>. QED  BY <1>1, <1>2, <1>5, <2>1 DEF CopiesInv
<1>6. cacheFresh \in BOOLEAN
  BY DEF TypeOK
<1>. QED  BY <1>1, <1>3, <1>4, <1>5, <1>6 DEF UpdateStatus, KeepsVersion

\* A status update with a new CSI phase.
LEMMA CopiesCsiUpdate ==
    ASSUME TypeOK, CopiesInv, pc \in Working, NEW phase \in Phases, NEW ok, NEW err,
           updateCSIPhase(phase, ok, err)
    PROVE  CopiesInv' /\ status'.cpi = status.cpi /\ loc'.cpi = loc.cpi
<1>. DEFINE new == [loc EXCEPT !.csi = phase]
<1>1. UpdateStatus(new, ok, err) /\ new.cpi = loc.cpi
  BY DEF updateCSIPhase, TypeOK, Status
<1>. HIDE DEF new
<1>2. loc' = new /\ cache' = cache /\ locFresh' = locFresh
  BY <1>1 DEF UpdateStatus
<1>3. CASE locFresh /\ status' = new /\ (cacheFresh' = cacheFresh \/ ~cacheFresh')
  <2>1. status'.cpi = status.cpi /\ loc'.cpi = loc.cpi /\ loc.cpi = status.cpi
    BY <1>1, <1>2, <1>3 DEF CopiesInv
  <2>2. cacheFresh' => cache'.cpi = status'.cpi
    BY <1>2, <1>3, <2>1 DEF CopiesInv
  <2>. QED  BY <1>2, <2>1, <2>2 DEF CopiesInv
<1>4. CASE UNCHANGED <<status, cacheFresh>>
  BY <1>1, <1>2, <1>4 DEF CopiesInv
<1>5. cacheFresh \in BOOLEAN
  BY DEF TypeOK
<1>. QED  BY <1>1, <1>3, <1>4, <1>5 DEF UpdateStatus, KeepsVersion

\* The steps of Reconcile that write neither a status nor a CPI object.
OtherSteps ==
    \/ FetchVsphereVersions \/ FetchCsiDeploymentYamls \/ CsiNamespaceStep
    \/ VerifyCpiCloudConfigs \/ reconcileCPIDeploymentStatus \/ reconcileNodeLabel \/ VerifyCsiCloudConfig
    \/ reconcileCSISecret \/ reconcileCSIDeployment \/ updateCSIConfigmap
    \/ updateCSIDaemonSet \/ reconcileCSIDeploymentStatus \/ CallFails

\* The steps of Reconcile that write no status.
CalmSteps ==
    \/ FetchCpiDeploymentYamls \/ reconcileCPISecret \/ reconcileConfigMap
    \/ reconcileCPIDeployment \/ OtherSteps

\* The steps of the cluster and its users that touch no copy of the status.
ClusterSteps ==
    \/ Resync \/ InformerSync \/ PodsProgress \/ NamespaceController \/ MatrixUpdate
    \/ ConfUpdate \/ CloudConfigStatus \/ LoginChange \/ NodesChange \/ PodsFail

CpiPhaseSteps ==
    \/ reconcileCPISecretPhase \/ reconcileConfigMapPhase \/ CpiDeployed
    \/ updateCPIStatusForError

CsiPhaseSteps == reconcileCSISecretPhase \/ CsiDeployed \/ updateCSIStatusForError

\* All the steps there are.
LEMMA StepCases ==
    Next => \/ CalmSteps \/ ClusterSteps \/ CpiPhaseSteps \/ CsiPhaseSteps
            \/ reconcileNodeProviderID \/ Begin \/ CacheSync \/ Crash \/ EditSpec
BY DEF Next, Reconcile, Environment, CalmSteps, OtherSteps, ClusterSteps,
       CpiPhaseSteps, CsiPhaseSteps

\* What the steps that write no status leave alone.
LEMMA CalmFrame ==
    ASSUME TypeOK, CalmSteps
    PROVE  UNCHANGED <<resource, loc, locFresh>> /\ pc \in Working
<1>1. UNCHANGED <<resource, loc, locFresh>>
  BY DEF CalmSteps, OtherSteps, FetchVsphereVersions, FetchCpiDeploymentYamls, FetchCsiDeploymentYamls,
         CsiNamespaceStep,
         VerifyCpiCloudConfigs, reconcileCPISecret, reconcileConfigMap,
         reconcileCPIDeployment, reconcileCPIDeploymentStatus, reconcileNodeLabel,
         VerifyCsiCloudConfig, reconcileCSISecret, reconcileCSIDeployment,
         updateCSIConfigmap, updateCSIDaemonSet, reconcileCSIDeploymentStatus, CallFails,
         local
<1>2. pc \notin {"idle", "cpiError"}
  BY DEF CalmSteps, OtherSteps, FetchVsphereVersions, FetchCpiDeploymentYamls, FetchCsiDeploymentYamls,
         CsiNamespaceStep,
         VerifyCpiCloudConfigs, reconcileCPISecret, reconcileConfigMap,
         reconcileCPIDeployment, reconcileCPIDeploymentStatus, reconcileNodeLabel,
         VerifyCsiCloudConfig, reconcileCSISecret, reconcileCSIDeployment,
         updateCSIConfigmap, updateCSIDaemonSet, reconcileCSIDeploymentStatus, CallFails
<1>. QED  BY <1>1, <1>2 DEF TypeOK, Working

\* What the steps of the cluster leave alone.
LEMMA ClusterFrame ==
    ASSUME ClusterSteps
    PROVE  UNCHANGED <<resource, loc, locFresh, pc, mem, cpiOut>>
BY DEF ClusterSteps, Resync, InformerSync, PodsProgress, NamespaceController, MatrixUpdate,
       ConfUpdate, CloudConfigStatus, LoginChange, NodesChange, PodsFail, local

\* What the updates of the CPI phase are.
LEMMA CpiPhaseForm ==
    ASSUME CpiPhaseSteps
    PROVE  \/ \E ok \in {"cpiConfigMap", "cpiDeploy"} :
                  updateCPIPhase("Configuring", ok, "cpiError")
           \/ pc = "cpiDeployed" /\ updateCPIPhase("Deployed", "cpiNodes", "retry")
           \/ updateCPIPhase("Failed", "retry", "retry")
BY Zenon DEF CpiPhaseSteps, reconcileCPISecretPhase, reconcileConfigMapPhase, CpiDeployed,
             updateCPIStatusForError

\* What the updates of the CSI phase are.
LEMMA CsiPhaseForm ==
    ASSUME CsiPhaseSteps
    PROVE  /\ pc \in {"csiSecretPhase", "csiDeployed", "csiError"}
           /\ \E phase \in {"Configuring", "Deployed", "Failed"},
                 ok \in {"csiDeploy", "idle", "retry"}, err \in {"csiError", "retry"} :
                 updateCSIPhase(phase, ok, err)
<1>1. CASE reconcileCSISecretPhase
  BY <1>1, Zenon DEF reconcileCSISecretPhase
<1>2. CASE CsiDeployed
  BY <1>2, Zenon DEF CsiDeployed
<1>3. CASE updateCSIStatusForError
  BY <1>3, Zenon DEF updateCSIStatusForError
<1>. QED  BY <1>1, <1>2, <1>3 DEF CsiPhaseSteps

\* What recording the nodes is.
LEMMA NodePhaseForm ==
    ASSUME reconcileNodeProviderID
    PROVE  /\ pc = "cpiNodes"
           /\ \/ /\ loc.cpi # NodePhase /\ NodePhase \in {"Configured", "Configuring"}
                 /\ updateCPIPhase(NodePhase, "cpiLabels", "retry")
              \/ /\ UNCHANGED <<resource, loc, locFresh, mem, cpiOut, dsSeen, misled>>
                 /\ pc' \in {"cpiError", "cpiLabels"}
BY DEF reconcileNodeProviderID, NodePhase, Goto, local, cluster, informer

\* Every step keeps the copies of the status consistent.
LEMMA CopiesStep ==
    ASSUME TypeOK, CopiesInv, [Next]_vars
    PROVE  CopiesInv'
<1>1. CASE CalmSteps
  BY <1>1, CalmFrame, CopiesFrame
<1>2. CASE ClusterSteps
  BY <1>2, ClusterFrame, CopiesFrame
<1>3. CASE CpiPhaseSteps
  <2>1. {"Configuring", "Deployed", "Failed"} \subseteq Phases \ {"", "Deploying"}
    BY DEF Phases
  <2>. QED  BY <1>3, <2>1, CpiPhaseForm, CopiesCpiUpdate
<1>4. CASE CsiPhaseSteps
  <2>1. {"Configuring", "Deployed", "Failed"} \subseteq Phases
    BY DEF Phases
  <2>2. pc \in Working
    BY <1>4, CsiPhaseForm DEF Working, Steps
  <2>. QED  BY <1>4, <2>1, <2>2, CsiPhaseForm, CopiesCsiUpdate
<1>5. CASE reconcileNodeProviderID
  <2>1. {"Configured", "Configuring"} \subseteq Phases \ {"", "Deploying"}
    BY DEF Phases
  <2>2. pc \in Working
    BY <1>5, NodePhaseForm DEF Working, Steps
  <2>. QED  BY <1>5, <2>1, <2>2, NodePhaseForm, CopiesCpiUpdate, CopiesFrame
<1>6. CASE Begin
  <2>1. status' = status /\ cache' = cache /\ cacheFresh' = cacheFresh
        /\ loc' = cache /\ locFresh' = cacheFresh
    BY <1>6 DEF Begin, resource
  <2>. QED  BY <2>1 DEF CopiesInv
<1>7. CASE CacheSync \/ Crash
  <2>1. status' = status /\ cache' = status /\ loc' = loc /\ locFresh' = locFresh
        /\ (pc' = pc \/ pc' \notin Working)
    BY <1>7 DEF CacheSync, Crash, local, Working
  <2>. QED  BY <2>1 DEF CopiesInv
<1>8. CASE EditSpec
  <2>1. status' = status /\ cache' = cache /\ loc' = loc /\ ~locFresh' /\ ~cacheFresh'
        /\ pc' = pc
    BY <1>8 DEF EditSpec
  <2>. QED  BY <2>1 DEF CopiesInv
<1>9. CASE UNCHANGED vars
  BY <1>9, CopiesFrame DEF vars, local
<1>. QED
  BY <1>1, <1>2, <1>3, <1>4, <1>5, <1>6, <1>7, <1>8, <1>9, StepCases

\* What the other steps of Reconcile leave alone.
LEMMA OtherFrame ==
    ASSUME TypeOK, OtherSteps
    PROVE  UNCHANGED cpiOut /\ mem'.cpiCur = mem.cpiCur /\ mem'.cpiYamls = mem.cpiYamls
<1>1. UNCHANGED cpiOut
  BY DEF OtherSteps, FetchVsphereVersions, FetchCsiDeploymentYamls, CsiNamespaceStep,
         VerifyCpiCloudConfigs,
         reconcileCPIDeploymentStatus, reconcileNodeLabel, VerifyCsiCloudConfig,
         reconcileCSISecret, reconcileCSIDeployment, updateCSIConfigmap, updateCSIDaemonSet,
         reconcileCSIDeploymentStatus, CallFails
<1>2. CASE FetchCsiDeploymentYamls \/ CsiNamespaceStep
  BY <1>1, <1>2 DEF FetchCsiDeploymentYamls, CsiNamespaceStep, TypeOK
<1>3. CASE mem' = mem
  BY <1>1, <1>3
<1>. QED
  BY <1>1, <1>2, <1>3
  DEF OtherSteps, FetchVsphereVersions, VerifyCpiCloudConfigs, reconcileCPIDeploymentStatus, reconcileNodeLabel,
      VerifyCsiCloudConfig, reconcileCSISecret, reconcileCSIDeployment, updateCSIConfigmap,
      updateCSIDaemonSet, reconcileCSIDeploymentStatus, CallFails

\* What an update of the status leaves alone.
LEMMA UpdateFrame ==
    ASSUME NEW new, NEW ok, NEW err, UpdateStatus(new, ok, err)
    PROVE  UNCHANGED <<mem, cpiOut, dsSeen, misled>>
BY DEF UpdateStatus, cluster, informer

\* What choosing a version does.
LEMMA ChoiceForm ==
    ASSUME TypeOK, FetchCpiDeploymentYamls
    PROVE  /\ mem'.cpiCur = IF matrix.cpi = None THEN mem.cpiCur ELSE matrix.cpi
           /\ mem'.cpiYamls = IF matrix.cpi # None THEN matrix.cpi
                              ELSE IF mem.cpiCur # None THEN None ELSE mem.cpiYamls
           /\ cpiObjs'["ds"] \in {cpiObjs["ds"], None}
           /\ mem.cpiCur = None \/ matrix.cpi = mem.cpiCur => cpiObjs'["ds"] = cpiObjs["ds"]
           /\ UNCHANGED <<cpiSecret, cpiConfigMap>>
<1>. DEFINE teardown == Replaces(mem.cpiCur, matrix.cpi)
            docs == IF teardown /\ mem.cpiYamls # None THEN CpiDocs[mem.cpiYamls] ELSE <<>>
            next == Selected([cur |-> mem.cpiCur, yamls |-> mem.cpiYamls], matrix.cpi, teardown)
<1>1. PICK bad \in SUBSET DOMAIN docs :
         /\ cpiObjs' = [k \in CpiKeys |-> IF k \in Deleted(docs, CpiPresent, bad) THEN None
                                          ELSE cpiObjs[k]]
         /\ mem' = [mem EXCEPT !.cpiCur = next.cur, !.cpiYamls = next.yamls]
  BY DEF FetchCpiDeploymentYamls
<1>2. /\ next.cur = IF matrix.cpi = None THEN mem.cpiCur ELSE matrix.cpi
      /\ next.yamls = IF matrix.cpi # None THEN matrix.cpi
                      ELSE IF mem.cpiCur # None THEN None ELSE mem.cpiYamls
  BY DEF Selected, Replaces
<1>3. mem'.cpiCur = next.cur /\ mem'.cpiYamls = next.yamls
  BY <1>1 DEF TypeOK
<1>4. cpiObjs'["ds"] \in {cpiObjs["ds"], None}
  BY <1>1 DEF CpiKeys
<1>5. ASSUME ~teardown PROVE cpiObjs'["ds"] = cpiObjs["ds"]
  <2>1. docs = <<>> /\ DOMAIN docs = {}
    BY <1>5
  <2>2. Deleted(docs, CpiPresent, bad) = {}
    BY <2>1 DEF Deleted
  <2>. QED  BY <1>1, <2>2 DEF CpiKeys
<1>6. UNCHANGED <<cpiSecret, cpiConfigMap>>
  BY DEF FetchCpiDeploymentYamls
<1>. QED  BY <1>2, <1>3, <1>4, <1>5, <1>6 DEF Replaces

\* What applying the manifests does.
LEMMA DeployForm ==
    ASSUME reconcileCPIDeployment
    PROVE  /\ pc = "cpiDeploy" /\ pc' \in {"cpiCheck", "cpiError"}
           /\ UNCHANGED <<mem, cpiSecret, cpiConfigMap>>
           /\ \/ cpiObjs'["ds"] = cpiObjs["ds"]
              \/ /\ cpiObjs["ds"] = None /\ Deploys(loc.cpi) /\ mem.cpiYamls # None
                 /\ cpiObjs'["ds"] = mem.cpiYamls
<1>. DEFINE docs == IF Deploys(loc.cpi) /\ mem.cpiYamls # None THEN CpiDocs[mem.cpiYamls]
                    ELSE <<>>
<1>1. PICK stop \in 1 .. Len(docs) + 1 :
         /\ Goto(IF stop > Len(docs) THEN "cpiCheck" ELSE "cpiError")
         /\ cpiObjs' = [k \in CpiKeys |-> IF k \in Created(docs, CpiPresent, stop)
                                          THEN mem.cpiYamls ELSE cpiObjs[k]]
  BY DEF reconcileCPIDeployment
<1>2. pc' \in {"cpiCheck", "cpiError"}
  BY <1>1 DEF Goto
<1>3. \/ cpiObjs'["ds"] = cpiObjs["ds"]
      \/ cpiObjs["ds"] = None /\ docs # <<>> /\ cpiObjs'["ds"] = mem.cpiYamls
  <2>1. CASE "ds" \in Created(docs, CpiPresent, stop)
    <3>1. cpiObjs["ds"] = None
      BY <2>1 DEF Created, CpiPresent, CpiKeys
    <3>2. docs # <<>>
      BY <2>1 DEF Created
    <3>. QED  BY <1>1, <2>1, <3>1, <3>2 DEF CpiKeys
  <2>2. CASE "ds" \notin Created(docs, CpiPresent, stop)
    BY <1>1, <2>2 DEF CpiKeys
  <2>. QED  BY <2>1, <2>2
<1>4. docs # <<>> => Deploys(loc.cpi) /\ mem.cpiYamls # None
  OBVIOUS
<1>5. pc = "cpiDeploy" /\ UNCHANGED <<mem, cpiSecret, cpiConfigMap>>
  BY DEF reconcileCPIDeployment
<1>. QED  BY <1>2, <1>3, <1>4, <1>5

\* Only a relist changes the informer's copies, and only the check of the CPI
\* driver changes the record of what it was shown.
LEMMA CopyFrame ==
    ASSUME \/ CalmSteps \/ ClusterSteps \/ Begin \/ CacheSync \/ EditSpec \/ UNCHANGED vars,
           ~InformerSync
    PROVE  dsSeen' = dsSeen /\ (~reconcileCPIDeploymentStatus => Misled' = Misled)
<1>1. CASE ClusterSteps \/ Begin \/ CacheSync \/ EditSpec \/ UNCHANGED vars
  BY <1>1 DEF ClusterSteps, Resync, PodsProgress, NamespaceController, DaemonSetsChange,
              MatrixUpdate, ConfUpdate, CloudConfigStatus, LoginChange, NodesChange, PodsFail,
              Begin, CacheSync, EditSpec, vars, cluster, informer, Misled
<1>2. CASE FetchCpiDeploymentYamls \/ FetchCsiDeploymentYamls \/ reconcileCPIDeployment
           \/ reconcileCSIDeployment
  BY <1>2, Zenon DEF FetchCpiDeploymentYamls, FetchCsiDeploymentYamls, reconcileCPIDeployment,
              reconcileCSIDeployment, DaemonSetsChange, Misled
<1>3. CASE updateCSIDaemonSet
  <2>1. dsSeen' = dsSeen /\ pc = "csiKubelet" /\ (misled' = misled \/ \E wrong : Note(wrong))
    BY <1>3 DEF updateCSIDaemonSet, DaemonSetsChange
  <2>. QED  BY <2>1 DEF Note, Misled
<1>4. CASE reconcileCSIDeploymentStatus
  <2>1. dsSeen' = dsSeen /\ pc = "csiCheck" /\ \E wrong : Note(wrong)
    BY <1>4 DEF reconcileCSIDeploymentStatus, informer
  <2>. QED  BY <2>1 DEF Note, Misled
<1>5. CASE reconcileCPIDeploymentStatus
  BY <1>5 DEF reconcileCPIDeploymentStatus, informer
<1>6. CASE UNCHANGED cluster
  BY <1>6 DEF cluster, informer, Misled
<1>. QED
  BY <1>1, <1>2, <1>3, <1>4, <1>5, <1>6
  DEF CalmSteps, OtherSteps, FetchVsphereVersions, CsiNamespaceStep, VerifyCpiCloudConfigs,
      reconcileCPISecret, reconcileConfigMap, reconcileNodeLabel, VerifyCsiCloudConfig,
      reconcileCSISecret, updateCSIConfigmap, CallFails

\* A trace of a driver comes from a driver.
LEMMA ShownStep ==
    ASSUME TypeOK, [Next]_vars, Shown'
    PROVE  Shown \/ cpiObjs'["ds"] # None
<1>1. CASE InformerSync \/ Crash
  <2>1. UNCHANGED <<cpiObjs, misled>>
        /\ (dsSeen' = dsSeen \/ dsSeen' = [d \in DaemonSets |-> DsState(d)])
    BY <1>1 DEF InformerSync, Crash, cpiOut
  <2>. QED  BY <2>1 DEF Shown, Misled, DsState, Exists, DaemonSets
<1>2. CASE reconcileCPIDeploymentStatus
  <2>1. UNCHANGED <<cpiObjs, dsSeen>> /\ Note(Visible("cpi") /\ ~Exists("cpi"))
        /\ pc = "cpiCheck"
    BY <1>2 DEF reconcileCPIDeploymentStatus, cpiOut, informer
  <2>. QED  BY <2>1 DEF Shown, Misled, Note, Visible, Copy, DsState, Exists
<1>3. CASE dsSeen' = dsSeen /\ Misled' = Misled
  BY <1>3 DEF Shown
<1>4. CASE CpiPhaseSteps \/ CsiPhaseSteps
  <2>1. UNCHANGED cluster
    BY <1>4, CpiPhaseForm, CsiPhaseForm DEF updateCPIPhase, updateCSIPhase, UpdateStatus
  <2>. QED  BY <1>3, <2>1 DEF cluster, informer, Misled
<1>5. CASE reconcileNodeProviderID
  <2>1. UNCHANGED cluster
    BY <1>5 DEF reconcileNodeProviderID, updateCPIPhase, UpdateStatus
  <2>. QED  BY <1>3, <2>1 DEF cluster, informer, Misled
<1>. QED  BY <1>1, <1>2, <1>3, <1>4, <1>5, CopyFrame, StepCases

\* Every step keeps what is known of the choice, the driver and the phase.
LEMMA RolloutStep ==
    ASSUME TypeOK, RolloutInv, [Next]_vars
    PROVE  RolloutInv'
<1>0. CopiesInv /\ CopiesInv' /\ YamlsInv /\ DriverInv /\ PhaseInv
  BY CopiesStep DEF RolloutInv
<1>16. ASSUME status.cpi # "" => status'.cpi # "",
              cpiObjs'["ds"] # None => cpiObjs["ds"] # None \/ status.cpi # ""
       PROVE  DriverInv'
  BY <1>0, <1>16, ShownStep DEF DriverInv, Shown
<1>. SUFFICES YamlsInv' /\ DriverInv' /\ PhaseInv'
  BY <1>0 DEF RolloutInv
<1>1. ASSUME mem'.cpiCur = mem.cpiCur, mem'.cpiYamls = mem.cpiYamls, UNCHANGED cpiOut,
             status'.cpi = status.cpi \/ status'.cpi # "",
             \/ pc' \notin {"cpiDeployed", "cpiNodes"}
             \/ pc' = pc /\ loc' = loc
      PROVE  YamlsInv' /\ DriverInv' /\ PhaseInv'
  <2>1. YamlsInv' /\ PhaseInv'
    BY <1>0, <1>1 DEF YamlsInv, PhaseInv
  <2>. QED  BY <1>1, <1>16, <2>1 DEF cpiOut
<1>2. CASE FetchCpiDeploymentYamls
  <2>1. YamlsInv'
    BY <1>0, <1>2, ChoiceForm DEF YamlsInv
  <2>2. DriverInv'
    BY <1>2, <1>16, ChoiceForm, CalmFrame DEF CalmSteps, resource
  <2>3. PhaseInv'
    BY <1>2 DEF FetchCpiDeploymentYamls, Goto, PhaseInv
  <2>. QED  BY <2>1, <2>2, <2>3
<1>3. CASE reconcileCPISecret \/ reconcileConfigMap
  <2>1. UNCHANGED <<mem, cpiObjs>> /\ pc' \notin {"cpiDeployed", "cpiNodes"}
    BY <1>3 DEF reconcileCPISecret, reconcileConfigMap, AfterSecret, Goto
  <2>2. status' = status
    BY <1>3, CalmFrame DEF CalmSteps, resource
  <2>. QED  BY <1>0, <1>16, <2>1, <2>2 DEF YamlsInv, PhaseInv
<1>4. CASE reconcileCPIDeployment
  <2>1. status' = status /\ mem' = mem /\ pc' \notin {"cpiDeployed", "cpiNodes"}
    BY <1>4, CalmFrame, DeployForm DEF CalmSteps, resource
  <2>2. Deploys(loc.cpi) => status.cpi # ""
    BY <1>0, <1>4, CalmFrame DEF CalmSteps, CopiesInv, Deploys
  <2>3. DriverInv'
    BY <1>4, <1>16, <2>1, <2>2, DeployForm
  <2>. QED  BY <1>0, <2>1, <2>3 DEF YamlsInv, PhaseInv
<1>5. CASE reconcileCPIDeploymentStatus
  <2>1. UNCHANGED <<resource, loc, cpiOut, mem>>
    BY <1>5 DEF reconcileCPIDeploymentStatus, local
  <2>2. PhaseInv'
    BY <1>0, <1>5, <2>1 DEF reconcileCPIDeploymentStatus, BecomesDeployed, Goto, PhaseInv,
                            CopiesInv
  <2>. QED  BY <1>0, <1>16, <2>1, <2>2 DEF YamlsInv, cpiOut, resource
<1>6. CASE OtherSteps /\ ~reconcileCPIDeploymentStatus
  <2>1. pc' \notin {"cpiDeployed", "cpiNodes"}
    BY <1>6 DEF OtherSteps, FetchVsphereVersions, FetchCsiDeploymentYamls, CsiNamespaceStep,
         VerifyCpiCloudConfigs,
                reconcileNodeLabel, VerifyCsiCloudConfig, reconcileCSISecret,
                reconcileCSIDeployment, updateCSIConfigmap, updateCSIDaemonSet,
                reconcileCSIDeploymentStatus, CallFails, AfterVerify, ErrorStep, Goto
  <2>2. status' = status
    BY <1>6, CalmFrame DEF CalmSteps, resource
  <2>. QED  BY <1>1, <1>6, <2>1, <2>2, OtherFrame
<1>7. CASE ClusterSteps
  <2>1. UNCHANGED <<status, loc, pc, mem, cpiOut>>
    BY <1>7, ClusterFrame DEF resource
  <2>. QED  BY <1>1, <2>1
<1>8. ASSUME NEW phase \in {"Configuring", "Failed", "Configured", "Deployed"}, NEW ok, NEW err,
             updateCPIPhase(phase, ok, err)
      PROVE  UNCHANGED <<mem, cpiOut>> /\ (status' = status \/ status'.cpi = phase)
             /\ loc'.cpi = phase /\ (Goto(ok) \/ Goto(err))
  BY <1>8, UpdateFrame, UpdateStatusFrame DEF updateCPIPhase, TypeOK, Status
<1>9. CASE CpiPhaseSteps
  <2>1. CASE \E ok \in {"cpiConfigMap", "cpiDeploy"} :
                updateCPIPhase("Configuring", ok, "cpiError")
    <3>1. PICK ok \in {"cpiConfigMap", "cpiDeploy"} :
               updateCPIPhase("Configuring", ok, "cpiError")
      BY <2>1
    <3>2. /\ UNCHANGED <<mem, cpiOut>> /\ (status' = status \/ status'.cpi = "Configuring")
          /\ pc' \in {"cpiConfigMap", "cpiDeploy", "cpiError"}
      BY <1>8, <3>1 DEF Goto
    <3>. QED  BY <1>1, <3>2
  <2>2. CASE updateCPIPhase("Failed", "retry", "retry")
    BY <1>1, <1>8, <2>2 DEF Goto
  <2>3. CASE updateCPIPhase("Deployed", "cpiNodes", "retry")
    <3>1. /\ UNCHANGED <<mem, cpiOut>> /\ (status' = status \/ status'.cpi = "Deployed")
          /\ loc'.cpi = "Deployed" /\ pc' \in {"cpiNodes", "idle"}
      BY <1>8, <2>3 DEF Goto
    <3>. QED  BY <1>0, <1>16, <3>1 DEF YamlsInv, PhaseInv, cpiOut
  <2>. QED  BY <1>9, <2>1, <2>2, <2>3, CpiPhaseForm
<1>10. CASE CsiPhaseSteps
  <2>1. PICK phase \in {"Configuring", "Deployed", "Failed"},
             ok \in {"csiDeploy", "idle", "retry"}, err \in {"csiError", "retry"} :
             updateCSIPhase(phase, ok, err)
    BY <1>10, CsiPhaseForm
  <2>2. pc \in Working /\ phase \in Phases
    BY <1>10, CsiPhaseForm DEF Working, Steps, Phases
  <2>3. status'.cpi = status.cpi
    BY <1>0, <2>1, <2>2, CopiesCsiUpdate
  <2>4. UNCHANGED <<mem, cpiOut>> /\ pc' \notin {"cpiDeployed", "cpiNodes"}
    BY <2>1, UpdateFrame, UpdateStatusFrame DEF updateCSIPhase, Goto
  <2>. QED  BY <1>1, <2>3, <2>4
<1>11. CASE reconcileNodeProviderID
  <2>1. CASE NodePhase \in {"Configured", "Configuring"}
             /\ updateCPIPhase(NodePhase, "cpiLabels", "retry")
    <3>1. /\ UNCHANGED <<mem, cpiOut>> /\ (status' = status \/ status'.cpi = NodePhase)
          /\ pc' \in {"cpiLabels", "idle"} /\ NodePhase # ""
      BY <1>8, <2>1 DEF Goto
    <3>. QED  BY <1>1, <3>1
  <2>2. CASE /\ UNCHANGED <<resource, loc, locFresh, mem, cpiOut>>
             /\ pc' \in {"cpiError", "cpiLabels"}
    BY <1>1, <2>2 DEF resource
  <2>. QED  BY <1>11, <2>1, <2>2, NodePhaseForm
<1>12. CASE Begin
  <2>1. UNCHANGED <<status, mem, cpiOut>> /\ pc' \notin {"cpiDeployed", "cpiNodes"}
    BY <1>12 DEF Begin, resource
  <2>. QED  BY <1>1, <2>1
<1>13. CASE CacheSync \/ EditSpec
  <2>1. UNCHANGED <<status, loc, pc, mem, cpiOut>>
    BY <1>13 DEF CacheSync, EditSpec, local
  <2>. QED  BY <1>1, <2>1
<1>14. CASE Crash
  <2>1. UNCHANGED <<status, cpiOut>> /\ pc' = "idle" /\ mem'.cpiYamls = None
    BY <1>14 DEF Crash, InitialMem
  <2>. QED  BY <1>0, <1>16, <2>1 DEF YamlsInv, PhaseInv, cpiOut
<1>15. CASE UNCHANGED vars
  BY <1>1, <1>15 DEF vars, resource, local
<1>. QED
  BY <1>2, <1>3, <1>4, <1>5, <1>6, <1>7, <1>9, <1>10, <1>11, <1>12, <1>13, <1>14, <1>15,
     StepCases DEF CalmSteps

-----------------------------------------------------------------------------
(* The refinement *)

\* What the controller sees of the driver, while nobody relists: its state, or
\* what it saw before.
LEMMA SeenForm ==
    ASSUME dsSeen' = dsSeen
    PROVE  /\ Visible("cpi")' = Visible("cpi") \/ Visible("cpi")' = (cpiObjs'["ds"] # None)
           /\ cpiObjs'["ds"] = cpiObjs["ds"] => Visible("cpi")' = Visible("cpi")
BY DEF Visible, Copy, DsState, Exists

\* A relist shows the driver as it is.
LEMMA RelistForm ==
    ASSUME InformerSync \/ Crash
    PROVE  Visible("cpi")' = (cpiObjs["ds"] # None) /\ UNCHANGED <<cpiOut, misled>>
<1>1. UNCHANGED <<cpiOut, csiOut, misled>>
  BY DEF InformerSync, Crash
<1>2. CASE InformerLag
  <2>1. dsSeen' = [d \in DaemonSets |-> DsState(d)]
    BY <1>2 DEF InformerSync, Crash
  <2>2. Visible("cpi")' = (DsState("cpi") # "none")
    BY <1>2, <2>1 DEF Visible, Copy, DaemonSets
  <2>. QED  BY <1>1, <2>2 DEF DsState, Exists
<1>3. CASE ~InformerLag
  BY <1>1, <1>3 DEF Visible, Copy, DsState, Exists, cpiOut
<1>. QED  BY <1>2, <1>3

\* A step that DriverRollout does not see.
LEMMA UnseenStep ==
    ASSUME UNCHANGED cpiOut, mem'.cpiCur = mem.cpiCur, status'.cpi = status.cpi,
           dsSeen' = dsSeen, Misled' = Misled
    PROVE  UNCHANGED Rollout!vars
<1>1. Visible("cpi")' = Visible("cpi")
  BY SeenForm DEF cpiOut
<1>. QED  BY <1>1 DEF Rollout!vars, cpiOut, Misled

\* Every step is a step of DriverRollout, or one it does not see.
LEMMA RefinementStep ==
    ASSUME TypeOK, CredentialsInv, SettledInv, RolloutInv, [Next]_vars
    PROVE  [Rollout!Next]_(Rollout!vars)
<1>. DEFINE ds == cpiObjs["ds"]
            given == cpiSecret # None /\ cpiConfigMap # None
<1>0. CopiesInv /\ YamlsInv /\ DriverInv /\ PhaseInv
  BY DEF RolloutInv
<1>13. CASE InformerSync
  <2>1. Rollout!CatchUp
    BY <1>13, RelistForm DEF InformerSync, resource, cpiOut, Rollout!CatchUp
  <2>. QED  BY <2>1 DEF Rollout!Next
<1>1. CASE FetchCpiDeploymentYamls
  <2>1. status' = status /\ (given' = given)
    BY <1>1, CalmFrame, ChoiceForm DEF CalmSteps, resource
  <2>0. dsSeen' = dsSeen /\ Misled' = Misled
    BY <1>1 DEF FetchCpiDeploymentYamls, DaemonSetsChange, Misled
  <2>2. matrix.cpi \in CpiVersions \cup {None} /\ mem.cpiCur \in CpiVersions \cup {None}
    BY DEF TypeOK, Matrices
  <2>3. CASE mem.cpiCur = None /\ matrix.cpi # None
    <3>1. Rollout!Choose
      BY <1>1, <2>0, <2>1, <2>2, <2>3, ChoiceForm, SeenForm DEF Rollout!Choose, Misled
    <3>. QED  BY <3>1 DEF Rollout!Next
  <2>4. CASE mem.cpiCur # None /\ matrix.cpi # mem.cpiCur
    <3>1. Rollout!Replace
      BY <1>1, <2>0, <2>1, <2>2, <2>4, ChoiceForm, SeenForm
      DEF Rollout!Replace, Rollout!Copied, Misled
    <3>. QED  BY <3>1 DEF Rollout!Next
  <2>5. CASE mem.cpiCur = matrix.cpi
    <3>1. UNCHANGED Rollout!vars
      BY <1>1, <2>0, <2>1, <2>5, ChoiceForm, SeenForm DEF Rollout!vars, Misled
    <3>. QED  BY <3>1
  <2>. QED  BY <2>3, <2>4, <2>5
<1>2. CASE reconcileCPISecret \/ reconcileConfigMap
  <2>1. UNCHANGED <<mem, cpiObjs>> /\ (given => given')
    <3>1. items # None
      BY VersionsAssumption DEF TypeOK
    <3>. QED  BY <1>2, <3>1 DEF reconcileCPISecret, reconcileConfigMap, SecretData
  <2>2. status' = status
    BY <1>2, CalmFrame DEF CalmSteps, resource
  <2>0. Visible("cpi")' = Visible("cpi") /\ Misled' = Misled
    <3>1. dsSeen' = dsSeen /\ Misled' = Misled
      BY <1>2 DEF reconcileCPISecret, reconcileConfigMap, cluster, informer, Misled
    <3>. QED  BY <2>1, <3>1, SeenForm
  <2>3. CASE given' = given
    BY <2>0, <2>1, <2>2, <2>3 DEF Rollout!vars, Misled
  <2>4. CASE ~given /\ given'
    <3>1. Rollout!Provide
      BY <2>0, <2>1, <2>2, <2>4 DEF Rollout!Provide, Misled
    <3>. QED  BY <3>1 DEF Rollout!Next
  <2>. QED  BY <2>1, <2>3, <2>4
<1>3. CASE reconcileCPIDeployment
  <2>1. status' = status /\ mem' = mem /\ UNCHANGED <<cpiSecret, cpiConfigMap>>
    BY <1>3, CalmFrame, DeployForm DEF CalmSteps, resource
  <2>0. dsSeen' = dsSeen /\ Misled' = Misled
    BY <1>3 DEF reconcileCPIDeployment, DaemonSetsChange, Misled
  <2>2. CASE ds' = ds
    BY <2>0, <2>1, <2>2, SeenForm DEF Rollout!vars, Misled
  <2>3. CASE ds = None /\ mem.cpiYamls # None /\ ds' = mem.cpiYamls
    <3>1. given
      BY <1>3, DeployForm DEF CredentialsInv, CredentialsBeforeDeploy
    <3>2. mem.cpiCur = mem.cpiYamls
      BY <1>0, <2>3 DEF YamlsInv
    <3>3. Rollout!Install
      BY <2>0, <2>1, <2>3, <3>1, <3>2, SeenForm DEF Rollout!Install, Rollout!Copied, Misled
    <3>. QED  BY <3>3 DEF Rollout!Next
  <2>. QED  BY <1>3, <2>2, <2>3, DeployForm
<1>4. CASE OtherSteps
  <2>1. status' = status
    BY <1>4, CalmFrame DEF CalmSteps, resource
  <2>2. CASE reconcileCPIDeploymentStatus
    <3>1. Misled' = (Visible("cpi") /\ ds = None)
      BY <2>2 DEF reconcileCPIDeploymentStatus, Note, Exists, Misled
    <3>2. UNCHANGED <<mem, cpiOut, dsSeen>>
      BY <2>2 DEF reconcileCPIDeploymentStatus, informer
    <3>3. Rollout!Look
      BY <2>1, <3>1, <3>2, SeenForm DEF Rollout!Look, Misled, cpiOut
    <3>. QED  BY <3>3 DEF Rollout!Next
  <2>3. CASE InformerSync
    BY <1>13, <2>3
  <2>4. CASE ~reconcileCPIDeploymentStatus /\ ~InformerSync
    BY <1>4, <2>1, <2>4, OtherFrame, UnseenStep, CopyFrame DEF CalmSteps
  <2>. QED  BY <2>2, <2>3, <2>4
<1>5. CASE ClusterSteps \/ Begin \/ CacheSync \/ EditSpec \/ UNCHANGED vars
  <2>1. UNCHANGED <<status, mem, cpiOut>>
    BY <1>5, ClusterFrame DEF Begin, CacheSync, EditSpec, vars, resource
  <2>2. CASE InformerSync
    BY <1>13, <2>2
  <2>3. CASE reconcileCPIDeploymentStatus /\ ~InformerSync
    BY <1>4, <2>3 DEF OtherSteps
  <2>4. CASE ~reconcileCPIDeploymentStatus /\ ~InformerSync
    BY <1>5, <2>1, <2>4, UnseenStep, CopyFrame
  <2>. QED  BY <2>2, <2>3, <2>4
<1>6. CASE CsiPhaseSteps
  <2>1. PICK phase \in {"Configuring", "Deployed", "Failed"},
             ok \in {"csiDeploy", "idle", "retry"}, err \in {"csiError", "retry"} :
             updateCSIPhase(phase, ok, err)
    BY <1>6, CsiPhaseForm
  <2>2. pc \in Working /\ phase \in Phases
    BY <1>6, CsiPhaseForm DEF Working, Steps, Phases
  <2>3. status'.cpi = status.cpi
    BY <1>0, <2>1, <2>2, CopiesCsiUpdate
  <2>4. UNCHANGED <<mem, cpiOut, dsSeen, misled>>
    BY <2>1, UpdateFrame DEF updateCSIPhase
  <2>. QED  BY <2>3, <2>4, UnseenStep DEF Misled
<1>7. ASSUME NEW phase \in {"Configuring", "Failed", "Configured", "Deployed"}, NEW ok, NEW err,
             updateCPIPhase(phase, ok, err)
      PROVE  /\ UNCHANGED <<mem, cpiOut, dsSeen>> /\ Misled' = Misled
             /\ Visible("cpi")' = Visible("cpi")
             /\ status' = status \/ (locFresh /\ status'.cpi = phase)
  <2>1. [loc EXCEPT !.cpi = phase].cpi = phase
    BY DEF TypeOK, Status
  <2>2. UNCHANGED <<mem, cpiOut, dsSeen, misled>>
    BY <1>7, UpdateFrame DEF updateCPIPhase
  <2>3. Visible("cpi")' = Visible("cpi")
    BY <2>2, SeenForm DEF cpiOut
  <2>. QED  BY <1>7, <2>1, <2>2, <2>3 DEF updateCPIPhase, UpdateStatus, Misled
<1>8. ASSUME NEW phase \in {"Configuring", "Failed"}, NEW ok, NEW err,
             updateCPIPhase(phase, ok, err)
      PROVE  [Rollout!Next]_(Rollout!vars)
  <2>1. CASE status' = status
    BY <1>7, <1>8, <2>1, UnseenStep
  <2>2. CASE status'.cpi = phase
    <3>1. Rollout!ReportProgress
      BY <1>7, <1>8, <2>2 DEF Rollout!ReportProgress, cpiOut, Misled
    <3>. QED  BY <3>1 DEF Rollout!Next
  <2>. QED  BY <1>7, <1>8, <2>1, <2>2
<1>9. ASSUME pc \in {"cpiDeployed", "cpiNodes"} PROVE ds # None \/ Misled
  <2>1. CpiConfigured
    BY <1>9 DEF SettledInv, NeverSucceeds, CpiOnly
  <2>. QED  BY <1>9, <2>1 DEF SettledInv, RestsPastCheck, PastCpiCheck, CpiShown, Misled
<1>10. CASE CpiPhaseSteps
  <2>1. CASE pc = "cpiDeployed" /\ updateCPIPhase("Deployed", "cpiNodes", "retry")
    <3>1. CASE status' = status
      BY <1>7, <2>1, <3>1, UnseenStep
    <3>2. CASE locFresh /\ status'.cpi = "Deployed"
      <4>1. pc \in Working
        BY <2>1 DEF Working, Steps
      <4>2. status.cpi = "Failed"
        BY <1>0, <2>1, <3>2, <4>1 DEF CopiesInv, PhaseInv
      <4>3. Rollout!ReportDeployed
        BY <1>7, <1>9, <2>1, <3>2, <4>2 DEF Rollout!ReportDeployed, cpiOut, Misled
      <4>. QED  BY <4>3 DEF Rollout!Next
    <3>. QED  BY <1>7, <2>1, <3>1, <3>2
  <2>. QED  BY <1>8, <1>10, <2>1, CpiPhaseForm
<1>11. CASE reconcileNodeProviderID
  <2>1. CASE UNCHANGED <<resource, loc, locFresh, mem, cpiOut, dsSeen>> /\ Misled' = Misled
    BY <2>1, UnseenStep DEF resource
  <2>2. CASE NodePhase = "Configuring" /\ updateCPIPhase(NodePhase, "cpiLabels", "retry")
    BY <1>8, <2>2
  <2>3. CASE NodePhase = "Configured" /\ loc.cpi # NodePhase
             /\ updateCPIPhase(NodePhase, "cpiLabels", "retry")
    <3>1. CASE status' = status
      BY <1>7, <2>3, <3>1, UnseenStep
    <3>2. CASE locFresh /\ status'.cpi = "Configured"
      <4>1. pc = "cpiNodes" /\ pc \in Working /\ (ds # None \/ Misled)
        BY <1>9, <1>11, NodePhaseForm DEF Working, Steps
      <4>2. status.cpi \notin {"", "Failed", "Deploying", "Configured"}
        BY <1>0, <2>3, <3>2, <4>1 DEF CopiesInv, PhaseInv, DriverInv, Shown
      <4>3. status.cpi \in {"Configuring", "Deployed"}
        BY <4>2 DEF TypeOK, Status, Phases
      <4>4. Rollout!ReportConfigured
        BY <1>7, <2>3, <3>2, <4>1, <4>3 DEF Rollout!ReportConfigured, cpiOut, Misled
      <4>. QED  BY <4>4 DEF Rollout!Next
    <3>. QED  BY <1>7, <2>3, <3>1, <3>2
  <2>. QED  BY <1>11, <2>1, <2>2, <2>3, NodePhaseForm DEF Misled
<1>12. CASE Crash
  <2>1. Rollout!Restart
    BY <1>12, RelistForm DEF Crash, InitialMem, Rollout!Restart, cpiOut
  <2>. QED  BY <2>1 DEF Rollout!Next
<1>. QED
  BY <1>1, <1>2, <1>3, <1>4, <1>5, <1>6, <1>10, <1>11, <1>12, <1>13, StepCases
  DEF CalmSteps

\* The controller implements DriverRollout for the CPI driver: it installs the
\* chosen version next to its secret and configmap, removes it only for another
\* choice, and reports Deployed or Configured only of a driver that is there or
\* that the informer showed to the last check, through any lag, faults,
\* crashes, edits and changes of the matrix.
THEOREM ImplementsCpiRollout == Spec => CpiRollout
<1>1. Init => RolloutInv /\ CredentialsInv /\ SettledInv /\ Rollout!Init
  <2>. SUFFICES ASSUME Init PROVE RolloutInv /\ CredentialsInv /\ SettledInv /\ Rollout!Init
    OBVIOUS
  <2>1. /\ status.cpi = "" /\ loc.cpi = "" /\ cache.cpi = "" /\ pc = "idle" /\ queued
        /\ mem.cpiCur = None /\ mem.cpiYamls = None /\ cpiObjs["ds"] = None
        /\ cpiSecret = None /\ cpiConfigMap = None
    BY DEF Init, InitialMem, CpiKeys
  <2>6. ~Shown
    BY <2>1 DEF Init, Shown, Misled, DaemonSets
  <2>2. RolloutInv
    BY <2>1, <2>6 DEF RolloutInv, CopiesInv, YamlsInv, DriverInv, PhaseInv, Working
  <2>3. CredentialsInv
    BY <2>1 DEF CredentialsInv, CredentialsBeforeDeploy, CpiDriverHasCredentials
  <2>4. SettledInv
    BY <2>1 DEF SettledInv, RestsPastCheck, NeverSucceeds, PastCpiCheck, CpiOnly
  <2>5. Rollout!Init
    <3>1. Copy("cpi") = "none" /\ "cpiCheck" \notin misled
      BY <2>1, <2>6 DEF Copy, DsState, Exists, Shown, Misled
    <3>2. Visible("cpi") = FALSE
      BY <3>1 DEF Visible
    <3>3. ("cpiCheck" \in misled) = FALSE
      BY <3>1
    <3>4. (cpiSecret # None /\ cpiConfigMap # None) = FALSE
      BY <2>1
    <3>. QED  BY <2>1, <3>2, <3>3, <3>4, Zenon DEF Rollout!Init
  <2>. QED  BY <2>2, <2>3, <2>4, <2>5
<1>2. TypeOK /\ SettledInv /\ [Next]_vars => SettledInv'
  BY RestsStep, NeverStep
<1>3. TypeOK /\ RolloutInv /\ [Next]_vars => RolloutInv'
  BY RolloutStep
<1>4. TypeOK /\ CredentialsInv /\ SettledInv /\ RolloutInv /\ [Next]_vars
        => [Rollout!Next]_(Rollout!vars)
  BY RefinementStep
<1>. QED
  BY <1>1, <1>2, <1>3, <1>4, CredentialsStep, TypeCorrect, PTL
  DEF Spec, CpiRollout, Rollout!Spec
=============================================================================
