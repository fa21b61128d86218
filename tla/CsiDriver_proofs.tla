-------------------------- MODULE CsiDriver_proofs --------------------------
(***************************************************************************)
(* The CSI driver at rest, for any versions, manifests, configurations and *)
(* disturbances: what the controller leaves behind when nothing is queued  *)
(* or running.  The namespace of the driver may be deleted and created     *)
(* again; the theorems say what holds unless it is going away under a      *)
(* driver that was left in it.                                             *)
(***************************************************************************)
EXTENDS DriverRollout_proofs

\* Nothing is running and nothing is queued.
AtRest == pc = "idle" /\ ~queued

\* The driver belongs into its own namespace, which cannot hold it for long.
NamespaceLost == mem.csiNs = "own" /\ ns # "active"

\* Where Reconcile has seen the DaemonSet, where it has rewritten its kubelet
\* paths, and where it has set the feature state.
PastCsiCheck == pc = "csiDeployed" \/ AtRest
PastKubelet == pc = "csiCheck" \/ PastCsiCheck
PastFeatureState == pc = "csiKubelet" \/ PastKubelet

\* The steps that follow the choice of the namespace.
PastCsiNs == {"cpiCloudConfig", "cpiSecret", "cpiSecretPhase", "cpiConfigMap",
              "cpiConfigMapPhase", "cpiDeploy", "cpiCheck", "cpiDeployed", "cpiNodes",
              "cpiLabels", "csiCloudConfig", "csiSecret", "csiSecretPhase", "csiDeploy",
              "csiFss", "csiKubelet", "csiCheck", "csiDeployed"}

\* The DaemonSet that the check has seen is there, unless the informer showed
\* what was not.
CsiSeen ==
    PastCsiCheck => csiObjs[DsKey(mem.csiNs)] # None \/ NamespaceLost
                    \/ "csiCheck" \in misled

\* The versions with a namespace of their own are put there.
NamespaceMatches ==
    pc \in PastCsiNs \/ AtRest => (mem.csiCur \in OwnNsVersions => mem.csiNs = "own")

\* The feature state is set.
FeatureStateSet ==
    PastFeatureState => (mem.csiCur \in FssVersions => fssOn \/ ns # "active")

\* The kubelet paths are rewritten.
KubeletSet ==
    PastKubelet => (CustomKubelet => mem.csiNs \in custom \/ NamespaceLost
                                     \/ "csiKubelet" \in misled)

\* What the last steps of Reconcile leave behind.
CsiSettledInv ==
    /\ CsiSeen
    /\ NamespaceMatches
    /\ FeatureStateSet
    /\ KubeletSet

-----------------------------------------------------------------------------
(* The driver at rest *)

\* A step that leaves the driver alone and comes to rest only from where
\* Reconcile has done all its work.
LEMMA CsiSettledFrame ==
    ASSUME CsiSettledInv, UNCHANGED <<csiObjs, fssOn, custom, ns>>,
           misled \ {"cpiCheck"} \subseteq misled',
           mem'.csiNs = mem.csiNs, mem'.csiCur = mem.csiCur,
           \/ pc' = pc /\ (queued => queued')
           \/ pc = "csiDeployed" /\ pc' = "idle"
           \/ /\ pc' \notin {"csiKubelet", "csiCheck", "csiDeployed"}
              /\ pc' = "idle" => queued'
              /\ pc' \in PastCsiNs => pc \in PastCsiNs
    PROVE  CsiSettledInv'
<1>1. AtRest' => \/ AtRest \/ pc = "csiDeployed"
  BY DEF AtRest
<1>2. PastCsiCheck' => PastCsiCheck
  BY <1>1 DEF PastCsiCheck
<1>3. PastKubelet' => PastKubelet
  BY <1>2 DEF PastKubelet
<1>4. PastFeatureState' => PastFeatureState
  BY <1>3 DEF PastFeatureState
<1>5. pc' \in PastCsiNs \/ AtRest' => pc \in PastCsiNs \/ AtRest
  BY <1>1 DEF PastCsiNs, AtRest
<1>6. NamespaceLost' = NamespaceLost
  BY DEF NamespaceLost
<1>. QED
  BY <1>2, <1>3, <1>4, <1>5, <1>6
  DEF CsiSettledInv, CsiSeen, NamespaceMatches, FeatureStateSet, KubeletSet

\* A step that starts over or returns an error.
LEMMA CsiRestart ==
    ASSUME pc' \notin PastCsiNs, pc' = "idle" => queued'
    PROVE  CsiSettledInv'
BY DEF CsiSettledInv, CsiSeen, NamespaceMatches, FeatureStateSet, KubeletSet, AtRest,
       PastCsiCheck, PastKubelet, PastFeatureState, PastCsiNs

\* A status update comes to rest only after CsiDeployed.
LEMMA CsiSettledUpdate ==
    ASSUME CsiSettledInv, NEW new, NEW ok, NEW err \in {"cpiError", "csiError", "retry"},
           UpdateStatus(new, ok, err),
           \/ ok \in {"cpiConfigMap", "cpiDeploy", "cpiNodes", "cpiLabels", "csiDeploy"}
              /\ pc \in PastCsiNs
           \/ ok = "retry"
           \/ ok = "idle" /\ pc = "csiDeployed"
    PROVE  CsiSettledInv'
<1>1. UNCHANGED <<csiObjs, fssOn, custom, ns, mem, misled>>
  BY DEF UpdateStatus, csiOut, cluster
<1>2. Goto(ok) \/ Goto(err)
  BY DEF UpdateStatus
<1>3. CASE Goto(err) \/ ok = "retry"
  <2>1. pc' \in {"cpiError", "csiError", "idle"} /\ (pc' = "idle" => queued')
    BY <1>2, <1>3 DEF Goto
  <2>. QED  BY <2>1, CsiRestart DEF PastCsiNs
<1>4. CASE Goto(ok) /\ ok # "retry"
  <2>1. pc' = ok
    BY <1>4 DEF Goto
  <2>. QED  BY <1>1, <1>4, <2>1, CsiSettledFrame
<1>. QED  BY <1>2, <1>3, <1>4

\* The namespace controller takes objects only from a namespace that is going.
LEMMA NamespaceControllerForm ==
    ASSUME TypeOK, NamespaceController
    PROVE  /\ ns = "terminating" /\ ns' \in {"terminating", "absent"}
           /\ UNCHANGED <<pc, queued, mem, loc, locFresh, resource>>
           /\ csiObjs'[DsKey("kube")] = csiObjs[DsKey("kube")]
           /\ csiSecret'["kube"] = csiSecret["kube"]
           /\ "kube" \in custom => "kube" \in custom'
           /\ \A k \in CsiKeys : csiObjs[k] = None => csiObjs'[k] = None
           /\ ns' = "absent" => csiSecret'["own"] = None /\ InOwnNs' = {}
<1>1. ns = "terminating" /\ ns' \in {"terminating", "absent"}
      /\ UNCHANGED <<pc, queued, mem, loc, locFresh, resource>>
  BY DEF NamespaceController, local
<1>2. CASE UNCHANGED <<csiObjs, fssOn, custom, ns>>
           /\ csiSecret' = [csiSecret EXCEPT !["own"] = None]
  BY <1>1, <1>2 DEF TypeOK, Namespaces
<1>3. CASE \E k \in InOwnNs : /\ csiObjs' = [csiObjs EXCEPT ![k] = None]
                              /\ custom' = {n \in custom : k # DsKey(n)}
                              /\ UNCHANGED <<csiSecret, ns>>
  <2>1. PICK k \in InOwnNs : /\ csiObjs' = [csiObjs EXCEPT ![k] = None]
                             /\ custom' = {n \in custom : k # DsKey(n)}
                             /\ UNCHANGED <<csiSecret, ns>>
    BY <1>3
  <2>2. k \in CsiKeys /\ k # DsKey("kube") /\ DsKey("kube") \in CsiKeys
    BY <2>1 DEF InOwnNs, CsiKeys, DsKey, Namespaces
  <2>. QED  BY <1>1, <2>1, <2>2 DEF TypeOK
<1>4. CASE UNCHANGED <<csiSecret, csiObjs, custom>> /\ csiSecret["own"] = None /\ InOwnNs = {}
  BY <1>1, <1>4 DEF InOwnNs
<1>. QED  BY <1>2, <1>3, <1>4 DEF NamespaceController

\* What r.Get of a DaemonSet returns.
LEMMA DsStateCases ==
    ASSUME TypeOK PROVE Copy(mem.csiNs) \in DsStates
BY DsStateType DEF Copy, TypeOK, DaemonSets, DsStates

\* Every step keeps what the last steps of Reconcile leave behind.
LEMMA CsiSettledStep ==
    ASSUME TypeOK, CsiSettledInv, [Next]_vars
    PROVE  CsiSettledInv'
<1>1. CASE Begin \/ FetchVsphereVersions \/ FetchCpiDeploymentYamls
           \/ FetchCsiDeploymentYamls \/ Crash
  <2>1. CASE Begin \/ FetchVsphereVersions \/ Crash
    BY <2>1, CsiRestart DEF Begin, FetchVsphereVersions, Goto, Crash, PastCsiNs
  <2>2. CASE FetchCpiDeploymentYamls
    <3>1. Goto("retry") \/ Goto("csiYamls")
      BY <2>2, Zenon DEF FetchCpiDeploymentYamls
    <3>. QED  BY <3>1, CsiRestart DEF Goto, PastCsiNs
  <2>3. CASE FetchCsiDeploymentYamls
    <3>1. Goto("retry") \/ Goto("csiNs")
      BY <2>3, Zenon DEF FetchCsiDeploymentYamls
    <3>. QED  BY <3>1, CsiRestart DEF Goto, PastCsiNs
  <2>. QED  BY <1>1, <2>1, <2>2, <2>3
<1>2. CASE CsiNamespaceStep
  <2>1. CASE pc' = "idle" /\ queued'
    BY <2>1, CsiRestart DEF PastCsiNs
  <2>2. CASE pc' \in {"cpiCloudConfig", "csiCloudConfig"}
    <3>1. mem'.csiCur \in OwnNsVersions => mem'.csiNs = "own"
      <4>1. PICK n \in Namespaces : /\ mem' = [mem EXCEPT !.csiNs = n]
                                    /\ mem.csiCur \in OwnNsVersions => n = "own"
        BY <1>2, <2>2 DEF CsiNamespaceStep, Goto, Namespaces
      <4>2. mem \in Mem
        BY DEF TypeOK, Mem
      <4>3. mem'.csiCur = mem.csiCur
        BY <4>1, <4>2 DEF Mem
      <4>4. mem'.csiNs = n
        BY <4>1, <4>2 DEF Mem
      <4>. QED  BY <4>1, <4>3, <4>4
    <3>. QED
      BY <2>2, <3>1
      DEF CsiSettledInv, CsiSeen, NamespaceMatches, FeatureStateSet, KubeletSet, AtRest,
          PastCsiCheck, PastKubelet, PastFeatureState
  <2>. QED  BY <1>2, <2>1, <2>2 DEF CsiNamespaceStep, Goto
<1>3. CASE VerifyCpiCloudConfigs \/ reconcileCPISecret \/ reconcileConfigMap
           \/ reconcileCPIDeployment \/ reconcileCPIDeploymentStatus \/ reconcileNodeLabel
           \/ VerifyCsiCloudConfig
  <2>1. UNCHANGED <<csiObjs, fssOn, custom, ns, mem>>
    BY <1>3 DEF VerifyCpiCloudConfigs, reconcileCPISecret, reconcileConfigMap,
                reconcileCPIDeployment, reconcileCPIDeploymentStatus, reconcileNodeLabel,
                VerifyCsiCloudConfig, csiOut
  <2>3. misled \ {"cpiCheck"} \subseteq misled'
    BY <1>3 DEF VerifyCpiCloudConfigs, reconcileCPISecret, reconcileConfigMap,
                reconcileCPIDeployment, reconcileCPIDeploymentStatus, reconcileNodeLabel,
                VerifyCsiCloudConfig, cluster, Note
  <2>2. pc \in PastCsiNs /\ pc' \notin {"csiKubelet", "csiCheck", "csiDeployed", "idle"}
    BY <1>3 DEF VerifyCpiCloudConfigs, AfterVerify, reconcileCPISecret, AfterSecret,
                reconcileConfigMap, reconcileCPIDeployment, reconcileCPIDeploymentStatus,
                reconcileNodeLabel, VerifyCsiCloudConfig, Goto, PastCsiNs
  <2>. QED  BY <2>1, <2>2, <2>3, CsiSettledFrame
<1>4. CASE reconcileCSISecret
  <2>1. UNCHANGED <<csiObjs, fssOn, custom, ns, mem, misled>> /\ pc = "csiSecret"
    BY <1>4 DEF reconcileCSISecret, cluster
  <2>2. pc' \in {"csiError", "csiSecretPhase", "csiDeploy"}
    BY <1>4 DEF reconcileCSISecret, Goto
  <2>. QED  BY <2>1, <2>2, CsiSettledFrame DEF PastCsiNs
<1>5. CASE reconcileCSIDeployment
  <2>1. UNCHANGED mem /\ pc = "csiDeploy" /\ pc' \in {"csiFss", "csiError"}
    BY <1>5 DEF reconcileCSIDeployment, Goto
  <2>. QED
    BY <2>1 DEF CsiSettledInv, CsiSeen, NamespaceMatches, FeatureStateSet, KubeletSet, AtRest,
                PastCsiCheck, PastKubelet, PastFeatureState, PastCsiNs
<1>6. CASE updateCSIConfigmap
  <2>1. UNCHANGED <<mem, ns>> /\ pc = "csiFss"
    BY <1>6 DEF updateCSIConfigmap
  <2>2. \/ pc' = "idle" /\ queued'
        \/ pc' = "csiKubelet" /\ (mem.csiCur \in FssVersions => fssOn')
    BY <1>6 DEF updateCSIConfigmap, NeedsFeatureState, Goto
  <2>3. NamespaceMatches'
    BY <2>1, <2>2 DEF CsiSettledInv, NamespaceMatches, AtRest, PastCsiNs
  <2>. QED
    BY <2>1, <2>2, <2>3 DEF CsiSettledInv, CsiSeen, FeatureStateSet, KubeletSet, AtRest,
                            PastCsiCheck, PastKubelet, PastFeatureState
<1>7. CASE updateCSIDaemonSet
  <2>1. UNCHANGED <<mem, ns, fssOn>> /\ pc = "csiKubelet"
    BY <1>7 DEF updateCSIDaemonSet
  <2>2. \/ pc' = "idle" /\ queued'
        \/ /\ pc' = "csiCheck"
           /\ CustomKubelet => mem.csiNs \in custom' \/ "csiKubelet" \in misled'
    <3>. DEFINE n == mem.csiNs
                conflict == Rewrites(n) /\ n \in dsBehind
    <3>1. CASE ~CustomKubelet
      BY <1>7, <3>1 DEF updateCSIDaemonSet, Goto
    <3>2. CASE CustomKubelet
      <4>1. /\ custom' = IF Rewrites(n) /\ ~conflict THEN custom \cup {n} ELSE custom
            /\ Goto(IF Visible(n) /\ ~conflict THEN "csiCheck" ELSE "retry")
            /\ Note(Copy(n) = "custom" /\ n \notin custom)
        BY <1>7, <3>2, Zenon DEF updateCSIDaemonSet
      <4>2. CASE Visible(n) /\ ~conflict
        <5>1. pc' = "csiCheck"
          BY <4>1, <4>2 DEF Goto
        <5>2. Copy(n) \in {"plain", "custom"}
          BY <4>2, DsStateCases DEF Visible, DsStates
        <5>. QED  BY <2>1, <4>1, <4>2, <5>1, <5>2 DEF Rewrites, Note
      <4>3. CASE ~(Visible(n) /\ ~conflict)
        BY <4>1, <4>3 DEF Goto
      <4>. QED  BY <4>2, <4>3
    <3>. QED  BY <3>1, <3>2
  <2>3. NamespaceMatches' /\ FeatureStateSet'
    BY <2>1, <2>2 DEF CsiSettledInv, NamespaceMatches, FeatureStateSet, AtRest, PastCsiNs,
                      PastFeatureState, PastKubelet, PastCsiCheck
  <2>. QED
    BY <2>1, <2>2, <2>3 DEF CsiSettledInv, CsiSeen, KubeletSet, AtRest, PastCsiCheck,
                            PastKubelet
<1>8. CASE reconcileCSIDeploymentStatus
  <2>1. UNCHANGED <<mem, ns, fssOn, custom, csiObjs>> /\ pc = "csiCheck"
    BY <1>8 DEF reconcileCSIDeploymentStatus, csiOut
  <2>2. \/ pc' = "csiError"
        \/ pc' \in {"csiDeployed", "idle"} /\ DaemonSetHealthy(mem.csiNs)
    BY <1>8 DEF reconcileCSIDeploymentStatus, Goto
  <2>3. DaemonSetHealthy(mem.csiNs) =>
            csiObjs[DsKey(mem.csiNs)] # None \/ "csiCheck" \in misled'
    <3>1. mem.csiNs # "cpi"
      BY DEF TypeOK, Namespaces
    <3>2. Note(Visible(mem.csiNs) /\ ~Exists(mem.csiNs))
      BY <1>8 DEF reconcileCSIDeploymentStatus
    <3>. QED  BY <2>1, <3>1, <3>2 DEF DaemonSetHealthy, Exists, Note
  <2>6. "csiKubelet" \in misled => "csiKubelet" \in misled'
    BY <1>8, <2>1 DEF reconcileCSIDeploymentStatus, Note
  <2>4. CsiSeen'
    BY <2>1, <2>2, <2>3 DEF CsiSeen, PastCsiCheck, AtRest
  <2>5. NamespaceMatches' /\ FeatureStateSet' /\ KubeletSet'
    BY <2>1, <2>2, <2>6
    DEF CsiSettledInv, NamespaceMatches, FeatureStateSet, KubeletSet, AtRest, PastCsiNs,
        PastFeatureState, PastKubelet, PastCsiCheck, NamespaceLost
  <2>. QED  BY <2>4, <2>5 DEF CsiSettledInv
<1>9. CASE CpiPhaseSteps
  <2>1. \/ pc \in PastCsiNs /\ \E ok \in {"cpiConfigMap", "cpiDeploy"} :
              updateCPIPhase("Configuring", ok, "cpiError")
        \/ pc \in PastCsiNs /\ updateCPIPhase("Deployed", "cpiNodes", "retry")
        \/ updateCPIPhase("Failed", "retry", "retry")
    BY <1>9, Zenon DEF CpiPhaseSteps, reconcileCPISecretPhase, reconcileConfigMapPhase,
                       CpiDeployed, updateCPIStatusForError, PastCsiNs
  <2>. QED  BY <2>1, CsiSettledUpdate DEF updateCPIPhase
<1>10. CASE CsiPhaseSteps
  <2>1. CASE reconcileCSISecretPhase
    BY <2>1, CsiSettledUpdate DEF reconcileCSISecretPhase, updateCSIPhase, PastCsiNs
  <2>2. CASE CsiDeployed
    BY <2>2, CsiSettledUpdate DEF CsiDeployed, updateCSIPhase
  <2>3. CASE updateCSIStatusForError
    BY <2>3, CsiSettledUpdate DEF updateCSIStatusForError, updateCSIPhase
  <2>. QED  BY <1>10, <2>1, <2>2, <2>3 DEF CsiPhaseSteps
<1>11. CASE reconcileNodeProviderID
  <2>1. CASE UpdateStatus([loc EXCEPT !.cpi = NodePhase], "cpiLabels", "retry")
    BY <1>11, <2>1, CsiSettledUpdate DEF reconcileNodeProviderID, PastCsiNs
  <2>2. CASE UNCHANGED <<mem, csiOut, misled>> /\ pc' \in {"cpiError", "cpiLabels"}
    BY <1>11, <2>2, CsiSettledFrame DEF reconcileNodeProviderID, PastCsiNs, csiOut
  <2>. QED  BY <1>11, <2>1, <2>2 DEF reconcileNodeProviderID, updateCPIPhase, Goto, cluster
<1>12. CASE CallFails
  <2>1. pc' \in {"cpiError", "csiError", "idle"} /\ (pc' = "idle" => queued')
    BY <1>12 DEF CallFails, ErrorStep, Goto
  <2>. QED  BY <2>1, CsiRestart DEF PastCsiNs
<1>13. CASE NamespaceController
  <2>1. /\ ns = "terminating" /\ ns' # "active"
        /\ UNCHANGED <<pc, queued, mem>>
        /\ csiObjs'[DsKey("kube")] = csiObjs[DsKey("kube")]
        /\ "kube" \in custom => "kube" \in custom'
        /\ misled' = misled
    BY <1>13, NamespaceControllerForm DEF NamespaceController
  <2>2. mem.csiNs \in {"own", "kube"}
    BY DEF TypeOK, Namespaces
  <2>3. UNCHANGED <<AtRest, PastCsiCheck, PastKubelet>>
    BY <2>1 DEF AtRest, PastCsiCheck, PastKubelet
  <2>4. CsiSeen'
    BY <2>1, <2>2, <2>3 DEF CsiSettledInv, CsiSeen, NamespaceLost
  <2>5. NamespaceMatches' /\ FeatureStateSet'
    BY <2>1, <2>3 DEF CsiSettledInv, NamespaceMatches, FeatureStateSet
  <2>6. KubeletSet'
    BY <2>1, <2>2, <2>3 DEF CsiSettledInv, KubeletSet, NamespaceLost
  <2>. QED  BY <2>4, <2>5, <2>6 DEF CsiSettledInv
<1>14. CASE Resync \/ InformerSync \/ PodsProgress \/ MatrixUpdate \/ ConfUpdate
            \/ CloudConfigStatus \/ LoginChange \/ NodesChange \/ PodsFail \/ CacheSync
            \/ EditSpec
  <2>1. UNCHANGED <<csiObjs, fssOn, custom, ns, mem, pc, misled>> /\ (queued => queued')
    BY <1>14 DEF Resync, InformerSync, PodsProgress, MatrixUpdate, ConfUpdate,
                 CloudConfigStatus, LoginChange, NodesChange, PodsFail, CacheSync, EditSpec, csiOut,
                 cluster, TypeOK
  <2>. QED  BY <2>1, CsiSettledFrame
<1>15. CASE UNCHANGED vars
  BY <1>15, CsiSettledFrame DEF vars, csiOut, cluster
<1>. QED
  BY <1>1, <1>2, <1>3, <1>4, <1>5, <1>6, <1>7, <1>8, <1>9, <1>10, <1>11, <1>12, <1>13,
     <1>14, <1>15, StepCases DEF CalmSteps, OtherSteps, ClusterSteps

\* The initial state is not at rest.
LEMMA CsiSettledInit == Init => CsiSettledInv
BY DEF Init, CsiSettledInv, CsiSeen, NamespaceMatches, FeatureStateSet, KubeletSet, AtRest,
       PastCsiCheck, PastKubelet, PastFeatureState, PastCsiNs

\* The controller does not come to rest with the phase Deployed while the CSI
\* DaemonSet is missing, with any versions, lag, faults, crashes, edits and
\* matrix changes, unless the namespace of the driver is being deleted or the
\* informer showed the DaemonSet to the last check.
THEOREM SettledCsiPresentAlways == Spec => []SettledCsiPresent
<1>1. TypeOK /\ CsiSettledInv /\ [Next]_vars => CsiSettledInv'
  BY CsiSettledStep
<1>2. TypeOK /\ CsiSettledInv => SettledCsiPresent
  BY DEF CsiSettledInv, CsiSeen, PastCsiCheck, AtRest, NamespaceLost, NamespaceThere,
         SettledCsiPresent, Quiescent, Exists, TypeOK, Namespaces
<1>. QED  BY <1>1, <1>2, CsiSettledInit, TypeCorrect, PTL DEF Spec

\* A CSI driver reported as Deployed at rest has its feature state and its
\* rewritten kubelet paths, whichever step of the deployment was interrupted
\* and however often the objects were deleted and created again, unless its
\* namespace is being deleted or the informer showed updateCSIDaemonSet a
\* rewritten DaemonSet that had been replaced.
THEOREM SettledCsiConfiguredAlways == Spec => []SettledCsiConfigured
<1>1. TypeOK /\ CsiSettledInv /\ [Next]_vars => CsiSettledInv'
  BY CsiSettledStep
<1>2. CsiSettledInv => SettledCsiConfigured
  <2>. SUFFICES ASSUME CsiSettledInv, NamespaceThere, AtRest
                PROVE  /\ mem.csiCur \in FssVersions => fssOn
                       /\ CustomKubelet => mem.csiNs \in custom \/ "csiKubelet" \in misled
    BY DEF SettledCsiConfigured, Quiescent, AtRest
  <2>1. mem.csiCur \in FssVersions => mem.csiNs = "own"
    BY VersionsAssumption DEF CsiSettledInv, NamespaceMatches
  <2>2. mem.csiCur \in FssVersions => ns = "active"
    BY <2>1 DEF NamespaceThere
  <2>3. PastFeatureState /\ PastKubelet
    BY DEF PastFeatureState, PastKubelet, PastCsiCheck
  <2>4. ~NamespaceLost
    BY DEF NamespaceThere, NamespaceLost
  <2>. QED  BY <2>2, <2>3, <2>4 DEF CsiSettledInv, FeatureStateSet, KubeletSet
<1>. QED  BY <1>1, <1>2, CsiSettledInit, TypeCorrect, PTL DEF Spec

-----------------------------------------------------------------------------
(* Credentials of the driver at rest *)

\* Nothing outlives its namespace.
NamespaceEmpty == ns = "absent" => csiSecret["own"] = None /\ InOwnNs = {}

\* The steps at which the CSI phase in the copy of the running Reconcile is the
\* one of the status, if the copy's version is the latest.
CsiWorking == Steps \ {"idle", "cpiError", "csiError"}

\* A copy of the latest version has the latest CSI phase.
CsiCopiesInv ==
    /\ cacheFresh => cache.csi = status.csi
    /\ pc \in CsiWorking /\ locFresh => loc.csi = status.csi

\* The secret is next to where the driver belongs.
SecretThere == csiSecret[mem.csiNs] # None \/ NamespaceLost

\* The manifests may bring back the namespace, and with it a driver without a
\* secret; they are only applied in a phase that CsiDeployed then changes,
\* and that change is delivered as another request.
SecretInv ==
    /\ pc \in {"csiSecretPhase", "csiDeploy"} => SecretThere
    /\ pc \in {"csiFss", "csiKubelet", "csiCheck", "csiDeployed"} =>
          SecretThere \/ Deploys(loc.csi)
    /\ AtRest => SecretThere \/ ~cacheFresh

\* The steps that touch neither the CSI objects, nor their secret and namespace.
LEMMA CsiQuietFrame ==
    ASSUME Next
    PROVE  \/ FetchCsiDeploymentYamls \/ CsiNamespaceStep \/ reconcileCSISecret
           \/ reconcileCSIDeployment \/ NamespaceController
           \/ UNCHANGED <<csiSecret, csiObjs, ns>>
<1>1. CASE FetchCpiDeploymentYamls \/ reconcileCPISecret \/ reconcileConfigMap
           \/ reconcileCPIDeployment \/ VerifyCpiCloudConfigs
           \/ reconcileCPIDeploymentStatus \/ reconcileNodeLabel \/ VerifyCsiCloudConfig
           \/ updateCSIConfigmap \/ updateCSIDaemonSet \/ reconcileCSIDeploymentStatus
           \/ CallFails \/ Begin \/ FetchVsphereVersions
  BY <1>1 DEF FetchCpiDeploymentYamls, reconcileCPISecret, reconcileConfigMap,
              reconcileCPIDeployment, VerifyCpiCloudConfigs,
              reconcileCPIDeploymentStatus, reconcileNodeLabel, VerifyCsiCloudConfig,
              updateCSIConfigmap, updateCSIDaemonSet, reconcileCSIDeploymentStatus,
              CallFails, Begin, FetchVsphereVersions, csiOut
<1>2. CASE CpiPhaseSteps \/ CsiPhaseSteps \/ reconcileNodeProviderID
  <2>1. (\E new, ok, err : UpdateStatus(new, ok, err)) \/ UNCHANGED csiOut
    <3>1. CASE CpiPhaseSteps
      BY <3>1, CpiPhaseForm, Zenon DEF updateCPIPhase
    <3>2. CASE CsiPhaseSteps
      BY <3>2, CsiPhaseForm, Zenon DEF updateCSIPhase
    <3>3. CASE reconcileNodeProviderID
      BY <3>3, Zenon DEF reconcileNodeProviderID, updateCPIPhase
    <3>. QED  BY <1>2, <3>1, <3>2, <3>3
  <2>. QED  BY <2>1 DEF UpdateStatus, csiOut
<1>3. CASE Resync \/ InformerSync \/ PodsProgress \/ MatrixUpdate \/ ConfUpdate
           \/ CloudConfigStatus \/ LoginChange \/ NodesChange \/ PodsFail \/ CacheSync
           \/ Crash \/ EditSpec
  BY <1>3 DEF Resync, InformerSync, PodsProgress, MatrixUpdate, ConfUpdate,
              CloudConfigStatus, LoginChange, NodesChange, PodsFail, CacheSync, Crash, EditSpec,
              csiOut
<1>. QED  BY <1>1, <1>2, <1>3, StepCases DEF CalmSteps, OtherSteps, ClusterSteps

\* What applying the manifests can do to the namespace: a new object in it
\* comes with it, unless it was there.
LEMMA CsiDeployForm ==
    ASSUME TypeOK, reconcileCSIDeployment
    PROVE  /\ pc = "csiDeploy" /\ UNCHANGED <<csiSecret, mem, resource, loc, locFresh>>
           /\ pc' \in {"csiFss", "csiError"}
           /\ ns' = ns \/ (ns = "absent" /\ ns' = "active" /\ Deploys(loc.csi))
           /\ ns = "absent" /\ ns' = "absent" => InOwnNs' \subseteq InOwnNs
<1>. DEFINE docs == IF Deploys(loc.csi) /\ mem.csiYamls # None
                    THEN CsiDocs[mem.csiYamls] ELSE <<>>
            new(stop) == Created(docs, CsiPresent, stop)
<1>1. PICK stop \in 1 .. Len(docs) + 1 :
         /\ \A i \in Rejected(docs) : stop <= i
         /\ csiObjs' = [k \in CsiKeys |-> IF k \in new(stop) THEN mem.csiYamls
                                          ELSE csiObjs[k]]
         /\ ns' = IF NsKey \in new(stop) THEN "active" ELSE ns
  BY Zenon DEF reconcileCSIDeployment
<1>2. /\ pc = "csiDeploy" /\ UNCHANGED <<csiSecret, mem, resource, loc, locFresh>>
      /\ pc' \in {"csiFss", "csiError"}
  BY DEF reconcileCSIDeployment, Goto, local
<1>3. docs \in Seq([file : Nat, key : CsiKeys \cup {NsKey}])
  <2>1. mem.csiYamls # None => mem.csiYamls \in CsiVersions
    BY DEF TypeOK
  <2>2. mem.csiYamls # None => CsiDocs[mem.csiYamls] \in
                                  Seq([file : Nat, key : CsiKeys \cup {NsKey}])
    BY <2>1, DocsAssumption
  <2>3. <<>> \in Seq([file : Nat, key : CsiKeys \cup {NsKey}])
    OBVIOUS
  <2>. QED  BY <2>2, <2>3, Zenon
<1>4. NsKey \in new(stop) => ns = "absent" /\ Deploys(loc.csi)
  <2>1. NsKey \in new(stop) => NsKey \notin CsiPresent /\ DOMAIN docs # {}
    BY DEF Created
  <2>2. NsKey \notin CsiPresent => ns = "absent"
    BY DEF CsiPresent
  <2>. QED  BY <2>1, <2>2
<1>. HIDE DEF docs
<1>5. ASSUME ns = "absent", ns' = "absent", NEW k \in InOwnNs'
      PROVE  k \in InOwnNs
  <2>1. k \in CsiKeys /\ k[2] = "own" /\ csiObjs'[k] # None
    BY <1>5 DEF InOwnNs
  <2>2. k \notin new(stop)
    <3>. SUFFICES ASSUME k \in new(stop) PROVE FALSE
      OBVIOUS
    <3>1. PICK i \in DOMAIN docs : i < stop /\ docs[i].key = k
      BY DEF Created
    <3>2. DOMAIN docs = 1 .. Len(docs) /\ Len(docs) \in Nat
      BY <1>3
    <3>3. i \notin Rejected(docs)
      BY <1>1, <3>1, <3>2
    <3>4. PICK j \in 1 .. i : docs[j].key = NsKey
      BY <1>5, <2>1, <3>1, <3>3 DEF Rejected
    <3>5. j \in DOMAIN docs /\ j < stop
      BY <3>1, <3>2, <3>4
    <3>6. NsKey \notin CsiPresent
      BY <1>5 DEF CsiPresent, CsiKeys, NsKey, DriverKey, FssKey, DsKey
    <3>7. NsKey \in new(stop)
      BY <3>4, <3>5, <3>6 DEF Created
    <3>. QED  BY <1>1, <1>5, <3>7
  <2>. QED  BY <1>1, <2>1, <2>2 DEF InOwnNs
<1>. QED  BY <1>1, <1>2, <1>4, <1>5

\* Every step keeps an absent namespace empty.
LEMMA NamespaceEmptyStep ==
    ASSUME TypeOK, NamespaceEmpty, [Next]_vars
    PROVE  NamespaceEmpty'
<1>1. CASE FetchCsiDeploymentYamls
  <2>1. csiSecret' = csiSecret /\ (ns' = "absent" => ns = "absent")
    BY <1>1 DEF FetchCsiDeploymentYamls
  <2>2. \A k \in CsiKeys : csiObjs'[k] # None => csiObjs[k] # None
    BY <1>1 DEF FetchCsiDeploymentYamls
  <2>. QED  BY <2>1, <2>2 DEF NamespaceEmpty, InOwnNs
<1>2. CASE CsiNamespaceStep
  <2>1. csiSecret' = csiSecret /\ csiObjs' = csiObjs /\ (ns' = "absent" => ns = "absent")
    BY <1>2 DEF CsiNamespaceStep, createCSINamespace, deleteCSINamespace
  <2>. QED  BY <2>1 DEF NamespaceEmpty, InOwnNs
<1>3. CASE reconcileCSISecret
  <2>1. csiObjs' = csiObjs /\ ns' = ns
    BY <1>3 DEF reconcileCSISecret
  <2>2. ns = "absent" /\ csiSecret["own"] = None => csiSecret'["own"] = None
    <3>1. CASE mem.csiNs = "own" /\ ns = "absent" /\ csiSecret["own"] = None
      BY <1>3, <3>1 DEF reconcileCSISecret, SecretNamespace, Usable
    <3>2. CASE mem.csiNs = "kube"
      BY <1>3, <3>2 DEF reconcileCSISecret, SecretNamespace, TypeOK, Namespaces
    <3>. QED  BY <3>1, <3>2 DEF TypeOK, Namespaces
  <2>. QED  BY <2>1, <2>2 DEF NamespaceEmpty, InOwnNs
<1>4. CASE reconcileCSIDeployment
  BY <1>4, CsiDeployForm DEF NamespaceEmpty
<1>5. CASE NamespaceController
  BY <1>5, NamespaceControllerForm DEF NamespaceEmpty
<1>6. CASE UNCHANGED <<csiSecret, csiObjs, ns>>
  BY <1>6 DEF NamespaceEmpty, InOwnNs
<1>7. CASE UNCHANGED vars
  BY <1>6, <1>7 DEF vars, csiOut
<1>. QED  BY <1>1, <1>2, <1>3, <1>4, <1>5, <1>6, <1>7, CsiQuietFrame

\* A status update, which is abandoned when it fails, keeps the copies.
LEMMA CsiCopiesUpdate ==
    ASSUME TypeOK, CsiCopiesInv, NEW new, NEW ok,
           NEW err \in {"cpiError", "csiError", "retry"}, UpdateStatus(new, ok, err)
    PROVE  CsiCopiesInv'
<1>1. loc' = new /\ cache' = cache /\ locFresh' = locFresh
  BY DEF UpdateStatus
<1>2. CASE locFresh /\ status' = new /\ cacheFresh' = cacheFresh /\ new = status
  BY <1>1, <1>2 DEF CsiCopiesInv
<1>3. CASE locFresh /\ status' = new /\ ~cacheFresh'
  BY <1>1, <1>3 DEF CsiCopiesInv
<1>4. CASE UNCHANGED <<status, cacheFresh>> /\ Goto(err)
  <2>1. pc' \notin CsiWorking
    BY <1>4 DEF Goto, CsiWorking
  <2>. QED  BY <1>1, <1>4, <2>1 DEF CsiCopiesInv
<1>5. cacheFresh \in BOOLEAN
  BY DEF TypeOK
<1>. QED  BY <1>2, <1>3, <1>4, <1>5 DEF UpdateStatus, KeepsVersion

\* Every step keeps the copies of the CSI phase consistent.
LEMMA CsiCopiesStep ==
    ASSUME TypeOK, CsiCopiesInv, [Next]_vars
    PROVE  CsiCopiesInv'
<1>1. ASSUME UNCHANGED <<resource, loc, locFresh>>, pc' \in CsiWorking => pc \in CsiWorking
      PROVE  CsiCopiesInv'
  BY <1>1 DEF CsiCopiesInv, resource
<1>2. CASE CalmSteps
  <2>1. UNCHANGED <<resource, loc, locFresh>> /\ pc \in Working
    BY <1>2, CalmFrame
  <2>2. pc # "csiError"
    BY <1>2
    DEF CalmSteps, OtherSteps, FetchVsphereVersions, FetchCpiDeploymentYamls, FetchCsiDeploymentYamls,
        CsiNamespaceStep, VerifyCpiCloudConfigs, reconcileCPISecret, reconcileConfigMap,
        reconcileCPIDeployment, reconcileCPIDeploymentStatus, reconcileNodeLabel,
        VerifyCsiCloudConfig, reconcileCSISecret, reconcileCSIDeployment,
        updateCSIConfigmap, updateCSIDaemonSet, reconcileCSIDeploymentStatus, CallFails
  <2>. QED  BY <1>1, <2>1, <2>2 DEF Working, CsiWorking
<1>3. CASE ClusterSteps
  BY <1>1, <1>3, ClusterFrame
<1>4. CASE CpiPhaseSteps
  BY <1>4, CpiPhaseForm, CsiCopiesUpdate DEF updateCPIPhase
<1>5. CASE CsiPhaseSteps
  BY <1>5, CsiPhaseForm, CsiCopiesUpdate DEF updateCSIPhase
<1>6. CASE reconcileNodeProviderID
  <2>1. CASE updateCPIPhase(NodePhase, "cpiLabels", "retry")
    BY <2>1, CsiCopiesUpdate DEF updateCPIPhase
  <2>2. CASE UNCHANGED <<resource, loc, locFresh>>
    BY <1>1, <1>6, <2>2, NodePhaseForm DEF CsiWorking, Steps
  <2>. QED  BY <1>6, <2>1, <2>2, NodePhaseForm
<1>7. CASE Begin
  BY <1>7 DEF Begin, CsiCopiesInv, resource
<1>8. CASE CacheSync
  BY <1>8 DEF CacheSync, CsiCopiesInv, local
<1>9. CASE Crash
  BY <1>9 DEF Crash, CsiCopiesInv, CsiWorking
<1>10. CASE EditSpec
  BY <1>10 DEF EditSpec, CsiCopiesInv
<1>11. CASE UNCHANGED vars
  BY <1>1, <1>11 DEF vars, local
<1>. QED
  BY <1>2, <1>3, <1>4, <1>5, <1>6, <1>7, <1>8, <1>9, <1>10, <1>11, StepCases

\* A step that starts over, goes back before the secret or returns an error.
LEMMA SecretRestart ==
    ASSUME pc' \notin {"csiSecretPhase", "csiDeploy", "csiFss", "csiKubelet", "csiCheck",
                       "csiDeployed"},
           pc' = "idle" => queued'
    PROVE  SecretInv'
BY DEF SecretInv, AtRest

\* A step of the last part of Reconcile that leaves the secret alone.
LEMMA SecretFrame ==
    ASSUME SecretInv, UNCHANGED <<csiSecret, ns, mem, loc>>,
           pc \in {"csiFss", "csiKubelet"},
           pc' \in {"csiKubelet", "csiCheck"} \/ (pc' = "idle" /\ queued')
    PROVE  SecretInv'
BY DEF SecretInv, AtRest, SecretThere, NamespaceLost

\* The driver comes to rest next to its secret, or with a request to come.
LEMMA SecretAfterDeployed ==
    ASSUME TypeOK, SecretInv, CsiCopiesInv, CsiDeployed
    PROVE  SecretInv'
<1>. DEFINE new == [loc EXCEPT !.csi = "Deployed"]
<1>1. UpdateStatus(new, "idle", "retry") /\ pc = "csiDeployed"
  BY DEF CsiDeployed, updateCSIPhase
<1>2. UNCHANGED <<csiSecret, ns, mem>>
  BY <1>1 DEF UpdateStatus, csiOut
<1>3. CASE SecretThere
  <2>1. SecretThere'
    BY <1>2, <1>3 DEF SecretThere, NamespaceLost
  <2>2. pc' = "idle"
    BY <1>1 DEF UpdateStatus, Goto
  <2>. QED  BY <2>1, <2>2 DEF SecretInv
<1>4. CASE ~SecretThere /\ locFresh
  <2>1. Deploys(loc.csi) /\ loc.csi = status.csi
    BY <1>1, <1>4 DEF SecretInv, CsiCopiesInv, CsiWorking, Steps
  <2>2. new.csi = "Deployed"
    BY DEF TypeOK, Status
  <2>3. new # status
    BY <2>1, <2>2 DEF Deploys
  <2>4. pc' = "idle" /\ (queued' \/ ~cacheFresh')
    BY <1>1, <2>3 DEF UpdateStatus, KeepsVersion, Goto
  <2>. QED  BY <2>4 DEF SecretInv, AtRest
<1>5. CASE ~locFresh
  <2>1. pc' = "idle" /\ queued'
    BY <1>1, <1>5 DEF UpdateStatus, Goto
  <2>. QED  BY <2>1, SecretRestart
<1>. QED  BY <1>3, <1>4, <1>5

\* Every step keeps the secret next to the driver.
LEMMA SecretStep ==
    ASSUME TypeOK, SecretInv, CsiCopiesInv, [Next]_vars
    PROVE  SecretInv'
<1>1. CASE reconcileCSISecret
  <2>1. pc' \in {"csiError", "csiSecretPhase", "csiDeploy"}
    BY <1>1 DEF reconcileCSISecret, Goto
  <2>2. CASE pc' = "csiError"
    BY <2>2, SecretRestart
  <2>3. CASE pc' # "csiError"
    <3>1. csiSecret' = [csiSecret EXCEPT ![mem.csiNs] = items] /\ mem' = mem
      BY <1>1, <2>3 DEF reconcileCSISecret, SecretNamespace, Goto
    <3>2. csiSecret'[mem'.csiNs] # None
      BY <3>1, VersionsAssumption DEF TypeOK
    <3>. QED  BY <2>1, <3>2 DEF SecretInv, SecretThere, AtRest
  <2>. QED  BY <2>2, <2>3
<1>2. CASE reconcileCSISecretPhase
  <2>1. UpdateStatus([loc EXCEPT !.csi = "Configuring"], "csiDeploy", "csiError")
        /\ pc = "csiSecretPhase"
    BY <1>2 DEF reconcileCSISecretPhase, updateCSIPhase
  <2>2. UNCHANGED <<csiSecret, ns, mem>> /\ pc' \in {"csiDeploy", "csiError"}
    BY <2>1 DEF UpdateStatus, csiOut, Goto
  <2>. QED  BY <2>1, <2>2 DEF SecretInv, SecretThere, NamespaceLost, AtRest
<1>3. CASE reconcileCSIDeployment
  BY <1>3, CsiDeployForm DEF SecretInv, SecretThere, NamespaceLost, AtRest
<1>4. CASE updateCSIConfigmap
  BY <1>4, SecretFrame DEF updateCSIConfigmap, Goto, local
<1>5. CASE updateCSIDaemonSet
  <2>1. Goto("csiCheck") \/ Goto("retry")
    BY <1>5, Zenon DEF updateCSIDaemonSet
  <2>. QED  BY <1>5, <2>1, SecretFrame DEF updateCSIDaemonSet, Goto, local
<1>6. CASE reconcileCSIDeploymentStatus
  <2>1. pc = "csiCheck" /\ UNCHANGED <<csiSecret, ns, mem, loc>>
    BY <1>6 DEF reconcileCSIDeploymentStatus, local, csiOut
  <2>2. pc' \in {"csiError", "csiDeployed"} \/ (pc' = "idle" /\ loc.csi = "Deployed")
    BY <1>6 DEF reconcileCSIDeploymentStatus, Goto
  <2>. QED  BY <2>1, <2>2 DEF SecretInv, SecretThere, NamespaceLost, Deploys, AtRest
<1>7. CASE CsiDeployed
  BY <1>7, SecretAfterDeployed
<1>8. CASE FetchCpiDeploymentYamls \/ FetchCsiDeploymentYamls \/ CsiNamespaceStep
  <2>1. \E step \in {"retry", "csiYamls", "csiNs", "cpiCloudConfig", "csiCloudConfig"} :
           Goto(step)
    BY <1>8, Zenon DEF FetchCpiDeploymentYamls, FetchCsiDeploymentYamls, CsiNamespaceStep
  <2>. QED  BY <2>1, SecretRestart DEF Goto
<1>9. CASE Begin \/ FetchVsphereVersions \/ VerifyCpiCloudConfigs \/ reconcileCPISecret \/ reconcileConfigMap
           \/ reconcileCPIDeployment \/ reconcileCPIDeploymentStatus \/ reconcileNodeLabel
           \/ VerifyCsiCloudConfig \/ CallFails \/ Crash
  BY <1>9, SecretRestart
  DEF Begin, FetchVsphereVersions, VerifyCpiCloudConfigs, AfterVerify, reconcileCPISecret, AfterSecret,
      reconcileConfigMap, reconcileCPIDeployment, reconcileCPIDeploymentStatus,
      reconcileNodeLabel, VerifyCsiCloudConfig, CallFails, ErrorStep, Crash, Goto
<1>10. CASE CpiPhaseSteps \/ updateCSIStatusForError \/ reconcileNodeProviderID
  <2>1. \E step \in {"cpiConfigMap", "cpiDeploy", "cpiNodes", "cpiLabels", "cpiError",
                     "retry"} : Goto(step)
    <3>1. CASE CpiPhaseSteps
      BY <3>1, CpiPhaseForm, Zenon DEF updateCPIPhase, UpdateStatus
    <3>2. CASE updateCSIStatusForError
      BY <3>2, Zenon DEF updateCSIStatusForError, updateCSIPhase, UpdateStatus
    <3>3. CASE reconcileNodeProviderID
      BY <3>3, Zenon DEF reconcileNodeProviderID, updateCPIPhase, UpdateStatus
    <3>. QED  BY <1>10, <3>1, <3>2, <3>3
  <2>. QED  BY <2>1, SecretRestart DEF Goto
<1>11. CASE NamespaceController
  <2>1. mem.csiNs \in {"own", "kube"}
    BY DEF TypeOK, Namespaces
  <2>2. SecretThere => SecretThere'
    BY <1>11, <2>1, NamespaceControllerForm DEF SecretThere, NamespaceLost
  <2>3. UNCHANGED <<pc, queued, loc, cacheFresh>>
    BY <1>11, NamespaceControllerForm DEF resource
  <2>. QED  BY <2>2, <2>3 DEF SecretInv, AtRest
<1>12. CASE Resync \/ InformerSync \/ PodsProgress \/ MatrixUpdate \/ ConfUpdate
            \/ CloudConfigStatus \/ LoginChange \/ NodesChange \/ PodsFail \/ CacheSync
            \/ EditSpec
  <2>1. UNCHANGED <<csiSecret, ns, mem, loc, pc>> /\ (queued => queued')
    BY <1>12 DEF Resync, InformerSync, PodsProgress, MatrixUpdate, ConfUpdate,
                 CloudConfigStatus, LoginChange, NodesChange, PodsFail, CacheSync, EditSpec, csiOut,
                 local, TypeOK
  <2>2. cacheFresh' => cacheFresh \/ queued'
    BY <1>12 DEF Resync, InformerSync, PodsProgress, MatrixUpdate, ConfUpdate,
                 CloudConfigStatus, LoginChange, NodesChange, PodsFail, CacheSync, EditSpec, resource
  <2>. QED  BY <2>1, <2>2 DEF SecretInv, SecretThere, NamespaceLost, AtRest
<1>13. CASE UNCHANGED vars
  BY <1>13 DEF vars, csiOut, local, resource, SecretInv, SecretThere, NamespaceLost, AtRest
<1>. QED
  BY <1>1, <1>2, <1>3, <1>4, <1>5, <1>6, <1>7, <1>8, <1>9, <1>10, <1>11, <1>12, <1>13,
     StepCases DEF CalmSteps, OtherSteps, ClusterSteps, CsiPhaseSteps

\* The controller does not come to rest with a CSI driver that lacks its
\* secret, wherever Reconcile was interrupted and whenever the namespace went
\* away and came back, unless a failed removal has left a driver in the
\* namespace that is no longer the driver's.
THEOREM CsiDriverHasCredentialsAlways ==
    Spec => []((\A n \in Namespaces \ {mem.csiNs} : csiObjs[DsKey(n)] = None)
                  => CsiDriverHasCredentials)
<1>. DEFINE NoneLeft == \A n \in Namespaces \ {mem.csiNs} : csiObjs[DsKey(n)] = None
            IInv == NamespaceEmpty /\ CsiCopiesInv /\ SecretInv
<1>1. Init => IInv
  BY DEF Init, NamespaceEmpty, InOwnNs, CsiCopiesInv, CsiWorking, SecretInv, AtRest,
         Namespaces
<1>2. TypeOK /\ IInv /\ [Next]_vars => IInv'
  BY NamespaceEmptyStep, CsiCopiesStep, SecretStep
<1>3. TypeOK /\ IInv => (NoneLeft => CsiDriverHasCredentials)
  <2>. SUFFICES ASSUME TypeOK, IInv, NoneLeft, Quiescent, NEW n \in Namespaces,
                       csiObjs[DsKey(n)] # None
                PROVE  csiSecret[n] # None \/ (n = "own" /\ ns = "terminating")
    BY DEF CsiDriverHasCredentials
  <2>1. n = mem.csiNs
    OBVIOUS
  <2>2. SecretThere
    BY DEF SecretInv, AtRest, Quiescent
  <2>3. n = "own" => ns # "absent"
    BY DEF NamespaceEmpty, InOwnNs, DsKey, CsiKeys
  <2>. QED  BY <2>1, <2>2, <2>3 DEF SecretThere, NamespaceLost, TypeOK
<1>. QED  BY <1>1, <1>2, <1>3, TypeCorrect, PTL DEF Spec
=============================================================================
