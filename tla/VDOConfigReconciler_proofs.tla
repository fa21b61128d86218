--------------------- MODULE VDOConfigReconciler_proofs ---------------------
(***************************************************************************)
(* Proofs about the VDOConfig controller, for all versions, manifests,     *)
(* disturbances and bounds.                                                *)
(***************************************************************************)
EXTENDS VDOConfigReconciler, TLAPS

USE SwitchesAssumption

-----------------------------------------------------------------------------
(* Facts shared by the proofs *)

\* A continuation of Reconcile: a step, or "retry" for a returned error.
Continuations == Steps \cup {"retry"}

\* Goto keeps the types of the program counter and the queue.
LEMMA GotoType ==
    ASSUME TypeOK, NEW step \in Continuations, Goto(step)
    PROVE  pc' \in Steps /\ queued' \in BOOLEAN
BY DEF TypeOK, Goto, Continuations, Steps

\* The count of disturbances stays within its bound.
LEMMA UsedType ==
    ASSUME TypeOK, Calm \/ \E kind \in Kinds : Disturb(kind)
    PROVE  used' \in 0 .. MaxDisturb
BY DEF TypeOK, Calm, Disturb

\* A status update keeps the types, whatever its outcome.
LEMMA UpdateStatusType ==
    ASSUME TypeOK, NEW new \in Status, NEW ok \in Continuations, NEW err \in Continuations,
           UpdateStatus(new, ok, err)
    PROVE  TypeOK'
<1>1. pc' \in Steps /\ queued' \in BOOLEAN
  BY GotoType DEF UpdateStatus
<1>2. used' \in 0 .. MaxDisturb
  <2>1. Calm \/ Disturb("fault")
    BY DEF UpdateStatus
  <2>. QED  BY <2>1, UsedType DEF Kinds
<1>3. status' \in Status /\ loc' \in Status /\ cacheFresh' \in BOOLEAN
  BY DEF UpdateStatus, TypeOK
<1>4. UNCHANGED <<cache, locFresh, items, mem, inputs, cpiOut, csiOut, cluster>>
  BY DEF UpdateStatus
<1>. QED
  BY <1>1, <1>2, <1>3, <1>4 DEF TypeOK, inputs, cpiOut, csiOut, cluster, informer

\* The same for the phase of one driver.
LEMMA PhaseType ==
    ASSUME TypeOK, NEW phase \in Phases, NEW ok \in Continuations, NEW err \in Continuations,
           updateCPIPhase(phase, ok, err) \/ updateCSIPhase(phase, ok, err)
    PROVE  TypeOK'
<1>1. [loc EXCEPT !.cpi = phase] \in Status /\ [loc EXCEPT !.csi = phase] \in Status
  BY DEF TypeOK, Status
<1>. QED  BY <1>1, UpdateStatusType DEF updateCPIPhase, updateCSIPhase

\* What the controller remembers of a driver after the version selection.
LEMMA SelectedType ==
    ASSUME NEW V, None \in V, NEW cur \in V, NEW yamls \in V, NEW sel \in V,
           NEW teardown \in BOOLEAN
    PROVE  LET next == Selected([cur |-> cur, yamls |-> yamls], sel, teardown)
           IN  next.cur \in V /\ next.yamls \in V
BY DEF Selected

\* What a step does to the DaemonSets keeps the types of their pods and copies.
LEMMA DaemonSetsType ==
    ASSUME TypeOK, DaemonSetsChange
    PROVE  /\ pods' \in [DaemonSets -> {"unobserved", "unready", "ready"}]
           /\ dsSeen' \in [DaemonSets -> DsStates]
           /\ dsBehind' \subseteq DaemonSets
<1>1. pods' \in [DaemonSets -> {"unobserved", "unready", "ready"}]
  <2>. DEFINE gone(d) == Exists(d)'
  <2>1. pods' = [d \in DaemonSets |-> IF gone(d) THEN pods[d] ELSE "unobserved"]
    BY DEF DaemonSetsChange
  <2>. HIDE DEF gone
  <2>. QED  BY <2>1 DEF TypeOK
<1>2. dsSeen' \in [DaemonSets -> DsStates]
  BY DEF DaemonSetsChange, TypeOK
<1>3. dsBehind' \subseteq DaemonSets
  <2>. DEFINE changed == {d \in DaemonSets : DsState(d)' # DsState(d)}
  <2>1. dsBehind' = dsBehind \cup changed \/ dsBehind' = dsBehind
    BY DEF DaemonSetsChange
  <2>2. changed \subseteq DaemonSets
    OBVIOUS
  <2>. HIDE DEF changed
  <2>. QED  BY <2>1, <2>2 DEF TypeOK
<1>. QED  BY <1>1, <1>2, <1>3

\* The copy of a DaemonSet that a relist yields.
LEMMA DsStateType == \A d \in DaemonSets : DsState(d) \in DsStates
BY DEF DsState, DsStates

\* The steps that were shown what was not there.
LEMMA NoteType ==
    ASSUME TypeOK, pc \in Reads, NEW wrong \in BOOLEAN, Note(wrong)
    PROVE  misled' \subseteq Reads
BY DEF TypeOK, Note

-----------------------------------------------------------------------------
(* Types *)

\* The fields of VDOConfigReconciler, and CsiNamespace.
Mem == [cpiCur : CpiVersions \cup {None}, cpiYamls : CpiVersions \cup {None},
        csiCur : CsiVersions \cup {None}, csiYamls : CsiVersions \cup {None},
        csiNs : Namespaces]

\* Every step keeps the types.
LEMMA TypeStep == TypeOK /\ [Next]_vars => TypeOK'
<1>. SUFFICES ASSUME TypeOK, [Next]_vars PROVE TypeOK'
  OBVIOUS
<1>. USE DEF Continuations, informer
<1>1. CASE Begin
  <2>1. pc' \in Steps /\ queued' \in BOOLEAN /\ loc' \in Status /\ locFresh' \in BOOLEAN
    BY <1>1 DEF Begin, TypeOK, Steps
  <2>. QED
    BY <1>1, <2>1 DEF Begin, Calm, TypeOK, resource, inputs, cpiOut, csiOut, cluster
<1>26. CASE FetchVsphereVersions
  <2>1. pc' \in Steps /\ queued' \in BOOLEAN
    BY <1>26, GotoType DEF FetchVsphereVersions, Steps
  <2>. QED
    BY <1>26, <2>1 DEF FetchVsphereVersions, Calm, TypeOK, resource, local, inputs, cpiOut,
                       csiOut, cluster
<1>2. CASE FetchCpiDeploymentYamls
  <2>1. PICK step \in {"retry", "csiYamls"} : Goto(step)
    BY <1>2, Zenon DEF FetchCpiDeploymentYamls
  <2>2. pc' \in Steps /\ queued' \in BOOLEAN
    BY <2>1, GotoType DEF Steps
  <2>3. used' \in 0 .. MaxDisturb
    <3>1. Calm \/ Disturb("fault")
      BY <1>2 DEF FetchCpiDeploymentYamls
    <3>. QED  BY <3>1, UsedType DEF Kinds
  <2>4. cpiObjs' \in [CpiKeys -> CpiVersions \cup {None}]
    BY <1>2 DEF FetchCpiDeploymentYamls, TypeOK
  <2>5. mem' \in Mem
    <3>1. PICK cur \in CpiVersions \cup {None}, yamls \in CpiVersions \cup {None} :
             mem' = [mem EXCEPT !.cpiCur = cur, !.cpiYamls = yamls]
      <4>1. /\ matrix.cpi \in CpiVersions \cup {None}
            /\ mem.cpiCur \in CpiVersions \cup {None}
            /\ mem.cpiYamls \in CpiVersions \cup {None}
        BY DEF TypeOK, Matrices
      <4>. DEFINE next == Selected([cur |-> mem.cpiCur, yamls |-> mem.cpiYamls], matrix.cpi,
                                   Replaces(mem.cpiCur, matrix.cpi))
      <4>2. next.cur \in CpiVersions \cup {None} /\ next.yamls \in CpiVersions \cup {None}
        BY <4>1, SelectedType DEF Replaces
      <4>3. mem' = [mem EXCEPT !.cpiCur = next.cur, !.cpiYamls = next.yamls]
        BY <1>2 DEF FetchCpiDeploymentYamls
      <4>. QED  BY <4>2, <4>3
    <3>2. mem \in Mem
      BY DEF TypeOK, Mem
    <3>. QED  BY <3>1, <3>2 DEF Mem
  <2>9. /\ pods' \in [DaemonSets -> {"unobserved", "unready", "ready"}]
        /\ dsSeen' \in [DaemonSets -> DsStates] /\ dsBehind' \subseteq DaemonSets
        /\ misled' = misled
    BY <1>2, DaemonSetsType DEF FetchCpiDeploymentYamls
  <2>. QED
    BY <1>2, <2>2, <2>3, <2>4, <2>5, <2>9
    DEF FetchCpiDeploymentYamls, Mem, TypeOK, resource, local, inputs, csiOut
<1>3. CASE FetchCsiDeploymentYamls
  <2>1. PICK step \in {"retry", "csiNs"} : Goto(step)
    BY <1>3, Zenon DEF FetchCsiDeploymentYamls
  <2>2. pc' \in Steps /\ queued' \in BOOLEAN
    BY <2>1, GotoType DEF Steps
  <2>3. used' \in 0 .. MaxDisturb
    <3>1. Calm \/ Disturb("fault")
      BY <1>3 DEF FetchCsiDeploymentYamls
    <3>. QED  BY <3>1, UsedType DEF Kinds
  <2>4. csiObjs' \in [CsiKeys -> CsiVersions \cup {None}]
    BY <1>3 DEF FetchCsiDeploymentYamls, TypeOK
  <2>5. mem' \in Mem
    <3>1. PICK cur \in CsiVersions \cup {None}, yamls \in CsiVersions \cup {None} :
             mem' = [mem EXCEPT !.csiCur = cur, !.csiYamls = yamls]
      <4>1. /\ matrix.csi \in CsiVersions \cup {None}
            /\ mem.csiCur \in CsiVersions \cup {None}
            /\ mem.csiYamls \in CsiVersions \cup {None}
        BY DEF TypeOK, Matrices
      <4>. DEFINE next == Selected([cur |-> mem.csiCur, yamls |-> mem.csiYamls], matrix.csi,
                                   Replaces(mem.csiCur, matrix.csi))
      <4>2. next.cur \in CsiVersions \cup {None} /\ next.yamls \in CsiVersions \cup {None}
        BY <4>1, SelectedType DEF Replaces
      <4>3. mem' = [mem EXCEPT !.csiCur = next.cur, !.csiYamls = next.yamls]
        BY <1>3 DEF FetchCsiDeploymentYamls
      <4>. QED  BY <4>2, <4>3
    <3>2. mem \in Mem
      BY DEF TypeOK, Mem
    <3>. QED  BY <3>1, <3>2 DEF Mem
  <2>6. fssOn' \in BOOLEAN /\ custom' \subseteq Namespaces
        /\ ns' \in {"absent", "active", "terminating"}
    BY <1>3 DEF FetchCsiDeploymentYamls, TypeOK
  <2>9. /\ pods' \in [DaemonSets -> {"unobserved", "unready", "ready"}]
        /\ dsSeen' \in [DaemonSets -> DsStates] /\ dsBehind' \subseteq DaemonSets
        /\ misled' = misled
    BY <1>3, DaemonSetsType DEF FetchCsiDeploymentYamls
  <2>. QED
    BY <1>3, <2>2, <2>3, <2>4, <2>5, <2>6, <2>9
    DEF FetchCsiDeploymentYamls, Mem, TypeOK, resource, local, inputs, cpiOut
<1>4. CASE CsiNamespaceStep
  <2>0. PICK step \in {"retry", "cpiCloudConfig", "csiCloudConfig"} : Goto(step)
    BY <1>4, Zenon DEF CsiNamespaceStep
  <2>1. pc' \in Steps /\ queued' \in BOOLEAN
    BY <2>0, GotoType DEF Steps
  <2>2. mem' \in Mem
    <3>1. mem \in Mem
      BY DEF TypeOK, Mem
    <3>. QED  BY <1>4, <3>1 DEF CsiNamespaceStep, Mem, Namespaces
  <2>3. ns' \in {"absent", "active", "terminating"}
    BY <1>4 DEF CsiNamespaceStep, createCSINamespace, deleteCSINamespace, TypeOK
  <2>4. used' \in 0 .. MaxDisturb
    <3>1. Calm \/ Disturb("fault")
      BY <1>4 DEF CsiNamespaceStep
    <3>. QED  BY <3>1, UsedType DEF Kinds
  <2>. QED
    BY <1>4, <2>1, <2>2, <2>3, <2>4
    DEF CsiNamespaceStep, Mem, TypeOK, resource, local, inputs, cpiOut, cluster
<1>5. CASE VerifyCpiCloudConfigs
  <2>1. pc' \in Steps /\ queued' \in BOOLEAN
    BY <1>5, GotoType DEF VerifyCpiCloudConfigs, AfterVerify, Steps
  <2>. QED
    BY <1>5, <2>1 DEF VerifyCpiCloudConfigs, Calm, TypeOK, resource, inputs, cpiOut, csiOut,
                      cluster
<1>6. CASE reconcileCPISecret
  <2>1. pc' \in Steps /\ queued' \in BOOLEAN
    BY <1>6, GotoType DEF reconcileCPISecret, AfterSecret, Steps
  <2>. QED
    BY <1>6, <2>1 DEF reconcileCPISecret, SecretData, Calm, TypeOK, resource, local, inputs,
                      csiOut, cluster
<1>7. CASE reconcileConfigMap
  <2>1. pc' \in Steps /\ queued' \in BOOLEAN
    BY <1>7, GotoType DEF reconcileConfigMap, Steps
  <2>. QED
    BY <1>7, <2>1 DEF reconcileConfigMap, Calm, TypeOK, resource, local, inputs, csiOut,
                      cluster
<1>8. CASE reconcileCPIDeployment
  <2>1. PICK step \in {"cpiCheck", "cpiError"} : Goto(step)
    BY <1>8, Zenon DEF reconcileCPIDeployment
  <2>2. pc' \in Steps /\ queued' \in BOOLEAN
    BY <2>1, GotoType DEF Steps
  <2>3. used' \in 0 .. MaxDisturb
    <3>1. Calm \/ Disturb("fault")
      BY <1>8 DEF reconcileCPIDeployment
    <3>. QED  BY <3>1, UsedType DEF Kinds
  <2>4. cpiObjs' \in [CpiKeys -> CpiVersions \cup {None}]
    BY <1>8 DEF reconcileCPIDeployment, TypeOK
  <2>9. /\ pods' \in [DaemonSets -> {"unobserved", "unready", "ready"}]
        /\ dsSeen' \in [DaemonSets -> DsStates] /\ dsBehind' \subseteq DaemonSets
        /\ misled' = misled
    BY <1>8, DaemonSetsType DEF reconcileCPIDeployment
  <2>. QED
    BY <1>8, <2>2, <2>3, <2>4, <2>9
    DEF reconcileCPIDeployment, TypeOK, resource, local, inputs, csiOut
<1>9. CASE reconcileCPIDeploymentStatus
  <2>1. pc' \in Steps /\ queued' \in BOOLEAN
    BY <1>9, GotoType DEF reconcileCPIDeploymentStatus, Steps
  <2>2. misled' \subseteq Reads
    BY <1>9, NoteType DEF reconcileCPIDeploymentStatus, Reads, Visible, Exists
  <2>. QED
    BY <1>9, <2>1, <2>2 DEF reconcileCPIDeploymentStatus, Calm, TypeOK, resource, local, inputs,
                            cpiOut, csiOut
<1>10. CASE reconcileNodeProviderID
  <2>1. CASE updateCPIPhase(NodePhase, "cpiLabels", "retry")
    BY <2>1, PhaseType DEF NodePhase, Phases, Steps
  <2>2. CASE ~(nodes \in {"pending", "ready"} /\ loc.cpi # NodePhase)
    <3>1. pc' \in Steps /\ queued' \in BOOLEAN
      BY <1>10, <2>2, GotoType DEF reconcileNodeProviderID, Steps
    <3>. QED
      BY <1>10, <2>2, <3>1 DEF reconcileNodeProviderID, Calm, TypeOK, resource, local, inputs,
                               cpiOut, csiOut, cluster
  <2>. QED  BY <1>10, <2>1, <2>2 DEF reconcileNodeProviderID
<1>11. CASE reconcileNodeLabel
  <2>1. pc' \in Steps /\ queued' \in BOOLEAN
    BY <1>11, GotoType DEF reconcileNodeLabel, Steps
  <2>. QED
    BY <1>11, <2>1 DEF reconcileNodeLabel, Calm, TypeOK, resource, local, inputs, cpiOut,
                       csiOut, cluster
<1>12. CASE VerifyCsiCloudConfig
  <2>1. pc' \in Steps /\ queued' \in BOOLEAN
    BY <1>12, GotoType DEF VerifyCsiCloudConfig, Steps
  <2>. QED
    BY <1>12, <2>1 DEF VerifyCsiCloudConfig, Calm, TypeOK, resource, inputs, cpiOut, csiOut,
                       cluster
<1>13. CASE reconcileCSISecret
  <2>1. PICK step \in {"csiError", "csiSecretPhase", "csiDeploy"} : Goto(step)
    BY <1>13, Zenon DEF reconcileCSISecret
  <2>2. pc' \in Steps /\ queued' \in BOOLEAN
    BY <2>1, GotoType DEF Steps
  <2>3. csiSecret' \in [Namespaces -> Confs \cup {None}]
    <3>1. csiSecret' = csiSecret \/ \E n : csiSecret' = [csiSecret EXCEPT ![n] = items]
      BY <1>13, Zenon DEF reconcileCSISecret
    <3>. QED  BY <3>1 DEF TypeOK
  <2>. QED
    BY <1>13, <2>2, <2>3 DEF reconcileCSISecret, Calm, TypeOK, resource, local, inputs,
                             cpiOut, cluster
<1>14. CASE reconcileCSIDeployment
  <2>1. PICK step \in {"csiFss", "csiError"} : Goto(step)
    BY <1>14, Zenon DEF reconcileCSIDeployment
  <2>2. pc' \in Steps /\ queued' \in BOOLEAN
    BY <2>1, GotoType DEF Steps
  <2>3. used' \in 0 .. MaxDisturb
    <3>1. Calm \/ Disturb("fault")
      BY <1>14 DEF reconcileCSIDeployment
    <3>. QED  BY <3>1, UsedType DEF Kinds
  <2>4. csiObjs' \in [CsiKeys -> CsiVersions \cup {None}]
    BY <1>14 DEF reconcileCSIDeployment, TypeOK
  <2>6. ns' \in {"absent", "active", "terminating"}
    BY <1>14 DEF reconcileCSIDeployment, TypeOK
  <2>9. /\ pods' \in [DaemonSets -> {"unobserved", "unready", "ready"}]
        /\ dsSeen' \in [DaemonSets -> DsStates] /\ dsBehind' \subseteq DaemonSets
        /\ misled' = misled
    BY <1>14, DaemonSetsType DEF reconcileCSIDeployment
  <2>. QED
    BY <1>14, <2>2, <2>3, <2>4, <2>6, <2>9
    DEF reconcileCSIDeployment, TypeOK, resource, local, inputs, cpiOut
<1>15. CASE updateCSIConfigmap
  <2>1. pc' \in Steps /\ queued' \in BOOLEAN
    BY <1>15, GotoType DEF updateCSIConfigmap, Steps
  <2>2. fssOn' \in BOOLEAN
    BY <1>15, Zenon DEF updateCSIConfigmap, TypeOK
  <2>. QED
    BY <1>15, <2>1, <2>2 DEF updateCSIConfigmap, Calm, TypeOK, resource, local, inputs, cpiOut,
                       cluster
<1>16. CASE updateCSIDaemonSet
  <2>1. PICK step \in {"csiCheck", "retry"} : Goto(step)
    BY <1>16, Zenon DEF updateCSIDaemonSet
  <2>2. pc' \in Steps /\ queued' \in BOOLEAN
    BY <2>1, GotoType DEF Steps
  <2>3. custom' \subseteq Namespaces
    <3>1. custom' = custom \/ custom' = custom \cup {mem.csiNs}
      BY <1>16, Zenon DEF updateCSIDaemonSet
    <3>. QED  BY <3>1 DEF TypeOK
  <2>4. misled' \subseteq Reads
    <3>1. misled' = misled \/ \E wrong \in BOOLEAN : Note(wrong)
      BY <1>16 DEF updateCSIDaemonSet
    <3>. QED  BY <1>16, <3>1, NoteType DEF updateCSIDaemonSet, Reads, TypeOK
  <2>9. /\ pods' \in [DaemonSets -> {"unobserved", "unready", "ready"}]
        /\ dsSeen' \in [DaemonSets -> DsStates] /\ dsBehind' \subseteq DaemonSets
    BY <1>16, DaemonSetsType DEF updateCSIDaemonSet
  <2>. QED
    BY <1>16, <2>2, <2>3, <2>4, <2>9 DEF updateCSIDaemonSet, Calm, TypeOK, resource, local,
                                         inputs, cpiOut
<1>17. CASE reconcileCSIDeploymentStatus
  <2>1. pc' \in Steps /\ queued' \in BOOLEAN
    BY <1>17, GotoType DEF reconcileCSIDeploymentStatus, Steps
  <2>2. misled' \subseteq Reads
    <3>1. PICK wrong \in BOOLEAN : Note(wrong)
      BY <1>17 DEF reconcileCSIDeploymentStatus, Visible, Exists
    <3>. QED  BY <1>17, <3>1, NoteType DEF reconcileCSIDeploymentStatus, Reads
  <2>. QED
    BY <1>17, <2>1, <2>2 DEF reconcileCSIDeploymentStatus, Calm, TypeOK, resource, local,
                             inputs, cpiOut, csiOut
<1>18. CASE reconcileCPISecretPhase \/ reconcileConfigMapPhase \/ CpiDeployed
            \/ reconcileCSISecretPhase \/ CsiDeployed
            \/ updateCPIStatusForError \/ updateCSIStatusForError
  BY <1>18, PhaseType
  DEF reconcileCPISecretPhase, reconcileConfigMapPhase, CpiDeployed,
      reconcileCSISecretPhase, CsiDeployed, updateCPIStatusForError,
      updateCSIStatusForError, Phases, Steps
<1>19. CASE CallFails
  <2>1. PICK step \in {"retry", "cpiError", "csiError"} : Goto(step)
    BY <1>19 DEF CallFails, ErrorStep
  <2>2. pc' \in Steps /\ queued' \in BOOLEAN
    BY <2>1, GotoType DEF Steps
  <2>3. used' \in 0 .. MaxDisturb
    BY <1>19, UsedType DEF CallFails, Kinds
  <2>. QED
    BY <1>19, <2>2, <2>3 DEF CallFails, TypeOK, resource, local, inputs, cpiOut, csiOut,
                             cluster
<1>20. CASE CacheSync \/ Resync
  BY <1>20 DEF CacheSync, Resync, Calm, TypeOK, resource, local, inputs, cpiOut, csiOut,
               cluster
<1>27. CASE InformerSync
  <2>1. dsSeen' \in [DaemonSets -> DsStates] /\ dsBehind' \subseteq DaemonSets
    BY <1>27, DsStateType DEF InformerSync
  <2>. QED
    BY <1>27, <2>1 DEF InformerSync, Calm, TypeOK, resource, local, inputs, cpiOut, csiOut
<1>21. CASE Crash
  <2>1. used' \in 0 .. MaxDisturb
    BY <1>21, UsedType DEF Crash, Kinds
  <2>2. mem' \in Mem
    BY <1>21 DEF Crash, InitialMem, Namespaces, Mem
  <2>3. dsSeen' \in [DaemonSets -> DsStates] /\ dsBehind' \subseteq DaemonSets
    BY <1>21, DsStateType DEF Crash, TypeOK
  <2>. QED
    BY <1>21, <2>1, <2>2, <2>3 DEF Crash, Mem, TypeOK, Steps, local, inputs, cpiOut, csiOut
<1>22. CASE MatrixUpdate \/ ConfUpdate \/ CloudConfigStatus \/ LoginChange \/ EditSpec
            \/ NodesChange \/ PodsFail
  <2>1. used' \in 0 .. MaxDisturb
    BY <1>22, UsedType DEF MatrixUpdate, ConfUpdate, CloudConfigStatus, LoginChange, EditSpec,
                           NodesChange, PodsFail, Kinds
  <2>2. CASE MatrixUpdate
    BY <2>1, <2>2 DEF MatrixUpdate, TypeOK, resource, local, cpiOut, csiOut, cluster
  <2>3. CASE ConfUpdate
    BY <2>1, <2>3 DEF ConfUpdate, TypeOK, resource, local, cpiOut, csiOut, cluster
  <2>4. CASE CloudConfigStatus
    BY <2>1, <2>4 DEF CloudConfigStatus, TypeOK, resource, local, cpiOut, csiOut, cluster
  <2>8. CASE LoginChange
    BY <2>1, <2>8 DEF LoginChange, TypeOK, resource, local, cpiOut, csiOut, cluster
  <2>5. CASE EditSpec
    <3>1. cacheFresh' \in BOOLEAN /\ locFresh' \in BOOLEAN
      BY <2>5 DEF EditSpec
    <3>. QED
      BY <2>1, <2>5, <3>1 DEF EditSpec, TypeOK, inputs, cpiOut, csiOut, cluster
  <2>6. CASE NodesChange
    <3>1. nodes' \in {"none", "pending", "ready", "unmanaged"} /\ queued' \in BOOLEAN
      BY <2>6 DEF NodesChange, TypeOK
    <3>. QED
      BY <2>1, <2>6, <3>1 DEF NodesChange, TypeOK, resource, local, cpiOut, csiOut, cluster
  <2>7. CASE PodsFail
    <3>1. pods' \in [DaemonSets -> {"unobserved", "unready", "ready"}]
      BY <2>7 DEF PodsFail, TypeOK
    <3>. QED
      BY <2>1, <2>7, <3>1 DEF PodsFail, TypeOK, resource, local, inputs, cpiOut, csiOut
  <2>. QED  BY <1>22, <2>2, <2>3, <2>4, <2>5, <2>6, <2>7, <2>8
<1>23. CASE PodsProgress
  <2>1. pods' \in [DaemonSets -> {"unobserved", "unready", "ready"}]
    <3>1. PICK d \in DaemonSets, s \in {"unready", "ready"} : pods' = [pods EXCEPT ![d] = s]
      BY <1>23, Zenon DEF PodsProgress
    <3>. QED  BY <3>1 DEF TypeOK
  <2>. QED
    BY <1>23, <2>1 DEF PodsProgress, Calm, TypeOK, resource, local, inputs, cpiOut, csiOut
<1>24. CASE NamespaceController
  <2>1. csiSecret' \in [Namespaces -> Confs \cup {None}]
    BY <1>24 DEF NamespaceController, TypeOK
  <2>2. csiObjs' \in [CsiKeys -> CsiVersions \cup {None}]
    BY <1>24 DEF NamespaceController, TypeOK
  <2>3. fssOn' \in BOOLEAN /\ custom' \subseteq Namespaces
        /\ ns' \in {"absent", "active", "terminating"}
    BY <1>24 DEF NamespaceController, TypeOK
  <2>9. /\ pods' \in [DaemonSets -> {"unobserved", "unready", "ready"}]
        /\ dsSeen' \in [DaemonSets -> DsStates] /\ dsBehind' \subseteq DaemonSets
        /\ misled' = misled
    BY <1>24, DaemonSetsType DEF NamespaceController
  <2>. QED
    BY <1>24, <2>1, <2>2, <2>3, <2>9
    DEF NamespaceController, Calm, TypeOK, resource, local, inputs, cpiOut
<1>25. CASE UNCHANGED vars
  BY <1>25 DEF vars, TypeOK, resource, local, inputs, cpiOut, csiOut, cluster
<1>. QED
  BY <1>1, <1>2, <1>3, <1>4, <1>5, <1>6, <1>7, <1>8, <1>9, <1>10, <1>11, <1>12, <1>13,
     <1>14, <1>15, <1>16, <1>17, <1>18, <1>19, <1>20, <1>21, <1>22, <1>23, <1>24, <1>25,
     <1>26, <1>27
  DEF Next, Reconcile, Environment

\* The initial state has the types.
LEMMA TypeInit == Init => TypeOK
<1>. SUFFICES ASSUME Init PROVE TypeOK
  OBVIOUS
<1>1. status \in Status /\ cache \in Status /\ loc \in Status
  BY DEF Init, Status, Phases
<1>2. mem \in Mem
  BY DEF Init, InitialMem, Mem, Namespaces
<1>3. verified \in [cpi : BOOLEAN, csi : BOOLEAN]
  <2>1. verified = [cpi |-> TRUE, csi |-> TRUE] \/ verified = [cpi |-> FALSE, csi |-> FALSE]
    BY DEF Init
  <2>2. \A b \in BOOLEAN : [cpi |-> b, csi |-> b] \in [cpi : BOOLEAN, csi : BOOLEAN]
    OBVIOUS
  <2>. QED  BY <2>1, <2>2, Zenon
<1>4. nodes \in {"none", "pending", "ready", "unmanaged"}
  BY DEF Init
<1>5. used \in 0 .. MaxDisturb
  <2>1. used = 0
    BY DEF Init
  <2>. QED  BY <2>1
<1>6. matrix \in Matrices /\ conf \in Confs /\ items \in Confs
  BY VersionsAssumption DEF Init
<1>7. login \in BOOLEAN
  BY <1>3 DEF Init
<1>8. dsSeen \in [DaemonSets -> DsStates] /\ dsBehind \subseteq DaemonSets /\ misled \subseteq Reads
  BY DEF Init, DsStates
<1>. QED  BY <1>1, <1>2, <1>3, <1>4, <1>5, <1>6, <1>7, <1>8 DEF Init, Mem, TypeOK, Steps

\* The phases, the queue, the program counter, the controller's memory and the
\* objects of the cluster always have values of their types.
THEOREM TypeCorrect == Spec => []TypeOK
BY TypeInit, TypeStep, PTL DEF Spec

-----------------------------------------------------------------------------
(* Credentials of the CPI driver *)

\* What a status update leaves alone, and where Reconcile goes after it.
LEMMA UpdateStatusFrame ==
    ASSUME NEW new, NEW ok, NEW err, UpdateStatus(new, ok, err)
    PROVE  /\ cpiSecret' = cpiSecret /\ cpiConfigMap' = cpiConfigMap /\ cpiObjs' = cpiObjs
           /\ loc' = new /\ (status' = status \/ status' = new) /\ cache' = cache
           /\ Goto(ok) \/ Goto(err)
           /\ misled' = misled
BY DEF UpdateStatus, cpiOut, cluster

\* Between the secret and the end of the CPI deployment the secret is there,
\* and between the configmap and the deployment so is the configmap.  This is
\* what makes CpiDriverHasCredentials inductive: applying the manifests does
\* not look at either.
CredentialsBeforeDeploy ==
    /\ pc \in {"cpiSecretPhase", "cpiConfigMap", "cpiConfigMapPhase", "cpiDeploy"} =>
          cpiSecret # None
    /\ pc \in {"cpiConfigMapPhase", "cpiDeploy"} => cpiConfigMap # None

CredentialsInv == CredentialsBeforeDeploy /\ CpiDriverHasCredentials

\* The steps that leave the CPI objects alone and do not lead into the steps
\* between the secret and the deployment.
LEMMA CredentialsFrame ==
    ASSUME CredentialsInv,
           cpiSecret' = cpiSecret, cpiConfigMap' = cpiConfigMap, cpiObjs' = cpiObjs,
           pc' = pc \/ pc' \notin {"cpiSecretPhase", "cpiConfigMap", "cpiConfigMapPhase",
                                  "cpiDeploy"}
    PROVE  CredentialsInv'
BY DEF CredentialsInv, CredentialsBeforeDeploy, CpiDriverHasCredentials

\* Every step of the controller and of the cluster keeps the credentials.
LEMMA CredentialsStep == TypeOK /\ CredentialsInv /\ [Next]_vars => CredentialsInv'
<1>. SUFFICES ASSUME TypeOK, CredentialsInv, [Next]_vars PROVE CredentialsInv'
  OBVIOUS
<1>0. items \in Confs /\ items # None
  BY VersionsAssumption DEF TypeOK
<1>1. CASE reconcileCPISecret
  <2>1. cpiSecret' # None /\ cpiConfigMap' = cpiConfigMap /\ cpiObjs' = cpiObjs
    BY <1>0, <1>1 DEF reconcileCPISecret, SecretData
  <2>2. pc' \in {"cpiSecretPhase", "cpiConfigMap"}
    BY <1>1 DEF reconcileCPISecret, AfterSecret, Goto
  <2>. QED
    BY <2>1, <2>2 DEF CredentialsInv, CredentialsBeforeDeploy, CpiDriverHasCredentials
<1>2. CASE reconcileConfigMap
  <2>1. cpiConfigMap' # None /\ cpiSecret' = cpiSecret /\ cpiObjs' = cpiObjs
    BY <1>0, <1>2 DEF reconcileConfigMap
  <2>2. pc = "cpiConfigMap"
    BY <1>2 DEF reconcileConfigMap
  <2>. QED
    BY <2>1, <2>2 DEF CredentialsInv, CredentialsBeforeDeploy, CpiDriverHasCredentials
<1>3. CASE reconcileCPISecretPhase \/ reconcileConfigMapPhase
  <2>1. \/ pc = "cpiSecretPhase" /\ UpdateStatus([loc EXCEPT !.cpi = "Configuring"],
                                                 "cpiConfigMap", "cpiError")
        \/ pc = "cpiConfigMapPhase" /\ UpdateStatus([loc EXCEPT !.cpi = "Configuring"],
                                                    "cpiDeploy", "cpiError")
    BY <1>3 DEF reconcileCPISecretPhase, reconcileConfigMapPhase, updateCPIPhase
  <2>2. cpiSecret' = cpiSecret /\ cpiConfigMap' = cpiConfigMap /\ cpiObjs' = cpiObjs
    BY <2>1, UpdateStatusFrame
  <2>3. \/ pc = "cpiSecretPhase" /\ pc' \in {"cpiConfigMap", "cpiError"}
        \/ pc = "cpiConfigMapPhase" /\ pc' \in {"cpiDeploy", "cpiError"}
    BY <2>1, UpdateStatusFrame DEF Goto
  <2>. QED
    BY <2>2, <2>3 DEF CredentialsInv, CredentialsBeforeDeploy, CpiDriverHasCredentials
<1>4. CASE reconcileCPIDeployment
  <2>1. pc = "cpiDeploy" /\ cpiSecret' = cpiSecret /\ cpiConfigMap' = cpiConfigMap
    BY <1>4 DEF reconcileCPIDeployment
  <2>2. pc' \in {"cpiCheck", "cpiError"}
    BY <1>4 DEF reconcileCPIDeployment, Goto
  <2>. QED
    BY <2>1, <2>2 DEF CredentialsInv, CredentialsBeforeDeploy, CpiDriverHasCredentials
<1>5. CASE FetchCpiDeploymentYamls
  <2>1. cpiSecret' = cpiSecret /\ cpiConfigMap' = cpiConfigMap
    BY <1>5 DEF FetchCpiDeploymentYamls
  <2>2. pc' \in {"idle", "csiYamls"}
    BY <1>5 DEF FetchCpiDeploymentYamls, Goto
  <2>3. cpiObjs'["ds"] # None => cpiObjs["ds"] # None
    BY <1>5 DEF FetchCpiDeploymentYamls, CpiKeys
  <2>. QED
    BY <2>1, <2>2, <2>3
    DEF CredentialsInv, CredentialsBeforeDeploy, CpiDriverHasCredentials
<1>6. CASE Begin \/ FetchVsphereVersions \/ FetchCsiDeploymentYamls \/ CsiNamespaceStep
           \/ VerifyCpiCloudConfigs \/ reconcileCPIDeploymentStatus \/ reconcileNodeLabel
           \/ VerifyCsiCloudConfig
  <2>1. cpiSecret' = cpiSecret /\ cpiConfigMap' = cpiConfigMap /\ cpiObjs' = cpiObjs
    BY <1>6 DEF Begin, FetchVsphereVersions, FetchCsiDeploymentYamls, CsiNamespaceStep,
                VerifyCpiCloudConfigs, reconcileCPIDeploymentStatus, reconcileNodeLabel, VerifyCsiCloudConfig, cpiOut
  <2>2. pc' \notin {"cpiSecretPhase", "cpiConfigMap", "cpiConfigMapPhase", "cpiDeploy"}
    BY <1>6 DEF Begin, FetchVsphereVersions, FetchCsiDeploymentYamls, CsiNamespaceStep,
                VerifyCpiCloudConfigs, AfterVerify, reconcileCPIDeploymentStatus, reconcileNodeLabel,
                VerifyCsiCloudConfig, Goto
  <2>. QED  BY <2>1, <2>2, CredentialsFrame
<1>7. CASE reconcileCSISecret \/ reconcileCSIDeployment \/ updateCSIConfigmap
           \/ updateCSIDaemonSet \/ reconcileCSIDeploymentStatus \/ CallFails
  <2>1. cpiSecret' = cpiSecret /\ cpiConfigMap' = cpiConfigMap /\ cpiObjs' = cpiObjs
    BY <1>7 DEF reconcileCSISecret, reconcileCSIDeployment, updateCSIConfigmap,
                updateCSIDaemonSet, reconcileCSIDeploymentStatus, CallFails, cpiOut
  <2>2. pc' \notin {"cpiSecretPhase", "cpiConfigMap", "cpiConfigMapPhase", "cpiDeploy"}
    BY <1>7 DEF reconcileCSISecret, reconcileCSIDeployment, updateCSIConfigmap,
                updateCSIDaemonSet, reconcileCSIDeploymentStatus, CallFails, ErrorStep, Goto
  <2>. QED  BY <2>1, <2>2, CredentialsFrame
<1>8. CASE CpiDeployed \/ reconcileCSISecretPhase \/ CsiDeployed
           \/ updateCPIStatusForError \/ updateCSIStatusForError
  <2>1. PICK new : \E ok \in {"cpiNodes", "csiDeploy", "idle", "retry"},
                       err \in {"retry", "csiError"} : UpdateStatus(new, ok, err)
    BY <1>8, Zenon DEF CpiDeployed, reconcileCSISecretPhase, CsiDeployed, updateCPIStatusForError,
                updateCSIStatusForError, updateCPIPhase, updateCSIPhase
  <2>. QED  BY <2>1, UpdateStatusFrame, CredentialsFrame DEF Goto
<1>9. CASE reconcileNodeProviderID
  <2>1. \/ UpdateStatus([loc EXCEPT !.cpi = NodePhase], "cpiLabels", "retry")
        \/ /\ Goto("cpiError") \/ Goto("cpiLabels")
           /\ cpiSecret' = cpiSecret /\ cpiConfigMap' = cpiConfigMap /\ cpiObjs' = cpiObjs
    BY <1>9 DEF reconcileNodeProviderID, updateCPIPhase, cpiOut
  <2>. QED  BY <2>1, UpdateStatusFrame, CredentialsFrame DEF Goto
<1>10. CASE CacheSync \/ Resync \/ InformerSync \/ PodsProgress \/ NamespaceController
            \/ MatrixUpdate \/ ConfUpdate \/ CloudConfigStatus \/ LoginChange \/ EditSpec
            \/ NodesChange \/ PodsFail
  <2>1. pc' = pc /\ cpiSecret' = cpiSecret /\ cpiConfigMap' = cpiConfigMap
        /\ cpiObjs' = cpiObjs
    BY <1>10 DEF CacheSync, Resync, InformerSync, PodsProgress, NamespaceController,
                 MatrixUpdate, ConfUpdate, CloudConfigStatus, LoginChange, EditSpec, NodesChange, PodsFail,
                 cpiOut
  <2>. QED  BY <2>1, CredentialsFrame
<1>11. CASE Crash
  BY <1>11, CredentialsFrame DEF Crash, cpiOut
<1>12. CASE UNCHANGED vars
  BY <1>12, CredentialsFrame DEF vars, cpiOut
<1>. QED
  BY <1>1, <1>2, <1>3, <1>4, <1>5, <1>6, <1>7, <1>8, <1>9, <1>10, <1>11, <1>12
  DEF Next, Reconcile, Environment

\* The DaemonSet of the CPI driver never exists without the secret and the
\* configmap its pods mount, wherever Reconcile is interrupted by a crash, a
\* failed call or a rejected status update.
THEOREM CpiDriverHasCredentialsAlways == Spec => []CpiDriverHasCredentials
<1>1. Init => CredentialsInv
  BY DEF Init, CredentialsInv, CredentialsBeforeDeploy, CpiDriverHasCredentials, CpiKeys
<1>2. CredentialsInv => CpiDriverHasCredentials
  BY DEF CredentialsInv
<1>. QED  BY <1>1, <1>2, CredentialsStep, TypeCorrect, PTL DEF Spec

-----------------------------------------------------------------------------
(* The CPI driver at rest *)

\* The steps of Reconcile after the health check of the CPI driver.
PastCpiCheck == {"cpiDeployed", "cpiNodes", "cpiLabels", "csiCloudConfig", "csiSecret",
                 "csiSecretPhase", "csiDeploy", "csiFss", "csiKubelet", "csiCheck",
                 "csiDeployed"}

\* The steps of Reconcile that only a configured CPI driver takes.
CpiOnly == {"cpiYamls", "cpiCloudConfig", "cpiSecret", "cpiSecretPhase", "cpiConfigMap",
            "cpiConfigMapPhase", "cpiDeploy", "cpiCheck", "cpiDeployed", "cpiNodes",
            "cpiLabels"}

\* The DaemonSet is in place, or the informer showed it to the last check.
CpiShown == cpiObjs["ds"] # None \/ "cpiCheck" \in misled

\* With a CPI configuration, Reconcile gets past the health check only with
\* the DaemonSet in place or shown by the informer, and comes to rest without a
\* request only from there.
RestsPastCheck ==
    pc \in PastCpiCheck \/ (pc = "idle" /\ ~queued) => CpiShown

\* Without one, the CPI phase is only ever written by updateCPIStatusForError,
\* for an error of the CSI cloud config.
NeverSucceeds ==
    /\ pc \notin CpiOnly
    /\ status.cpi \in {"", "Failed"}
    /\ loc.cpi \in {"", "Failed"}
    /\ cache.cpi \in {"", "Failed"}

SettledInv ==
    /\ CpiConfigured => RestsPastCheck
    /\ ~CpiConfigured => NeverSucceeds

\* A step that keeps the driver and comes to rest only past the health check,
\* with a CPI configuration.
LEMMA RestsFrame ==
    ASSUME SettledInv, CpiConfigured,
           \/ (CpiShown => CpiShown') /\ pc' = pc /\ (queued => queued')
           \/ (CpiShown => CpiShown') /\ pc \in PastCpiCheck
           \/ pc' \notin PastCpiCheck /\ (pc' = "idle" => queued')
    PROVE  SettledInv'
BY DEF SettledInv, RestsPastCheck

\* A step that writes no CPI phase, without a CPI configuration.
LEMMA NeverFrame ==
    ASSUME SettledInv, ~CpiConfigured, pc' \notin CpiOnly,
           status'.cpi \in {status.cpi, loc.cpi, "Failed"},
           loc'.cpi \in {loc.cpi, cache.cpi, "Failed"},
           cache'.cpi \in {cache.cpi, status.cpi}
    PROVE  SettledInv'
BY DEF SettledInv, NeverSucceeds

\* What the last check was shown stays on record until the next check.
LEMMA NoteOther ==
    ASSUME NEW wrong, Note(wrong), pc # "cpiCheck", "cpiCheck" \in misled
    PROVE  "cpiCheck" \in misled'
BY DEF Note

\* With a CPI configuration.
LEMMA RestsStep ==
    ASSUME TypeOK, SettledInv, [Next]_vars, CpiConfigured
    PROVE  SettledInv'
<1>1. CASE Begin \/ FetchVsphereVersions \/ FetchCpiDeploymentYamls
           \/ FetchCsiDeploymentYamls \/ CsiNamespaceStep
  BY <1>1, RestsFrame DEF Begin, FetchVsphereVersions, FetchCpiDeploymentYamls, FetchCsiDeploymentYamls,
                          CsiNamespaceStep, Goto, PastCpiCheck
<1>2. CASE VerifyCpiCloudConfigs \/ reconcileCPISecret \/ reconcileConfigMap
           \/ reconcileCPIDeployment
  BY <1>2, RestsFrame DEF VerifyCpiCloudConfigs, AfterVerify, reconcileCPISecret, AfterSecret,
                          reconcileConfigMap, reconcileCPIDeployment, Goto, PastCpiCheck
<1>3. CASE reconcileCPIDeploymentStatus
  <2>1. cpiObjs' = cpiObjs
    BY <1>3 DEF reconcileCPIDeploymentStatus, cpiOut
  <2>0. Note(Visible("cpi") /\ ~Exists("cpi")) /\ pc = "cpiCheck"
    BY <1>3 DEF reconcileCPIDeploymentStatus
  <2>2. CASE DaemonSetHealthy("cpi")
    <3>1. CpiShown'
      BY <2>0, <2>1, <2>2 DEF DaemonSetHealthy, Exists, Note, CpiShown
    <3>. QED  BY <3>1 DEF SettledInv, RestsPastCheck
  <2>3. CASE ~DaemonSetHealthy("cpi")
    <3>1. pc' = "cpiError"
      BY <1>3, <2>3 DEF reconcileCPIDeploymentStatus, Goto
    <3>. QED  BY <3>1, RestsFrame DEF PastCpiCheck
  <2>. QED  BY <2>2, <2>3
<1>4. CASE reconcileCPISecretPhase \/ reconcileConfigMapPhase \/ updateCPIStatusForError
           \/ updateCSIStatusForError
  <2>1. PICK new : \E ok \in {"cpiConfigMap", "cpiDeploy", "retry"},
                       err \in {"cpiError", "retry"} : UpdateStatus(new, ok, err)
    BY <1>4, Zenon DEF reconcileCPISecretPhase, reconcileConfigMapPhase,
                       updateCPIStatusForError, updateCSIStatusForError, updateCPIPhase,
                       updateCSIPhase
  <2>. QED  BY <2>1, UpdateStatusFrame, RestsFrame DEF Goto, PastCpiCheck
<1>5. CASE CpiDeployed \/ reconcileCSISecretPhase \/ CsiDeployed
  <2>1. pc \in PastCpiCheck
    BY <1>5 DEF CpiDeployed, reconcileCSISecretPhase, CsiDeployed, PastCpiCheck
  <2>2. CpiShown => CpiShown'
    BY <1>5, UpdateStatusFrame DEF CpiDeployed, reconcileCSISecretPhase, CsiDeployed,
                                   updateCPIPhase, updateCSIPhase, CpiShown
  <2>. QED  BY <2>1, <2>2, RestsFrame
<1>6. CASE reconcileNodeProviderID \/ reconcileNodeLabel \/ VerifyCsiCloudConfig
           \/ reconcileCSISecret \/ reconcileCSIDeployment \/ updateCSIConfigmap
           \/ updateCSIDaemonSet \/ reconcileCSIDeploymentStatus
  <2>1. pc \in PastCpiCheck
    BY <1>6 DEF reconcileNodeProviderID, reconcileNodeLabel, VerifyCsiCloudConfig,
                reconcileCSISecret, reconcileCSIDeployment, updateCSIConfigmap,
                updateCSIDaemonSet, reconcileCSIDeploymentStatus, PastCpiCheck
  <2>2. cpiObjs' = cpiObjs
    BY <1>6, UpdateStatusFrame
    DEF reconcileNodeProviderID, updateCPIPhase, reconcileNodeLabel, VerifyCsiCloudConfig,
        reconcileCSISecret, reconcileCSIDeployment, updateCSIConfigmap,
        updateCSIDaemonSet, reconcileCSIDeploymentStatus, cpiOut
  <2>3. misled' = misled \/ (pc # "cpiCheck" /\ \E wrong : Note(wrong))
    BY <1>6, UpdateStatusFrame
    DEF reconcileNodeProviderID, updateCPIPhase, reconcileNodeLabel, VerifyCsiCloudConfig,
        reconcileCSISecret, reconcileCSIDeployment, updateCSIConfigmap,
        updateCSIDaemonSet, reconcileCSIDeploymentStatus, cluster
  <2>4. CpiShown => CpiShown'
    BY <2>2, <2>3, NoteOther DEF CpiShown
  <2>. QED  BY <2>1, <2>4, RestsFrame
<1>7. CASE CallFails
  BY <1>7, RestsFrame DEF CallFails, ErrorStep, Goto, PastCpiCheck
<1>8. CASE CacheSync \/ Resync \/ InformerSync \/ PodsProgress \/ NamespaceController
           \/ MatrixUpdate \/ ConfUpdate \/ CloudConfigStatus \/ LoginChange \/ EditSpec
           \/ NodesChange \/ PodsFail
  <2>1. pc' = pc /\ (queued => queued') /\ cpiObjs' = cpiObjs /\ misled' = misled
    BY <1>8 DEF CacheSync, Resync, InformerSync, PodsProgress, NamespaceController,
                MatrixUpdate, ConfUpdate, CloudConfigStatus, LoginChange, EditSpec, NodesChange, PodsFail,
                cpiOut, cluster, TypeOK
  <2>. QED  BY <2>1, RestsFrame DEF CpiShown
<1>9. CASE Crash
  BY <1>9, RestsFrame DEF Crash, PastCpiCheck
<1>10. CASE UNCHANGED vars
  BY <1>10, RestsFrame DEF vars, cpiOut, cluster, CpiShown
<1>. QED
  BY <1>1, <1>2, <1>3, <1>4, <1>5, <1>6, <1>7, <1>8, <1>9, <1>10
  DEF Next, Reconcile, Environment

\* Without a CPI configuration.
LEMMA NeverStep ==
    ASSUME TypeOK, SettledInv, [Next]_vars, ~CpiConfigured
    PROVE  SettledInv'
<1>0. pc \notin CpiOnly
  BY DEF SettledInv, NeverSucceeds
<1>1. CASE Begin
  BY <1>1, NeverFrame DEF Begin, resource, CpiOnly
<1>8. CASE FetchVsphereVersions
  <2>1. pc' \in {"idle", "csiYamls"}
    BY <1>8 DEF FetchVsphereVersions, Goto
  <2>. QED  BY <1>8, <2>1, NeverFrame DEF FetchVsphereVersions, resource, local, CpiOnly
<1>2. CASE \/ FetchCpiDeploymentYamls \/ VerifyCpiCloudConfigs \/ reconcileCPISecret
           \/ reconcileCPISecretPhase \/ reconcileConfigMap \/ reconcileConfigMapPhase
           \/ reconcileCPIDeployment \/ reconcileCPIDeploymentStatus \/ CpiDeployed
           \/ reconcileNodeProviderID \/ reconcileNodeLabel
  BY <1>0, <1>2 DEF FetchCpiDeploymentYamls, VerifyCpiCloudConfigs, reconcileCPISecret,
                    reconcileCPISecretPhase, reconcileConfigMap, reconcileConfigMapPhase,
                    reconcileCPIDeployment, reconcileCPIDeploymentStatus, CpiDeployed,
                    reconcileNodeProviderID, reconcileNodeLabel, CpiOnly
<1>3. CASE updateCPIStatusForError
  <2>1. UpdateStatus([loc EXCEPT !.cpi = "Failed"], "retry", "retry")
    BY <1>3 DEF updateCPIStatusForError, updateCPIPhase
  <2>2. [loc EXCEPT !.cpi = "Failed"].cpi = "Failed"
    BY DEF TypeOK, Status
  <2>3. pc' = "idle"
    BY <2>1, UpdateStatusFrame DEF Goto
  <2>. QED  BY <2>1, <2>2, <2>3, UpdateStatusFrame, NeverFrame DEF CpiOnly
<1>4. CASE reconcileCSISecretPhase \/ CsiDeployed \/ updateCSIStatusForError
  <2>1. PICK phase \in {"Configuring", "Deployed", "Failed"} :
             \E ok \in {"csiDeploy", "idle", "retry"}, err \in {"csiError", "retry"} :
                UpdateStatus([loc EXCEPT !.csi = phase], ok, err)
    BY <1>4, Zenon DEF reconcileCSISecretPhase, CsiDeployed, updateCSIStatusForError,
                       updateCSIPhase
  <2>2. [loc EXCEPT !.csi = phase].cpi = loc.cpi
    BY DEF TypeOK, Status
  <2>3. pc' \in {"csiDeploy", "idle", "csiError"}
    BY <2>1, UpdateStatusFrame DEF Goto
  <2>. QED  BY <2>1, <2>2, <2>3, UpdateStatusFrame, NeverFrame DEF CpiOnly
<1>5. CASE \/ FetchCsiDeploymentYamls \/ CsiNamespaceStep \/ VerifyCsiCloudConfig
           \/ reconcileCSISecret \/ reconcileCSIDeployment \/ updateCSIConfigmap
           \/ updateCSIDaemonSet \/ reconcileCSIDeploymentStatus \/ CallFails
  <2>1. pc' \notin CpiOnly
    BY <1>0, <1>5
    DEF FetchCsiDeploymentYamls, CsiNamespaceStep, VerifyCsiCloudConfig, reconcileCSISecret,
        reconcileCSIDeployment, updateCSIConfigmap, updateCSIDaemonSet,
        reconcileCSIDeploymentStatus, CallFails, ErrorStep, Goto, CpiOnly
  <2>2. status' = status /\ loc' = loc /\ cache' = cache
    BY <1>5
    DEF FetchCsiDeploymentYamls, CsiNamespaceStep, VerifyCsiCloudConfig, reconcileCSISecret,
        reconcileCSIDeployment, updateCSIConfigmap, updateCSIDaemonSet,
        reconcileCSIDeploymentStatus, CallFails, resource, local
  <2>. QED  BY <2>1, <2>2, NeverFrame
<1>6. CASE \/ CacheSync \/ Resync \/ InformerSync \/ PodsProgress \/ NamespaceController
           \/ MatrixUpdate \/ ConfUpdate \/ CloudConfigStatus \/ LoginChange \/ EditSpec
           \/ NodesChange \/ PodsFail \/ Crash
  <2>1. pc' \notin CpiOnly
    BY <1>0, <1>6
    DEF CacheSync, Resync, InformerSync, PodsProgress, NamespaceController, MatrixUpdate,
        ConfUpdate, CloudConfigStatus, LoginChange, EditSpec, NodesChange, PodsFail, Crash, CpiOnly
  <2>2. status' = status /\ loc' = loc /\ (cache' = cache \/ cache' = status)
    BY <1>6
    DEF CacheSync, Resync, InformerSync, PodsProgress, NamespaceController, MatrixUpdate,
        ConfUpdate, CloudConfigStatus, LoginChange, EditSpec, NodesChange, PodsFail, Crash, resource,
        local
  <2>. QED  BY <2>1, <2>2, NeverFrame
<1>7. CASE UNCHANGED vars
  BY <1>0, <1>7, NeverFrame DEF vars, resource, local
<1>. QED
  BY <1>1, <1>2, <1>3, <1>4, <1>5, <1>6, <1>7, <1>8 DEF Next, Reconcile, Environment

\* The controller does not come to rest with a CPI phase of success while the
\* DaemonSet is missing, unless the informer showed it to the last check: with
\* any versions, lag, faults, crashes, edits and matrix changes.
THEOREM SettledCpiPresentAlways == Spec => []SettledCpiPresent
<1>1. Init => SettledInv
  <2>. SUFFICES ASSUME Init PROVE SettledInv
    OBVIOUS
  <2>1. pc = "idle" /\ queued
    BY DEF Init
  <2>2. status.cpi = "" /\ loc.cpi = "" /\ cache.cpi = ""
    BY DEF Init
  <2>. QED
    BY <2>1, <2>2 DEF SettledInv, RestsPastCheck, NeverSucceeds, PastCpiCheck, CpiOnly
<1>2. TypeOK /\ SettledInv /\ [Next]_vars => SettledInv'
  BY RestsStep, NeverStep
<1>3. SettledInv => SettledCpiPresent
  BY DEF SettledInv, RestsPastCheck, NeverSucceeds, SettledCpiPresent, Quiescent, Exists,
         CpiShown
<1>. QED  BY <1>1, <1>2, <1>3, TypeCorrect, PTL DEF Spec
=============================================================================
