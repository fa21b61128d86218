-------------------------- MODULE NodeSync_proofs --------------------------
(***************************************************************************)
(* Proofs about NodeStatus, for any nodes and any number of disturbances.  *)
(***************************************************************************)
EXTENDS NodeSync, TLAPS

\* The parts of the type invariant that the proof needs.
StatusType == status \in Status /\ cache \in Status /\ loc \in Status

\* A copy of the status that is Configured has no pending node.
Consistent(s) == s.phase = "Configured" => \A n \in Nodes : s.nodes[n] # "pending"

\* All copies are consistent: the one in the API server may be replaced by the
\* one Reconcile works on, and that one by the informer's.
StatusInv ==
    /\ StatusType
    /\ Consistent(status) /\ Consistent(cache) /\ Consistent(loc)

\* A step that only passes copies on, and makes a consistent new one.
LEMMA StatusFrame ==
    ASSUME StatusInv, NEW new \in Status, Consistent(new),
           status' \in {status, new}, loc' \in {loc, cache, new}, cache' \in {cache, status}
    PROVE  StatusInv'
BY DEF StatusInv, StatusType, Consistent

\* A new phase other than Configured makes no inconsistency.
LEMMA PhaseConsistent ==
    ASSUME StatusInv, NEW phase \in Phases \ {"Configured"}
    PROVE  /\ [loc EXCEPT !.phase = phase] \in Status
           /\ Consistent([loc EXCEPT !.phase = phase])
BY DEF StatusInv, StatusType, Consistent, Status

\* What reconcileNodeProviderID makes of the nodes it lists.
LEMMA NodeStatusConsistent ==
    LET new == [phase |-> NodePhase(NodeStatus), nodes |-> NodeStatus]
    IN  new \in Status /\ Consistent(new)
<1>1. NodeStatus \in [Nodes -> {"", "pending", "ready"}]
  BY DEF NodeStatus
<1>. QED  BY <1>1 DEF NodePhase, Status, Phases, Consistent

\* A status update passes the copy on.
LEMMA UpdateConsistent ==
    ASSUME StatusInv, NEW new \in Status, Consistent(new), NEW ok, NEW err,
           UpdateStatus(new, ok, err)
    PROVE  StatusInv'
<1>1. loc' = new /\ (status' = new \/ status' = status) /\ cache' = cache
  BY DEF UpdateStatus
<1>. QED  BY <1>1, StatusFrame

\* Every step keeps the copies consistent.
LEMMA StatusStep == StatusInv /\ [Next]_vars => StatusInv'
<1>. SUFFICES ASSUME StatusInv, [Next]_vars PROVE StatusInv'
  OBVIOUS
<1>0. loc \in Status /\ Consistent(loc) /\ loc.phase \in Phases
  BY DEF StatusInv, StatusType, Status
<1>1. ASSUME NEW r \in Nodes \cup {"vdo"}, Begin(r) PROVE StatusInv'
  BY <1>0, <1>1, StatusFrame DEF Begin, resource
<1>2. CASE Drivers
  <2>1. CASE /\ DriversPhase(loc.phase) # loc.phase
             /\ UpdateStatus([loc EXCEPT !.phase = DriversPhase(loc.phase)], "providerID",
                             IF loc.phase = "" THEN "error" ELSE "retry")
    <3>1. DriversPhase(loc.phase) \in Phases \ {"Configured"}
      BY <1>0, <2>1 DEF DriversPhase, Phases
    <3>. QED  BY <2>1, <3>1, PhaseConsistent, UpdateConsistent
  <2>2. CASE status' = status /\ loc' = loc /\ cache' = cache
    BY <1>0, <2>2, StatusFrame
  <2>3. CASE /\ loc' = [loc EXCEPT !.phase = "Configuring"]
             /\ (status' = loc' \/ status' = status) /\ cache' = cache
    <3>1. "Configuring" \in Phases \ {"Configured"}
      BY DEF Phases
    <3>. QED  BY <2>3, <3>1, PhaseConsistent, StatusFrame
  <2>. QED  BY <1>2, <2>1, <2>2, <2>3 DEF Drivers, resource, local
<1>3. CASE updateCPIStatusForError
  <2>1. "Failed" \in Phases \ {"Configured"}
    BY DEF Phases
  <2>. QED  BY <1>3, <2>1, PhaseConsistent, UpdateConsistent DEF updateCPIStatusForError
<1>4. CASE reconcileNodeProviderID
  <2>1. /\ loc' = loc \/ loc' = [phase |-> NodePhase(NodeStatus), nodes |-> NodeStatus]
        /\ status' = status /\ cache' = cache
    BY <1>4 DEF reconcileNodeProviderID, resource
  <2>. QED  BY <2>1, NodeStatusConsistent, StatusFrame
<1>5. CASE updateVdoConfigWithNodeStatus
  BY <1>0, <1>5, UpdateConsistent DEF updateVdoConfigWithNodeStatus
<1>6. CASE ListForLabels \/ (\E n \in Nodes : LabelNode(n)) \/ Finish
  <2>1. status' = status /\ loc' = loc /\ cache' = cache
    BY <1>6 DEF ListForLabels, LabelNode, Finish, resource, local
  <2>. QED  BY <1>0, <2>1, StatusFrame
<1>7. CASE CacheSync \/ Resync \/ Crash \/ EditSpec
  <2>1. status' = status /\ loc' = loc /\ cache' \in {cache, status}
    BY <1>7 DEF CacheSync, Resync, Crash, EditSpec, resource, local
  <2>. QED  BY <1>0, <2>1, StatusFrame
<1>8. ASSUME NEW n \in Nodes,
             NodeEvent(n) \/ CpiInitialises(n) \/ NodeJoins(n) \/ NodeLeaves(n)
      PROVE  StatusInv'
  <2>1. status' = status /\ loc' = loc /\ cache' = cache
    BY <1>8 DEF NodeEvent, CpiInitialises, NodeJoins, NodeLeaves, resource, local
  <2>. QED  BY <1>0, <2>1, StatusFrame
<1>9. CASE UNCHANGED vars
  BY <1>0, <1>9, StatusFrame DEF vars, resource, local
<1>. QED
  BY <1>1, <1>2, <1>3, <1>4, <1>5, <1>6, <1>7, <1>8, <1>9 DEF Next, Reconcile, Environment

-----------------------------------------------------------------------------
(* Types *)

Steps == {"idle", "drivers", "providerID", "nodeStatus", "labels", "label", "error"}

\* A step of Reconcile goes on, or puts its request back.
LEMMA GotoType ==
    ASSUME TypeOK, NEW step \in Steps \cup {"retry"}, Goto(step)
    PROVE  /\ pc' \in Steps
           /\ requests' \subseteq Nodes \cup {"vdo"}
BY DEF Goto, TypeOK, Steps

\* The counter of disturbances stays within its bound.
LEMMA EventsType ==
    ASSUME TypeOK, Calm \/ \E event \in Events : Happens(event)
    PROVE  events' \in 0 .. MaxEvents
BY NodesAssumption DEF TypeOK, Calm, Happens

\* A changed node is a node, and so is the event it makes.
LEMMA SetNodeType ==
    ASSUME TypeOK, NEW n \in Nodes, NEW o \in NodeObjects, SetNode(n, o)
    PROVE  node' \in [Nodes -> NodeObjects] /\ pending' \subseteq Nodes
BY DEF SetNode, TypeOK

\* Every step keeps the types that are not those of the copies of the status.
LEMMA TypeStep == TypeOK /\ StatusInv /\ [Next]_vars => TypeOK'
<1>. SUFFICES ASSUME TypeOK, StatusInv, [Next]_vars PROVE TypeOK'
  OBVIOUS
<1>0. status' \in Status /\ cache' \in Status /\ loc' \in Status
  BY StatusStep DEF StatusInv, StatusType
<1>a. ASSUME NEW new, NEW ok \in Steps \cup {"retry"}, NEW err \in Steps \cup {"retry"},
             UpdateStatus(new, ok, err)
      PROVE  TypeOK'
  <2>1. Goto(ok) \/ Goto(err)
    BY <1>a DEF UpdateStatus
  <2>2. pc' \in Steps /\ requests' \subseteq Nodes \cup {"vdo"}
    BY <2>1, GotoType
  <2>3. Calm \/ Happens("fault")
    BY <1>a DEF UpdateStatus
  <2>4. events' \in 0 .. MaxEvents
    BY <2>3, EventsType DEF Happens
  <2>5. cacheFresh' \in BOOLEAN
    BY <1>a DEF UpdateStatus, TypeOK
  <2>6. UNCHANGED <<node, locFresh, req, todo, pending, changed, joined>>
    BY <1>a DEF UpdateStatus, sinceList
  <2>. QED  BY <1>0, <2>2, <2>4, <2>5, <2>6 DEF TypeOK, Steps
<1>b. ASSUME NEW step \in Steps \cup {"retry"}, Goto(step), Calm \/ Happens("fault"),
             UNCHANGED <<node, cacheFresh, locFresh, req, pending, changed, joined>>,
             todo' \subseteq Nodes
      PROVE  TypeOK'
  <2>1. events' \in 0 .. MaxEvents
    BY <1>b, EventsType DEF Happens
  <2>. QED  BY <1>0, <1>b, <2>1, GotoType DEF TypeOK, Steps
<1>1. ASSUME NEW r \in Nodes \cup {"vdo"}, Begin(r) PROVE TypeOK'
  <2>1. pc' \in Steps
    BY <1>1 DEF Begin, Steps
  <2>. QED  BY <1>0, <1>1, <2>1 DEF Begin, TypeOK, Steps, Calm, resource, sinceList
<1>2. CASE Drivers
  <2>1. CASE UpdateStatus([loc EXCEPT !.phase = DriversPhase(loc.phase)], "providerID",
                          IF loc.phase = "" THEN "error" ELSE "retry")
    <3>1. (IF loc.phase = "" THEN "error" ELSE "retry") \in Steps \cup {"retry"}
      BY DEF Steps
    <3>2. "providerID" \in Steps \cup {"retry"}
      BY DEF Steps
    <3>. QED  BY <1>a, <2>1, <3>1, <3>2
  <2>2. CASE /\ Goto("providerID") \/ Goto("error")
             /\ Calm \/ Happens("fault")
             /\ UNCHANGED <<node, resource, local, pending, sinceList>>
    <3>1. "providerID" \in Steps /\ "error" \in Steps /\ todo' \subseteq Nodes
      BY <2>2 DEF Steps, local, TypeOK
    <3>. QED  BY <1>b, <2>2, <3>1 DEF resource, local, sinceList
  <2>3. CASE /\ Happens("conf") /\ (Goto("providerID") \/ Goto("error"))
             /\ cacheFresh' \in {cacheFresh, cacheFresh /\ loc' = status}
             /\ UNCHANGED <<node, cache, locFresh, req, todo, pending, sinceList>>
    <3>1. pc' \in Steps /\ requests' \subseteq Nodes \cup {"vdo"}
      BY <2>3, GotoType DEF Steps
    <3>2. events' \in 0 .. MaxEvents
      BY <2>3, EventsType DEF Happens
    <3>3. cacheFresh' \in BOOLEAN
      BY <2>3 DEF TypeOK
    <3>. QED  BY <1>0, <2>3, <3>1, <3>2, <3>3 DEF TypeOK, Steps, sinceList
  <2>. QED  BY <1>2, <2>1, <2>2, <2>3 DEF Drivers
<1>3. CASE updateCPIStatusForError
  BY <1>3, <1>a DEF updateCPIStatusForError
<1>4. CASE reconcileNodeProviderID
  <2>1. /\ Goto("error") \/ Goto("nodeStatus") \/ Goto("labels")
        /\ Calm /\ UNCHANGED <<node, resource, locFresh, req, todo, pending, sinceList>>
    BY <1>4 DEF reconcileNodeProviderID
  <2>2. {"error", "nodeStatus", "labels"} \subseteq Steps /\ todo' \subseteq Nodes
    BY <2>1 DEF Steps, TypeOK
  <2>. QED  BY <1>b, <2>1, <2>2 DEF resource, sinceList
<1>5. CASE updateVdoConfigWithNodeStatus
  BY <1>5, <1>a DEF updateVdoConfigWithNodeStatus, Steps
<1>6. CASE ListForLabels
  <2>1. pc' = "label" /\ requests' = requests
    BY <1>6 DEF ListForLabels, Goto
  <2>. QED  BY <1>0, <1>6, <2>1 DEF ListForLabels, ToLabel, TypeOK, Calm, resource
<1>7. ASSUME NEW n \in Nodes, LabelNode(n) PROVE TypeOK'
  <2>1. pc' \in Steps /\ requests' \subseteq Nodes \cup {"vdo"}
    BY <1>7, GotoType DEF LabelNode, LabelError, Steps
  <2>2. events' \in 0 .. MaxEvents
    BY <1>7, EventsType DEF LabelNode, Happens
  <2>3. [node[n] EXCEPT !.label = TRUE] \in NodeObjects
    BY DEF TypeOK, NodeObjects
  <2>4. node' \in [Nodes -> NodeObjects] /\ pending' \subseteq Nodes
    BY <1>7, <2>3, SetNodeType DEF LabelNode, TypeOK
  <2>. QED  BY <1>0, <1>7, <2>1, <2>2, <2>4 DEF LabelNode, TypeOK, Steps, resource, sinceList
<1>8. CASE Finish
  <2>1. "idle" \in Steps /\ todo' \subseteq Nodes
    BY <1>8 DEF Steps, Finish, local, TypeOK
  <2>. QED  BY <1>8, <1>b, <2>1 DEF Finish, resource, local, sinceList
<1>9. CASE CacheSync \/ Resync
  BY <1>0, <1>9 DEF CacheSync, Resync, TypeOK, Calm, resource, local, sinceList
<1>10. CASE Crash \/ EditSpec
  <2>1. events' \in 0 .. MaxEvents
    BY <1>10, EventsType DEF Crash, EditSpec, Happens
  <2>. QED  BY <1>0, <1>10, <2>1 DEF Crash, EditSpec, TypeOK, resource, local, sinceList
<1>11. ASSUME NEW n \in Nodes, NodeEvent(n) PROVE TypeOK'
  BY <1>0, <1>11 DEF NodeEvent, TypeOK, Calm, resource, local, sinceList
<1>12. ASSUME NEW n \in Nodes, CpiInitialises(n) \/ NodeJoins(n) \/ NodeLeaves(n)
       PROVE  TypeOK'
  <2>1. events' \in 0 .. MaxEvents
    BY <1>12, EventsType DEF CpiInitialises, NodeJoins, NodeLeaves, Happens
  <2>2. PICK o \in NodeObjects : SetNode(n, o)
    BY <1>12 DEF CpiInitialises, NodeJoins, NodeLeaves, NoNode, NodeObjects, TypeOK
  <2>3. node' \in [Nodes -> NodeObjects] /\ pending' \subseteq Nodes
    BY <2>2, SetNodeType
  <2>4. changed' \subseteq Nodes /\ joined' \subseteq Nodes
    BY <1>12 DEF CpiInitialises, NodeJoins, NodeLeaves, TypeOK
  <2>5. UNCHANGED <<resource, local, requests, pc>>
    BY <1>12 DEF CpiInitialises, NodeJoins, NodeLeaves
  <2>. QED  BY <1>0, <2>1, <2>3, <2>4, <2>5 DEF TypeOK, resource, local
<1>13. CASE UNCHANGED vars
  BY <1>13 DEF TypeOK, vars, resource, local, sinceList
<1>. QED
  BY <1>1, <1>2, <1>3, <1>4, <1>5, <1>6, <1>7, <1>8, <1>9, <1>10, <1>11, <1>12, <1>13
  DEF Next, Reconcile, Environment

\* The types and the consistency of the copies hold initially.
LEMMA StatusInit == Init => TypeOK /\ StatusInv
<1>. SUFFICES ASSUME Init PROVE TypeOK /\ StatusInv
  OBVIOUS
<1>. DEFINE empty == [phase |-> "", nodes |-> [n \in Nodes |-> ""]]
<1>1. empty \in Status /\ Consistent(empty)
  BY DEF Status, Phases, Consistent
<1>2. status = empty /\ cache = empty /\ loc = empty
  BY DEF Init
<1>3. node \in [Nodes -> NodeObjects]
  <2>1. NoNode \in NodeObjects
    BY DEF NoNode, NodeObjects
  <2>2. [NoNode EXCEPT !.present = TRUE, !.taint = TRUE] \in NodeObjects
    BY DEF NoNode, NodeObjects
  <2>3. [NoNode EXCEPT !.present = TRUE, !.providerID = TRUE] \in NodeObjects
    BY DEF NoNode, NodeObjects
  <2>. QED  BY <2>1, <2>2, <2>3 DEF Init
<1>4. events \in 0 .. MaxEvents
  <2>1. events = 0
    BY DEF Init
  <2>. QED  BY <2>1, NodesAssumption
<1>5. StatusInv
  BY <1>1, <1>2 DEF StatusInv, StatusType
<1>6. TypeOK
  BY <1>1, <1>2, <1>3, <1>4 DEF Init, TypeOK
<1>. QED  BY <1>5, <1>6

\* The status never says Configured while NodeStatus has a pending node, for
\* any nodes, although the phase and NodeStatus are written by different steps
\* from copies of different age.
THEOREM ConfiguredMeansReadyAlways == Spec => []ConfiguredMeansReady
<1>1. StatusInv => ConfiguredMeansReady
  BY DEF StatusInv, Consistent, ConfiguredMeansReady
<1>. QED  BY <1>1, StatusInit, StatusStep, PTL DEF Spec

\* NodeSync stays within its types for any nodes and any disturbances: no
\* request is for anything but the VDOConfig or a node, and only the phases
\* that are named are written.
THEOREM TypeCorrect == Spec => []TypeOK
BY StatusInit, TypeStep, StatusStep, PTL DEF Spec

-----------------------------------------------------------------------------
(* Labels *)

\* The controller has something to do that it will not skip.
Outstanding == ~cacheFresh \/ \E r \in requests : ~Skips(r)

\* Every node that s records and that is still there has the label, except
\* those of a set of nodes.
LabelledBut(s, except) ==
    \A n \in Nodes \ except : s.nodes[n] # "" /\ node[n].present => node[n].label

\* What the copies are: the informer's, and that of a Reconcile which has not
\* changed it since it was read or written.
CopiesInv ==
    /\ cacheFresh => cache = status
    /\ pc \in {"drivers", "providerID", "labels", "label"} /\ locFresh => loc = status

\* A Reconcile with an old copy, and one that fails, will be followed by
\* another.
FollowedInv ==
    pc # "idle" => /\ ~locFresh => Outstanding
                   /\ Outstanding \/ ~Skips(req)

\* Reconcile labels what its copy records, and rests only when that was the
\* status.
LabelsInv ==
    /\ pc = "label" => LabelledBut(loc, joined \cup todo)
    /\ pc = "idle" => Outstanding \/ LabelledBut(status, joined)

LabelInv == CopiesInv /\ FollowedInv /\ LabelsInv

\* Work that is outstanding stays so until it is begun.
LEMMA OutstandingStays ==
    ASSUME Outstanding, requests \subseteq requests', cache' = cache,
           cacheFresh' => cacheFresh
    PROVE  Outstanding'
BY DEF Outstanding, Skips

\* A step of Reconcile that ends in an error has its request queued again.
LEMMA RetryOutstanding ==
    ASSUME FollowedInv, pc # "idle", Goto("retry"), cache' = cache, cacheFresh' => cacheFresh
    PROVE  Outstanding'
<1>1. requests' = requests \cup {req}
  BY DEF Goto
<1>2. CASE Outstanding
  BY <1>1, <1>2, OutstandingStays
<1>3. CASE ~Skips(req)
  BY <1>1, <1>3 DEF Outstanding, Skips
<1>. QED  BY <1>2, <1>3 DEF FollowedInv

\* The same for a step of Reconcile to any place: the informer's copy, the
\* request and the version of the local copy stay.
LEMMA FollowedStep ==
    ASSUME FollowedInv, pc # "idle", NEW step, Goto(step), cache' = cache,
           cacheFresh' => cacheFresh, req' = req, locFresh' = locFresh
    PROVE  FollowedInv'
<1>1. requests \subseteq requests'
  BY DEF Goto
<1>2. Outstanding => Outstanding'
  BY <1>1, OutstandingStays
<1>3. ~Skips(req) => ~Skips(req)'
  BY DEF Skips
<1>. QED  BY <1>2, <1>3 DEF FollowedInv

\* A status update: either it is written, or the copy was old, or the call
\* failed.
LEMMA LabelUpdate ==
    ASSUME LabelInv, pc # "idle", NEW new, NEW ok \in {"providerID", "labels", "retry"},
           NEW err \in {"error", "retry"}, UpdateStatus(new, ok, err),
           cacheFresh \in BOOLEAN
    PROVE  LabelInv'
<1>0. /\ loc' = new /\ cache' = cache /\ req' = req /\ locFresh' = locFresh
      /\ (Goto(ok) /\ status' = new) \/ Goto(err)
  BY DEF UpdateStatus
<1>1. (cacheFresh' => cacheFresh) /\ (cacheFresh' => status' = status)
  <2>1. CASE \E same \in KeepsVersion(new) : cacheFresh' = (cacheFresh /\ same) /\ status' = new
    <3>1. PICK same \in KeepsVersion(new) : cacheFresh' = (cacheFresh /\ same) /\ status' = new
      BY <2>1
    <3>2. same = FALSE \/ new = status
      BY <3>1 DEF KeepsVersion
    <3>. QED  BY <3>1, <3>2
  <2>2. CASE UNCHANGED <<status, cacheFresh>>
    BY <2>2
  <2>. QED  BY <2>1, <2>2 DEF UpdateStatus
<1>2. (Goto(ok) /\ status' = new) \/ Goto(err)
  BY <1>0
<1>3. FollowedInv'
  BY <1>0, <1>1, <1>2, FollowedStep DEF LabelInv
<1>4. CASE Goto(ok) /\ status' = new
  <2>1. CopiesInv'
    BY <1>0, <1>1, <1>2, <1>4 DEF CopiesInv, LabelInv
  <2>2. CASE ok = "retry"
    <3>1. Outstanding' /\ pc' = "idle"
      BY <1>0, <1>1, <1>4, <2>2, RetryOutstanding DEF LabelInv, Goto
    <3>. QED  BY <1>3, <2>1, <3>1 DEF LabelInv, LabelsInv
  <2>3. CASE ok # "retry"
    <3>1. pc' \notin {"idle", "label"}
      BY <1>4, <2>3 DEF Goto
    <3>. QED  BY <1>3, <2>1, <3>1 DEF LabelInv, LabelsInv
  <2>. QED  BY <2>2, <2>3
<1>5. CASE Goto(err)
  <2>1. pc' \in {"error", "idle"} /\ (pc' = "idle" => err = "retry")
    BY <1>5 DEF Goto
  <2>2. pc' = "idle" => Outstanding'
    BY <1>0, <1>1, <1>5, <2>1, RetryOutstanding DEF LabelInv
  <2>3. CopiesInv'
    BY <1>0, <1>1, <1>2, <2>1 DEF CopiesInv, LabelInv
  <2>. QED  BY <1>3, <2>1, <2>2, <2>3 DEF LabelInv, LabelsInv
<1>. QED  BY <1>2, <1>4, <1>5

\* A step of the informers, the cluster or a user, which leaves the status to
\* the copies as it was.
LEMMA LabelOutside ==
    ASSUME LabelInv,
           UNCHANGED <<pc, req, loc, status>>, locFresh' => locFresh,
           cacheFresh' => cache' = status',
           Outstanding => Outstanding', locFresh /\ ~locFresh' => Outstanding',
           cache'.nodes = cache.nodes \/ Outstanding',
           \A n \in Nodes \ joined' : /\ n \notin joined
                                      /\ node'[n].present => node[n].present
                                      /\ node'[n].present /\ node[n].label => node'[n].label,
           todo' = todo
    PROVE  LabelInv'
<1>1. CopiesInv'
  BY DEF LabelInv, CopiesInv
<1>2. FollowedInv'
  <2>1. ~Skips(req) => ~Skips(req)' \/ Outstanding'
    BY DEF Skips
  <2>. QED  BY <2>1 DEF LabelInv, FollowedInv
<1>3. LabelsInv'
  BY DEF LabelInv, LabelsInv, LabelledBut
<1>. QED  BY <1>1, <1>2, <1>3 DEF LabelInv

\* Every step keeps the invariant.
LEMMA LabelStep == TypeOK /\ LabelInv /\ [Next]_vars => LabelInv'
<1>. SUFFICES ASSUME TypeOK, LabelInv, [Next]_vars PROVE LabelInv'
  OBVIOUS
<1>. USE DEF resource, local, sinceList
<1>0. cacheFresh \in BOOLEAN /\ locFresh \in BOOLEAN
  BY DEF TypeOK
<1>1. ASSUME NEW r \in Nodes \cup {"vdo"}, Begin(r) PROVE LabelInv'
  <2>1. /\ pc = "idle" /\ requests' = requests \ {r} /\ loc' = cache /\ req' = r
        /\ locFresh' = cacheFresh /\ UNCHANGED <<node, status, cache, cacheFresh, joined>>
        /\ pc' = IF Skips(r) THEN "idle" ELSE "drivers"
    BY <1>1 DEF Begin
  <2>2. CopiesInv'
    BY <2>1 DEF LabelInv, CopiesInv
  <2>3. CASE Skips(r)
    <3>1. Outstanding => Outstanding'
      BY <2>1, <2>3 DEF Outstanding, Skips
    <3>. QED  BY <2>1, <2>2, <2>3, <3>1 DEF LabelInv, FollowedInv, LabelsInv, LabelledBut
  <2>4. CASE ~Skips(r)
    <3>1. ~Skips(req)' /\ pc' = "drivers"
      BY <2>1, <2>4 DEF Skips
    <3>2. ~locFresh' => Outstanding'
      BY <2>1 DEF Outstanding
    <3>. QED  BY <2>2, <3>1, <3>2 DEF LabelInv, FollowedInv, LabelsInv
  <2>. QED  BY <2>3, <2>4
<1>2. CASE Drivers
  <2>0. pc = "drivers"
    BY <1>2 DEF Drivers
  <2>1. CASE UpdateStatus([loc EXCEPT !.phase = DriversPhase(loc.phase)], "providerID",
                          IF loc.phase = "" THEN "error" ELSE "retry")
    <3>1. (IF loc.phase = "" THEN "error" ELSE "retry") \in {"error", "retry"}
      OBVIOUS
    <3>. QED  BY <1>0, <2>0, <2>1, <3>1, LabelUpdate
  <2>2. CASE /\ Goto("providerID") \/ Goto("error")
             /\ UNCHANGED <<node, resource, local, pending, sinceList>>
    <3>1. pc' \in {"providerID", "error"}
      BY <2>2 DEF Goto
    <3>2. FollowedInv'
      BY <2>0, <2>2, FollowedStep DEF LabelInv
    <3>. QED  BY <2>0, <2>2, <3>1, <3>2 DEF LabelInv, CopiesInv, LabelsInv
  <2>3. CASE /\ IF locFresh
                THEN status' = loc' /\ cacheFresh' = (cacheFresh /\ loc' = status)
                     /\ Goto("providerID")
                ELSE UNCHANGED <<status, cacheFresh>> /\ Goto("error")
             /\ UNCHANGED <<node, cache, locFresh, req, todo, pending, sinceList>>
    <3>1. pc' \in {"providerID", "error"} /\ (pc' = "providerID" => status' = loc')
      BY <2>3 DEF Goto
    <3>2. cacheFresh' => cacheFresh /\ status' = status
      BY <2>3
    <3>3. FollowedInv'
      BY <2>0, <2>3, <3>2, FollowedStep DEF LabelInv
    <3>4. CopiesInv'
      BY <2>3, <3>1, <3>2 DEF LabelInv, CopiesInv
    <3>. QED  BY <3>1, <3>3, <3>4 DEF LabelInv, LabelsInv
  <2>. QED  BY <1>2, <2>1, <2>2, <2>3 DEF Drivers
<1>3. CASE updateCPIStatusForError
  BY <1>0, <1>3, LabelUpdate DEF updateCPIStatusForError
<1>4. CASE reconcileNodeProviderID
  <2>1. /\ pc = "providerID"
        /\ UNCHANGED <<node, resource, locFresh, req, todo, pending, sinceList>>
        /\ \/ Goto("error") \/ Goto("nodeStatus")
           \/ Goto("labels") /\ loc' = loc
    BY <1>4 DEF reconcileNodeProviderID
  <2>2. FollowedInv'
    BY <2>1, FollowedStep DEF LabelInv
  <2>3. pc' \in {"error", "nodeStatus", "labels"} /\ (pc' = "labels" => loc' = loc)
    BY <2>1 DEF Goto
  <2>. QED  BY <2>1, <2>2, <2>3 DEF LabelInv, CopiesInv, LabelsInv
<1>5. CASE updateVdoConfigWithNodeStatus
  BY <1>0, <1>5, LabelUpdate DEF updateVdoConfigWithNodeStatus
<1>6. CASE ListForLabels
  <2>1. /\ pc = "labels" /\ todo' = ToLabel /\ joined' = {} /\ Goto("label")
        /\ UNCHANGED <<node, resource, loc, locFresh, req>>
    BY <1>6 DEF ListForLabels
  <2>2. FollowedInv' /\ pc' = "label"
    BY <2>1, FollowedStep DEF LabelInv, Goto
  <2>3. LabelledBut(loc, joined \cup todo)'
    BY <2>1 DEF LabelledBut, ToLabel
  <2>. QED  BY <2>1, <2>2, <2>3 DEF LabelInv, CopiesInv, LabelsInv
<1>7. ASSUME NEW n \in Nodes, LabelNode(n) PROVE LabelInv'
  <2>1. /\ pc = "label" /\ todo' = todo \ {n}
        /\ UNCHANGED <<resource, loc, locFresh, req, sinceList>>
        /\ \/ Goto("label") /\ node' = [node EXCEPT ![n] = [node[n] EXCEPT !.label = TRUE]]
           \/ Goto("error") /\ node' = node
    BY <1>7 DEF LabelNode, LabelError, SetNode
  <2>2. FollowedInv'
    BY <2>1, FollowedStep DEF LabelInv
  <2>3. CopiesInv'
    BY <2>1 DEF LabelInv, CopiesInv, Goto
  <2>4. CASE pc' = "label" /\ node' = [node EXCEPT ![n] = [node[n] EXCEPT !.label = TRUE]]
    <3>1. node'[n].label
      BY <2>4 DEF TypeOK, NodeObjects
    <3>2. \A m \in Nodes \ {n} : node'[m] = node[m]
      BY <2>4 DEF TypeOK
    <3>3. LabelledBut(loc, joined \cup todo)'
      BY <2>1, <3>1, <3>2 DEF LabelInv, LabelsInv, LabelledBut
    <3>. QED  BY <2>2, <2>3, <2>4, <3>3 DEF LabelInv, LabelsInv
  <2>5. CASE pc' = "error"
    BY <2>2, <2>3, <2>5 DEF LabelInv, LabelsInv
  <2>. QED  BY <2>1, <2>4, <2>5 DEF Goto
<1>8. CASE Finish
  <2>1. /\ pc = "label" /\ todo = {} /\ UNCHANGED <<node, resource, local, sinceList>>
        /\ Goto("idle") \/ Goto("retry")
    BY <1>8 DEF Finish
  <2>2. pc' = "idle"
    BY <2>1 DEF Goto
  <2>3. CASE Goto("retry")
    <3>1. Outstanding'
      BY <2>1, <2>3, RetryOutstanding DEF LabelInv
    <3>. QED  BY <2>1, <2>2, <3>1 DEF LabelInv, CopiesInv, FollowedInv, LabelsInv
  <2>4. CASE Goto("idle")
    <3>1. Outstanding => Outstanding'
      BY <2>1, <2>4, OutstandingStays DEF Goto
    <3>2. LabelledBut(loc, joined)
      BY <2>1 DEF LabelInv, LabelsInv, LabelledBut
    <3>3. ~Outstanding => loc = status
      BY <2>1 DEF LabelInv, FollowedInv, CopiesInv
    <3>4. Outstanding' \/ LabelledBut(status, joined)'
      BY <2>1, <3>1, <3>2, <3>3 DEF LabelledBut
    <3>. QED  BY <2>1, <2>2, <3>4 DEF LabelInv, CopiesInv, FollowedInv, LabelsInv
  <2>. QED  BY <2>1, <2>3, <2>4
<1>9. CASE CacheSync
  <2>1. Outstanding'
    BY <1>9, NodesAssumption DEF CacheSync, Outstanding, Skips
  <2>. QED  BY <1>9, <2>1, LabelOutside DEF CacheSync
<1>10. CASE Resync
  <2>1. Outstanding'
    BY <1>10, NodesAssumption DEF Resync, Outstanding, Skips
  <2>. QED  BY <1>10, <2>1, LabelOutside DEF Resync, LabelInv, CopiesInv
<1>11. CASE Crash
  <2>1. Outstanding'
    BY <1>11, NodesAssumption DEF Crash, Outstanding, Skips
  <2>. QED  BY <1>11, <2>1 DEF Crash, LabelInv, CopiesInv, FollowedInv, LabelsInv
<1>12. CASE EditSpec
  <2>1. Outstanding'
    BY <1>12 DEF EditSpec, Outstanding
  <2>. QED  BY <1>12, <2>1, LabelOutside DEF EditSpec
<1>13. ASSUME NEW n \in Nodes, NodeEvent(n) PROVE LabelInv'
  <2>1. Outstanding => Outstanding'
    BY <1>13, OutstandingStays DEF NodeEvent
  <2>. QED  BY <1>13, <2>1, LabelOutside DEF NodeEvent, LabelInv, CopiesInv
<1>14. ASSUME NEW n \in Nodes, CpiInitialises(n) \/ NodeJoins(n) \/ NodeLeaves(n)
       PROVE  LabelInv'
  <2>1. UNCHANGED <<resource, local, requests, pc>>
    BY <1>14 DEF CpiInitialises, NodeJoins, NodeLeaves
  <2>2. Outstanding => Outstanding'
    BY <2>1, OutstandingStays
  <2>3. \A m \in Nodes \ joined' : /\ m \notin joined
                                   /\ node'[m].present => node[m].present
                                   /\ node'[m].present /\ node[m].label => node'[m].label
    BY <1>14 DEF CpiInitialises, NodeJoins, NodeLeaves, SetNode, NoNode, Uninitialised,
                 TypeOK, NodeObjects
  <2>. QED  BY <2>1, <2>2, <2>3, LabelOutside DEF LabelInv, CopiesInv
<1>15. CASE UNCHANGED vars
  <2>1. Outstanding => Outstanding'
    BY <1>15, OutstandingStays DEF vars
  <2>. QED  BY <1>15, <2>1, LabelOutside DEF vars, LabelInv, CopiesInv
<1>. QED
  BY <1>1, <1>2, <1>3, <1>4, <1>5, <1>6, <1>7, <1>8, <1>9, <1>10, <1>11, <1>12, <1>13,
     <1>14, <1>15
  DEF Next, Reconcile, Environment

\* For any nodes, and any number of conflicts, faults, restarts and nodes that
\* come and go, the controller rests only when every recorded node that is
\* there has the label that lets its later events through, unless the node was
\* registered again since the last list.
THEOREM RecordedAreLabelledAlways == Spec => []RecordedAreLabelled
<1>1. Init => LabelInv
  <2>. SUFFICES ASSUME Init PROVE LabelInv
    OBVIOUS
  <2>1. /\ cache = status /\ pc = "idle" /\ requests = {"vdo"}
    BY DEF Init
  <2>2. Outstanding
    BY <2>1, NodesAssumption DEF Outstanding, Skips
  <2>. QED  BY <2>1, <2>2 DEF LabelInv, CopiesInv, FollowedInv, LabelsInv
<1>2. LabelInv => RecordedAreLabelled
  BY DEF LabelInv, LabelsInv, LabelledBut, Outstanding, Quiescent, RecordedAreLabelled
<1>. QED  BY <1>1, <1>2, LabelStep, TypeCorrect, PTL DEF Spec
=============================================================================
