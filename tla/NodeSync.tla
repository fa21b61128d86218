------------------------------ MODULE NodeSync ------------------------------
(***************************************************************************)
(* How the VDOConfig controller follows the nodes: node events and their   *)
(* filter (validateNode), the skip of node requests in Reconcile,          *)
(* NodeStatus (reconcileNodeProviderID) and the label that lets later      *)
(* events of a node through (reconcileNodeLabel).                          *)
(*                                                                         *)
(* The drivers' part of Reconcile is module VDOConfigReconciler; here it   *)
(* is the one step Drivers, of which only the CPI phase matters.           *)
(***************************************************************************)
EXTENDS Naturals

CONSTANTS
    Nodes,       \* node names
    Managed,     \* nodes whose VM the configured vCenters know
    Events,      \* disturbances a run allows
    MaxEvents    \* bound on their number

ASSUME NodesAssumption ==
    /\ Managed \subseteq Nodes /\ "vdo" \notin Nodes
    /\ Events \subseteq {"join", "leave", "fault", "crash", "conf", "edit"}
    /\ MaxEvents \in Nat

VARIABLES
    node,        \* the Node objects
    status,      \* CPI phase and NodeStatus in the API server
    cache,       \* the informer's copy
    cacheFresh,  \* it is the latest version
    loc,         \* the copy of the running Reconcile
    locFresh,    \* its resourceVersion is the latest
    pending,     \* nodes with an event that the filter lets through
    requests,    \* workqueue: "vdo", or a node name
    pc, req,     \* where Reconcile is, and for which request
    todo,        \* nodes that reconcileNodeLabel still has to label
    changed,     \* nodes that changed since it listed them
    joined,      \* history: nodes that registered since it listed them
    events

resource == <<status, cache, cacheFresh>>
local == <<loc, locFresh, req, todo>>
sinceList == <<changed, joined>>
vars == <<node, resource, local, pending, requests, pc, sinceList, events>>

NodeObjects == [present : BOOLEAN, providerID : BOOLEAN, taint : BOOLEAN, label : BOOLEAN]
NoNode == [present |-> FALSE, providerID |-> FALSE, taint |-> FALSE, label |-> FALSE]
Phases == {"", "Configuring", "Deployed", "Configured", "Failed"}
Status == [phase : Phases, nodes : [Nodes -> {"", "pending", "ready"}]]

TypeOK ==
    /\ node \in [Nodes -> NodeObjects]
    /\ status \in Status /\ cache \in Status /\ loc \in Status
    /\ cacheFresh \in BOOLEAN /\ locFresh \in BOOLEAN
    /\ pending \subseteq Nodes
    /\ requests \subseteq Nodes \cup {"vdo"} /\ req \in Nodes \cup {"vdo"}
    /\ pc \in {"idle", "drivers", "providerID", "nodeStatus", "labels", "label", "error"}
    /\ todo \subseteq Nodes /\ changed \subseteq Nodes /\ joined \subseteq Nodes
    /\ events \in 0 .. MaxEvents

Happens(event) == event \in Events /\ events < MaxEvents /\ events' = events + 1
Calm == UNCHANGED events

-----------------------------------------------------------------------------
(* Reconcile *)

\* "retry" is a returned error: the request goes back to the workqueue.
Goto(step) ==
    /\ pc' = IF step = "retry" THEN "idle" ELSE step
    /\ requests' = IF step = "retry" THEN requests \cup {req} ELSE requests

\* A write that changes nothing makes no new resourceVersion; a failure may
\* have another message than the one before.
KeepsVersion(new) ==
    IF new # status THEN {FALSE} ELSE IF new.phase = "Failed" THEN BOOLEAN ELSE {TRUE}

\* r.Status().Update
UpdateStatus(new, ok, err) ==
    /\ loc' = new
    /\ \/ /\ locFresh
          /\ status' = new
          /\ \E same \in KeepsVersion(new) : cacheFresh' = (cacheFresh /\ same)
          /\ Goto(ok) /\ Calm
       \/ /\ ~locFresh
          /\ UNCHANGED <<status, cacheFresh>>
          /\ Goto(err) /\ Calm
       \/ /\ Happens("fault")
          /\ UNCHANGED <<status, cacheFresh>>
          /\ Goto(err)
    /\ UNCHANGED <<node, cache, locFresh, req, todo, pending, sinceList>>

\* A request of a node that is ready in NodeStatus is done.
Skips(r) == r \in Nodes /\ cache.nodes[r] = "ready"

Begin(r) ==
    /\ pc = "idle" /\ r \in requests
    /\ requests' = requests \ {r}
    /\ loc' = cache /\ locFresh' = cacheFresh /\ req' = r
    /\ pc' = IF Skips(r) THEN "idle" ELSE "drivers"
    /\ Calm
    /\ UNCHANGED <<node, resource, todo, pending, sinceList>>

\* Slip: a rollout that begins is recorded as Deploying.
DriversPhaseDeploying(phase) ==
    CASE phase = "" -> "Deploying"
      [] phase = "Failed" -> "Deployed"
      [] OTHER -> phase

\* The phase that a successful rollout of the drivers leaves.  Deploying is
\* never written: updateStatus of reconcileCPIDeployment stays false.
DriversPhase(phase) ==
    CASE phase = "" -> "Configuring"
      [] phase = "Failed" -> "Deployed"
      [] OTHER -> phase

Drivers ==
    /\ pc = "drivers"
    /\ \/ /\ DriversPhase(loc.phase) # loc.phase
          /\ UpdateStatus([loc EXCEPT !.phase = DriversPhase(loc.phase)], "providerID",
                          IF loc.phase = "" THEN "error" ELSE "retry")
       \/ /\ DriversPhase(loc.phase) = loc.phase
          /\ Goto("providerID") /\ Calm
          /\ UNCHANGED <<node, resource, local, pending, sinceList>>
       \/ /\ Happens("conf")
          /\ loc' = [loc EXCEPT !.phase = "Configuring"]
          /\ IF locFresh
             THEN status' = loc' /\ cacheFresh' = (cacheFresh /\ loc' = status)
                  /\ Goto("providerID")
             ELSE UNCHANGED <<status, cacheFresh>> /\ Goto("error")
          /\ UNCHANGED <<node, cache, locFresh, req, todo, pending, sinceList>>
       \/ /\ Happens("fault") /\ Goto("error")
          /\ UNCHANGED <<node, resource, local, pending, sinceList>>

updateCPIStatusForError ==
    /\ pc = "error"
    /\ UpdateStatus([loc EXCEPT !.phase = "Failed"], "retry", "retry")

\* A node that the CPI driver has to initialise.
Uninitialised(n) == node[n].present /\ ~node[n].providerID /\ node[n].taint

\* checkNodeExistence, for nodes that NodeStatus does not have yet.
Unmanaged(n) == Uninitialised(n) /\ loc.nodes[n] = "" /\ n \notin Managed

\* The status of each node; one without providerID and taint has none.
NodeStatus ==
    [n \in Nodes |-> IF node[n].present /\ node[n].providerID THEN "ready"
                     ELSE IF Uninitialised(n) THEN "pending"
                     ELSE ""]

\* Slip: only a node that is new in NodeStatus holds back Configured.
NodePhaseOfNew(s) ==
    IF \E n \in Nodes : s[n] = "pending" /\ loc.nodes[n] = "" THEN "Configuring"
    ELSE "Configured"

NodePhase(s) == IF \E n \in Nodes : s[n] = "pending" THEN "Configuring" ELSE "Configured"

\* Slip: only the phase is compared.
NeedsUpdatePhase(new) == loc.phase # new.phase

NeedsUpdate(new) == loc # new

reconcileNodeProviderID ==
    /\ pc = "providerID"
    /\ LET new == [phase |-> NodePhase(NodeStatus), nodes |-> NodeStatus]
       IN \/ /\ \E n \in Nodes : Unmanaged(n)
             /\ Goto("error") /\ UNCHANGED loc
          \/ /\ \A n \in Nodes : ~Unmanaged(n)
             /\ IF (\E n \in Nodes : NodeStatus[n] # "") /\ NeedsUpdate(new)
                THEN Goto("nodeStatus") /\ loc' = new
                ELSE Goto("labels") /\ UNCHANGED loc
    /\ Calm
    /\ UNCHANGED <<node, resource, locFresh, req, todo, pending, sinceList>>

updateVdoConfigWithNodeStatus ==
    /\ pc = "nodeStatus"
    /\ UpdateStatus(loc, "labels", "retry")

\* Slip: only nodes that are ready are labelled.
ToLabelReady == {n \in Nodes : node[n].present /\ loc.nodes[n] = "ready" /\ ~node[n].label}

ToLabel == {n \in Nodes : node[n].present /\ loc.nodes[n] # "" /\ ~node[n].label}

\* reconcileNodeLabel lists the nodes, then updates one after the other.
ListForLabels ==
    /\ pc = "labels"
    /\ todo' = ToLabel /\ changed' = {} /\ joined' = {}
    /\ Goto("label") /\ Calm
    /\ UNCHANGED <<node, resource, loc, locFresh, req, pending>>

\* validateNode: with a providerID and the label.
validateNode(o) == o.present /\ o.providerID /\ o.label

\* A change of a Node object, and the event it makes; a deleted node is
\* handed over in its last state.
SetNode(n, o) ==
    /\ node' = [node EXCEPT ![n] = o]
    /\ pending' = IF validateNode(IF o.present THEN o ELSE node[n])
                  THEN pending \cup {n} ELSE pending

\* Slip: a failed update of a label is only logged.
LabelErrorLogged == "label"

LabelError == "error"

\* The update of a node that has changed since the list is a conflict.
LabelNode(n) ==
    /\ pc = "label" /\ n \in todo
    /\ todo' = todo \ {n}
    /\ \/ /\ n \notin changed
          /\ SetNode(n, [node[n] EXCEPT !.label = TRUE])
          /\ Goto("label") /\ Calm
       \/ /\ n \in changed
          /\ Goto(LabelError) /\ Calm
          /\ UNCHANGED <<node, pending>>
       \/ /\ Happens("fault") /\ Goto(LabelError)
          /\ UNCHANGED <<node, pending>>
    /\ UNCHANGED <<resource, loc, locFresh, req, sinceList>>

\* The CSI part follows, and may return an error.
Finish ==
    /\ pc = "label" /\ todo = {}
    /\ \/ Goto("idle") /\ Calm
       \/ Goto("retry") /\ Happens("fault")
    /\ UNCHANGED <<node, resource, local, pending, sinceList>>

-----------------------------------------------------------------------------
(* Informers, the process, and the cluster *)

CacheSync ==
    /\ ~cacheFresh
    /\ cache' = status /\ cacheFresh' = TRUE
    /\ requests' = requests \cup {"vdo"}
    /\ Calm
    /\ UNCHANGED <<node, status, local, pending, pc, sinceList>>

NodeEvent(n) ==
    /\ n \in pending
    /\ pending' = pending \ {n} /\ requests' = requests \cup {n}
    /\ Calm
    /\ UNCHANGED <<node, resource, local, pc, sinceList>>

Resync ==
    /\ pc = "idle" /\ requests = {} /\ pending = {}
    /\ requests' = {"vdo"}
    /\ pending' = {n \in Nodes : validateNode(node[n])}
    /\ Calm
    /\ UNCHANGED <<node, resource, local, pc, sinceList>>

Crash ==
    /\ Happens("crash")
    /\ pc' = "idle" /\ requests' = {"vdo"}
    /\ pending' = {n \in Nodes : validateNode(node[n])}
    /\ cache' = status /\ cacheFresh' = TRUE
    /\ UNCHANGED <<node, status, local, sinceList>>

\* The CPI driver sets the providerID and removes the taint.
CpiInitialises(n) ==
    /\ Uninitialised(n) /\ n \in Managed
    /\ SetNode(n, [node[n] EXCEPT !.providerID = TRUE, !.taint = FALSE])
    /\ changed' = changed \cup {n} /\ UNCHANGED joined
    /\ Calm
    /\ UNCHANGED <<resource, local, requests, pc>>

\* A kubelet registers its node, with the taint if it runs with an external
\* cloud provider.
NodeJoins(n) ==
    /\ ~node[n].present /\ Happens("join")
    /\ \E taint \in BOOLEAN : SetNode(n, [NoNode EXCEPT !.present = TRUE, !.taint = taint])
    /\ changed' = changed \cup {n} /\ joined' = joined \cup {n}
    /\ UNCHANGED <<resource, local, requests, pc>>

NodeLeaves(n) ==
    /\ node[n].present /\ Happens("leave")
    /\ SetNode(n, NoNode)
    /\ changed' = changed \cup {n} /\ UNCHANGED joined
    /\ UNCHANGED <<resource, local, requests, pc>>

EditSpec ==
    /\ Happens("edit")
    /\ cacheFresh' = FALSE /\ locFresh' = FALSE
    /\ UNCHANGED <<node, status, cache, loc, req, todo, pending, requests, pc, sinceList>>

-----------------------------------------------------------------------------
Init ==
    /\ node \in [Nodes -> {NoNode, [NoNode EXCEPT !.present = TRUE, !.taint = TRUE],
                           [NoNode EXCEPT !.present = TRUE, !.providerID = TRUE]}]
    /\ status = [phase |-> "", nodes |-> [n \in Nodes |-> ""]]
    /\ cache = status /\ cacheFresh = TRUE
    /\ loc = status /\ locFresh = FALSE
    /\ pending = {} /\ requests = {"vdo"} /\ pc = "idle" /\ req = "vdo"
    /\ todo = {} /\ changed = {} /\ joined = {}
    /\ events = 0

Reconcile ==
    \/ \E r \in Nodes \cup {"vdo"} : Begin(r)
    \/ Drivers \/ updateCPIStatusForError
    \/ reconcileNodeProviderID \/ updateVdoConfigWithNodeStatus
    \/ ListForLabels \/ (\E n \in Nodes : LabelNode(n)) \/ Finish

Environment ==
    \/ CacheSync \/ Resync \/ Crash \/ EditSpec
    \/ \E n \in Nodes : \/ NodeEvent(n) \/ CpiInitialises(n)
                        \/ NodeJoins(n) \/ NodeLeaves(n)

Next == Reconcile \/ Environment

Spec == Init /\ [][Next]_vars

\* The worker takes every request some time (the queue is first in, first
\* out), and the informers deliver; nothing is assumed of the CPI driver, of
\* the resync or of the disturbances.
Fairness ==
    /\ WF_vars(Reconcile)
    /\ \A r \in Nodes \cup {"vdo"} : SF_vars(Begin(r))
    /\ WF_vars(CacheSync)
    /\ \A n \in Nodes : WF_vars(NodeEvent(n))

FairSpec == Spec /\ Fairness

-----------------------------------------------------------------------------
(* Properties *)

Quiescent == pc = "idle" /\ requests = {} /\ pending = {} /\ cacheFresh

\* CPI is only Configured when every node of NodeStatus is ready, also when
\* phases are written by other steps (updateCPIPhase) in between.
ConfiguredMeansReady ==
    status.phase = "Configured" => \A n \in Nodes : status.nodes[n] # "pending"

\* At rest, every node that is recorded and still there has the label without
\* which its later events would be dropped, although labels are written after
\* the status and may meet conflicts.  (A node that was deleted and registered
\* again under its name has lost the label; nothing tells the controller.)
RecordedAreLabelled ==
    Quiescent => \A n \in Nodes \ joined :
                    status.nodes[n] # "" /\ node[n].present => node[n].label

\* A node that no vCenter knows makes every Reconcile fail before it records
\* the others.
Blocked == \E n \in Nodes : Uninitialised(n) /\ n \notin Managed

\* A pending node becomes ready once the CPI driver has set its providerID,
\* without waiting for the resync, however the driver's update of the node
\* falls between the status update, the list and the label.  (A node that was
\* registered again since the list waits for the resync.)
PendingBecomesReady ==
    \A n \in Nodes :
        (status.nodes[n] = "pending" /\ node[n].providerID)
            ~> \/ status.nodes[n] = "ready"
               \/ ~node[n].present \/ n \in joined \/ Blocked

\* With the resync, NodeStatus ends up with exactly the nodes of the cluster
\* (it keeps its last value when there is no node to record).
NodeStatusCurrent ==
    WF_vars(Resync) =>
        <>[](~Blocked /\ (\E n \in Nodes : NodeStatus[n] # "") => status.nodes = NodeStatus)
=============================================================================
