---------------------------- MODULE MatrixConfig ----------------------------
(***************************************************************************)
(* How the compatibility matrix reaches the VDOConfig controller: the      *)
(* ConfigMap compat-matrix-config that vdoctl and users write, the         *)
(* environment variables of the operator's container, the watch on         *)
(* ConfigMaps and updateMatrixInfo, and the CompatibilityConfig controller *)
(* that was meant to write the ConfigMap.                                  *)
(*                                                                         *)
(* A matrix is the number of the write that published it (0: none), so     *)
(* that older and newer matrices can be told apart.  Reconcile is one      *)
(* step: it reads the informer once, and nobody else uses the environment  *)
(* variables.                                                              *)
(***************************************************************************)
EXTENDS Naturals

CONSTANTS
    Modes,        \* how users publish a matrix: "url", "content"
    Events,       \* what else happens: "delete", "crash", "fault", "cr"
    MaxWrites,    \* bound on the matrices published
    MaxEvents,    \* bound on the number of Events
    Absent        \* no ConfigMap

Matrices == 0 .. MaxWrites
Data == [url : Matrices, content : Matrices]
Empty == [url |-> 0, content |-> 0]

ASSUME MatrixAssumption ==
    /\ Modes \subseteq {"url", "content"}
    /\ Events \subseteq {"delete", "crash", "fault", "cr"}
    /\ MaxWrites \in Nat /\ MaxEvents \in Nat
    /\ Absent \notin Data

VARIABLES
    cm,          \* data of the ConfigMap, or Absent
    seen,        \* the informer's copy
    notice,      \* the informer still has to call the handler for seen
    env,         \* MATRIX_CONFIG_URL and MATRIX_CONFIG_CONTENT
    nsKnown,     \* the global VDO_NAMESPACE has been set by a Reconcile
    configured,  \* a VDOConfig exists
    requests,    \* workqueue of the VDOConfig controller
    op,          \* the operator: down, started (informers empty), running
    active,      \* matrix the last successful selection used
    compat,      \* spec.matrixURL of the CompatibilityConfig
    writes, events

vars == <<cm, seen, notice, env, nsKnown, configured, requests, op, active, compat,
          writes, events>>

TypeOK ==
    /\ cm \in Data \cup {Absent} /\ seen \in Data \cup {Absent}
    /\ notice \in BOOLEAN /\ nsKnown \in BOOLEAN /\ configured \in BOOLEAN
    /\ env \in Data
    /\ requests \subseteq {"vdo", "cm", "compat"}
    /\ op \in {"down", "started", "running"}
    /\ active \in Matrices /\ compat \in Matrices
    /\ writes \in Matrices /\ events \in 0 .. MaxEvents

Happens(event) == event \in Events /\ events < MaxEvents /\ events' = events + 1
Calm == UNCHANGED events

-----------------------------------------------------------------------------
(* The operator *)

\* Neither the one nor the other, or both, is an error (0).
getMatrixConfig(e) ==
    IF e.url # 0 /\ e.content = 0 THEN e.url
    ELSE IF e.url = 0 THEN e.content
    ELSE 0

\* Slip: a variable that has a value is kept.
updateMatrixInfoOnce(data, e) ==
    IF data = Absent THEN Empty
    ELSE [url |-> IF e.url # 0 THEN e.url ELSE data.url,
          content |-> IF e.content # 0 THEN e.content ELSE data.content]

\* A key that the ConfigMap lacks leaves its variable as it is.
updateMatrixInfo(data, e) ==
    IF data = Absent THEN Empty
    ELSE [url |-> IF data.url # 0 THEN data.url ELSE e.url,
          content |-> IF data.content # 0 THEN data.content ELSE e.content]

\* A request of the VDOConfig, or of the ConfigMap; ok is the outcome of what
\* follows the selection of the matrix.  An error leaves the request queued.
Reconcile(r) ==
    /\ op = "running" /\ r \in requests \cap {"vdo", "cm"}
    /\ nsKnown' = TRUE
    /\ env' = IF r = "cm" THEN updateMatrixInfo(seen, env) ELSE env
    /\ LET matrix == getMatrixConfig(env')
           selects == ~(r = "cm" /\ seen = Absent) /\ configured /\ matrix # 0
       IN \E ok \in BOOLEAN :
            /\ IF ok THEN Calm ELSE Happens("fault")
            /\ active' = IF selects THEN matrix ELSE active
            /\ requests' = IF selects /\ ok THEN requests \ {r} ELSE requests
    /\ UNCHANGED <<cm, seen, notice, configured, op, compat, writes>>

\* The CompatibilityConfig controller returns at once for a request that has a
\* name or a namespace, as all of them do.
CompatReconcile ==
    /\ op = "running" /\ "compat" \in requests
    /\ requests' = requests \ {"compat"}
    /\ Calm
    /\ UNCHANGED <<cm, seen, notice, env, nsKnown, configured, op, active, compat, writes>>

\* The informer stores the ConfigMap it was sent, and owes its handlers a call.
Watch ==
    /\ op = "running" /\ seen # cm
    /\ seen' = cm /\ notice' = TRUE
    /\ Calm
    /\ UNCHANGED <<cm, env, nsKnown, configured, requests, op, active, compat, writes>>

\* The handler drops the event as long as VDO_NAMESPACE is empty.
Handle ==
    /\ op = "running" /\ notice
    /\ notice' = FALSE
    /\ requests' = IF nsKnown THEN requests \cup {"cm"} ELSE requests
    /\ Calm
    /\ UNCHANGED <<cm, seen, env, nsKnown, configured, op, active, compat, writes>>

\* Every 10 hours the informers hand all they hold to the handlers again.
Resync ==
    /\ op = "running" /\ requests = {} /\ ~notice
    /\ notice' = (seen # Absent)
    /\ requests' = IF configured THEN {"vdo"} ELSE {}
    /\ notice' \/ requests' # {}
    /\ Calm
    /\ UNCHANGED <<cm, seen, env, nsKnown, configured, op, active, compat, writes>>

Crash ==
    /\ op # "down" /\ Happens("crash")
    /\ op' = "down" /\ requests' = {} /\ nsKnown' = FALSE /\ notice' = FALSE
    /\ env' = Empty /\ seen' = Absent
    /\ UNCHANGED <<cm, configured, active, compat, writes>>

\* Slip: no key of the ConfigMap is required.
CanStartAlways == TRUE

\* AUTO_UPGRADE is not optional: without the ConfigMap the container waits.
CanStart == cm # Absent

\* Slip: the container has the matrix that was current when the operator was
\* deployed.
ContainerEnvBaked(data) == [url |-> 1, content |-> 0]

\* The environment of a container that starts.
ContainerEnv(data) == data

Start ==
    /\ op = "down" /\ CanStart
    /\ op' = "started" /\ env' = ContainerEnv(cm)
    /\ Calm
    /\ UNCHANGED <<cm, seen, notice, nsKnown, configured, requests, active, compat, writes>>

\* The initial lists of the informers.
Sync ==
    /\ op = "started"
    /\ op' = "running"
    /\ seen' = cm /\ notice' = (cm # Absent)
    /\ requests' = (IF configured THEN {"vdo"} ELSE {})
                   \cup (IF compat # 0 THEN {"compat"} ELSE {})
    /\ Calm
    /\ UNCHANGED <<cm, env, nsKnown, configured, active, compat, writes>>

-----------------------------------------------------------------------------
(* vdoctl and users *)

Publish == writes < MaxWrites /\ writes' = writes + 1

OneKey(mode) == [Empty EXCEPT ![mode] = writes + 1]

\* updateConfigMap: Update with the one key, which needs the ConfigMap.
updateMatrix ==
    /\ cm # Absent /\ Publish
    /\ \E mode \in Modes : cm' = OneKey(mode)
    /\ Calm
    /\ UNCHANGED <<seen, notice, env, nsKnown, configured, requests, op, active, compat>>

\* CreateConfigMap, unless it exists.
configureMatrix ==
    /\ cm = Absent /\ Publish
    /\ \E mode \in Modes : cm' = OneKey(mode)
    /\ Calm
    /\ UNCHANGED <<seen, notice, env, nsKnown, configured, requests, op, active, compat>>

DeleteConfigMap ==
    /\ cm # Absent /\ Happens("delete")
    /\ cm' = Absent
    /\ UNCHANGED <<seen, notice, env, nsKnown, configured, requests, op, active, compat,
                   writes>>

\* createVDOConfig
createVDOConfig ==
    /\ ~configured
    /\ configured' = TRUE
    /\ requests' = IF op = "running" THEN requests \cup {"vdo"} ELSE requests
    /\ Calm
    /\ UNCHANGED <<cm, seen, notice, env, nsKnown, op, active, compat, writes>>

ApplyCompatibilityConfig ==
    /\ Happens("cr") /\ Publish
    /\ compat' = writes + 1
    /\ requests' = IF op = "running" THEN requests \cup {"compat"} ELSE requests
    /\ UNCHANGED <<cm, seen, notice, env, nsKnown, configured, op, active>>

-----------------------------------------------------------------------------
Init ==
    /\ writes = 0
    /\ cm = Absent /\ seen = Absent /\ notice = FALSE
    /\ env = Empty /\ nsKnown = FALSE /\ configured = FALSE
    /\ requests = {} /\ op = "down" /\ active = 0 /\ compat = 0
    /\ events = 0

Next ==
    \/ \E r \in {"vdo", "cm"} : Reconcile(r)
    \/ CompatReconcile \/ Watch \/ Handle \/ Resync \/ Crash \/ Start \/ Sync
    \/ updateMatrix \/ configureMatrix \/ DeleteConfigMap \/ createVDOConfig
    \/ ApplyCompatibilityConfig

Spec == Init /\ [][Next]_vars

\* The kubelet, the workers (the queue is first in, first out), the watch and
\* the resync keep going; users and disturbances need not.
Fairness ==
    /\ \A r \in {"vdo", "cm"} : WF_vars(Reconcile(r))
    /\ WF_vars(CompatReconcile)
    /\ WF_vars(Watch) /\ WF_vars(Handle) /\ WF_vars(Resync)
    /\ WF_vars(Start) /\ WF_vars(Sync)

FairSpec == Spec /\ Fairness

-----------------------------------------------------------------------------
(* Properties *)

\* The matrix that drivers are selected from ends up being the one of the
\* ConfigMap, although events may be dropped before the first Reconcile
\* (SetupWithManager) and the container's environment may be out of date.
MatrixFollowed == <>[](configured /\ cm # Absent => active = getMatrixConfig(cm))

\* No selection uses an older matrix than an earlier selection did, whether it
\* comes from the environment of a restarted container or from the informer.
NeverOlderMatrix == [][active' >= active]_vars
=============================================================================
