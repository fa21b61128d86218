----------------------------- MODULE CloudConfig -----------------------------
(***************************************************************************)
(* The connection to vCenter: the VsphereCloudConfig controller            *)
(* (controllers/vspherecloudconfig_controller.go), the session cache it    *)
(* shares with the VDOConfig controller (pkg/session), and what the        *)
(* latter takes from both: the vSphere versions that drivers are selected  *)
(* for, the verdict on each VsphereCloudConfig, and the data it renders    *)
(* for the drivers (pkg/drivers).                                          *)
(*                                                                         *)
(* The two workers of the process meet in GetOrCreate, whose steps are the *)
(* calls to vCenter; the lock is held over them.  All resources of a       *)
(* vCenter use the same user, so they share one entry of the cache.  A     *)
(* password stands for all that only a login checks (also the thumbprint). *)
(* The rest of the VDOConfig controller is module VDOConfigReconciler.     *)
(***************************************************************************)
EXTENDS VersionSelection, FiniteSets

CONSTANTS
    Configs,      \* the VsphereCloudConfig resources
    CpiConfigs,   \* spec.cloudProvider.vsphereCloudConfigs, in order
    CsiConfig,    \* spec.storageProvider.vsphereCloudConfig
    Servers,      \* vCenters
    Datacenters,  \* names of datacenters
    DcLists,      \* lists of datacenters that users write
    FirstSpecs,   \* servers and datacenters of the resources at the start
    Passwords, FirstPassword,
    FirstVersion, FirstK8sVersion,
    Events,       \* disturbances a run allows
    MaxEvents,    \* bound on their number
    Absent

\* A datacenter is written by its name or by its inventory path.
Written == {"name", "path"} \X Datacenters

ASSUME CloudConfigAssumption ==
    /\ IsFiniteSet(Configs) /\ CpiConfigs \in Seq(Configs) /\ CsiConfig \in Configs
    /\ DcLists \subseteq Seq(Written)
    /\ FirstSpecs \subseteq [Configs -> [server : Servers, dcs : DcLists]]
    /\ Absent \notin Passwords \cup Configs \cup Servers
    /\ FirstPassword \in Passwords /\ FirstVersion \in VcVersions
    /\ FirstK8sVersion \in K8sVersions
    /\ Events \subseteq {"spec", "secret", "password", "inventory", "upgrade", "k8s", "fault",
                         "crash", "ends"}
    /\ MaxEvents \in Nat

VARIABLES
    vc,        \* the vCenters
    k8s,       \* version of Kubernetes
    config,    \* VsphereCloudConfig resources: spec and status
    secret,    \* passwords in the credential secrets
    queue,     \* requests of the VsphereCloudConfig controller
    queued,    \* the VDOConfig controller has a request
    (* the session cache *)
    cache, lock,
    (* the workers *)
    pc,        \* where each is
    call,      \* arguments of its call of GetOrCreate
    sess,      \* its session
    req,       \* resource of the VsphereCloudConfig controller's request
    fresh,     \* its copy of the resource is of the latest version
    items,     \* copies that the VDOConfig controller works with
    versions,  \* versions of Kubernetes and of the vCenters it has read
    (* what the VDOConfig controller decides and writes *)
    selected,  \* versions of the drivers
    cpiData,   \* CPI secret and configmap: password and datacenters by server
    csiData,   \* CSI secret
    events

cluster == <<vc, k8s, secret>>
sessions == <<cache, lock, call, sess>>
verifier == <<req, fresh>>
outputs == <<selected, cpiData, csiData>>
rollout == <<items, versions, outputs>>
vars == <<cluster, config, queue, queued, sessions, pc, verifier, rollout, events>>

Workers == {"vcc", "vdo"}
CallSteps == {"idle", "lock", "login", "find", "return", "failed"}
VdoSteps == {"select", "cpi", "csi"}
Resource == [server : Servers, dcs : DcLists, status : {"", "verified", "failed"}]
Session == [active : BOOLEAN, dcs : Seq({"path"} \X Datacenters), version : VcVersions]
Section == [password : Passwords, dcs : DcLists]
Versions == {Nothing, SelectionError} \cup DOMAIN CpiMatrix \cup DOMAIN CsiMatrix

TypeOK ==
    /\ vc \in [Servers -> [password : Passwords, dcs : SUBSET Datacenters,
                           version : VcVersions]]
    /\ k8s \in K8sVersions
    /\ config \in [Configs -> Resource]
    /\ secret \in [Configs -> Passwords \cup {Absent}]
    /\ queue \in Seq(Configs) /\ queued \in BOOLEAN
    /\ cache \in [Servers -> Session \cup {Absent}]
    /\ lock \in Workers \cup {Absent}
    /\ pc \in [Workers -> CallSteps \cup VdoSteps] /\ pc["vcc"] \in CallSteps
    /\ call \in [Workers -> [server : Servers, dcs : DcLists, password : Passwords]
                            \cup {Absent}]
    /\ sess \in [Workers -> Session \cup {Absent}]
    /\ req \in Configs \cup {Absent} /\ fresh \in BOOLEAN
    /\ items \in [Configs -> Resource] \cup {Absent}
    /\ versions \in [k8s : K8sVersions, vsphere : Seq(VcVersions)] \cup {Absent}
    /\ selected \in [cpi : Versions, csi : Versions]
    /\ cpiData \in [Servers -> Section \cup {Absent}]
    /\ csiData \in [server : Servers, data : Section] \cup {Absent}
    /\ events \in 0 .. MaxEvents

Happens(event) == event \in Events /\ events < MaxEvents /\ events' = events + 1
Calm == UNCHANGED events

Goto(w, step) == pc' = [pc EXCEPT ![w] = step]

-----------------------------------------------------------------------------
(* GetOrCreate *)

\* InventoryPath of the datacenters that the finder returns.
InventoryPaths(dcs) == [i \in DOMAIN dcs |-> <<"path", dcs[i][2]>>]

\* Slip: any datacenters will do.
SameDatacentersAny(asked, found) == TRUE

\* The datacenters as they are written are compared with inventory paths.
SameDatacenters(asked, found) == asked = found

\* Slip: a cached session is taken to be active.
IsActiveAssumed(s) == TRUE

\* SessionIsActive; its error counts as inactive.
IsActive(s) == s.active

Reusable(s, dcs) == s # Absent /\ IsActive(s) /\ SameDatacenters(dcs, s.dcs)

\* A call of GetOrCreate with these arguments.
Call(w, resource, password) ==
    /\ call' = [call EXCEPT ![w] = [server |-> resource.server, dcs |-> resource.dcs,
                                    password |-> password]]
    /\ Goto(w, "lock")
    /\ UNCHANGED <<cache, lock, sess>>

\* The lock is taken; with a session to reuse it is given back at once.
Lookup(w) ==
    /\ pc[w] = "lock" /\ lock = Absent
    /\ LET s == cache[call[w].server]
       IN \/ /\ Reusable(s, call[w].dcs)
             /\ sess' = [sess EXCEPT ![w] = s]
             /\ Goto(w, "return") /\ Calm
             /\ UNCHANGED lock
          \/ /\ IF Reusable(s, call[w].dcs) THEN Happens("fault") ELSE Calm
             /\ lock' = w
             /\ Goto(w, "login")
             /\ UNCHANGED sess
    /\ UNCHANGED <<cluster, config, queue, queued, cache, call, verifier, rollout>>

\* Whether the login succeeds.
newClient(arguments) == vc[arguments.server].password = arguments.password

\* The user logs in; About.Version is read once.
Login(w) ==
    /\ pc[w] = "login"
    /\ \/ /\ newClient(call[w])
          /\ sess' = [sess EXCEPT ![w] = [active |-> TRUE, dcs |-> <<>>,
                                          version |-> vc[call[w].server].version]]
          /\ Goto(w, "find") /\ Calm
          /\ UNCHANGED lock
       \/ /\ IF newClient(call[w]) THEN Happens("fault") ELSE Calm
          /\ lock' = Absent
          /\ Goto(w, "failed")
          /\ UNCHANGED sess
    /\ UNCHANGED <<cluster, config, queue, queued, cache, call, verifier, rollout>>

\* The datacenters are looked up; the session is stored when all are there.
Find(w) ==
    /\ pc[w] = "find"
    /\ LET s == call[w].server
           asked == call[w].dcs
           new == [sess[w] EXCEPT !.dcs = InventoryPaths(asked)]
           found == sess[w].active /\ \A i \in DOMAIN asked : asked[i][2] \in vc[s].dcs
       IN \/ /\ found
             /\ sess' = [sess EXCEPT ![w] = new]
             /\ cache' = [cache EXCEPT ![s] = new]
             /\ lock' = Absent
             /\ Goto(w, "return") /\ Calm
          \/ /\ IF found THEN Happens("fault") ELSE Calm
             /\ lock' = Absent
             /\ Goto(w, "failed")
             /\ UNCHANGED <<cache, sess>>
    /\ UNCHANGED <<cluster, config, queue, queued, call, verifier, rollout>>

-----------------------------------------------------------------------------
(* The VsphereCloudConfig controller *)

\* The workqueue holds a resource once.
Enqueue(c) == IF \E i \in DOMAIN queue : queue[i] = c THEN queue ELSE Append(queue, c)

\* Slip: an error of the read of the secret is passed over.
NotFoundPassedOver(c) == FALSE

\* fetchVcCredentials finds no secret.
NotFound(c) == secret[c] = Absent

\* Reconcile, up to the session; a missing secret is a failure.
VccBegin ==
    /\ pc["vcc"] = "idle" /\ queue # <<>>
    /\ queue' = Tail(queue)
    /\ LET c == Head(queue)
       IN /\ req' = c /\ fresh' = TRUE
          /\ IF NotFound(c)
             THEN Goto("vcc", "failed") /\ UNCHANGED sessions
             ELSE Call("vcc", config[c], secret[c])
    /\ Calm
    /\ UNCHANGED <<cluster, config, queued, rollout>>

\* Slip: the status is written whatever has become of the resource.
CanWriteAlways == TRUE

\* r.Status().Update is rejected for a copy that is out of date.
CanWrite == fresh

\* Slip: a working session does not clear an earlier failure.
VerdictSticky(ok) == IF ok /\ config[req].status # "failed" THEN "verified" ELSE "failed"

Verdict(ok) == IF ok THEN "verified" ELSE "failed"

\* The end of Reconcile: the status is written, and a failure of the session or
\* of the write is returned.
VccFinish ==
    /\ pc["vcc"] \in {"return", "failed"}
    /\ \E ok \in BOOLEAN, written \in BOOLEAN :
          /\ ok => pc["vcc"] = "return"
          /\ written => CanWrite
          /\ IF (~ok /\ pc["vcc"] = "return") \/ (~written /\ CanWrite) THEN Happens("fault")
             ELSE Calm
          /\ config' = IF written THEN [config EXCEPT ![req].status = Verdict(ok)] ELSE config
          /\ queue' = IF ok /\ written /\ config' = config THEN queue ELSE Enqueue(req)
    /\ Goto("vcc", "idle")
    /\ req' = Absent /\ fresh' = FALSE
    /\ call' = [call EXCEPT !["vcc"] = Absent] /\ sess' = [sess EXCEPT !["vcc"] = Absent]
    /\ UNCHANGED <<cluster, queued, cache, lock, rollout>>

-----------------------------------------------------------------------------
(* The VDOConfig controller *)

\* Without CPI the vCenter of CSI counts; with CPI only those of CPI do.
Listed == IF CpiConfigs = <<>> THEN <<CsiConfig>> ELSE CpiConfigs

\* Reconcile returns an error: the request is queued again.
Retry ==
    /\ Goto("vdo", "idle")
    /\ queued' = TRUE
    /\ items' = Absent /\ versions' = Absent
    /\ UNCHANGED <<cache, lock>>
    /\ call' = [call EXCEPT !["vdo"] = Absent] /\ sess' = [sess EXCEPT !["vdo"] = Absent]

\* The loop of FetchVsphereVersions over the copies of the resources, after some
\* versions: getVcSession for the next one, with fetchVcCredentials.
CredentialsMissing(read) ==
    /\ Len(read.vsphere) < Len(Listed)
    /\ NotFound(Listed[Len(read.vsphere) + 1])

FetchVsphereVersions(copies, read) ==
    /\ items' = copies /\ versions' = read
    /\ IF Len(read.vsphere) = Len(Listed)
       THEN /\ Goto("vdo", "select")
            /\ call' = [call EXCEPT !["vdo"] = Absent] /\ sess' = [sess EXCEPT !["vdo"] = Absent]
            /\ UNCHANGED <<cache, lock>>
       ELSE LET c == Listed[Len(read.vsphere) + 1]
            IN ~NotFound(c) /\ Call("vdo", copies[c], secret[c])

\* Kubernetes' version is read before those of the vCenters.
VdoBegin ==
    /\ pc["vdo"] = "idle" /\ queued
    /\ LET read == [k8s |-> k8s, vsphere |-> <<>>]
       IN \/ CredentialsMissing(read) /\ Retry
          \/ FetchVsphereVersions(config, read) /\ queued' = FALSE
    /\ Calm
    /\ UNCHANGED <<cluster, config, queue, verifier, outputs>>

getVcSession ==
    /\ \/ pc["vdo"] = "failed" /\ Retry
       \/ /\ pc["vdo"] = "return"
          /\ LET read == [versions EXCEPT !.vsphere = Append(@, sess["vdo"].version)]
             IN \/ CredentialsMissing(read) /\ Retry
                \/ FetchVsphereVersions(items, read) /\ UNCHANGED queued
    /\ Calm
    /\ UNCHANGED <<cluster, config, queue, verifier, outputs>>

IsVersion(v) == v \notin {Nothing, SelectionError}

\* What is found replaces CurrentCPIDeployedVersion and CurrentCSIDeployedVersion;
\* without a version of CPI that of CSI is not looked for.
CheckCompatAndRetrieveSpec ==
    /\ pc["vdo"] = "select"
    /\ LET cpi == FetchCpiDeploymentYamls(versions.vsphere, versions.k8s)
           csi == FetchCsiDeploymentYamls(versions.vsphere, versions.k8s)
           cpiFound == CpiConfigs # <<>> /\ IsVersion(cpi)
           csiFound == (CpiConfigs = <<>> \/ cpiFound) /\ IsVersion(csi)
       IN /\ selected' = [cpi |-> IF cpiFound THEN cpi ELSE selected.cpi,
                          csi |-> IF csiFound THEN csi ELSE selected.csi]
          /\ IF csiFound
             THEN /\ Goto("vdo", IF CpiConfigs = <<>> THEN "csi" ELSE "cpi")
                  /\ UNCHANGED <<queued, sessions, items, versions>>
             ELSE Retry
    /\ Calm
    /\ UNCHANGED <<cluster, config, queue, verifier, cpiData, csiData>>

Cpi == {CpiConfigs[i] : i \in DOMAIN CpiConfigs}

verifyVsphereCloudConfig(c) == config[c].status = "verified"

\* Slip: sections are added to what the secret and the configmap have.
AddVCSectionToDataMapKept(s, section) == IF section = Absent THEN cpiData[s] ELSE section

\* AddVCSectionToDataMap and CreateVsphereConfig start from an empty map.
AddVCSectionToDataMap(s, section) == section

\* The section of a vCenter; of two resources for it the later one counts.
SectionOf(s) ==
    LET mine == {i \in DOMAIN CpiConfigs : config[CpiConfigs[i]].server = s}
    IN IF mine = {} THEN Absent
       ELSE LET c == CpiConfigs[CHOOSE i \in mine : \A j \in mine : j <= i]
            IN [password |-> secret[c], dcs |-> config[c].dcs]

\* fetchVsphereCloudConfigItems, the verdict on each, and what is rendered for CPI.
reconcileCPIConfiguration ==
    /\ pc["vdo"] = "cpi"
    /\ IF \A c \in Cpi : verifyVsphereCloudConfig(c) /\ ~NotFound(c)
       THEN /\ cpiData' = [s \in Servers |-> AddVCSectionToDataMap(s, SectionOf(s))]
            /\ Goto("vdo", "csi")
            /\ UNCHANGED <<queued, sessions, items, versions>>
       ELSE Retry /\ UNCHANGED cpiData
    /\ Calm
    /\ UNCHANGED <<cluster, config, queue, verifier, selected, csiData>>

\* The section that CSI gets, in a file that starts empty.
CreateCSISecretConfig(c) ==
    [server |-> config[c].server, data |-> [password |-> secret[c], dcs |-> config[c].dcs]]

\* The same for CSI.
reconcileCSIConfiguration ==
    /\ pc["vdo"] = "csi"
    /\ IF verifyVsphereCloudConfig(CsiConfig) /\ ~NotFound(CsiConfig)
       THEN /\ csiData' = CreateCSISecretConfig(CsiConfig)
            /\ Goto("vdo", "idle")
            /\ items' = Absent /\ versions' = Absent
            /\ UNCHANGED <<queued, sessions>>
       ELSE Retry /\ UNCHANGED csiData
    /\ Calm
    /\ UNCHANGED <<cluster, config, queue, verifier, selected, cpiData>>

-----------------------------------------------------------------------------
(* The rest of the process, the cluster and the vCenters *)

AtRest == queue = <<>> /\ ~queued /\ \A w \in Workers : pc[w] = "idle"

Ended(s) == IF s = Absent THEN Absent ELSE [s EXCEPT !.active = FALSE]

\* Queues that hold every resource, in any order.
AllQueued ==
    {q \in [1 .. Cardinality(Configs) -> Configs] : \A i, j \in DOMAIN q : q[i] = q[j] => i = j}

\* Every 10 hours all resources are handed out again, long after Reconciles have
\* ended; failed ones may wait for their next retry.  By then sessions that nobody
\* used for 30 minutes have ended, which retries (they come more often) and node
\* events prevent.
Resync(ended) ==
    /\ \A w \in Workers : pc[w] = "idle"
    /\ \A i \in DOMAIN queue : config[queue[i]].status = "failed"
    /\ ended => AtRest
    /\ queue' \in {q \in AllQueued : \A i \in DOMAIN queue : q[i] = queue[i]}
    /\ queued' = TRUE
    /\ cache' = IF ended THEN [s \in Servers |-> Ended(cache[s])] ELSE cache
    /\ Calm
    /\ UNCHANGED <<cluster, config, lock, call, sess, pc, verifier, rollout>>

\* vCenter ends a session, for whatever reason.
SessionEnds(s) ==
    /\ cache[s] # Absent /\ cache[s].active /\ Happens("ends")
    /\ cache' = [cache EXCEPT ![s] = Ended(cache[s])]
    /\ UNCHANGED <<cluster, config, queue, queued, lock, call, sess, pc, verifier, rollout>>

Crash ==
    /\ Happens("crash")
    /\ cache' = [s \in Servers |-> Absent] /\ lock' = Absent
    /\ call' = [w \in Workers |-> Absent] /\ sess' = [w \in Workers |-> Absent]
    /\ pc' = [w \in Workers |-> "idle"]
    /\ queue' \in AllQueued /\ queued' = TRUE
    /\ req' = Absent /\ fresh' = FALSE /\ items' = Absent /\ versions' = Absent
    /\ selected' = [cpi |-> Nothing, csi |-> Nothing]
    /\ UNCHANGED <<cluster, config, cpiData, csiData>>

\* vdoctl or kubectl; what the controller has read is out of date.
EditConfig(c) ==
    /\ Happens("spec")
    /\ \E dcs \in DcLists, s \in Servers :
          /\ [config[c] EXCEPT !.dcs = dcs, !.server = s] # config[c]
          /\ config' = [config EXCEPT ![c].dcs = dcs, ![c].server = s]
    /\ queue' = Enqueue(c)
    /\ fresh' = (fresh /\ req # c)
    /\ UNCHANGED <<cluster, queued, sessions, pc, req, rollout>>

\* Secrets are not watched.
ChangeSecret(c) ==
    /\ Happens("secret")
    /\ \E p \in (Passwords \cup {Absent}) \ {secret[c]} : secret' = [secret EXCEPT ![c] = p]
    /\ UNCHANGED <<vc, k8s, config, queue, queued, sessions, pc, verifier, rollout>>

\* The user puts the password of the vCenter into the secret: no new event.
RepairSecret(c) ==
    /\ secret[c] # vc[config[c].server].password
    /\ secret' = [secret EXCEPT ![c] = vc[config[c].server].password]
    /\ Calm
    /\ UNCHANGED <<vc, k8s, config, queue, queued, sessions, pc, verifier, rollout>>

\* Sessions outlive the password they were opened with.
ChangePassword(s) ==
    /\ Happens("password")
    /\ \E p \in Passwords \ {vc[s].password} : vc' = [vc EXCEPT ![s].password = p]
    /\ UNCHANGED <<k8s, secret, config, queue, queued, sessions, pc, verifier, rollout>>

ChangeInventory(s) ==
    /\ Happens("inventory")
    /\ \E d \in Datacenters :
          vc' = [vc EXCEPT ![s].dcs = IF d \in vc[s].dcs THEN vc[s].dcs \ {d}
                                      ELSE vc[s].dcs \cup {d}]
    /\ UNCHANGED <<k8s, secret, config, queue, queued, sessions, pc, verifier, rollout>>

\* An upgrade restarts the vCenter, which ends its sessions.
UpgradeVCenter(s) ==
    /\ Happens("upgrade")
    /\ \E v \in VcVersions \ {vc[s].version} : vc' = [vc EXCEPT ![s].version = v]
    /\ cache' = [cache EXCEPT ![s] = Ended(cache[s])]
    /\ sess' = [w \in Workers |-> IF call[w] # Absent /\ call[w].server = s
                                  THEN Ended(sess[w]) ELSE sess[w]]
    /\ UNCHANGED <<k8s, secret, config, queue, queued, lock, call, pc, verifier, rollout>>

UpgradeKubernetes ==
    /\ Happens("k8s")
    /\ \E v \in K8sVersions \ {k8s} : k8s' = v
    /\ UNCHANGED <<vc, secret, config, queue, queued, sessions, pc, verifier, rollout>>

-----------------------------------------------------------------------------
\* All is right at the start of the operator.
Init ==
    /\ vc \in [Servers -> [password : {FirstPassword}, dcs : {Datacenters},
                           version : {FirstVersion}]]
    /\ k8s = FirstK8sVersion
    /\ \E spec \in FirstSpecs :
          config = [c \in Configs |-> [server |-> spec[c].server, dcs |-> spec[c].dcs,
                                      status |-> ""]]
    /\ secret = [c \in Configs |-> vc[config[c].server].password]
    /\ queue \in AllQueued /\ queued = TRUE
    /\ cache = [s \in Servers |-> Absent] /\ lock = Absent
    /\ pc = [w \in Workers |-> "idle"]
    /\ call = [w \in Workers |-> Absent] /\ sess = [w \in Workers |-> Absent]
    /\ req = Absent /\ fresh = FALSE
    /\ items = Absent /\ versions = Absent
    /\ selected = [cpi |-> Nothing, csi |-> Nothing]
    /\ cpiData = [s \in Servers |-> Absent] /\ csiData = Absent
    /\ events = 0

GetOrCreate(w) == Lookup(w) \/ Login(w) \/ Find(w)
VccReconcile == VccBegin \/ VccFinish
VdoReconcile ==
    \/ VdoBegin \/ getVcSession \/ CheckCompatAndRetrieveSpec
    \/ reconcileCPIConfiguration \/ reconcileCSIConfiguration

Environment ==
    \/ \E c \in Configs : EditConfig(c) \/ ChangeSecret(c) \/ RepairSecret(c)
    \/ \E s \in Servers : \/ SessionEnds(s) \/ ChangePassword(s) \/ ChangeInventory(s)
                          \/ UpgradeVCenter(s)
    \/ (\E ended \in BOOLEAN : Resync(ended)) \/ Crash \/ UpgradeKubernetes

Next == (\E w \in Workers : GetOrCreate(w)) \/ VccReconcile \/ VdoReconcile \/ Environment

Spec == Init /\ [][Next]_vars

\* Both workers go on (the mutex is fair: who waits gets it, and calls to vCenter
\* come back), and resyncs return, also those that find sessions ended.
Fairness ==
    /\ SF_vars(VccReconcile \/ GetOrCreate("vcc"))
    /\ SF_vars(VdoReconcile \/ GetOrCreate("vdo"))
    /\ SF_vars(Resync(FALSE)) /\ SF_vars(Resync(TRUE))

FairSpec == Spec /\ Fairness

-----------------------------------------------------------------------------
(* Properties *)

\* What GetOrCreate is asked to find out about a resource.
Works(c) ==
    LET v == vc[config[c].server]
    IN /\ secret[c] = v.password
       /\ \A i \in DOMAIN config[c].dcs : config[c].dcs[i][2] \in v.dcs
AllWork == \A c \in Configs : Works(c)

\* The session that a caller of GetOrCreate gets has the datacenters it asked
\* for, although resources with different datacenters, and two controllers,
\* share the entry of the cache.
SessionHasDatacenters ==
    \A w \in Workers : pc[w] = "return" => sess[w].dcs = InventoryPaths(call[w].dcs)

\* A resource becomes verified only for the spec that the session was opened
\* for, however the user's edits fall between the read, the calls to vCenter
\* and the update of the status.
VerifiedAsWritten ==
    [][\A c \in Configs :
          config[c].status # "verified" /\ config'[c].status = "verified" =>
              /\ sess["vcc"].dcs = InventoryPaths(config[c].dcs)
              /\ call["vcc"].server = config[c].server]_vars

\* A resource that works ends up verified, although neither its secret nor the
\* vCenter is watched.
WorkingVerified == \A c \in Configs : <>[](Works(c) => config[c].status = "verified")

\* The newest drivers for what Kubernetes and the last vCenter listed are: what is
\* found for a later vCenter replaces what was found for an earlier one.
Wanted ==
    LET last == {vc[config[Listed[Len(Listed)]].server].version}
    IN [cpi |-> NewestCpi(last, k8s), csi |-> NewestCsi(last, k8s)]
Supported == (CpiConfigs = <<>> \/ Wanted.cpi # Nothing) /\ Wanted.csi # Nothing

\* Two resources for which GetOrCreate returns one session, whoever logged in.
ShareSession(c, o) ==
    config[c].server = config[o].server /\ SameDatacenters(config[c].dcs, InventoryPaths(config[o].dcs))

\* What keeps the session of a resource in use: another one that still works and
\* has the same session, or one that fails, whose retries make the VDOConfig
\* controller retry and use all sessions.
KeptInUse(c) ==
    \E o \in Configs \ {c} : (Works(o) /\ ShareSession(c, o)) \/ config[o].status = "failed"

\* A password or a datacenter that has become wrong ends up being shown as a
\* failure of the resource that has it, although sessions outlive it: a session
\* stays in use for ever only for another resource that shares it, while another
\* one fails, or while the drivers are not supported.
BrokenShown ==
    \A c \in Configs :
        <>[](~Works(c) /\ Supported /\ ~KeptInUse(c) => config[c].status = "failed")

\* The drivers end up being the newest ones for the versions that Kubernetes and
\* the last vCenter listed have then, although a version is remembered with the
\* session it was read in, and the versions are read one after the other.
SelectionCurrent ==
    <>[](AllWork /\ Supported =>
          selected = [Wanted EXCEPT !.cpi = IF CpiConfigs = <<>> THEN Nothing ELSE @])

\* The data rendered for the drivers ends up being that of the resources: also
\* when a password is changed, which no watch reports, or a resource is moved to
\* another vCenter.
DriverDataCurrent ==
    <>[](AllWork /\ Supported =>
          /\ csiData = [server |-> config[CsiConfig].server,
                        data |-> [password |-> secret[CsiConfig],
                                  dcs |-> config[CsiConfig].dcs]]
          /\ \A s \in Servers : cpiData[s] # Absent <=> \E c \in Cpi : config[c].server = s
          /\ \A i \in DOMAIN CpiConfigs :
                (\A j \in DOMAIN CpiConfigs : j > i =>
                    config[CpiConfigs[j]].server # config[CpiConfigs[i]].server) =>
                 cpiData[config[CpiConfigs[i]].server] =
                    [password |-> secret[CpiConfigs[i]], dcs |-> config[CpiConfigs[i]].dcs])
=============================================================================
