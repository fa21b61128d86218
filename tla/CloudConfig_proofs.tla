------------------------- MODULE CloudConfig_proofs -------------------------
(***************************************************************************)
(* Proofs about the sessions and the status of VsphereCloudConfigs, for    *)
(* any resources, vCenters, datacenters and matrices and any number of     *)
(* disturbances.                                                           *)
(***************************************************************************)
EXTENDS CloudConfig, VersionSelection_proofs

\* A session has its three fields.
IsSession(s) == s = [active |-> s.active, dcs |-> s.dcs, version |-> s.version]

\* Datacenters that are written as inventory paths.
ArePaths(dcs) == dcs = InventoryPaths(dcs)

\* The steps of a call before its session is stored.
Calling == {"lock", "login", "find"}

\* The workers' variables are functions, and the cached sessions, which either
\* worker may be given, have inventory paths.
SessionsInv ==
    /\ DOMAIN pc = Workers /\ DOMAIN call = Workers /\ DOMAIN sess = Workers
    /\ DOMAIN cache = Servers
    /\ \A s \in Servers : cache[s] # Absent => IsSession(cache[s]) /\ ArePaths(cache[s].dcs)
    /\ \A w \in Workers : pc[w] \in {"find", "return"} => IsSession(sess[w])
    /\ SessionHasDatacenters

\* A step that leaves the workers' calls and the cache alone.
LEMMA SessionsFrame ==
    ASSUME SessionsInv, UNCHANGED <<cache, call, sess>>, DOMAIN pc' = Workers,
           \A w \in Workers : pc'[w] \in {"find", "return"} => pc'[w] = pc[w]
    PROVE  SessionsInv'
BY DEF SessionsInv, SessionHasDatacenters

\* Inventory paths are inventory paths.
LEMMA PathsArePaths == ASSUME NEW dcs PROVE ArePaths(InventoryPaths(dcs))
BY DEF ArePaths, InventoryPaths

\* A session that has ended still has its datacenters.
LEMMA EndedKeeps ==
    ASSUME NEW s, IsSession(s)
    PROVE  IsSession(Ended(s)) /\ Ended(s).dcs = s.dcs
BY DEF IsSession, Ended

\* A worker that moves on, and comes to no session.
LEMMA WorkerMoves ==
    ASSUME SessionsInv, NEW w \in Workers, NEW step, step \notin {"find", "return"},
           Goto(w, step), cache' = cache,
           call' = call \/ \E x : call' = [call EXCEPT ![w] = x],
           sess' = sess \/ \E x : sess' = [sess EXCEPT ![w] = x]
    PROVE  SessionsInv'
<1>1. DOMAIN pc' = Workers /\ DOMAIN call' = Workers /\ DOMAIN sess' = Workers
  BY DEF SessionsInv, Goto
<1>2. pc'[w] \notin {"find", "return"}
  BY DEF SessionsInv, Goto
<1>3. \A v \in Workers \ {w} : pc'[v] = pc[v] /\ call'[v] = call[v] /\ sess'[v] = sess[v]
  BY DEF SessionsInv, Goto
<1>. QED  BY <1>1, <1>2, <1>3 DEF SessionsInv, SessionHasDatacenters

\* Sessions of the cache, and of calls, that end.
LEMMA SessionsEnd ==
    ASSUME SessionsInv, UNCHANGED <<pc, call>>, DOMAIN cache' = Servers, DOMAIN sess' = Workers,
           \A s \in Servers : cache'[s] \in {cache[s], Ended(cache[s])},
           \A w \in Workers : sess'[w] \in {sess[w], Ended(sess[w])}
    PROVE  SessionsInv'
<1>1. ASSUME NEW s \in Servers, cache'[s] # Absent
      PROVE  IsSession(cache'[s]) /\ ArePaths(cache'[s].dcs)
  <2>1. cache[s] # Absent
    BY <1>1 DEF Ended
  <2>. QED  BY <2>1, EndedKeeps DEF SessionsInv
<1>2. ASSUME NEW w \in Workers, pc'[w] \in {"find", "return"}
      PROVE  IsSession(sess'[w]) /\ sess'[w].dcs = sess[w].dcs
  BY <1>2, EndedKeeps DEF SessionsInv
<1>. QED  BY <1>1, <1>2 DEF SessionsInv, SessionHasDatacenters

-----------------------------------------------------------------------------
(* Calls of GetOrCreate *)

\* The versions of the first vCenters, as FetchVsphereVersions has read them.
HasRead(read, n) ==
    /\ read = [k8s |-> read.k8s, vsphere |-> read.vsphere]
    /\ \E S : read.vsphere \in Seq(S)
    /\ Len(read.vsphere) = n

\* The call of the VsphereCloudConfig controller is about its resource.
CallMatches ==
    call["vcc"].server = config[req].server /\ call["vcc"].dcs = config[req].dcs

\* Calls are about vCenters there are; what the VDOConfig controller goes through
\* has resources left, and the VsphereCloudConfig controller asks for what its
\* resource says, as long as its copy is the latest.
CallsInv ==
    /\ DOMAIN pc = Workers /\ DOMAIN call = Workers
    /\ config \in [Configs -> Resource] /\ queue \in Seq(Configs)
    /\ \A w \in Workers : pc[w] \in Calling => call[w].server \in Servers
    /\ pc["vdo"] \in Calling \cup {"return"} =>
          /\ items \in [Configs -> Resource]
          /\ \E n \in 0 .. Len(Listed) - 1 : HasRead(versions, n)
    /\ pc["vcc"] \in Calling \cup {"return", "failed"} => req \in Configs
    /\ pc["vcc"] \in Calling \cup {"return"} /\ fresh => CallMatches

\* What a run of GetOrCreate leaves alone, and where it leads.
LEMMA GetOrCreateFrame ==
    ASSUME CallsInv, NEW w \in Workers, GetOrCreate(w)
    PROVE  /\ UNCHANGED <<call, config, queue, items, versions, req, fresh>>
           /\ pc[w] \in Calling /\ DOMAIN pc' = Workers
           /\ pc'[w] \in {"login", "find", "return", "failed"}
           /\ \A v \in Workers \ {w} : pc'[v] = pc[v]
<1>1. /\ UNCHANGED <<call, config, queue, items, versions, req, fresh>>
      /\ pc[w] \in Calling
  BY DEF GetOrCreate, Lookup, Login, Find, Calling, verifier, rollout
<1>2. \E step \in {"login", "find", "return", "failed"} : Goto(w, step)
  BY DEF GetOrCreate, Lookup, Login, Find
<1>. QED  BY <1>1, <1>2 DEF Goto, CallsInv

\* The resources that are gone through.
LEMMA ListedType == Listed \in Seq(Configs)
BY CloudConfigAssumption DEF Listed

\* A queue with every resource is a queue.
LEMMA AllQueuedType == AllQueued \subseteq Seq(Configs)
<1>1. Cardinality(Configs) \in Nat
  BY CloudConfigAssumption, FS_CardinalityType
<1>. QED  BY <1>1 DEF AllQueued

\* The next round of the loop of FetchVsphereVersions.
LEMMA FetchCalls ==
    ASSUME CallsInv, NEW copies \in [Configs -> Resource], NEW read,
           NEW n \in 0 .. Len(Listed), HasRead(read, n), FetchVsphereVersions(copies, read),
           UNCHANGED <<config, queue, verifier>>
    PROVE  CallsInv'
<1>0. "vcc" \in Workers /\ "vdo" \in Workers /\ "vcc" # "vdo"
  BY DEF Workers
<1>1. items' = copies /\ versions' = read /\ Len(read.vsphere) = n
  BY DEF FetchVsphereVersions, HasRead
<1>2. CASE n = Len(Listed)
  <2>1. Goto("vdo", "select") /\ call' = [call EXCEPT !["vdo"] = Absent]
    BY <1>1, <1>2 DEF FetchVsphereVersions
  <2>2. /\ DOMAIN pc' = Workers /\ DOMAIN call' = Workers
        /\ pc'["vdo"] = "select"
        /\ \A w \in Workers \ {"vdo"} : pc'[w] = pc[w] /\ call'[w] = call[w]
    BY <1>0, <2>1 DEF Goto, CallsInv
  <2>. QED  BY <1>0, <2>2 DEF CallsInv, Calling, CallMatches, verifier
<1>3. CASE n # Len(Listed)
  <2>. DEFINE c == Listed[n + 1]
  <2>1. c \in Configs /\ n \in 0 .. Len(Listed) - 1
    BY <1>3, ListedType
  <2>2. Goto("vdo", "lock")
        /\ call' = [call EXCEPT !["vdo"] = [server |-> copies[c].server, dcs |-> copies[c].dcs,
                                            password |-> secret[c]]]
    BY <1>1, <1>3 DEF FetchVsphereVersions, Call
  <2>3. /\ DOMAIN pc' = Workers /\ DOMAIN call' = Workers
        /\ \A w \in Workers \ {"vdo"} : pc'[w] = pc[w] /\ call'[w] = call[w]
        /\ call'["vdo"].server = copies[c].server
    BY <1>0, <2>2 DEF Goto, CallsInv
  <2>4. copies[c].server \in Servers
    BY <2>1 DEF Resource
  <2>. QED  BY <1>0, <1>1, <2>1, <2>3, <2>4 DEF CallsInv, CallMatches, verifier
<1>. QED  BY <1>2, <1>3

\* Every step keeps the sessions right.
LEMMA SessionsStep ==
    ASSUME SessionsInv, CallsInv, [Next]_vars
    PROVE  SessionsInv'
<1>0. "vcc" \in Workers /\ "vdo" \in Workers
  BY DEF Workers
<1>1. ASSUME NEW w \in Workers, Lookup(w) PROVE SessionsInv'
  <2>. DEFINE s == cache[call[w].server]
  <2>1. CASE /\ Reusable(s, call[w].dcs) /\ sess' = [sess EXCEPT ![w] = s]
             /\ Goto(w, "return")
    <3>1. cache' = cache /\ call' = call /\ call[w].dcs = s.dcs /\ s # Absent
      BY <1>1, <2>1 DEF Lookup, Reusable, SameDatacenters
    <3>2. ArePaths(s.dcs) /\ IsSession(s)
      BY <1>1, <3>1 DEF SessionsInv, CallsInv, Lookup, Calling
    <3>3. pc'[w] = "return" /\ sess'[w] = s /\ sess'[w].dcs = InventoryPaths(call'[w].dcs)
      BY <2>1, <3>1, <3>2 DEF Goto, SessionsInv, ArePaths
    <3>4. \A v \in Workers \ {w} : pc'[v] = pc[v] /\ sess'[v] = sess[v]
      BY <2>1 DEF Goto, SessionsInv
    <3>5. DOMAIN pc' = Workers /\ DOMAIN sess' = Workers
      BY <2>1 DEF Goto, SessionsInv
    <3>. QED  BY <3>1, <3>2, <3>3, <3>4, <3>5 DEF SessionsInv, SessionHasDatacenters
  <2>2. CASE Goto(w, "login") /\ UNCHANGED sess
    BY <1>1, <2>2, WorkerMoves DEF Lookup
  <2>. QED  BY <1>1, <2>1, <2>2 DEF Lookup
<1>2. ASSUME NEW w \in Workers, Login(w) PROVE SessionsInv'
  <2>1. cache' = cache /\ call' = call
    BY <1>2 DEF Login
  <2>2. CASE /\ Goto(w, "find")
             /\ sess' = [sess EXCEPT ![w] = [active |-> TRUE, dcs |-> <<>>,
                                             version |-> vc[call[w].server].version]]
    <3>1. pc'[w] = "find" /\ IsSession(sess'[w])
      BY <2>2 DEF Goto, SessionsInv, IsSession
    <3>2. \A v \in Workers \ {w} : pc'[v] = pc[v] /\ sess'[v] = sess[v]
      BY <2>2 DEF Goto, SessionsInv
    <3>3. DOMAIN pc' = Workers /\ DOMAIN sess' = Workers
      BY <2>2 DEF Goto, SessionsInv
    <3>. QED  BY <2>1, <3>1, <3>2, <3>3 DEF SessionsInv, SessionHasDatacenters
  <2>3. CASE Goto(w, "failed") /\ UNCHANGED sess
    BY <2>1, <2>3, WorkerMoves
  <2>. QED  BY <1>2, <2>2, <2>3 DEF Login
<1>3. ASSUME NEW w \in Workers, Find(w) PROVE SessionsInv'
  <2>. DEFINE s == call[w].server
              new == [sess[w] EXCEPT !.dcs = InventoryPaths(call[w].dcs)]
  <2>1. CASE /\ Goto(w, "return") /\ sess' = [sess EXCEPT ![w] = new]
             /\ cache' = [cache EXCEPT ![s] = new]
    <3>1. call' = call /\ IsSession(sess[w])
      BY <1>3 DEF Find, SessionsInv
    <3>2. IsSession(new) /\ new.dcs = InventoryPaths(call[w].dcs) /\ ArePaths(new.dcs)
      BY <3>1, PathsArePaths DEF IsSession
    <3>. HIDE DEF new
    <3>3. pc'[w] = "return" /\ sess'[w] = new
      BY <2>1 DEF Goto, SessionsInv
    <3>4. \A v \in Workers \ {w} : pc'[v] = pc[v] /\ sess'[v] = sess[v]
      BY <2>1 DEF Goto, SessionsInv
    <3>5. \A t \in Servers : cache'[t] \in {cache[t], new}
      BY <2>1 DEF SessionsInv
    <3>6. DOMAIN pc' = Workers /\ DOMAIN sess' = Workers /\ DOMAIN cache' = Servers
      BY <2>1 DEF Goto, SessionsInv
    <3>. QED
      BY <3>1, <3>2, <3>3, <3>4, <3>5, <3>6 DEF SessionsInv, SessionHasDatacenters
  <2>2. CASE Goto(w, "failed") /\ UNCHANGED <<cache, sess>>
    BY <1>3, <2>2, WorkerMoves DEF Find
  <2>. QED  BY <1>3, <2>1, <2>2 DEF Find
<1>4. CASE VccBegin
  <2>1. CASE Goto("vcc", "failed") /\ UNCHANGED sessions
    BY <1>0, <2>1, WorkerMoves DEF sessions
  <2>2. CASE \E c : Call("vcc", config[c], secret[c])
    BY <1>0, <2>2, WorkerMoves DEF Call
  <2>. QED  BY <1>4, <2>1, <2>2 DEF VccBegin
<1>5. CASE VccFinish
  BY <1>0, <1>5, WorkerMoves DEF VccFinish
<1>6. ASSUME Retry PROVE SessionsInv'
  BY <1>0, <1>6, WorkerMoves DEF Retry
<1>7. ASSUME NEW copies, NEW read, FetchVsphereVersions(copies, read) PROVE SessionsInv'
  <2>1. CASE /\ Goto("vdo", "select") /\ call' = [call EXCEPT !["vdo"] = Absent]
             /\ sess' = [sess EXCEPT !["vdo"] = Absent] /\ UNCHANGED <<cache, lock>>
    BY <1>0, <2>1, WorkerMoves
  <2>2. CASE \E c : Call("vdo", copies[c], secret[c])
    BY <1>0, <2>2, WorkerMoves DEF Call
  <2>. QED  BY <1>7, <2>1, <2>2 DEF FetchVsphereVersions
<1>8. CASE VdoBegin \/ getVcSession
  BY <1>6, <1>7, <1>8 DEF VdoBegin, getVcSession
<1>9. CASE CheckCompatAndRetrieveSpec
  <2>1. CASE \E step \in {"csi", "cpi"} : Goto("vdo", step) /\ UNCHANGED sessions
    BY <1>0, <2>1, WorkerMoves DEF sessions
  <2>. QED  BY <1>6, <1>9, <2>1 DEF CheckCompatAndRetrieveSpec
<1>10. CASE reconcileCPIConfiguration
  <2>1. CASE Goto("vdo", "csi") /\ UNCHANGED sessions
    BY <1>0, <2>1, WorkerMoves DEF sessions
  <2>. QED  BY <1>6, <1>10, <2>1 DEF reconcileCPIConfiguration
<1>11. CASE reconcileCSIConfiguration
  <2>1. CASE Goto("vdo", "idle") /\ UNCHANGED sessions
    BY <1>0, <2>1, WorkerMoves DEF sessions
  <2>. QED  BY <1>6, <1>11, <2>1 DEF reconcileCSIConfiguration
<1>12. ASSUME NEW ended \in BOOLEAN, Resync(ended) PROVE SessionsInv'
  <2>1. /\ UNCHANGED <<pc, call, sess>>
        /\ cache' = cache \/ cache' = [s \in Servers |-> Ended(cache[s])]
    BY <1>12 DEF Resync
  <2>. QED  BY <2>1, SessionsEnd DEF SessionsInv
<1>13. ASSUME NEW s \in Servers, SessionEnds(s) \/ UpgradeVCenter(s) PROVE SessionsInv'
  <2>1. /\ UNCHANGED <<pc, call>> /\ cache' = [cache EXCEPT ![s] = Ended(cache[s])]
        /\ \/ sess' = sess
           \/ sess' = [w \in Workers |-> IF call[w] # Absent /\ call[w].server = s
                                         THEN Ended(sess[w]) ELSE sess[w]]
    BY <1>13 DEF SessionEnds, UpgradeVCenter
  <2>2. \A r \in Servers : cache'[r] \in {cache[r], Ended(cache[r])}
    BY <2>1 DEF SessionsInv
  <2>3. \A w \in Workers : sess'[w] \in {sess[w], Ended(sess[w])}
    BY <2>1 DEF SessionsInv
  <2>4. DOMAIN cache' = Servers /\ DOMAIN sess' = Workers
    BY <2>1 DEF SessionsInv
  <2>. QED  BY <2>1, <2>2, <2>3, <2>4, SessionsEnd
<1>14. CASE Crash
  BY <1>14 DEF Crash, SessionsInv, SessionHasDatacenters
<1>15. ASSUME \/ \E c \in Configs : EditConfig(c) \/ ChangeSecret(c) \/ RepairSecret(c)
              \/ \E s \in Servers : ChangePassword(s) \/ ChangeInventory(s)
              \/ UpgradeKubernetes \/ UNCHANGED vars
       PROVE  SessionsInv'
  <2>1. UNCHANGED <<pc, cache, call, sess>>
    BY <1>15 DEF EditConfig, ChangeSecret, RepairSecret, ChangePassword, ChangeInventory,
                 UpgradeKubernetes, vars, sessions
  <2>. QED  BY <2>1, SessionsFrame DEF SessionsInv
<1>. QED
  BY <1>1, <1>2, <1>3, <1>4, <1>5, <1>8, <1>9, <1>10, <1>11, <1>12, <1>13, <1>14, <1>15
  DEF Next, GetOrCreate, VccReconcile, VdoReconcile, Environment

\* A step of the VDOConfig controller that ends or goes on without a call.
LEMMA NoVdoCall ==
    ASSUME CallsInv, NEW step, step \notin Calling \cup {"return"}, Goto("vdo", step),
           call' = call \/ call' = [call EXCEPT !["vdo"] = Absent],
           UNCHANGED <<config, queue, verifier>>
    PROVE  CallsInv'
<1>1. "vcc" \in Workers /\ "vdo" \in Workers /\ "vcc" # "vdo"
  BY DEF Workers
<1>2. /\ DOMAIN pc' = Workers /\ DOMAIN call' = Workers /\ pc'["vdo"] = step
      /\ \A w \in Workers \ {"vdo"} : pc'[w] = pc[w] /\ call'[w] = call[w]
  BY <1>1 DEF Goto, CallsInv
<1>. QED  BY <1>1, <1>2 DEF CallsInv, CallMatches, verifier

\* A version more has been read.
LEMMA ReadMore ==
    ASSUME NEW read, read = [k8s |-> read.k8s, vsphere |-> read.vsphere], NEW more
    PROVE  [read EXCEPT !.vsphere = more] = [k8s |-> read.k8s, vsphere |-> more]
OBVIOUS

\* A queue that a resource is added to.
LEMMA EnqueueType ==
    ASSUME NEW c \in Configs, queue \in Seq(Configs) PROVE Enqueue(c) \in Seq(Configs)
BY DEF Enqueue

\* Every step keeps the calls about their resources.
LEMMA CallsStep ==
    ASSUME CallsInv, [Next]_vars
    PROVE  CallsInv'
<1>0. "vcc" \in Workers /\ "vdo" \in Workers /\ "vcc" # "vdo"
  BY DEF Workers
<1>1. ASSUME NEW w \in Workers, GetOrCreate(w) PROVE CallsInv'
  <2>1. /\ UNCHANGED <<call, config, queue, items, versions, req, fresh>>
        /\ pc[w] \in Calling /\ DOMAIN pc' = Workers
        /\ \A v \in Workers : v = w \/ pc'[v] = pc[v]
    BY <1>1, GetOrCreateFrame
  <2>2. CASE w = "vcc"
    BY <1>0, <2>1, <2>2 DEF CallsInv, CallMatches
  <2>3. CASE w = "vdo"
    BY <1>0, <2>1, <2>3 DEF CallsInv, CallMatches
  <2>. QED  BY <2>2, <2>3 DEF Workers
<1>2. CASE VccBegin
  <2>. DEFINE c == Head(queue)
  <2>1. c \in Configs /\ queue' \in Seq(Configs) /\ req' = c
    BY <1>2 DEF VccBegin, CallsInv
  <2>2. UNCHANGED <<config, items, versions>>
    BY <1>2 DEF VccBegin, rollout
  <2>3. CASE Goto("vcc", "failed") /\ UNCHANGED sessions
    <3>1. /\ DOMAIN pc' = Workers /\ call' = call /\ pc'["vcc"] = "failed"
          /\ \A w \in Workers \ {"vcc"} : pc'[w] = pc[w]
      BY <1>0, <2>3 DEF Goto, CallsInv, sessions
    <3>. QED  BY <1>0, <2>1, <2>2, <3>1 DEF CallsInv, Calling
  <2>4. CASE Call("vcc", config[c], secret[c])
    <3>1. /\ DOMAIN pc' = Workers /\ DOMAIN call' = Workers /\ pc'["vcc"] = "lock"
          /\ call'["vcc"] = [server |-> config[c].server, dcs |-> config[c].dcs,
                             password |-> secret[c]]
          /\ \A w \in Workers \ {"vcc"} : pc'[w] = pc[w] /\ call'[w] = call[w]
      BY <1>0, <2>4 DEF Call, Goto, CallsInv
    <3>2. config[c].server \in Servers
      BY <2>1 DEF CallsInv, Resource
    <3>. QED  BY <1>0, <2>1, <2>2, <3>1, <3>2 DEF CallsInv, CallMatches
  <2>. QED  BY <1>2, <2>3, <2>4 DEF VccBegin
<1>3. CASE VccFinish
  <2>1. req \in Configs
    BY <1>3 DEF VccFinish, CallsInv
  <2>2. PICK ok \in BOOLEAN, written \in BOOLEAN :
            /\ config' = IF written THEN [config EXCEPT ![req].status = Verdict(ok)] ELSE config
            /\ queue' = IF ok /\ written /\ config' = config THEN queue ELSE Enqueue(req)
    BY <1>3 DEF VccFinish
  <2>3. config' \in [Configs -> Resource]
    BY <2>1, <2>2 DEF CallsInv, Resource, Verdict
  <2>4. queue' \in Seq(Configs)
    BY <2>1, <2>2, EnqueueType DEF CallsInv
  <2>5. /\ DOMAIN pc' = Workers /\ DOMAIN call' = Workers /\ pc'["vcc"] = "idle"
        /\ \A w \in Workers \ {"vcc"} : pc'[w] = pc[w] /\ call'[w] = call[w]
    BY <1>0, <1>3 DEF VccFinish, Goto, CallsInv
  <2>6. UNCHANGED <<items, versions>>
    BY <1>3 DEF VccFinish, rollout
  <2>. QED  BY <1>0, <2>3, <2>4, <2>5, <2>6 DEF CallsInv, Calling
<1>4. ASSUME Retry, UNCHANGED <<config, queue, verifier>> PROVE CallsInv'
  BY <1>4, NoVdoCall DEF Retry, Calling
<1>5. CASE VdoBegin
  <2>. DEFINE read == [k8s |-> k8s, vsphere |-> <<>>]
  <2>1. UNCHANGED <<config, queue, verifier>> /\ config \in [Configs -> Resource]
    BY <1>5 DEF VdoBegin, CallsInv
  <2>2. HasRead(read, 0)
    <3>1. <<>> \in Seq({})
      OBVIOUS
    <3>. QED  BY <3>1 DEF HasRead
  <2>3. 0 \in 0 .. Len(Listed)
    BY ListedType
  <2>. QED  BY <1>4, <1>5, <2>1, <2>2, <2>3, FetchCalls DEF VdoBegin
<1>6. CASE getVcSession
  <2>. DEFINE read == [versions EXCEPT !.vsphere = Append(@, sess["vdo"].version)]
  <2>1. UNCHANGED <<config, queue, verifier>>
    BY <1>6 DEF getVcSession
  <2>2. CASE pc["vdo"] = "return" /\ FetchVsphereVersions(items, read)
    <3>1. PICK n \in 0 .. Len(Listed) - 1 : HasRead(versions, n)
      BY <2>2 DEF CallsInv
    <3>2. items \in [Configs -> Resource] /\ n + 1 \in 0 .. Len(Listed)
      BY <2>2, ListedType DEF CallsInv
    <3>3. HasRead(read, n + 1)
      <4>. DEFINE v == versions.vsphere
                  e == sess["vdo"].version
      <4>1. PICK S : v \in Seq(S)
        BY <3>1 DEF HasRead
      <4>2. v \in Seq(S \cup {e}) /\ Len(v) = n
        BY <3>1, <4>1 DEF HasRead
      <4>3. Append(v, e) \in Seq(S \cup {e}) /\ Len(Append(v, e)) = n + 1
        BY <4>2
      <4>4. read = [k8s |-> versions.k8s, vsphere |-> Append(v, e)]
        BY <3>1, ReadMore DEF HasRead
      <4>. QED  BY <4>3, <4>4 DEF HasRead
    <3>. QED  BY <2>1, <2>2, <3>2, <3>3, FetchCalls
  <2>. QED  BY <1>4, <1>6, <2>1, <2>2 DEF getVcSession
<1>7. CASE CheckCompatAndRetrieveSpec
  <2>1. UNCHANGED <<config, queue, verifier>>
    BY <1>7 DEF CheckCompatAndRetrieveSpec
  <2>2. CASE \E step \in {"csi", "cpi"} : Goto("vdo", step) /\ UNCHANGED sessions
    BY <2>1, <2>2, NoVdoCall DEF sessions, Calling
  <2>. QED  BY <1>4, <1>7, <2>1, <2>2 DEF CheckCompatAndRetrieveSpec
<1>8. CASE reconcileCPIConfiguration
  <2>1. UNCHANGED <<config, queue, verifier>>
    BY <1>8 DEF reconcileCPIConfiguration
  <2>2. CASE Goto("vdo", "csi") /\ UNCHANGED sessions
    BY <2>1, <2>2, NoVdoCall DEF sessions, Calling
  <2>. QED  BY <1>4, <1>8, <2>1, <2>2 DEF reconcileCPIConfiguration
<1>9. CASE reconcileCSIConfiguration
  <2>1. UNCHANGED <<config, queue, verifier>>
    BY <1>9 DEF reconcileCSIConfiguration
  <2>2. CASE Goto("vdo", "idle") /\ UNCHANGED sessions
    BY <2>1, <2>2, NoVdoCall DEF sessions, Calling
  <2>. QED  BY <1>4, <1>9, <2>1, <2>2 DEF reconcileCSIConfiguration
<1>10. ASSUME NEW ended \in BOOLEAN, Resync(ended) PROVE CallsInv'
  <2>1. queue' \in Seq(Configs)
    BY <1>10, AllQueuedType DEF Resync
  <2>2. UNCHANGED <<pc, call, config, items, versions, verifier>>
    BY <1>10 DEF Resync, rollout
  <2>. QED  BY <2>1, <2>2 DEF CallsInv, CallMatches, verifier
<1>11. CASE Crash
  <2>1. queue' \in Seq(Configs)
    BY <1>11, AllQueuedType DEF Crash
  <2>. QED  BY <1>0, <1>11, <2>1 DEF Crash, CallsInv, Calling
<1>12. ASSUME NEW c \in Configs, EditConfig(c) PROVE CallsInv'
  <2>1. PICK dcs \in DcLists, s \in Servers :
            config' = [config EXCEPT ![c].dcs = dcs, ![c].server = s]
    BY <1>12 DEF EditConfig
  <2>2. config' \in [Configs -> Resource] /\ \A d \in Configs \ {c} : config'[d] = config[d]
    BY <2>1 DEF CallsInv, Resource
  <2>3. queue' \in Seq(Configs)
    BY <1>12, EnqueueType DEF EditConfig, CallsInv
  <2>4. UNCHANGED <<pc, call, items, versions, req>> /\ fresh' = (fresh /\ req # c)
    BY <1>12 DEF EditConfig, sessions, rollout
  <2>. QED  BY <2>2, <2>3, <2>4 DEF CallsInv, CallMatches
<1>13. ASSUME \/ \E c \in Configs : ChangeSecret(c) \/ RepairSecret(c)
              \/ \E s \in Servers : \/ SessionEnds(s) \/ ChangePassword(s)
                                    \/ ChangeInventory(s) \/ UpgradeVCenter(s)
              \/ UpgradeKubernetes \/ UNCHANGED vars
       PROVE  CallsInv'
  <2>1. UNCHANGED <<pc, call, config, queue, items, versions, req, fresh>>
    BY <1>13 DEF ChangeSecret, RepairSecret, SessionEnds, ChangePassword, ChangeInventory,
                 UpgradeVCenter, UpgradeKubernetes, vars, sessions, rollout, verifier
  <2>. QED  BY <2>1 DEF CallsInv, CallMatches
<1>. QED
  BY <1>1, <1>2, <1>3, <1>5, <1>6, <1>7, <1>8, <1>9, <1>10, <1>11, <1>12, <1>13
  DEF Next, VccReconcile, VdoReconcile, Environment

\* The resources at the start.
LEMMA FirstConfig == Init => config \in [Configs -> Resource]
<1>. SUFFICES ASSUME Init PROVE config \in [Configs -> Resource]
  OBVIOUS
<1>1. PICK spec \in FirstSpecs :
         config = [c \in Configs |-> [server |-> spec[c].server, dcs |-> spec[c].dcs,
                                     status |-> ""]]
  BY DEF Init
<1>2. spec \in [Configs -> [server : Servers, dcs : DcLists]]
  BY CloudConfigAssumption
<1>. QED  BY <1>1, <1>2 DEF Resource

\* Both invariants hold at the start.
LEMMA InvInit == Init => SessionsInv /\ CallsInv
<1>. SUFFICES ASSUME Init PROVE SessionsInv /\ CallsInv
  OBVIOUS
<1>1. SessionsInv
  BY DEF Init, SessionsInv, SessionHasDatacenters
<1>2. queue \in Seq(Configs)
  BY AllQueuedType DEF Init
<1>3. config \in [Configs -> Resource]
  BY FirstConfig
<1>. QED  BY <1>1, <1>2, <1>3 DEF Init, CallsInv, Calling, Workers

\* A caller of GetOrCreate gets a session with the datacenters it asked for, for
\* any resources and vCenters, although the cache has one entry for all of a
\* vCenter and sessions end at any time.
THEOREM SessionHasDatacentersAlways == Spec => []SessionHasDatacenters
<1>1. SessionsInv => SessionHasDatacenters
  BY DEF SessionsInv
<1>. QED  BY <1>1, InvInit, SessionsStep, CallsStep, PTL DEF Spec

\* A step that makes a resource verified is the end of a Reconcile whose session
\* is for what the resource says then.
LEMMA VerifiedStep ==
    ASSUME SessionsInv, CallsInv, [Next]_vars,
           NEW c \in Configs, config[c].status # "verified", config'[c].status = "verified"
    PROVE  /\ sess["vcc"].dcs = InventoryPaths(config[c].dcs)
           /\ call["vcc"].server = config[c].server
<1>1. CASE VccFinish
  <2>1. PICK ok \in BOOLEAN, written \in BOOLEAN :
            /\ ok => pc["vcc"] = "return"
            /\ written => CanWrite
            /\ config' = IF written THEN [config EXCEPT ![req].status = Verdict(ok)] ELSE config
    BY <1>1 DEF VccFinish
  <2>2. written /\ c = req /\ ok
    BY <2>1 DEF CallsInv, Resource, Verdict
  <2>3. CallMatches /\ pc["vcc"] = "return"
    BY <2>1, <2>2 DEF CallsInv, CanWrite
  <2>. QED  BY <2>2, <2>3 DEF CallMatches, SessionsInv, SessionHasDatacenters, Workers
<1>2. ASSUME NEW d \in Configs, EditConfig(d) PROVE FALSE
  <2>1. PICK dcs \in DcLists, s \in Servers :
            config' = [config EXCEPT ![d].dcs = dcs, ![d].server = s]
    BY <1>2 DEF EditConfig
  <2>. QED  BY <2>1 DEF CallsInv, Resource
<1>3. CASE config' = config
  BY <1>3
<1>. QED
  BY <1>1, <1>2, <1>3
  DEF Next, GetOrCreate, Lookup, Login, Find, VccReconcile, VccBegin, VdoReconcile, VdoBegin,
      getVcSession, CheckCompatAndRetrieveSpec, reconcileCPIConfiguration,
      reconcileCSIConfiguration, Environment, ChangeSecret, RepairSecret, SessionEnds,
      ChangePassword, ChangeInventory, UpgradeVCenter, UpgradeKubernetes, Resync, Crash, vars

\* A resource becomes verified only for the server and the datacenters that the
\* session was opened for, for any resources and any number of edits, restarts
\* and faults between the read of the resource and the update of its status.
THEOREM VerifiedAsWrittenAlways == Spec => VerifiedAsWritten
<1>1. ASSUME SessionsInv, CallsInv, [Next]_vars
      PROVE  [\A c \in Configs :
                 config[c].status # "verified" /\ config'[c].status = "verified" =>
                     /\ sess["vcc"].dcs = InventoryPaths(config[c].dcs)
                     /\ call["vcc"].server = config[c].server]_vars
  BY <1>1, VerifiedStep
<1>. QED  BY <1>1, InvInit, SessionsStep, CallsStep, PTL DEF Spec, VerifiedAsWritten
-----------------------------------------------------------------------------
(* Types *)

Arguments == [server : Servers, dcs : DcLists, password : Passwords]
VersionsRead == [k8s : K8sVersions, vsphere : Seq(VcVersions)]

\* The vCenters, the cluster and the number of disturbances.
ClusterOK ==
    /\ vc \in [Servers -> [password : Passwords, dcs : SUBSET Datacenters,
                           version : VcVersions]]
    /\ k8s \in K8sVersions
    /\ secret \in [Configs -> Passwords \cup {Absent}]
    /\ queued \in BOOLEAN
    /\ events \in 0 .. MaxEvents

\* The calls of GetOrCreate: a worker has arguments, and a session, when its next
\* step uses them.
WorkersOK ==
    /\ cache \in [Servers -> Session \cup {Absent}]
    /\ lock \in Workers \cup {Absent}
    /\ pc \in [Workers -> CallSteps \cup VdoSteps] /\ pc["vcc"] \in CallSteps
    /\ call \in [Workers -> Arguments \cup {Absent}]
    /\ sess \in [Workers -> Session \cup {Absent}]
    /\ \A w \in Workers : /\ pc[w] \in Calling => call[w] \in Arguments
                          /\ pc[w] \in {"find", "return"} => sess[w] \in Session

\* What the controllers hold: the VDOConfig controller has read versions when its
\* next step adds to them or selects drivers for them.
HeldOK ==
    /\ req \in Configs \cup {Absent} /\ fresh \in BOOLEAN
    /\ items \in [Configs -> Resource] \cup {Absent}
    /\ versions \in VersionsRead \cup {Absent}
    /\ pc["vdo"] \in Calling \cup {"return", "select"} => versions \in VersionsRead

\* What the VDOConfig controller decides and writes.
OutputsOK ==
    /\ selected \in [cpi : Versions, csi : Versions]
    /\ cpiData \in [Servers -> Section \cup {Absent}]
    /\ csiData \in [server : Servers, data : Section] \cup {Absent}

TypeInv == ClusterOK /\ WorkersOK /\ HeldOK /\ OutputsOK

\* The type invariant is the conjunction of its parts.
LEMMA TypeParts == CallsInv /\ TypeInv => TypeOK
BY DEF CallsInv, TypeInv, ClusterOK, WorkersOK, HeldOK, OutputsOK, TypeOK, Arguments,
       VersionsRead
\* Events are counted up to their bound.
LEMMA EventsStep ==
    ASSUME [Next]_vars PROVE events' = events \/ (events < MaxEvents /\ events' = events + 1)
BY DEF Next, GetOrCreate, Lookup, Login, Find, VccReconcile, VccBegin, VccFinish, VdoReconcile,
       VdoBegin, getVcSession, CheckCompatAndRetrieveSpec, reconcileCPIConfiguration,
       reconcileCSIConfiguration, Environment, EditConfig, ChangeSecret, RepairSecret,
       SessionEnds, ChangePassword, ChangeInventory, UpgradeVCenter, UpgradeKubernetes, Resync,
       Crash, Happens, Calm, vars

\* Who queues a request of the VDOConfig controller, or takes it.
LEMMA QueuedStep ==
    ASSUME [Next]_vars PROVE queued' = queued \/ queued' = TRUE \/ queued' = FALSE
BY DEF Next, GetOrCreate, Lookup, Login, Find, VccReconcile, VccBegin, VccFinish, VdoReconcile,
       VdoBegin, getVcSession, CheckCompatAndRetrieveSpec, reconcileCPIConfiguration,
       reconcileCSIConfiguration, Retry, Environment, EditConfig, ChangeSecret, RepairSecret,
       SessionEnds, ChangePassword, ChangeInventory, UpgradeVCenter, UpgradeKubernetes, Resync,
       Crash, vars

\* Every step keeps the types of the vCenters and of the cluster.
LEMMA ClusterStep ==
    ASSUME ClusterOK, CallsInv, [Next]_vars
    PROVE  ClusterOK'
<1>1. events' \in 0 .. MaxEvents
  BY EventsStep, CloudConfigAssumption DEF ClusterOK
<1>2. queued' \in BOOLEAN
  BY QueuedStep DEF ClusterOK
<1>3. ASSUME NEW s \in Servers, ChangePassword(s) PROVE ClusterOK'
  <2>1. PICK p \in Passwords : vc' = [vc EXCEPT ![s].password = p]
    BY <1>3 DEF ChangePassword
  <2>2. UNCHANGED <<k8s, secret>>
    BY <1>3 DEF ChangePassword
  <2>. QED  BY <1>1, <1>2, <2>1, <2>2 DEF ClusterOK
<1>4. ASSUME NEW s \in Servers, ChangeInventory(s) PROVE ClusterOK'
  <2>1. PICK d \in Datacenters :
           vc' = [vc EXCEPT ![s].dcs = IF d \in vc[s].dcs THEN vc[s].dcs \ {d}
                                       ELSE vc[s].dcs \cup {d}]
    BY <1>4 DEF ChangeInventory
  <2>2. UNCHANGED <<k8s, secret>>
    BY <1>4 DEF ChangeInventory
  <2>. QED  BY <1>1, <1>2, <2>1, <2>2 DEF ClusterOK
<1>5. ASSUME NEW s \in Servers, UpgradeVCenter(s) PROVE ClusterOK'
  <2>1. PICK v \in VcVersions : vc' = [vc EXCEPT ![s].version = v]
    BY <1>5 DEF UpgradeVCenter
  <2>2. UNCHANGED <<k8s, secret>>
    BY <1>5 DEF UpgradeVCenter
  <2>. QED  BY <1>1, <1>2, <2>1, <2>2 DEF ClusterOK
<1>6. CASE UpgradeKubernetes
  BY <1>1, <1>2, <1>6 DEF UpgradeKubernetes, ClusterOK
<1>7. ASSUME NEW c \in Configs, ChangeSecret(c) PROVE ClusterOK'
  BY <1>1, <1>2, <1>7 DEF ChangeSecret, ClusterOK
<1>8. ASSUME NEW c \in Configs, RepairSecret(c) PROVE ClusterOK'
  <2>1. config[c].server \in Servers
    BY DEF CallsInv, Resource
  <2>2. vc[config[c].server].password \in Passwords
    BY <2>1 DEF ClusterOK
  <2>. QED  BY <1>1, <1>2, <1>8, <2>2 DEF RepairSecret, ClusterOK
<1>9. ASSUME UNCHANGED cluster PROVE ClusterOK'
  BY <1>1, <1>2, <1>9 DEF cluster, ClusterOK
<1>10. \/ UNCHANGED cluster \/ UpgradeKubernetes
       \/ \E s \in Servers : ChangePassword(s) \/ ChangeInventory(s) \/ UpgradeVCenter(s)
       \/ \E c \in Configs : ChangeSecret(c) \/ RepairSecret(c)
  BY DEF Next, GetOrCreate, Lookup, Login, Find, VccReconcile, VccBegin, VccFinish,
         VdoReconcile, VdoBegin, getVcSession, CheckCompatAndRetrieveSpec,
         reconcileCPIConfiguration, reconcileCSIConfiguration, Environment, EditConfig,
         SessionEnds, Resync, Crash, vars
<1>. QED  BY <1>3, <1>4, <1>5, <1>6, <1>7, <1>8, <1>9, <1>10

\* What a selection returns is of the matrix.
LEMMA OutcomeType ==
    ASSUME NEW section, NEW hits, NEW result, Outcome(section, hits, result),
           \A i \in DOMAIN hits : hits[i] \subseteq DOMAIN section
    PROVE  result \in {Nothing, SelectionError} \cup DOMAIN section
BY DEF Outcome

\* The versions of the drivers are versions of the matrix.
LEMMA SelectionType ==
    ASSUME NEW vspheres \in Seq(VcVersions), NEW kube \in K8sVersions
    PROVE  FetchCpiDeploymentYamls(vspheres, kube) \in Versions
           /\ FetchCsiDeploymentYamls(vspheres, kube) \in Versions
<1>. DEFINE cpi == CpiHits(vspheres, kube)
            csi == CsiHits(vspheres, kube)
<1>1. \A i \in DOMAIN cpi : cpi[i] \subseteq DOMAIN CpiMatrix
  BY DEF CpiHits, SuitsCpi
<1>2. \A i \in DOMAIN csi : csi[i] \subseteq DOMAIN CsiMatrix
  BY DEF CsiHits, SuitsCsi
<1>3. /\ Outcome(CpiMatrix, cpi, FetchCpiDeploymentYamls(vspheres, kube))
      /\ Outcome(CsiMatrix, csi, FetchCsiDeploymentYamls(vspheres, kube))
  BY SelectionOutcome
<1>. HIDE DEF cpi, csi
<1>. QED  BY <1>1, <1>2, <1>3, OutcomeType DEF Versions

\* A section of the data for CPI is that of a resource.
LEMMA SectionType ==
    ASSUME config \in [Configs -> Resource], secret \in [Configs -> Passwords \cup {Absent}],
           \A c \in Cpi : ~NotFound(c), NEW s \in Servers
    PROVE  SectionOf(s) \in Section \cup {Absent}
<1>. DEFINE mine == {i \in DOMAIN CpiConfigs : config[CpiConfigs[i]].server = s}
            last == CHOOSE i \in mine : \A j \in mine : j <= i
            c == CpiConfigs[last]
<1>1. CASE mine = {}
  BY <1>1 DEF SectionOf
<1>2. CASE mine # {}
  <2>1. \E i \in mine : \A j \in mine : j <= i
    <3>1. mine \subseteq 1 .. Len(CpiConfigs) /\ Len(CpiConfigs) \in Nat
      BY CloudConfigAssumption
    <3>. HIDE DEF mine
    <3>. QED  BY <1>2, <3>1, Largest
  <2>2. last \in mine
    BY <2>1
  <2>3. SectionOf(s) = [password |-> secret[c], dcs |-> config[c].dcs]
    BY <1>2 DEF SectionOf
  <2>. HIDE DEF last
  <2>4. c \in Configs /\ c \in Cpi
    BY <2>2, CloudConfigAssumption DEF Cpi
  <2>. HIDE DEF c
  <2>5. secret[c] \in Passwords /\ config[c].dcs \in DcLists
    BY <2>4 DEF NotFound, Resource
  <2>. QED  BY <2>3, <2>5 DEF Section
<1>. QED  BY <1>1, <1>2

\* Every step keeps the types of what the VDOConfig controller decides and writes.
LEMMA OutputsStep ==
    ASSUME TypeInv, CallsInv, [Next]_vars
    PROVE  OutputsOK'
<1>1. CASE CheckCompatAndRetrieveSpec
  <2>. DEFINE cpi == FetchCpiDeploymentYamls(versions.vsphere, versions.k8s)
              csi == FetchCsiDeploymentYamls(versions.vsphere, versions.k8s)
  <2>1. versions.vsphere \in Seq(VcVersions) /\ versions.k8s \in K8sVersions
    BY <1>1 DEF CheckCompatAndRetrieveSpec, TypeInv, HeldOK, VersionsRead
  <2>2. cpi \in Versions /\ csi \in Versions
    BY <2>1, SelectionType
  <2>3. \E x \in {cpi, selected.cpi}, y \in {csi, selected.csi} :
           selected' = [cpi |-> x, csi |-> y]
    BY <1>1 DEF CheckCompatAndRetrieveSpec
  <2>. HIDE DEF cpi, csi
  <2>4. selected' \in [cpi : Versions, csi : Versions]
    BY <2>2, <2>3 DEF TypeInv, OutputsOK
  <2>5. UNCHANGED <<cpiData, csiData>>
    BY <1>1 DEF CheckCompatAndRetrieveSpec
  <2>. QED  BY <2>4, <2>5 DEF TypeInv, OutputsOK
<1>2. CASE reconcileCPIConfiguration
  <2>1. UNCHANGED <<selected, csiData>>
    BY <1>2 DEF reconcileCPIConfiguration
  <2>2. CASE cpiData' = [s \in Servers |-> AddVCSectionToDataMap(s, SectionOf(s))]
             /\ \A c \in Cpi : ~NotFound(c)
    <3>1. \A s \in Servers : SectionOf(s) \in Section \cup {Absent}
      BY <2>2, SectionType DEF TypeInv, ClusterOK, CallsInv
    <3>2. cpiData' \in [Servers -> Section \cup {Absent}]
      BY <2>2, <3>1 DEF AddVCSectionToDataMap
    <3>. QED  BY <2>1, <3>2 DEF TypeInv, OutputsOK
  <2>3. CASE UNCHANGED cpiData
    BY <2>1, <2>3 DEF TypeInv, OutputsOK
  <2>. QED  BY <1>2, <2>2, <2>3 DEF reconcileCPIConfiguration
<1>3. CASE reconcileCSIConfiguration
  <2>1. UNCHANGED <<selected, cpiData>>
    BY <1>3 DEF reconcileCSIConfiguration
  <2>2. CASE csiData' = CreateCSISecretConfig(CsiConfig) /\ ~NotFound(CsiConfig)
    <3>1. secret[CsiConfig] \in Passwords
      BY <2>2, CloudConfigAssumption DEF NotFound, TypeInv, ClusterOK
    <3>2. config[CsiConfig].dcs \in DcLists /\ config[CsiConfig].server \in Servers
      BY CloudConfigAssumption DEF CallsInv, Resource
    <3>3. csiData' \in [server : Servers, data : Section]
      BY <2>2, <3>1, <3>2 DEF CreateCSISecretConfig, Section
    <3>. QED  BY <2>1, <3>3 DEF TypeInv, OutputsOK
  <2>3. CASE UNCHANGED csiData
    BY <2>1, <2>3 DEF TypeInv, OutputsOK
  <2>. QED  BY <1>3, <2>2, <2>3 DEF reconcileCSIConfiguration
<1>4. CASE Crash
  BY <1>4 DEF Crash, TypeInv, OutputsOK, Versions
<1>5. ASSUME UNCHANGED outputs PROVE OutputsOK'
  BY <1>5 DEF outputs, TypeInv, OutputsOK
<1>6. \/ UNCHANGED outputs \/ Crash \/ CheckCompatAndRetrieveSpec
      \/ reconcileCPIConfiguration \/ reconcileCSIConfiguration
  BY DEF Next, GetOrCreate, Lookup, Login, Find, VccReconcile, VccBegin, VccFinish,
         VdoReconcile, VdoBegin, getVcSession, Environment, EditConfig, ChangeSecret,
         RepairSecret, SessionEnds, ChangePassword, ChangeInventory, UpgradeVCenter,
         UpgradeKubernetes, Resync, vars, rollout
<1>. QED  BY <1>1, <1>2, <1>3, <1>4, <1>5, <1>6
\* Datacenters as vCenter gives them.
LEMMA PathsType ==
    ASSUME NEW dcs \in DcLists PROVE InventoryPaths(dcs) \in Seq({"path"} \X Datacenters)
<1>1. dcs \in Seq(Written)
  BY CloudConfigAssumption
<1>2. \A x \in Written : <<"path", x[2]>> \in {"path"} \X Datacenters
  BY DEF Written
<1>3. DOMAIN dcs = 1 .. Len(dcs) /\ \A i \in 1 .. Len(dcs) : dcs[i] \in Written
  BY <1>1
<1>. QED  BY <1>1, <1>2, <1>3 DEF InventoryPaths

\* A session that has ended is a session.
LEMMA EndedType ==
    /\ \A s \in Session : Ended(s) \in Session
    /\ \A s \in Session \cup {Absent} : Ended(s) \in Session \cup {Absent}
BY DEF Ended, Session

\* One worker makes a step, to where it has the arguments and the session it needs.
LEMMA WorkerSteps ==
    ASSUME WorkersOK, NEW w \in Workers,
           NEW step \in CallSteps \cup VdoSteps, w = "vcc" => step \in CallSteps, Goto(w, step),
           cache' \in [Servers -> Session \cup {Absent}], lock' \in Workers \cup {Absent},
           NEW a \in Arguments \cup {Absent}, call' = [call EXCEPT ![w] = a],
           NEW t \in Session \cup {Absent}, sess' = [sess EXCEPT ![w] = t],
           step \in Calling => a \in Arguments,
           step \in {"find", "return"} => t \in Session
    PROVE  WorkersOK'
<1>1. /\ pc' \in [Workers -> CallSteps \cup VdoSteps] /\ pc'[w] = step
      /\ \A v \in Workers \ {w} : pc'[v] = pc[v]
  BY DEF WorkersOK, Goto
<1>2. /\ call' \in [Workers -> Arguments \cup {Absent}] /\ call'[w] = a
      /\ \A v \in Workers \ {w} : call'[v] = call[v]
  BY DEF WorkersOK
<1>3. /\ sess' \in [Workers -> Session \cup {Absent}] /\ sess'[w] = t
      /\ \A v \in Workers \ {w} : sess'[v] = sess[v]
  BY DEF WorkersOK
<1>4. pc'["vcc"] \in CallSteps
  BY <1>1 DEF WorkersOK, Workers
<1>. QED  BY <1>1, <1>2, <1>3, <1>4 DEF WorkersOK

\* The same for a worker that has no use for arguments or a session.
LEMMA WorkerLeaves ==
    ASSUME WorkersOK, NEW w \in Workers,
           NEW step \in (CallSteps \cup VdoSteps) \ (Calling \cup {"return"}),
           w = "vcc" => step \in CallSteps, Goto(w, step),
           cache' = cache, lock' \in Workers \cup {Absent},
           call' = call \/ call' = [call EXCEPT ![w] = Absent],
           sess' = sess \/ sess' = [sess EXCEPT ![w] = Absent]
    PROVE  WorkersOK'
<1>1. call = [call EXCEPT ![w] = call[w]] /\ call[w] \in Arguments \cup {Absent}
  BY DEF WorkersOK
<1>2. sess = [sess EXCEPT ![w] = sess[w]] /\ sess[w] \in Session \cup {Absent}
  BY DEF WorkersOK
<1>3. PICK a \in Arguments \cup {Absent} : call' = [call EXCEPT ![w] = a]
  BY <1>1
<1>4. PICK t \in Session \cup {Absent} : sess' = [sess EXCEPT ![w] = t]
  BY <1>2
<1>5. step \notin Calling /\ step \notin {"find", "return"} /\ step \in CallSteps \cup VdoSteps
  BY DEF Calling
<1>6. cache' \in [Servers -> Session \cup {Absent}]
  BY DEF WorkersOK
<1>. QED  BY <1>3, <1>4, <1>5, <1>6, WorkerSteps

\* A call of GetOrCreate for a resource whose secret there is.
LEMMA CallType ==
    ASSUME WorkersOK, ClusterOK, NEW w \in Workers, NEW r \in Resource, NEW c \in Configs,
           ~NotFound(c), Call(w, r, secret[c])
    PROVE  WorkersOK'
<1>. DEFINE a == [server |-> r.server, dcs |-> r.dcs, password |-> secret[c]]
<1>1. secret[c] \in Passwords /\ r.server \in Servers /\ r.dcs \in DcLists
  BY DEF ClusterOK, NotFound, Resource
<1>2. a \in Arguments
  BY <1>1 DEF Arguments
<1>3. call' = [call EXCEPT ![w] = a] /\ Goto(w, "lock") /\ UNCHANGED <<cache, lock, sess>>
  BY DEF Call
<1>4. sess' = [sess EXCEPT ![w] = sess[w]] /\ sess[w] \in Session \cup {Absent}
  BY <1>3 DEF WorkersOK
<1>5. cache' \in [Servers -> Session \cup {Absent}] /\ lock' \in Workers \cup {Absent}
  BY <1>3 DEF WorkersOK
<1>6. "lock" \in CallSteps /\ "lock" \notin {"find", "return"}
  BY DEF CallSteps
<1>. HIDE DEF a
<1>. QED  BY <1>2, <1>3, <1>4, <1>5, <1>6, WorkerSteps

\* The next round of the loop of FetchVsphereVersions, for all it changes.
LEMMA FetchType ==
    ASSUME TypeInv, CallsInv, NEW copies \in [Configs -> Resource], NEW read \in VersionsRead,
           Len(read.vsphere) <= Len(Listed), FetchVsphereVersions(copies, read),
           UNCHANGED verifier
    PROVE  WorkersOK' /\ HeldOK'
<1>0. "vdo" \in Workers /\ "vdo" # "vcc"
  BY DEF Workers
<1>1. WorkersOK'
  <2>1. CASE /\ Goto("vdo", "select") /\ call' = [call EXCEPT !["vdo"] = Absent]
             /\ sess' = [sess EXCEPT !["vdo"] = Absent] /\ UNCHANGED <<cache, lock>>
    BY <1>0, <2>1, WorkerLeaves DEF TypeInv, WorkersOK, VdoSteps, Calling
  <2>2. CASE Len(read.vsphere) # Len(Listed)
    <3>. DEFINE c == Listed[Len(read.vsphere) + 1]
    <3>1. Len(read.vsphere) \in Nat
      BY DEF VersionsRead
    <3>2. c \in Configs
      BY <2>2, <3>1, ListedType
    <3>3. ~NotFound(c) /\ Call("vdo", copies[c], secret[c])
      BY <2>2 DEF FetchVsphereVersions
    <3>. HIDE DEF c
    <3>. QED  BY <1>0, <3>2, <3>3, CallType DEF TypeInv
  <2>. QED  BY <2>1, <2>2 DEF FetchVsphereVersions
<1>2. items' = copies /\ versions' = read
  BY DEF FetchVsphereVersions
<1>. QED  BY <1>1, <1>2 DEF TypeInv, HeldOK, verifier
\* The steps of GetOrCreate keep the types of the sessions.
LEMMA GetOrCreateType ==
    ASSUME WorkersOK, ClusterOK, NEW w \in Workers, GetOrCreate(w)
    PROVE  WorkersOK'
<1>1. pc[w] \in Calling /\ call' = call
  BY DEF GetOrCreate, Lookup, Login, Find, Calling
<1>2. call[w] \in Arguments /\ call' = [call EXCEPT ![w] = call[w]]
  BY <1>1 DEF WorkersOK
<1>3. call[w].server \in Servers /\ call[w].dcs \in DcLists
  BY <1>2 DEF Arguments
<1>4. sess = [sess EXCEPT ![w] = sess[w]] /\ sess[w] \in Session \cup {Absent}
  BY DEF WorkersOK
<1>5. {"login", "find", "return", "failed"} \subseteq CallSteps
  BY DEF CallSteps
<1>6. ASSUME NEW step \in {"login", "find", "return", "failed"}, Goto(w, step),
             cache' \in [Servers -> Session \cup {Absent}], lock' \in Workers \cup {Absent},
             NEW t \in Session \cup {Absent}, sess' = [sess EXCEPT ![w] = t],
             step \in {"find", "return"} => t \in Session
      PROVE  WorkersOK'
  BY <1>2, <1>5, <1>6, WorkerSteps
<1>7. ASSUME NEW step \in {"login", "failed"}, Goto(w, step), UNCHANGED <<cache, sess>>,
             lock' \in {w, Absent}
      PROVE  WorkersOK'
  BY <1>4, <1>6, <1>7 DEF WorkersOK
<1>8. CASE Lookup(w)
  <2>. DEFINE s == cache[call[w].server]
  <2>1. CASE /\ Reusable(s, call[w].dcs) /\ sess' = [sess EXCEPT ![w] = s]
             /\ Goto(w, "return") /\ UNCHANGED <<cache, lock>>
    <3>1. s \in Session
      BY <1>3, <2>1 DEF Reusable, WorkersOK
    <3>. HIDE DEF s
    <3>. QED  BY <1>6, <2>1, <3>1 DEF WorkersOK
  <2>2. CASE lock' = w /\ Goto(w, "login") /\ UNCHANGED <<cache, sess>>
    BY <1>7, <2>2
  <2>. QED  BY <1>8, <2>1, <2>2 DEF Lookup
<1>9. CASE Login(w)
  <2>. DEFINE t == [active |-> TRUE, dcs |-> <<>>, version |-> vc[call[w].server].version]
  <2>1. CASE sess' = [sess EXCEPT ![w] = t] /\ Goto(w, "find") /\ UNCHANGED <<cache, lock>>
    <3>1. vc[call[w].server].version \in VcVersions
      BY <1>3 DEF ClusterOK
    <3>2. t \in Session
      BY <3>1 DEF Session
    <3>. HIDE DEF t
    <3>. QED  BY <1>6, <2>1, <3>2 DEF WorkersOK
  <2>2. CASE lock' = Absent /\ Goto(w, "failed") /\ UNCHANGED <<cache, sess>>
    BY <1>7, <2>2
  <2>. QED  BY <1>9, <2>1, <2>2 DEF Login
<1>10. CASE Find(w)
  <2>. DEFINE s == call[w].server
              new == [sess[w] EXCEPT !.dcs = InventoryPaths(call[w].dcs)]
  <2>1. CASE /\ sess' = [sess EXCEPT ![w] = new] /\ cache' = [cache EXCEPT ![s] = new]
             /\ lock' = Absent /\ Goto(w, "return")
    <3>1. sess[w] \in Session
      BY <1>10 DEF Find, WorkersOK
    <3>2. new \in Session
      BY <1>3, <3>1, PathsType DEF Session
    <3>. HIDE DEF new
    <3>3. cache' \in [Servers -> Session \cup {Absent}]
      BY <1>3, <2>1, <3>2 DEF WorkersOK
    <3>. QED  BY <1>6, <2>1, <3>2, <3>3
  <2>2. CASE lock' = Absent /\ Goto(w, "failed") /\ UNCHANGED <<cache, sess>>
    BY <1>7, <2>2
  <2>. QED  BY <1>10, <2>1, <2>2 DEF Find
<1>. QED  BY <1>8, <1>9, <1>10 DEF GetOrCreate

\* Every step keeps the types of what the workers hold.
LEMMA WorkersStep ==
    ASSUME TypeInv, CallsInv, [Next]_vars
    PROVE  WorkersOK' /\ HeldOK'
<1>0. "vcc" \in Workers /\ "vdo" \in Workers /\ "vcc" # "vdo"
  BY DEF Workers
<1>. USE DEF TypeInv
<1>1. ASSUME NEW w \in Workers, GetOrCreate(w) PROVE WorkersOK' /\ HeldOK'
  <2>1. WorkersOK'
    BY <1>1, GetOrCreateType
  <2>2. UNCHANGED <<items, versions, req, fresh>>
        /\ (pc'["vdo"] = pc["vdo"] \/ pc["vdo"] \in Calling)
    BY <1>0, <1>1, GetOrCreateFrame
  <2>. QED  BY <2>1, <2>2 DEF HeldOK
<1>2. CASE VccBegin
  <2>. DEFINE c == Head(queue)
  <2>1. c \in Configs /\ req' = c /\ fresh' = TRUE /\ UNCHANGED <<items, versions>>
    BY <1>2 DEF VccBegin, CallsInv, rollout
  <2>2. CASE Goto("vcc", "failed") /\ UNCHANGED sessions
    <3>1. WorkersOK'
      BY <1>0, <2>2, WorkerLeaves DEF sessions, WorkersOK, CallSteps, Calling
    <3>2. pc'["vdo"] = pc["vdo"]
      BY <1>0, <2>2 DEF Goto, WorkersOK
    <3>. QED  BY <2>1, <3>1, <3>2 DEF HeldOK
  <2>3. CASE ~NotFound(c) /\ Call("vcc", config[c], secret[c])
    <3>. HIDE DEF c
    <3>1. config[c] \in Resource
      BY <2>1 DEF CallsInv
    <3>2. WorkersOK'
      BY <1>0, <2>1, <2>3, <3>1, CallType
    <3>3. pc'["vdo"] = pc["vdo"]
      BY <1>0, <2>3 DEF Call, Goto, WorkersOK
    <3>. QED  BY <2>1, <3>2, <3>3 DEF HeldOK
  <2>. QED  BY <1>2, <2>2, <2>3 DEF VccBegin
<1>3. CASE VccFinish
  <2>1. /\ Goto("vcc", "idle") /\ req' = Absent /\ fresh' = FALSE
        /\ call' = [call EXCEPT !["vcc"] = Absent] /\ sess' = [sess EXCEPT !["vcc"] = Absent]
        /\ UNCHANGED <<cache, lock, items, versions>>
    BY <1>3 DEF VccFinish, rollout
  <2>2. WorkersOK'
    BY <1>0, <2>1, WorkerLeaves DEF WorkersOK, CallSteps, Calling
  <2>3. pc'["vdo"] = pc["vdo"]
    BY <1>0, <2>1 DEF Goto, WorkersOK
  <2>. QED  BY <2>1, <2>2, <2>3 DEF HeldOK
<1>4. ASSUME Retry, UNCHANGED verifier PROVE WorkersOK' /\ HeldOK'
  <2>1. WorkersOK'
    BY <1>0, <1>4, WorkerLeaves DEF Retry, WorkersOK, CallSteps, Calling
  <2>2. pc'["vdo"] = "idle" /\ items' = Absent /\ versions' = Absent
    BY <1>0, <1>4 DEF Retry, Goto, WorkersOK
  <2>. QED  BY <1>4, <2>1, <2>2 DEF HeldOK, Calling, verifier
<1>5. CASE VdoBegin
  <2>. DEFINE read == [k8s |-> k8s, vsphere |-> <<>>]
  <2>1. read \in VersionsRead /\ Len(read.vsphere) <= Len(Listed)
    <3>1. Len(Listed) \in Nat
      BY ListedType
    <3>. QED  BY <3>1 DEF ClusterOK, VersionsRead
  <2>2. config \in [Configs -> Resource] /\ UNCHANGED verifier
    BY <1>5 DEF CallsInv, VdoBegin
  <2>3. Retry \/ FetchVsphereVersions(config, read)
    BY <1>5 DEF VdoBegin
  <2>. HIDE DEF read, TypeInv
  <2>. QED  BY <1>4, <2>1, <2>2, <2>3, FetchType
<1>6. CASE getVcSession
  <2>. DEFINE read == [versions EXCEPT !.vsphere = Append(@, sess["vdo"].version)]
  <2>1. UNCHANGED verifier
    BY <1>6 DEF getVcSession
  <2>2. CASE pc["vdo"] = "return" /\ FetchVsphereVersions(items, read)
    <3>1. versions \in VersionsRead /\ items \in [Configs -> Resource]
      BY <2>2 DEF HeldOK, CallsInv
    <3>2. sess["vdo"] \in Session
      BY <1>0, <2>2 DEF WorkersOK
    <3>3. sess["vdo"].version \in VcVersions
      BY <3>2 DEF Session
    <3>4. Len(versions.vsphere) <= Len(Listed) - 1
      <4>1. PICK n \in 0 .. Len(Listed) - 1 : HasRead(versions, n)
        BY <2>2 DEF CallsInv
      <4>. QED  BY <4>1, ListedType DEF HasRead
    <3>5. versions.vsphere \in Seq(VcVersions)
      BY <3>1 DEF VersionsRead
    <3>6. /\ Append(versions.vsphere, sess["vdo"].version) \in Seq(VcVersions)
          /\ Len(Append(versions.vsphere, sess["vdo"].version)) <= Len(Listed)
      BY <3>3, <3>4, <3>5, ListedType
    <3>7. read \in VersionsRead
          /\ read.vsphere = Append(versions.vsphere, sess["vdo"].version)
      BY <3>1, <3>6 DEF VersionsRead
    <3>. HIDE DEF read, TypeInv
    <3>. QED  BY <2>1, <2>2, <3>1, <3>6, <3>7, FetchType
  <2>. QED  BY <1>4, <1>6, <2>1, <2>2 DEF getVcSession
<1>7. ASSUME NEW step \in {"cpi", "csi"}, Goto("vdo", step),
             UNCHANGED <<sessions, items, versions, verifier>>
      PROVE  WorkersOK' /\ HeldOK'
  <2>1. WorkersOK'
    BY <1>0, <1>7, WorkerLeaves DEF sessions, WorkersOK, VdoSteps, Calling
  <2>2. pc'["vdo"] = step
    BY <1>0, <1>7 DEF Goto, WorkersOK
  <2>. QED  BY <1>7, <2>1, <2>2 DEF HeldOK, Calling, verifier
<1>8. CASE CheckCompatAndRetrieveSpec
  BY <1>4, <1>7, <1>8 DEF CheckCompatAndRetrieveSpec
<1>9. CASE reconcileCPIConfiguration
  BY <1>4, <1>7, <1>9 DEF reconcileCPIConfiguration
<1>10. CASE reconcileCSIConfiguration
  <2>1. UNCHANGED verifier
    BY <1>10 DEF reconcileCSIConfiguration
  <2>2. CASE /\ Goto("vdo", "idle") /\ items' = Absent /\ versions' = Absent
             /\ UNCHANGED sessions
    <3>1. WorkersOK'
      BY <1>0, <2>2, WorkerLeaves DEF sessions, WorkersOK, CallSteps, Calling
    <3>2. pc'["vdo"] = "idle"
      BY <1>0, <2>2 DEF Goto, WorkersOK
    <3>. QED  BY <2>1, <2>2, <3>1, <3>2 DEF HeldOK, Calling, verifier
  <2>. QED  BY <1>4, <1>10, <2>1, <2>2 DEF reconcileCSIConfiguration
<1>11. ASSUME NEW ended \in BOOLEAN, Resync(ended) PROVE WorkersOK' /\ HeldOK'
  <2>1. /\ UNCHANGED <<lock, call, sess, pc, verifier, items, versions>>
        /\ cache' = cache \/ cache' = [s \in Servers |-> Ended(cache[s])]
    BY <1>11 DEF Resync, rollout
  <2>2. cache' \in [Servers -> Session \cup {Absent}]
    BY <2>1, EndedType DEF WorkersOK
  <2>. QED  BY <2>1, <2>2 DEF WorkersOK, HeldOK, verifier
<1>12. ASSUME NEW s \in Servers, SessionEnds(s) \/ UpgradeVCenter(s)
       PROVE  WorkersOK' /\ HeldOK'
  <2>1. /\ UNCHANGED <<lock, call, pc, verifier, items, versions>>
        /\ cache' = [cache EXCEPT ![s] = Ended(cache[s])]
        /\ \/ sess' = sess
           \/ sess' = [w \in Workers |-> IF call[w] # Absent /\ call[w].server = s
                                         THEN Ended(sess[w]) ELSE sess[w]]
    BY <1>12 DEF SessionEnds, UpgradeVCenter, rollout
  <2>2. cache' \in [Servers -> Session \cup {Absent}]
    BY <2>1, EndedType DEF WorkersOK
  <2>3. /\ sess' \in [Workers -> Session \cup {Absent}]
        /\ \A w \in Workers : sess[w] \in Session => sess'[w] \in Session
    BY <2>1, EndedType DEF WorkersOK
  <2>. QED  BY <2>1, <2>2, <2>3 DEF WorkersOK, HeldOK, verifier
<1>13. CASE Crash
  BY <1>13 DEF Crash, WorkersOK, HeldOK, Workers, CallSteps, Calling
<1>14. ASSUME NEW c \in Configs, EditConfig(c) PROVE WorkersOK' /\ HeldOK'
  <2>1. /\ UNCHANGED <<cache, lock, call, sess, pc, req, items, versions>>
        /\ fresh' = (fresh /\ req # c)
    BY <1>14 DEF EditConfig, sessions, rollout
  <2>. QED  BY <2>1 DEF WorkersOK, HeldOK
<1>15. ASSUME \/ \E c \in Configs : ChangeSecret(c) \/ RepairSecret(c)
              \/ \E s \in Servers : ChangePassword(s) \/ ChangeInventory(s)
              \/ UpgradeKubernetes \/ UNCHANGED vars
       PROVE  WorkersOK' /\ HeldOK'
  <2>1. UNCHANGED <<cache, lock, call, sess, pc, req, fresh, items, versions>>
    BY <1>15 DEF ChangeSecret, RepairSecret, ChangePassword, ChangeInventory,
                 UpgradeKubernetes, vars, sessions, rollout, verifier
  <2>. QED  BY <2>1 DEF WorkersOK, HeldOK
<1>. HIDE DEF TypeInv
<1>. QED
  BY <1>1, <1>2, <1>3, <1>5, <1>6, <1>8, <1>9, <1>10, <1>11, <1>12, <1>13, <1>14, <1>15
  DEF Next, VccReconcile, VdoReconcile, Environment

\* The types at the start.
LEMMA TypeInit == Init => TypeInv
<1>. SUFFICES ASSUME Init PROVE TypeInv
  OBVIOUS
<1>1. vc \in [Servers -> [password : Passwords, dcs : SUBSET Datacenters, version : VcVersions]]
  <2>1. vc \in [Servers -> [password : {FirstPassword}, dcs : {Datacenters},
                            version : {FirstVersion}]]
    BY DEF Init
  <2>2. FirstPassword \in Passwords /\ FirstVersion \in VcVersions
    BY CloudConfigAssumption
  <2>. QED  BY <2>1, <2>2
<1>2. config \in [Configs -> Resource] /\ \A c \in Configs : config[c].server \in Servers
  BY FirstConfig DEF Resource
<1>3. secret \in [Configs -> Passwords \cup {Absent}]
  <2>1. secret = [c \in Configs |-> vc[config[c].server].password]
    BY DEF Init
  <2>. QED  BY <1>1, <1>2, <2>1
<1>4. ClusterOK
  <2>1. k8s \in K8sVersions /\ queued \in BOOLEAN /\ events = 0
    BY CloudConfigAssumption DEF Init
  <2>2. events \in 0 .. MaxEvents
    BY <2>1, CloudConfigAssumption
  <2>. QED  BY <1>1, <1>3, <2>1, <2>2 DEF ClusterOK
<1>5. WorkersOK
  BY DEF Init, WorkersOK, Workers, CallSteps, Calling
<1>6. HeldOK
  BY DEF Init, HeldOK, Workers, Calling
<1>7. OutputsOK
  BY DEF Init, OutputsOK, Versions
<1>. QED  BY <1>4, <1>5, <1>6, <1>7 DEF TypeInv

\* The state stays well-typed, for any resources, vCenters, matrices and numbers
\* of disturbances: what is rendered for the drivers always has a password and
\* the versions selected are in the matrix, although secrets come and go between
\* the reads of the two controllers and calls fail and are cut off anywhere.
THEOREM TypeCorrect == Spec => []TypeOK
<1>1. CallsInv /\ TypeInv /\ [Next]_vars => TypeInv'
  BY ClusterStep, WorkersStep, OutputsStep DEF TypeInv
<1>. QED  BY <1>1, InvInit, TypeInit, CallsStep, TypeParts, PTL DEF Spec
=============================================================================
