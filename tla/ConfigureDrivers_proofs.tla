----------------------- MODULE ConfigureDrivers_proofs -----------------------
(***************************************************************************)
(* Proofs about vdoctl configure drivers, for any users, vCenters and      *)
(* passwords and any number of runs and failures.                          *)
(***************************************************************************)
EXTENDS ConfigureDrivers, FiniteSetTheorems, TLAPS

\* The steps that write objects: vCenter has accepted the answers.
Storing == {"createSecret", "createVsphereCloudConfig", "update", "createVDOConfig"}

Credentials == [vcIp : Servers \cup {Absent}, insecure : BOOLEAN,
                thumbprint : Servers \cup {Absent}, password : Passwords \cup {Absent},
                datacenters : Typed \cup {Absent}]

\* The answers that the question or the step at hand relies on have been given.
Answered(u) ==
    /\ pc[u] \in {"thumbprint", "credentials", "datacenters"} \cup Storing =>
          cred[u].vcIp \in Servers
    /\ pc[u] \in {"datacenters"} \cup Storing => cred[u].password \in Passwords
    /\ pc[u] \in Storing => cred[u].datacenters \in Typed

TypeInv == TypeOK /\ \A u \in Users : Answered(u)

\* What a question is asked again for, and what is kept of the answers.
LEMMA AskedAgain ==
    ASSUME NEW c \in Credentials, NEW d, NEW cached,
           NEW q, q = QuestionAfter(d, c, GetOrCreate(cached, c))
    PROVE  /\ q \in {"createSecret", "datacenters", "credentials", "thumbprint", "vcIp"}
           /\ Kept(c, q) \in Credentials
           /\ q # "vcIp" => Kept(c, q).vcIp = c.vcIp
           /\ q \in {"createSecret", "datacenters"} => Kept(c, q).password = c.password
           /\ q = "createSecret" => Kept(c, q) = c
<1>1. GetOrCreate(cached, c) \in {"cached", "other", "thumbprint", "password", "datacenter",
                                  "created"}
  BY DEF GetOrCreate
<1>2. q \in {"createSecret", "datacenters", "credentials", "thumbprint", "vcIp"}
  BY <1>1 DEF QuestionAfter
<1>3. CASE q = "createSecret"
  BY <1>3 DEF Kept
<1>4. CASE q = "datacenters"
  BY <1>4 DEF Kept, Credentials
<1>5. CASE q \in {"credentials", "thumbprint"}
  BY <1>5 DEF Kept, Credentials
<1>6. CASE q = "vcIp"
  BY <1>6 DEF Kept, Credentials, NoCredentials
<1>. QED  BY <1>2, <1>3, <1>4, <1>5, <1>6

\* The type invariant in parts.
LEMMA CredType == ASSUME TypeOK PROVE cred \in [Users -> Credentials]
BY DEF TypeOK, Credentials

\* A user's step changes nothing that the others have answered.
LEMMA OthersAnswered ==
    ASSUME TypeInv, NEW u \in Users, \A v \in Users \ {u} : pc'[v] = pc[v] /\ cred'[v] = cred[v],
           Answered(u)'
    PROVE  \A v \in Users : Answered(v)'
BY DEF TypeInv, Answered

\* A process that is over.
LEMMA NothingType ==
    ASSUME TypeInv, NEW u \in Users, NothingAnswered(u), NEW step \in {"done", "exit"},
           Goto(u, step), UNCHANGED <<secrets, vccs, careful>>,
           rivals' \subseteq Users,
           vdoConfigs' \in Seq([cpi : Seq(Servers), csi : Servers]),
           failures' \in 0 .. MaxFailures, runs' \in 0 .. MaxRuns
    PROVE  TypeInv'
<1>1. TypeOK'
  BY DEF TypeInv, TypeOK, NothingAnswered, Goto, NoCredentials, Drivers
<1>2. Answered(u)'
  BY DEF Answered, Goto, Storing, TypeInv, TypeOK
<1>. QED  BY <1>1, <1>2, OthersAnswered DEF TypeInv, TypeOK, Goto, NothingAnswered

\* The names of the objects that are written.
LEMMA KeyType ==
    ASSUME TypeInv, NEW u \in Users, pc[u] \in Storing PROVE Key(u) \in Drivers \X Servers
BY DEF TypeInv, TypeOK, Answered, Key

\* A function of functions that is changed at one place.
LEMMA SetAt ==
    ASSUME NEW A, NEW B, NEW S, NEW f \in [A -> [B -> S]], NEW a \in A, NEW b \in B, NEW v \in S
    PROVE  [f EXCEPT ![a][b] = v] \in [A -> [B -> S]]
OBVIOUS

\* Every step keeps the types, and the answers a later step relies on.
LEMMA TypeStep == ASSUME TypeInv, [Next]_vars PROVE TypeInv'
<1>. USE ConfigureDriversAssumption
<1>1. ASSUME NEW u \in Users, Start(u) PROVE TypeInv'
  <2>1. TypeOK'
    BY <1>1 DEF Start, TypeInv, TypeOK, Goto, objects, bounds, Drivers, Questions, Steps
  <2>2. Answered(u)'
    BY <1>1 DEF Start, Goto, Answered, Storing, TypeInv, TypeOK
  <2>. QED  BY <1>1, <2>1, <2>2, OthersAnswered DEF Start, TypeInv, TypeOK, Goto
<1>2. ASSUME NEW u \in Users, NEW s \in Servers, NEW insecure \in BOOLEAN,
             fetchVCIP(u, s, insecure)
      PROVE  TypeInv'
  <2>. DEFINE c == [cred[u] EXCEPT !.vcIp = s, !.insecure = insecure]
  <2>3. c \in Credentials /\ c.vcIp = s
    BY CredType DEF TypeInv, Credentials
  <2>4. cred' = [cred EXCEPT ![u] = c]
    BY <1>2, CredType DEF fetchVCIP, TypeInv
  <2>. HIDE DEF c
  <2>0. cred' \in [Users -> Credentials] /\ cred'[u] = c
    BY <2>3, <2>4, CredType DEF TypeInv
  <2>1. TypeOK'
    BY <1>2, <2>0 DEF fetchVCIP, TypeInv, TypeOK, Goto, objects, bounds, Questions, Credentials
  <2>2. Answered(u)'
    BY <1>2, <2>0, <2>3 DEF fetchVCIP, Goto, Answered, Storing, TypeInv, TypeOK
  <2>. QED  BY <1>2, <2>1, <2>2, OthersAnswered DEF fetchVCIP, TypeInv, TypeOK, Goto
<1>3. ASSUME NEW u \in Users, NEW t \in Servers, fetchThumbprint(u, t) PROVE TypeInv'
  <2>0. cred[u].vcIp \in Servers
    BY <1>3 DEF fetchThumbprint, TypeInv, Answered
  <2>3. cred' \in [Users -> Credentials]
    BY <1>3, CredType DEF fetchThumbprint, TypeInv, Credentials
  <2>4. thumbprintMap' \in [Users -> [Servers -> Servers \cup {Absent}]]
    BY <1>3, <2>0 DEF fetchThumbprint, TypeInv, TypeOK
  <2>1. TypeOK'
    BY <1>3, <2>3, <2>4 DEF fetchThumbprint, TypeInv, TypeOK, Goto, objects, bounds, Questions,
                            Credentials
  <2>2. Answered(u)'
    BY <1>3, <2>0 DEF fetchThumbprint, Goto, Answered, Storing, TypeInv, TypeOK
  <2>. QED  BY <1>3, <2>1, <2>2, OthersAnswered DEF fetchThumbprint, TypeInv, TypeOK, Goto
<1>4. ASSUME NEW u \in Users, NEW p \in Passwords, fetchCredentials(u, p) PROVE TypeInv'
  <2>0. cred[u].vcIp \in Servers
    BY <1>4 DEF fetchCredentials, TypeInv, Answered
  <2>3. cred' \in [Users -> Credentials]
    BY <1>4, CredType DEF fetchCredentials, TypeInv, Credentials
  <2>1. TypeOK'
    BY <1>4, <2>3 DEF fetchCredentials, TypeInv, TypeOK, Goto, objects, bounds, Questions,
                      Credentials
  <2>2. Answered(u)'
    BY <1>4, <2>0 DEF fetchCredentials, Goto, Answered, Storing, TypeInv, TypeOK
  <2>. QED  BY <1>4, <2>1, <2>2, OthersAnswered DEF fetchCredentials, TypeInv, TypeOK, Goto
<1>5. ASSUME NEW u \in Users, NEW dcs \in Typed, fetchDatacenters(u, dcs) PROVE TypeInv'
  <2>. DEFINE c == [cred[u] EXCEPT !.datacenters = dcs]
              q == QuestionAfter(driver[u], c, GetOrCreate(sessionCache[u][c.vcIp], c))
  <2>1. /\ cred[u] \in Credentials /\ cred[u].vcIp \in Servers /\ cred[u].password \in Passwords
    BY <1>5, CredType DEF fetchDatacenters, TypeInv, Answered
  <2>2. /\ c \in Credentials /\ c.vcIp = cred[u].vcIp /\ c.password = cred[u].password
        /\ c.datacenters = dcs
    BY <2>1 DEF Credentials
  <2>3. /\ Goto(u, q) /\ cred' = [cred EXCEPT ![u] = Kept(c, q)]
        /\ \/ sessionCache' = sessionCache
           \/ sessionCache' = [sessionCache EXCEPT ![u][c.vcIp] = "path"]
        /\ UNCHANGED <<objects, driver, vcIPList, thumbprintMap, fresh, bounds, careful>>
    BY <1>5 DEF fetchDatacenters
  <2>. HIDE DEF c
  <2>4. /\ q \in {"createSecret", "datacenters", "credentials", "thumbprint", "vcIp"}
        /\ Kept(c, q) \in Credentials
        /\ q # "vcIp" => Kept(c, q).vcIp = c.vcIp
        /\ q \in {"createSecret", "datacenters"} => Kept(c, q).password = c.password
        /\ q = "createSecret" => Kept(c, q) = c
    BY <2>2, AskedAgain
  <2>. HIDE DEF q
  <2>5. cred' \in [Users -> Credentials] /\ cred'[u] = Kept(c, q)
    BY <2>3, <2>4, CredType DEF TypeInv
  <2>6. pc' \in [Users -> Questions \cup Steps \cup {"done", "exit"}] /\ pc'[u] = q
    BY <2>3, <2>4 DEF Goto, Questions, Steps, TypeInv, TypeOK
  <2>7. sessionCache' \in [Users -> [Servers -> {"path", Absent}]]
    <3>1. sessionCache \in [Users -> [Servers -> {"path", Absent}]] /\ c.vcIp \in Servers
      BY <2>1, <2>2 DEF TypeInv, TypeOK
    <3>2. [sessionCache EXCEPT ![u][c.vcIp] = "path"] \in [Users -> [Servers -> {"path", Absent}]]
      BY <3>1, SetAt
    <3>. QED  BY <2>3, <3>1, <3>2
  <2>8. TypeOK'
    BY <2>3, <2>5, <2>6, <2>7 DEF TypeInv, TypeOK, Credentials, objects, bounds
  <2>9. Answered(u)'
    BY <2>1, <2>2, <2>4, <2>5, <2>6 DEF Answered, Storing
  <2>10. \A v \in Users \ {u} : pc'[v] = pc[v] /\ cred'[v] = cred[v]
    BY <2>3 DEF Goto, TypeInv, TypeOK
  <2>. QED  BY <2>8, <2>9, <2>10, OthersAnswered DEF TypeInv
<1>6. ASSUME NEW u \in Users, AnotherVCenter(u) PROVE TypeInv'
  <2>1. TypeOK'
    BY <1>6 DEF AnotherVCenter, TypeInv, TypeOK, Goto, objects, bounds, Questions, NoCredentials
  <2>2. Answered(u)'
    BY <1>6 DEF AnotherVCenter, Goto, Answered, Storing, TypeInv, TypeOK
  <2>. QED  BY <1>6, <2>1, <2>2, OthersAnswered DEF AnotherVCenter, TypeInv, TypeOK, Goto
<1>7. ASSUME NEW u \in Users, NEW s \in Servers, StorageProvider(u, s) PROVE TypeInv'
  <2>1. PICK t \in Servers \cup {Absent}, insecure \in BOOLEAN :
            cred' = [cred EXCEPT ![u] = [NoCredentials EXCEPT !.vcIp = s, !.thumbprint = t,
                                                              !.insecure = insecure]]
    <3>1. /\ thumbprintMap[u][s] \in Servers \cup {Absent}
          /\ cred[u].thumbprint \in Servers \cup {Absent} /\ cred[u].insecure \in BOOLEAN
      BY DEF TypeInv, TypeOK
    <3>. QED  BY <1>7, <3>1 DEF StorageProvider
  <2>2. cred' \in [Users -> Credentials] /\ cred'[u].vcIp = s
    BY <2>1, CredType DEF Credentials, NoCredentials, TypeInv
  <2>3. TypeOK'
    BY <1>7, <2>2 DEF StorageProvider, TypeInv, TypeOK, Goto, objects, bounds, Questions,
                      Credentials, Drivers
  <2>4. Answered(u)'
    BY <1>7, <2>2 DEF StorageProvider, Goto, Answered, Storing, TypeInv, TypeOK
  <2>. QED  BY <1>7, <2>3, <2>4, OthersAnswered DEF StorageProvider, TypeInv, TypeOK, Goto
<1>8. ASSUME NEW u \in Users, createSecret(u) PROVE TypeInv'
  <2>0. Key(u) \in Drivers \X Servers /\ cred[u].password \in Passwords /\ Answered(u)
    BY <1>8, KeyType DEF createSecret, Storing, TypeInv, Answered
  <2>1. TypeOK'
    BY <1>8, <2>0 DEF createSecret, TypeInv, TypeOK, Goto, answers, bounds, Steps
  <2>2. Answered(u)'
    BY <1>8, <2>0 DEF createSecret, Goto, Answered, Storing, TypeInv, TypeOK, answers
  <2>. QED  BY <1>8, <2>1, <2>2, OthersAnswered DEF createSecret, TypeInv, TypeOK, Goto, answers
<1>9. ASSUME NEW u \in Users, pc[u] \in Storing, Written(u),
             UNCHANGED <<secrets, vdoConfigs, rivals, driver, cred, thumbprintMap, sessionCache,
                         bounds, careful>>
      PROVE  TypeInv'
  <2>1. /\ Key(u) \in Drivers \X Servers /\ Answered(u)
        /\ ResourceOf(cred[u]) \in [thumbprint : Servers \cup {Absent}, datacenters : Typed]
    BY <1>9, KeyType DEF TypeInv, Answered, TypeOK, ResourceOf
  <2>2. vccs' \in [Drivers \X Servers ->
                     [thumbprint : Servers \cup {Absent}, datacenters : Typed] \cup {Absent}]
    BY <1>9, <2>1 DEF Written, TypeInv, TypeOK
  <2>3. vcIPList' \in [Users -> Seq(Servers)]
    BY <1>9, <2>1 DEF Written, TypeInv, TypeOK, Answered
  <2>4. fresh' \in [Users -> BOOLEAN]
    BY <1>9 DEF Written, TypeInv, TypeOK
  <2>5. /\ pc' \in [Users -> Questions \cup Steps \cup {"done", "exit"}]
        /\ pc'[u] \in {"another", "createVDOConfig"}
        /\ \A v \in Users \ {u} : pc'[v] = pc[v]
    BY <1>9 DEF Written, Goto, TypeInv, TypeOK, Questions, Steps
  <2>6. TypeOK'
    BY <1>9, <2>2, <2>3, <2>4, <2>5 DEF TypeInv, TypeOK, bounds
  <2>7. Answered(u)'
    BY <1>9, <2>1, <2>5 DEF Answered, Storing
  <2>. QED  BY <1>9, <2>5, <2>6, <2>7, OthersAnswered DEF TypeInv
<1>10. ASSUME NEW u \in Users, createVsphereCloudConfig(u) PROVE TypeInv'
  <2>1. CASE Written(u)
    BY <1>9, <1>10, <2>1 DEF createVsphereCloudConfig, Storing
  <2>2. CASE /\ fresh' = [fresh EXCEPT ![u] = TRUE] /\ Goto(u, "update")
             /\ UNCHANGED <<vccs, vcIPList>>
    <3>1. TypeOK'
      BY <1>10, <2>2 DEF createVsphereCloudConfig, Goto, TypeInv, TypeOK, Steps, bounds
    <3>2. Answered(u)'
      BY <1>10, <2>2 DEF createVsphereCloudConfig, Goto, Answered, Storing, TypeInv, TypeOK
    <3>. QED  BY <1>10, <2>2, <3>1, <3>2, OthersAnswered
              DEF createVsphereCloudConfig, TypeInv, TypeOK, Goto
  <2>. QED  BY <1>10, <2>1, <2>2 DEF createVsphereCloudConfig
<1>11. ASSUME NEW u \in Users, UpdateVsphereCloudConfig(u) PROVE TypeInv'
  BY <1>9, <1>11 DEF UpdateVsphereCloudConfig, Storing
<1>12. ASSUME NEW u \in Users, createVDOConfig(u) PROVE TypeInv'
  <2>1. cred[u].vcIp \in Servers /\ vcIPList[u] \in Seq(Servers)
    BY <1>12 DEF createVDOConfig, TypeInv, TypeOK, Answered, Storing
  <2>2. vdoConfigs' \in Seq([cpi : Seq(Servers), csi : Servers])
    BY <1>12, <2>1 DEF createVDOConfig, TypeInv, TypeOK
  <2>3. rivals' \subseteq Users
    BY <1>12 DEF createVDOConfig, UnderWay, TypeInv, TypeOK
  <2>. QED  BY <1>12, <2>2, <2>3, NothingType DEF createVDOConfig, bounds, TypeInv, TypeOK
<1>13. ASSUME NEW u \in Users, Exit(u) PROVE TypeInv'
  <2>1. /\ NothingAnswered(u) /\ Goto(u, "exit") /\ UNCHANGED <<objects, runs, careful>>
        /\ failures' \in 0 .. MaxFailures
    BY <1>13 DEF Exit, AfterError, TypeInv, TypeOK
  <2>. QED  BY <2>1, NothingType DEF objects, TypeInv, TypeOK
<1>14. ASSUME NEW u \in Users, RunAgain(u) PROVE TypeInv'
  <2>1. TypeOK'
    BY <1>14 DEF RunAgain, TypeInv, TypeOK, Goto, objects, answers, Steps
  <2>2. Answered(u)'
    BY <1>14 DEF RunAgain, Goto, Answered, Storing, TypeInv, TypeOK
  <2>. QED  BY <1>14, <2>1, <2>2, OthersAnswered DEF RunAgain, TypeInv, TypeOK, Goto, answers
<1>15. ASSUME (\E u \in Users : TakeCare(u)) \/ UNCHANGED vars PROVE TypeInv'
  BY <1>15 DEF TakeCare, vars, objects, answers, bounds, TypeInv, TypeOK, Answered
<1>. QED
  BY <1>1, <1>2, <1>3, <1>4, <1>5, <1>6, <1>7, <1>8, <1>10, <1>11, <1>12, <1>13, <1>14, <1>15
  DEF Next, Answer, Work, Finished

\* The first runs have been told nothing.
LEMMA TypeInit == Init => TypeInv
BY ConfigureDriversAssumption
DEF Init, TypeInv, TypeOK, Answered, Storing, NoCredentials, Drivers, Questions, Steps

\* The answers, the objects and the questions stay within their types, for any
\* users, vCenters and number of runs: no step stores an answer that was not given.
THEOREM TypeCorrect == Spec => []TypeOK
<1>1. TypeInv => TypeOK
  BY DEF TypeInv
<1>. QED  BY <1>1, TypeInit, TypeStep, PTL DEF Spec

-----------------------------------------------------------------------------
(* What a VDOConfig refers to *)

Present(k) == vccs[k] # Absent /\ secrets[k] # Absent
PresentNext(k) == vccs'[k] # Absent /\ secrets'[k] # Absent

\* The vCenters of CPI that a run has been told of have their objects, and so has
\* the one it is at, as far as it has come.
Provided(u) ==
    /\ \A i \in DOMAIN vcIPList[u] : Present(<<"cpi", vcIPList[u][i]>>)
    /\ pc[u] \in Storing \ {"createSecret"} => secrets[Key(u)] # Absent
    /\ pc[u] = "createVDOConfig" => driver[u] = "csi" /\ vccs[Key(u)] # Absent

ReferencesInv == TypeInv /\ (\A u \in Users : Provided(u)) /\ ReferencesExist

\* Objects stay.
ObjectsStay ==
    \A k \in Drivers \X Servers :
        /\ secrets[k] # Absent => secrets'[k] # Absent
        /\ vccs[k] # Absent => vccs'[k] # Absent

\* The resource that is written is one.
LEMMA ResourceThere ==
    ASSUME TypeInv, NEW u \in Users, pc[u] \in Storing PROVE ResourceOf(cred[u]) # Absent
BY ConfigureDriversAssumption DEF TypeInv, TypeOK, Answered, ResourceOf

\* No step takes an object away.
LEMMA Stays == ASSUME TypeInv, [Next]_vars PROVE ObjectsStay
<1>1. ASSUME NEW u \in Users, createSecret(u) PROVE ObjectsStay
  <2>1. cred[u].password \in Passwords
    BY <1>1 DEF createSecret, TypeInv, Answered, Storing
  <2>. QED  BY <1>1, <2>1, ConfigureDriversAssumption DEF createSecret, ObjectsStay, TypeInv, TypeOK
<1>2. ASSUME NEW u \in Users, pc[u] \in Storing, Written(u), UNCHANGED secrets PROVE ObjectsStay
  BY <1>2, ResourceThere DEF Written, ObjectsStay, TypeInv, TypeOK
<1>3. ASSUME NEW u \in Users, createVsphereCloudConfig(u) \/ UpdateVsphereCloudConfig(u)
      PROVE  ObjectsStay
  BY <1>2, <1>3 DEF createVsphereCloudConfig, UpdateVsphereCloudConfig, Storing, ObjectsStay
<1>4. CASE UNCHANGED <<secrets, vccs>>
  BY <1>4 DEF ObjectsStay
<1>5. ASSUME NEW u \in Users,
             Answer(u) \/ Start(u) \/ createVDOConfig(u) \/ Exit(u) \/ RunAgain(u) \/ TakeCare(u)
      PROVE  ObjectsStay
  <2>1. UNCHANGED <<secrets, vccs>>
    BY <1>5 DEF Answer, Start, fetchVCIP, fetchThumbprint, fetchCredentials, fetchDatacenters,
                AnotherVCenter, StorageProvider, createVDOConfig, Exit, RunAgain, TakeCare, objects
  <2>. QED  BY <1>4, <2>1
<1>6. CASE UNCHANGED vars
  BY <1>4, <1>6 DEF vars, objects
<1>. QED  BY <1>1, <1>3, <1>5, <1>6 DEF Next, Work, Finished

\* What is there stays there.
LEMMA PresentStays ==
    ASSUME ObjectsStay, NEW k \in Drivers \X Servers, Present(k) PROVE PresentNext(k)
BY DEF ObjectsStay, Present, PresentNext

\* A step that changes no answers of a user, and does not take him further.
LEMMA ProvidedStays ==
    ASSUME TypeInv, ObjectsStay, NEW v \in Users, Provided(v),
           vcIPList'[v] \in {vcIPList[v], <<>>},
           \/ pc'[v] \notin Storing \ {"createSecret"}
           \/ pc'[v] = pc[v] /\ driver'[v] = driver[v] /\ cred'[v] = cred[v]
    PROVE  Provided(v)'
<1>1. \A i \in DOMAIN vcIPList'[v] : PresentNext(<<"cpi", vcIPList'[v][i]>>)
  <2>1. CASE vcIPList'[v] = <<>>
    BY <2>1
  <2>2. CASE vcIPList'[v] = vcIPList[v]
    <3>1. \A i \in DOMAIN vcIPList[v] : <<"cpi", vcIPList[v][i]>> \in Drivers \X Servers
      BY DEF TypeInv, TypeOK, Drivers
    <3>. QED  BY <2>2, <3>1, PresentStays DEF Provided
  <2>. QED  BY <2>1, <2>2
<1>2. CASE pc'[v] \notin Storing \ {"createSecret"}
  BY <1>1, <1>2 DEF Provided, Storing, Present, PresentNext
<1>3. CASE pc'[v] = pc[v] /\ driver'[v] = driver[v] /\ cred'[v] = cred[v]
  <2>1. Key(v)' = Key(v)
    BY <1>3 DEF Key
  <2>2. pc[v] \in Storing => Key(v) \in Drivers \X Servers
    BY KeyType
  <2>. QED  BY <1>1, <1>3, <2>1, <2>2 DEF Provided, ObjectsStay, Storing, Present, PresentNext
<1>. QED  BY <1>2, <1>3

\* An element of a sequence.
LEMMA ElementType == ASSUME NEW S, NEW s \in Seq(S), NEW i \in DOMAIN s PROVE s[i] \in S
OBVIOUS

\* The VDOConfigs there are keep what they refer to.
LEMMA ReferencesStay ==
    ASSUME TypeInv, ObjectsStay, ReferencesExist, UNCHANGED vdoConfigs
    PROVE  ReferencesExist'
<1>1. ASSUME NEW i \in DOMAIN vdoConfigs,
             NEW k \in {<<"cpi", vdoConfigs[i].cpi[j]>> : j \in DOMAIN vdoConfigs[i].cpi}
                       \cup {<<"csi", vdoConfigs[i].csi>>}
      PROVE  k \in Drivers \X Servers
  <2>1. vdoConfigs[i] \in [cpi : Seq(Servers), csi : Servers]
    <3>1. vdoConfigs \in Seq([cpi : Seq(Servers), csi : Servers])
      BY DEF TypeInv, TypeOK
    <3>. QED  BY <3>1, ElementType
  <2>. QED  BY <2>1 DEF Drivers
<1>. QED  BY <1>1 DEF ReferencesExist, ObjectsStay

\* The users that a step is not about.
OthersStay(u) ==
    \A v \in Users \ {u} : /\ pc'[v] = pc[v] /\ driver'[v] = driver[v] /\ cred'[v] = cred[v]
                           /\ vcIPList'[v] = vcIPList[v]

\* Every step of a user keeps to that.
LEMMA OneUserSteps ==
    ASSUME TypeInv, NEW u \in Users, Answer(u) \/ Work(u) \/ Exit(u) \/ RunAgain(u)
    PROVE  OthersStay(u)
BY DEF TypeInv, TypeOK, OthersStay, Answer, Work, Start, fetchVCIP, fetchThumbprint,
       fetchCredentials, fetchDatacenters, AnotherVCenter, StorageProvider, createSecret,
       createVsphereCloudConfig, UpdateVsphereCloudConfig, createVDOConfig, Written, Exit,
       RunAgain, NothingAnswered, Goto, answers

\* Every step keeps the references.
LEMMA ReferencesStep == ASSUME ReferencesInv, [Next]_vars PROVE ReferencesInv'
<1>. USE DEF ReferencesInv
<1>1. TypeInv' /\ ObjectsStay
  BY TypeStep, Stays
<1>2. ASSUME NEW u \in Users, OthersStay(u), Provided(u)' PROVE \A v \in Users : Provided(v)'
  BY <1>1, <1>2, ProvidedStays DEF OthersStay
<1>3. ASSUME NEW u \in Users,
             Answer(u) \/ Start(u) \/ Exit(u) \/ RunAgain(u)
      PROVE  ReferencesInv'
  <2>1. OthersStay(u)
    BY <1>3, OneUserSteps DEF Work
  <2>2. /\ vcIPList'[u] \in {vcIPList[u], <<>>} /\ pc'[u] \notin Storing \ {"createSecret"}
        /\ UNCHANGED vdoConfigs
    <3>1. CASE \E dcs \in Typed : fetchDatacenters(u, dcs)
      <4>1. PICK dcs \in Typed : fetchDatacenters(u, dcs)
        BY <3>1
      <4>. DEFINE c == [cred[u] EXCEPT !.datacenters = dcs]
                  q == QuestionAfter(driver[u], c, GetOrCreate(sessionCache[u][c.vcIp], c))
      <4>2. c \in Credentials
        BY CredType DEF TypeInv, Credentials
      <4>3. Goto(u, q) /\ UNCHANGED <<vcIPList, vdoConfigs>>
        BY <4>1 DEF fetchDatacenters, objects
      <4>. HIDE DEF c
      <4>4. q \in {"createSecret", "datacenters", "credentials", "thumbprint", "vcIp"}
        BY <4>2, AskedAgain
      <4>. HIDE DEF q
      <4>. QED  BY <4>3, <4>4 DEF Goto, Storing, TypeInv, TypeOK
    <3>2. CASE Exit(u)
      BY <3>2 DEF Exit, AfterError, NothingAnswered, Goto, Storing, TypeInv, TypeOK, objects
    <3>3. CASE ~ (\E dcs \in Typed : fetchDatacenters(u, dcs)) /\ ~Exit(u)
      BY <1>3, <3>3 DEF Answer, Start, RunAgain, fetchVCIP, fetchThumbprint, fetchCredentials,
                        AnotherVCenter, StorageProvider, Goto, Storing, TypeInv, TypeOK, objects,
                        answers
    <3>. QED  BY <3>1, <3>2, <3>3
  <2>3. Provided(u)'
    BY <1>1, <2>2, ProvidedStays
  <2>. QED  BY <1>1, <1>2, <2>1, <2>2, <2>3, ReferencesStay
<1>4. ASSUME NEW u \in Users, createSecret(u) PROVE ReferencesInv'
  <2>1. OthersStay(u)
    BY <1>4, OneUserSteps DEF Work
  <2>2. /\ pc'[u] = "createVsphereCloudConfig" /\ vcIPList' = vcIPList /\ Key(u)' = Key(u)
        /\ Key(u) \in Drivers \X Servers /\ secrets'[Key(u)] = cred[u].password
        /\ cred[u].password \in Passwords /\ UNCHANGED vdoConfigs
    BY <1>4, KeyType DEF createSecret, Goto, Key, Storing, TypeInv, TypeOK, Answered, answers
  <2>3. \A i \in DOMAIN vcIPList'[u] : PresentNext(<<"cpi", vcIPList'[u][i]>>)
    <3>1. \A i \in DOMAIN vcIPList[u] : <<"cpi", vcIPList[u][i]>> \in Drivers \X Servers
      BY DEF TypeInv, TypeOK, Drivers
    <3>. QED  BY <1>1, <2>2, <3>1, PresentStays DEF Provided
  <2>4. Provided(u)'
    BY <2>2, <2>3, ConfigureDriversAssumption DEF Provided, Present, PresentNext
  <2>. QED  BY <1>1, <1>2, <2>1, <2>2, <2>4, ReferencesStay
<1>5. ASSUME NEW u \in Users, createVsphereCloudConfig(u) \/ UpdateVsphereCloudConfig(u)
      PROVE  ReferencesInv'
  <2>1. OthersStay(u)
    BY <1>5, OneUserSteps DEF Work
  <2>2. /\ UNCHANGED <<vdoConfigs, secrets, driver, cred>> /\ Key(u)' = Key(u)
        /\ Key(u) \in Drivers \X Servers /\ secrets[Key(u)] # Absent /\ pc[u] \in Storing
    BY <1>5, KeyType DEF createVsphereCloudConfig, UpdateVsphereCloudConfig, Key, Storing, Provided
  <2>3. CASE Written(u)
    <3>1. vccs'[Key(u)] # Absent
      BY <2>2, <2>3, ResourceThere DEF Written, TypeInv, TypeOK
    <3>2. pc'[u] = IF driver[u] = "cpi" THEN "another" ELSE "createVDOConfig"
      BY <2>3 DEF Written, Goto, TypeInv, TypeOK
    <3>3. driver[u] \in {"cpi", "csi"} /\ cred[u].vcIp \in Servers
      BY <2>2 DEF TypeInv, TypeOK, Drivers, Answered
    <3>4. \A i \in DOMAIN vcIPList'[u] : PresentNext(<<"cpi", vcIPList'[u][i]>>)
      <4>1. \A i \in DOMAIN vcIPList[u] : <<"cpi", vcIPList[u][i]>> \in Drivers \X Servers
        BY DEF TypeInv, TypeOK, Drivers
      <4>2. \A i \in DOMAIN vcIPList[u] : PresentNext(<<"cpi", vcIPList[u][i]>>)
        BY <1>1, <4>1, PresentStays DEF Provided
      <4>3. CASE driver[u] # "cpi"
        BY <2>3, <4>2, <4>3 DEF Written
      <4>4. CASE driver[u] = "cpi"
        <5>1. vcIPList[u] \in Seq(Servers) /\ vcIPList'[u] = Append(vcIPList[u], cred[u].vcIp)
          BY <2>3, <4>4 DEF Written, TypeInv, TypeOK
        <5>2. PresentNext(<<"cpi", cred[u].vcIp>>)
          BY <2>2, <3>1, <4>4 DEF PresentNext, Key
        <5>3. \A i \in DOMAIN vcIPList'[u] :
                 \/ vcIPList'[u][i] = cred[u].vcIp
                 \/ i \in DOMAIN vcIPList[u] /\ vcIPList'[u][i] = vcIPList[u][i]
          BY <3>3, <5>1
        <5>. QED  BY <4>2, <5>2, <5>3
      <4>. QED  BY <4>3, <4>4
    <3>5. Provided(u)'
      BY <2>2, <3>1, <3>2, <3>3, <3>4 DEF Provided, Storing, Present, PresentNext
    <3>. QED  BY <1>1, <1>2, <2>1, <2>2, <3>5, ReferencesStay
  <2>4. CASE Goto(u, "update") /\ UNCHANGED <<vccs, vcIPList>>
    <3>1. pc'[u] = "update"
      BY <2>4 DEF Goto, TypeInv, TypeOK
    <3>2. Provided(u)'
      BY <2>2, <2>4, <3>1 DEF Provided, Present, Storing
    <3>. QED  BY <1>1, <1>2, <2>1, <2>2, <3>2, ReferencesStay
  <2>. QED  BY <1>5, <2>3, <2>4 DEF createVsphereCloudConfig, UpdateVsphereCloudConfig
<1>6. ASSUME NEW u \in Users, createVDOConfig(u) PROVE ReferencesInv'
  <2>1. OthersStay(u)
    BY <1>6, OneUserSteps DEF Work
  <2>2. vcIPList'[u] = <<>> /\ pc'[u] = "done"
    BY <1>6 DEF createVDOConfig, NothingAnswered, Goto, TypeInv, TypeOK
  <2>3. Provided(u)'
    BY <1>1, <2>2, ProvidedStays DEF Storing
  <2>4. ReferencesExist'
    <3>. DEFINE new == [cpi |-> vcIPList[u], csi |-> cred[u].vcIp]
    <3>1. /\ vdoConfigs' = Append(vdoConfigs, new) /\ UNCHANGED <<secrets, vccs>>
          /\ vdoConfigs \in Seq([cpi : Seq(Servers), csi : Servers])
      BY <1>6 DEF createVDOConfig, TypeInv, TypeOK
    <3>2. new \in [cpi : Seq(Servers), csi : Servers]
      BY <1>6 DEF createVDOConfig, TypeInv, TypeOK, Answered, Storing
    <3>3. Present(<<"csi", new.csi>>) /\ \A j \in DOMAIN new.cpi : Present(<<"cpi", new.cpi[j]>>)
      BY <1>6 DEF createVDOConfig, Provided, Present, Key, Storing
    <3>. HIDE DEF new
    <3>4. \A i \in DOMAIN vdoConfigs' :
             vdoConfigs'[i] = new \/ (i \in DOMAIN vdoConfigs /\ vdoConfigs'[i] = vdoConfigs[i])
      BY <3>1, <3>2
    <3>5. ASSUME NEW i \in DOMAIN vdoConfigs',
                 NEW k \in {<<"cpi", vdoConfigs'[i].cpi[j]>> : j \in DOMAIN vdoConfigs'[i].cpi}
                           \cup {<<"csi", vdoConfigs'[i].csi>>}
          PROVE  Present(k)
      <4>1. CASE vdoConfigs'[i] = new
        BY <3>3, <4>1
      <4>2. CASE i \in DOMAIN vdoConfigs /\ vdoConfigs'[i] = vdoConfigs[i]
        BY <4>2 DEF ReferencesExist, Present
      <4>. QED  BY <3>4, <4>1, <4>2
    <3>. QED  BY <3>1, <3>5 DEF ReferencesExist, Present
  <2>. QED  BY <1>1, <1>2, <2>1, <2>3, <2>4
<1>7. ASSUME (\E u \in Users : TakeCare(u)) \/ UNCHANGED vars PROVE ReferencesInv'
  <2>1. UNCHANGED <<secrets, vccs, vdoConfigs, pc, driver, cred, vcIPList>>
    BY <1>7 DEF TakeCare, vars, objects, answers
  <2>. QED  BY <1>1, <2>1 DEF Provided, Present, Key, ReferencesExist
<1>. QED  BY <1>3, <1>4, <1>5, <1>6, <1>7 DEF Next, Work, Finished

\* Every VDOConfig names VsphereCloudConfigs and secrets that are there, for any
\* number of users, vCenters, interrupted runs and errors of the API server.
THEOREM ReferencesExistAlways == Spec => []ReferencesExist
<1>1. Init => ReferencesInv
  <2>1. Init => /\ \A u \in Users : Provided(u)
                /\ ReferencesExist
    BY DEF Init, Provided, Storing, ReferencesExist
  <2>. QED  BY <2>1, TypeInit DEF ReferencesInv
<1>2. ReferencesInv => ReferencesExist
  BY DEF ReferencesInv
<1>. QED  BY <1>1, <1>2, ReferencesStep, PTL DEF Spec

-----------------------------------------------------------------------------
(* What vCenter has accepted *)

\* Answers that are about to be stored are right.
Accepted(u) ==
    pc[u] \in Storing =>
        /\ cred[u].vcIp \in Reachable /\ cred[u].password = RightPassword
        /\ Found(cred[u].datacenters) /\ cred[u].thumbprint \in {Absent, cred[u].vcIp}

ValidInv == TypeInv /\ (\A u \in Users : Accepted(u)) /\ StoredIsValidated

\* Without a session that may be reused every answer is tried.
LEMMA AcceptedByVCenter ==
    ASSUME "path" \notin Typed, NEW c \in Credentials, c.datacenters \in Typed,
           NEW cached \in {"path", Absent}, NEW d,
           QuestionAfter(d, c, GetOrCreate(cached, c)) = "createSecret"
    PROVE  /\ c.vcIp \in Reachable /\ c.password = RightPassword
           /\ Found(c.datacenters) /\ c.thumbprint \in {Absent, c.vcIp}
<1>1. ~SameDatacenters(cached, c.datacenters)
  BY ConfigureDriversAssumption DEF SameDatacenters
<1>2. GetOrCreate(cached, c) \in {"other", "thumbprint", "password", "datacenter", "created"}
  BY <1>1 DEF GetOrCreate
<1>3. GetOrCreate(cached, c) = "created"
  BY <1>2 DEF QuestionAfter
<1>. QED  BY <1>1, <1>3 DEF GetOrCreate

\* Every step keeps what is stored right.
LEMMA ValidStep == ASSUME "path" \notin Typed, ValidInv, [Next]_vars PROVE ValidInv'
<1>. USE DEF ValidInv
<1>1. TypeInv'
  BY TypeStep
<1>2. ASSUME NEW u \in Users, OthersStay(u), Accepted(u)' PROVE \A v \in Users : Accepted(v)'
  BY <1>2 DEF OthersStay, Accepted
<1>3. ASSUME UNCHANGED <<secrets, vccs>> PROVE StoredIsValidated'
  BY <1>3 DEF StoredIsValidated
<1>4. ASSUME NEW u \in Users, NEW dcs \in Typed, fetchDatacenters(u, dcs) PROVE ValidInv'
  <2>. DEFINE c == [cred[u] EXCEPT !.datacenters = dcs]
              q == QuestionAfter(driver[u], c, GetOrCreate(sessionCache[u][c.vcIp], c))
  <2>1. OthersStay(u)
    BY <1>4, OneUserSteps DEF Answer, fetchDatacenters, TypeInv, TypeOK, OthersStay, Goto
  <2>2. cred[u] \in Credentials /\ cred[u].vcIp \in Servers
    BY <1>4, CredType DEF fetchDatacenters, TypeInv, Answered
  <2>3. c \in Credentials /\ c.vcIp \in Servers /\ c.datacenters = dcs
    BY <2>2 DEF Credentials
  <2>4. Goto(u, q) /\ cred' = [cred EXCEPT ![u] = Kept(c, q)] /\ UNCHANGED <<secrets, vccs>>
    BY <1>4 DEF fetchDatacenters, objects
  <2>. HIDE DEF c
  <2>5. /\ q \in {"createSecret", "datacenters", "credentials", "thumbprint", "vcIp"}
        /\ q = "createSecret" => Kept(c, q) = c
    BY <2>3, AskedAgain
  <2>6. sessionCache[u][c.vcIp] \in {"path", Absent}
    BY <2>3 DEF TypeInv, TypeOK
  <2>7. q = "createSecret" => /\ c.vcIp \in Reachable /\ c.password = RightPassword
                              /\ Found(c.datacenters) /\ c.thumbprint \in {Absent, c.vcIp}
    BY <2>3, <2>6, AcceptedByVCenter
  <2>. HIDE DEF q
  <2>8. pc'[u] = q /\ cred'[u] = Kept(c, q)
    BY <2>4 DEF Goto, TypeInv, TypeOK
  <2>9. Accepted(u)'
    BY <2>5, <2>7, <2>8 DEF Accepted, Storing
  <2>. QED  BY <1>1, <1>2, <1>3, <2>1, <2>4, <2>9
<1>5. ASSUME NEW u \in Users,
             \/ \E s \in Servers, insecure \in BOOLEAN : fetchVCIP(u, s, insecure)
             \/ \E s \in Servers : fetchThumbprint(u, s) \/ StorageProvider(u, s)
             \/ \E p \in Passwords : fetchCredentials(u, p)
             \/ AnotherVCenter(u) \/ Start(u) \/ RunAgain(u) \/ Exit(u) \/ createVDOConfig(u)
      PROVE  ValidInv'
  <2>1. OthersStay(u)
    BY <1>5 DEF TypeInv, TypeOK, OthersStay, Start, fetchVCIP, fetchThumbprint, fetchCredentials,
                AnotherVCenter, StorageProvider, createVDOConfig, Exit, RunAgain,
                NothingAnswered, Goto, answers, AfterError
  <2>2. pc'[u] \notin Storing /\ UNCHANGED <<secrets, vccs>>
    BY <1>5 DEF TypeInv, TypeOK, Start, fetchVCIP, fetchThumbprint, fetchCredentials,
                AnotherVCenter, StorageProvider, createVDOConfig, Exit, RunAgain, Goto, objects,
                AfterError, Storing
  <2>3. Accepted(u)'
    BY <2>2 DEF Accepted
  <2>. QED  BY <1>1, <1>2, <1>3, <2>1, <2>2, <2>3
<1>6. ASSUME NEW u \in Users, createSecret(u) PROVE ValidInv'
  <2>1. OthersStay(u)
    BY <1>6, OneUserSteps DEF Work
  <2>2. Accepted(u)' /\ cred[u].password = RightPassword
    BY <1>6 DEF createSecret, Accepted, Goto, Storing, answers
  <2>3. StoredIsValidated'
    BY <1>6, <2>2 DEF createSecret, StoredIsValidated, TypeInv, TypeOK
  <2>. QED  BY <1>1, <1>2, <2>1, <2>2, <2>3
<1>7. ASSUME NEW u \in Users, createVsphereCloudConfig(u) \/ UpdateVsphereCloudConfig(u)
      PROVE  ValidInv'
  <2>1. OthersStay(u)
    BY <1>7, OneUserSteps DEF Work
  <2>2. UNCHANGED <<secrets, cred>> /\ pc[u] \in Storing
    BY <1>7 DEF createVsphereCloudConfig, UpdateVsphereCloudConfig, Storing
  <2>3. Accepted(u)'
    BY <2>2 DEF Accepted
  <2>4. CASE Written(u)
    <3>1. /\ Key(u)[2] = cred[u].vcIp /\ ResourceOf(cred[u]).thumbprint = cred[u].thumbprint
          /\ ResourceOf(cred[u]).datacenters = cred[u].datacenters
      BY DEF Key, ResourceOf
    <3>2. \A k \in Drivers \X Servers :
             \/ vccs'[k] = vccs[k]
             \/ vccs'[k] = ResourceOf(cred[u]) /\ k = Key(u)
      BY <2>4 DEF Written, TypeInv, TypeOK
    <3>3. StoredIsValidated'
      BY <2>2, <3>1, <3>2 DEF StoredIsValidated, Accepted
    <3>. QED  BY <1>1, <1>2, <2>1, <2>3, <3>3
  <2>5. CASE UNCHANGED vccs
    BY <1>1, <1>2, <1>3, <2>1, <2>2, <2>3, <2>5
  <2>. QED  BY <1>7, <2>4, <2>5 DEF createVsphereCloudConfig, UpdateVsphereCloudConfig
<1>8. ASSUME (\E u \in Users : TakeCare(u)) \/ UNCHANGED vars PROVE ValidInv'
  <2>1. UNCHANGED <<secrets, vccs, pc, cred>>
    BY <1>8 DEF TakeCare, vars, objects, answers
  <2>. QED  BY <1>1, <2>1 DEF Accepted, StoredIsValidated
<1>. QED  BY <1>4, <1>5, <1>6, <1>7, <1>8 DEF Next, Answer, Work, Finished

\* With datacenters that are not typed as inventory paths, so that no session is
\* reused, what any number of users and runs store is what vCenter has accepted.
THEOREM StoredIsValidatedAlways ==
    ASSUME "path" \notin Typed PROVE Spec => []StoredIsValidated
<1>1. Init => ValidInv
  <2>1. Init => /\ \A u \in Users : Accepted(u)
                /\ StoredIsValidated
    BY DEF Init, Accepted, Storing, StoredIsValidated
  <2>. QED  BY <2>1, TypeInit DEF ValidInv
<1>2. ValidInv => StoredIsValidated
  BY DEF ValidInv
<1>3. ValidInv /\ [Next]_vars => ValidInv'
  BY ValidStep
<1>. QED  BY <1>1, <1>2, <1>3, PTL DEF Spec

-----------------------------------------------------------------------------
(* How many VDOConfigs there can be *)

\* From the first VDOConfig on nobody gets past the start, and each of those who
\* were under way then creates at most one before starting again.
CountInv ==
    /\ TypeInv
    /\ vdoConfigs = <<>> \/ Len(vdoConfigs) + Cardinality(UnderWay) <= Cardinality(rivals)

\* The runs are finitely many.
LEMMA RunCount ==
    ASSUME NEW S, S \subseteq Users
    PROVE  IsFiniteSet(S) /\ Cardinality(S) \in Nat
BY UsersAssumption, FS_Subset, FS_CardinalityType

\* A step that gets nobody past the start and creates none.
LEMMA CountFrame ==
    ASSUME CountInv, TypeInv', UNCHANGED <<vdoConfigs, rivals>>, UnderWay' \subseteq UnderWay
    PROVE  CountInv'
<1>1. UnderWay \subseteq Users /\ UnderWay' \subseteq Users /\ rivals \subseteq Users
  BY DEF UnderWay, CountInv, TypeInv, TypeOK
<1>2. Cardinality(UnderWay') <= Cardinality(UnderWay)
  BY <1>1, RunCount, FS_Subset
<1>3. /\ Cardinality(UnderWay') \in Nat /\ Cardinality(UnderWay) \in Nat
      /\ Cardinality(rivals) \in Nat
  BY <1>1, RunCount
<1>4. Len(vdoConfigs) \in Nat
  BY DEF CountInv, TypeInv, TypeOK
<1>. QED  BY <1>2, <1>3, <1>4 DEF CountInv

\* Every step keeps the number of VDOConfigs within that of the rivals.
LEMMA CountStep == ASSUME CountInv, [Next]_vars PROVE CountInv'
<1>. USE DEF CountInv
<1>1. TypeInv'
  BY TypeStep
<1>2. ASSUME NEW u \in Users, OthersStay(u), UNCHANGED <<vdoConfigs, rivals>>,
             u \in UnderWay \/ pc'[u] \in {"start", "done", "exit"}
      PROVE  CountInv'
  <2>1. UnderWay' \subseteq UnderWay
    BY <1>2 DEF UnderWay, OthersStay
  <2>. QED  BY <1>1, <1>2, <2>1, CountFrame
<1>3. ASSUME NEW u \in Users, Start(u) PROVE CountInv'
  <2>1. CASE IsConfigured
    <3>1. pc'[u] = "done" /\ UNCHANGED <<vdoConfigs, rivals>>
      BY <1>3, <2>1 DEF Start, Goto, TypeInv, TypeOK, objects
    <3>2. OthersStay(u)
      BY <1>3, OneUserSteps DEF Work
    <3>. QED  BY <1>2, <3>1, <3>2
  <2>2. CASE ~IsConfigured
    BY <1>1, <1>3, <2>2 DEF Start, IsConfigured, objects
  <2>. QED  BY <2>1, <2>2
<1>4. ASSUME NEW u \in Users, createVDOConfig(u) PROVE CountInv'
  <2>1. OthersStay(u) /\ pc[u] = "createVDOConfig" /\ pc'[u] = "done"
    BY <1>4, OneUserSteps DEF Work, createVDOConfig, Goto, TypeInv, TypeOK
  <2>2. u \in UnderWay /\ UnderWay' = UnderWay \ {u}
    BY <2>1 DEF UnderWay, OthersStay
  <2>3. UnderWay \subseteq Users /\ rivals \subseteq Users
    BY DEF UnderWay, TypeInv, TypeOK
  <2>4. /\ IsFiniteSet(UnderWay) /\ Cardinality(UnderWay) \in Nat /\ Cardinality(rivals) \in Nat
    BY <2>3, RunCount
  <2>5. Cardinality(UnderWay') = Cardinality(UnderWay) - 1
    BY <2>2, <2>4, FS_RemoveElement
  <2>6. vdoConfigs \in Seq([cpi : Seq(Servers), csi : Servers])
        /\ vdoConfigs' = Append(vdoConfigs, [cpi |-> vcIPList[u], csi |-> cred[u].vcIp])
    BY <1>4 DEF createVDOConfig, TypeInv, TypeOK
  <2>7. Len(vdoConfigs) \in Nat /\ Len(vdoConfigs') = Len(vdoConfigs) + 1
    BY <2>6
  <2>8. CASE vdoConfigs = <<>>
    <3>1. rivals' = UnderWay /\ Len(vdoConfigs) = 0
      BY <1>4, <2>8 DEF createVDOConfig
    <3>. QED  BY <1>1, <2>4, <2>5, <2>7, <3>1
  <2>9. CASE vdoConfigs # <<>>
    <3>1. rivals' = rivals
      BY <1>4, <2>9 DEF createVDOConfig
    <3>. QED  BY <1>1, <2>4, <2>5, <2>7, <2>9, <3>1
  <2>. QED  BY <2>8, <2>9
<1>5. ASSUME NEW u \in Users,
             \/ Answer(u) \/ createSecret(u) \/ createVsphereCloudConfig(u)
             \/ UpdateVsphereCloudConfig(u)
      PROVE  CountInv'
  <2>1. OthersStay(u)
    BY <1>5, OneUserSteps DEF Work
  <2>2. pc[u] \notin {"start", "done", "exit"} /\ UNCHANGED <<vdoConfigs, rivals>>
    BY <1>5 DEF Answer, fetchVCIP, fetchThumbprint, fetchCredentials, fetchDatacenters,
                AnotherVCenter, StorageProvider, createSecret, createVsphereCloudConfig,
                UpdateVsphereCloudConfig, objects
  <2>. QED  BY <1>2, <2>1, <2>2 DEF UnderWay
<1>6. ASSUME NEW u \in Users, Exit(u) \/ RunAgain(u) PROVE CountInv'
  <2>1. OthersStay(u)
    BY <1>6, OneUserSteps
  <2>2. pc'[u] \in {"exit", "start"} /\ UNCHANGED <<vdoConfigs, rivals>>
    BY <1>6 DEF Exit, AfterError, RunAgain, Goto, TypeInv, TypeOK, objects
  <2>. QED  BY <1>2, <2>1, <2>2
<1>7. ASSUME (\E u \in Users : TakeCare(u)) \/ UNCHANGED vars PROVE CountInv'
  <2>1. UNCHANGED <<vdoConfigs, rivals, pc>>
    BY <1>7 DEF TakeCare, vars, objects
  <2>2. UnderWay' \subseteq UnderWay
    BY <2>1 DEF UnderWay
  <2>. QED  BY <1>1, <2>1, <2>2, CountFrame
<1>. QED  BY <1>3, <1>4, <1>5, <1>6, <1>7 DEF Next, Work, Finished

\* There are never more VDOConfigs than runs that were under way when the first
\* one was created, each of a user of its own: the check at the start of the
\* command stops all that start later, however many and whatever the interleaving.
THEOREM NoneAfterConfiguredAlways == Spec => []NoneAfterConfigured
<1>1. Init => CountInv
  BY TypeInit DEF Init, CountInv
<1>2. CountInv => NoneAfterConfigured
  <2>. SUFFICES ASSUME CountInv PROVE NoneAfterConfigured
    OBVIOUS
  <2>1. UnderWay \subseteq Users /\ rivals \subseteq Users /\ Len(vdoConfigs) \in Nat
    BY DEF CountInv, TypeInv, TypeOK, UnderWay
  <2>2. Cardinality(UnderWay) \in Nat /\ Cardinality(rivals) \in Nat
    BY <2>1, RunCount
  <2>3. vdoConfigs = <<>> => Len(vdoConfigs) = 0
    OBVIOUS
  <2>. QED  BY <2>1, <2>2, <2>3 DEF CountInv, NoneAfterConfigured
<1>3. CountInv /\ [Next]_vars => CountInv'
  BY CountStep
<1>. QED  BY <1>1, <1>2, <1>3, PTL DEF Spec
=============================================================================
