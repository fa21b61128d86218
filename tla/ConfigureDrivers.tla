--------------------------- MODULE ConfigureDrivers ---------------------------
(***************************************************************************)
(* vdoctl configure drivers (vdoctl/cmd/drivers.go), run by several users: *)
(* the questions, the answers of vCenter that decide which question comes  *)
(* again, and the objects that are left in the cluster.                    *)
(*                                                                         *)
(* A run is a process with a session cache of its own.  All runs use one   *)
(* vCenter account.  The thumbprint of a server is written as the server;  *)
(* its certificate is not signed by a known authority.  Of the datacenters *)
(* that a user types matters what strings.SplitAfter makes of them: a path *)
(* or a name of a datacenter, names of several that all exist (the list    *)
(* "dc0, dc1" of the documentation), or something else.                    *)
(***************************************************************************)
EXTENDS Integers, Sequences, FiniteSets

CONSTANTS
    Users,        \* people who run the command
    Experts,      \* those who only give answers that can be accepted
    Servers,      \* vCenters, as they are typed
    Reachable,    \* those that answer
    Passwords, RightPassword,
    Typed,        \* lists of datacenters as they are typed
    MaxVCenters,  \* bound on the vCenters of CPI in one run
    MaxFailures,  \* bound on the runs that are broken off
    MaxRuns,      \* bound on the runs after the first
    Absent

ASSUME ConfigureDriversAssumption ==
    /\ Experts \subseteq Users /\ Reachable \subseteq Servers /\ RightPassword \in Passwords
    /\ Typed \subseteq {"path", "name", "list", "wrong"}
    /\ Absent \notin Servers \cup Passwords \cup Typed
    /\ Absent \notin [thumbprint : Servers \cup {Absent}, datacenters : Typed]
    /\ MaxVCenters \in Nat \ {0} /\ MaxFailures \in Nat /\ MaxRuns \in Nat

ASSUME UsersAssumption == IsFiniteSet(Users)

VARIABLES
    secrets,    \* passwords in <vcIp>-creds-<driver>
    vccs,       \* VsphereCloudConfig resources <vcIp>-<driver>
    vdoConfigs, \* VDOConfig resources, in the order of their creation
    rivals,     \* history: whose runs were under way when the first was created
    (* the run of each user *)
    pc,         \* the question or the step it is at
    driver,     \* what is being configured
    cred,       \* credentials{}
    vcIPList,   \* vCenters of CPI
    thumbprintMap,
    sessionCache,  \* datacenters of the session with each server
    fresh,      \* the VsphereCloudConfig it has read is of the latest version
    failures, runs,
    careful     \* users who do so from now on

objects == <<secrets, vccs, vdoConfigs, rivals>>
bounds == <<failures, runs>>
answers == <<driver, cred, vcIPList, thumbprintMap>>
vars == <<objects, pc, answers, sessionCache, fresh, bounds, careful>>

Drivers == {"cpi", "csi"}
Questions == {"vcIp", "thumbprint", "credentials", "datacenters", "another"}
Steps == {"start", "createSecret", "createVsphereCloudConfig", "update", "createVDOConfig"}

NoCredentials == [vcIp |-> Absent, insecure |-> FALSE, thumbprint |-> Absent,
                  password |-> Absent, datacenters |-> Absent]
ResourceOf(c) == [thumbprint |-> c.thumbprint, datacenters |-> c.datacenters]

TypeOK ==
    /\ secrets \in [Drivers \X Servers -> Passwords \cup {Absent}]
    /\ vccs \in [Drivers \X Servers ->
                    [thumbprint : Servers \cup {Absent}, datacenters : Typed] \cup {Absent}]
    /\ vdoConfigs \in Seq([cpi : Seq(Servers), csi : Servers]) /\ rivals \subseteq Users
    /\ pc \in [Users -> Questions \cup Steps \cup {"done", "exit"}]
    /\ driver \in [Users -> Drivers]
    /\ cred \in [Users -> [vcIp : Servers \cup {Absent}, insecure : BOOLEAN,
                           thumbprint : Servers \cup {Absent},
                           password : Passwords \cup {Absent},
                           datacenters : Typed \cup {Absent}]]
    /\ vcIPList \in [Users -> Seq(Servers)]
    /\ thumbprintMap \in [Users -> [Servers -> Servers \cup {Absent}]]
    /\ sessionCache \in [Users -> [Servers -> {"path", Absent}]]
    /\ fresh \in [Users -> BOOLEAN]
    /\ failures \in 0 .. MaxFailures /\ runs \in 0 .. MaxRuns
    /\ careful \subseteq Users

Goto(u, step) == pc' = [pc EXCEPT ![u] = step]

\* Past the check at the start, and not over.
UnderWay == {u \in Users : pc[u] \notin {"start", "done", "exit"}}

-----------------------------------------------------------------------------
(* The start of a run *)

\* The process is over, with all it has been told.
NothingAnswered(u) ==
    /\ driver' = [driver EXCEPT ![u] = "cpi"]
    /\ cred' = [cred EXCEPT ![u] = NoCredentials]
    /\ vcIPList' = [vcIPList EXCEPT ![u] = <<>>]
    /\ thumbprintMap' = [thumbprintMap EXCEPT ![u] = [s \in Servers |-> Absent]]
    /\ sessionCache' = [sessionCache EXCEPT ![u] = [s \in Servers |-> Absent]]
    /\ fresh' = [fresh EXCEPT ![u] = FALSE]

\* Slip: the command may be run again.
IsConfiguredIgnored == FALSE

\* "VDO is configured. We currently do not support editing the configuration"
IsConfigured == vdoConfigs # <<>>

\* The checks at the start, and whether CPI is wanted.
Start(u) ==
    /\ pc[u] = "start"
    /\ IF IsConfigured THEN Goto(u, "done") /\ UNCHANGED driver
       ELSE /\ Goto(u, "vcIp")
            /\ \E isCPIRequired \in BOOLEAN :
                  driver' = [driver EXCEPT ![u] = IF isCPIRequired THEN "cpi" ELSE "csi"]
    /\ UNCHANGED <<objects, cred, vcIPList, thumbprintMap, sessionCache, fresh, bounds, careful>>

-----------------------------------------------------------------------------
(* Questions *)

\* The thumbprint that was typed for another server stays.
fetchVCIP(u, s, insecure) ==
    /\ pc[u] = "vcIp"
    /\ cred' = [cred EXCEPT ![u].vcIp = s, ![u].insecure = insecure]
    /\ Goto(u, IF insecure THEN "credentials" ELSE "thumbprint")
    /\ UNCHANGED <<objects, driver, vcIPList, thumbprintMap, sessionCache, fresh, bounds, careful>>

fetchThumbprint(u, t) ==
    /\ pc[u] = "thumbprint"
    /\ cred' = [cred EXCEPT ![u].thumbprint = t]
    /\ thumbprintMap' = IF driver[u] = "cpi" THEN [thumbprintMap EXCEPT ![u][cred[u].vcIp] = t]
                        ELSE thumbprintMap
    /\ Goto(u, "credentials")
    /\ UNCHANGED <<objects, driver, vcIPList, sessionCache, fresh, bounds, careful>>

fetchCredentials(u, p) ==
    /\ pc[u] = "credentials"
    /\ cred' = [cred EXCEPT ![u].password = p]
    /\ Goto(u, "datacenters")
    /\ UNCHANGED <<objects, driver, vcIPList, thumbprintMap, sessionCache, fresh, bounds, careful>>

\* Slip: any session with the server will do.
SameDatacentersAny(cached, asked) == cached # Absent

\* The datacenters as they are typed are compared with inventory paths.
SameDatacenters(cached, asked) == cached = asked

\* Each part of the text has to be found: of several, all but the last end in a comma.
Found(dcs) == dcs \in {"path", "name"}

\* What session.GetOrCreate says: a session with the same datacenters is taken
\* from the cache, whatever the password and the thumbprint.
GetOrCreate(cached, c) ==
    IF SameDatacenters(cached, c.datacenters) THEN "cached"
    ELSE IF c.vcIp \notin Reachable THEN "other"
    ELSE IF c.thumbprint \notin {Absent, c.vcIp} THEN "thumbprint"
    ELSE IF c.password # RightPassword THEN "password"
    ELSE IF ~Found(c.datacenters) THEN "datacenter"
    ELSE "created"

\* Slip: the thumbprint is not asked for again.
QuestionAfterNoThumbprint(d, c, result) ==
    CASE result \in {"cached", "created"} -> "createSecret"
      [] result = "datacenter" -> "datacenters"
      [] result \in {"password", "thumbprint"} -> "credentials"
      [] result = "other" -> "vcIp"

\* checkPattern on the error decides which question comes again.  For CPI an
\* insecure connection goes on to the credentials without a new thumbprint.
QuestionAfter(d, c, result) ==
    CASE result \in {"cached", "created"} -> "createSecret"
      [] result = "datacenter" -> "datacenters"
      [] result = "password" -> "credentials"
      [] result = "thumbprint" -> IF d = "cpi" /\ c.insecure THEN "credentials" ELSE "thumbprint"
      [] result = "other" -> "vcIp"

\* Answers that are asked for again are not looked at before that; those to the
\* other questions stay.
Kept(c, question) ==
    CASE question = "datacenters" -> [c EXCEPT !.datacenters = Absent]
      [] question \in {"credentials", "thumbprint"} ->
            [c EXCEPT !.datacenters = Absent, !.password = Absent]
      [] question = "vcIp" -> [NoCredentials EXCEPT !.thumbprint = c.thumbprint]
      [] OTHER -> c

fetchDatacenters(u, dcs) ==
    /\ pc[u] = "datacenters"
    /\ LET c == [cred[u] EXCEPT !.datacenters = dcs]
           result == GetOrCreate(sessionCache[u][c.vcIp], c)
       IN /\ cred' = [cred EXCEPT ![u] = Kept(c, QuestionAfter(driver[u], c, result))]
          /\ sessionCache' = IF result = "created" THEN [sessionCache EXCEPT ![u][c.vcIp] = "path"]
                             ELSE sessionCache
          /\ Goto(u, QuestionAfter(driver[u], c, result))
    /\ UNCHANGED <<objects, driver, vcIPList, thumbprintMap, fresh, bounds, careful>>

\* Another vCenter for CPI: all answers are forgotten.
AnotherVCenter(u) ==
    /\ pc[u] = "another" /\ Len(vcIPList[u]) < MaxVCenters
    /\ cred' = [cred EXCEPT ![u] = NoCredentials]
    /\ Goto(u, "vcIp")
    /\ UNCHANGED <<objects, driver, vcIPList, thumbprintMap, sessionCache, fresh, bounds, careful>>

\* On to CSI: with several vCenters one of them is selected, otherwise it is
\* that of CPI.
StorageProvider(u, s) ==
    /\ pc[u] = "another" /\ \E i \in DOMAIN vcIPList[u] : vcIPList[u][i] = s
    /\ LET t == IF Len(vcIPList[u]) > 1 THEN thumbprintMap[u][s] ELSE cred[u].thumbprint
           insecure == IF Len(vcIPList[u]) > 1 THEN t = Absent ELSE cred[u].insecure
       IN cred' = [cred EXCEPT ![u] = [NoCredentials EXCEPT !.vcIp = s, !.thumbprint = t,
                                                            !.insecure = insecure]]
    /\ driver' = [driver EXCEPT ![u] = "csi"]
    /\ Goto(u, "credentials")
    /\ UNCHANGED <<objects, vcIPList, thumbprintMap, sessionCache, fresh, bounds, careful>>

-----------------------------------------------------------------------------
(* Objects *)

Key(u) == <<driver[u], cred[u].vcIp>>

\* Create, or Update without a resource version: the last one wins.
createSecret(u) ==
    /\ pc[u] = "createSecret"
    /\ secrets' = [secrets EXCEPT ![Key(u)] = cred[u].password]
    /\ Goto(u, "createVsphereCloudConfig")
    /\ UNCHANGED <<vccs, vdoConfigs, rivals, answers, sessionCache, fresh, bounds, careful>>

Written(u) ==
    /\ vccs' = [vccs EXCEPT ![Key(u)] = ResourceOf(cred[u])]
    /\ fresh' = [v \in Users |-> fresh[v] /\ Key(v) # Key(u)]
    /\ vcIPList' = IF driver[u] = "cpi" THEN [vcIPList EXCEPT ![u] = Append(@, cred[u].vcIp)]
                   ELSE vcIPList
    /\ Goto(u, IF driver[u] = "cpi" THEN "another" ELSE "createVDOConfig")

\* Create, or Get and Update.
createVsphereCloudConfig(u) ==
    /\ pc[u] = "createVsphereCloudConfig"
    /\ IF vccs[Key(u)] = Absent THEN Written(u)
       ELSE /\ fresh' = [fresh EXCEPT ![u] = TRUE]
            /\ Goto(u, "update")
            /\ UNCHANGED <<vccs, vcIPList>>
    /\ UNCHANGED <<secrets, vdoConfigs, rivals, driver, cred, thumbprintMap, sessionCache, bounds,
                   careful>>

\* A copy that is out of date is a conflict, which is an error (see Exit).
UpdateVsphereCloudConfig(u) ==
    /\ pc[u] = "update" /\ fresh[u]
    /\ Written(u)
    /\ UNCHANGED <<secrets, vdoConfigs, rivals, driver, cred, thumbprintMap, sessionCache, bounds,
                   careful>>

\* The name has a random suffix: Create finds none of the others.
createVDOConfig(u) ==
    /\ pc[u] = "createVDOConfig"
    /\ vdoConfigs' = Append(vdoConfigs, [cpi |-> vcIPList[u], csi |-> cred[u].vcIp])
    /\ rivals' = IF vdoConfigs = <<>> THEN UnderWay ELSE rivals
    /\ Goto(u, "done") /\ NothingAnswered(u)
    /\ UNCHANGED <<secrets, vccs, bounds, careful>>

-----------------------------------------------------------------------------
(* The user *)

\* Slip: a question that is broken off counts as answered.
AfterErrorAnswered(u) == IF pc[u] = "datacenters" THEN "createSecret" ELSE "exit"

\* Slip: an error of the API server is passed over.
AfterErrorGoesOn(u) == IF pc[u] = "createVsphereCloudConfig" /\ driver[u] = "csi"
                       THEN "createVDOConfig" ELSE "exit"

\* cobra.CheckErr
AfterError(u) == "exit"

\* The command is interrupted at a question, or the API server answers with an
\* error (also for the conflict): what is in the cluster stays.
Exit(u) ==
    /\ pc[u] \in Questions \cup Steps
    /\ IF pc[u] = "update" /\ ~fresh[u] THEN UNCHANGED failures
       ELSE failures < MaxFailures /\ failures' = failures + 1
    /\ Goto(u, AfterError(u))
    /\ IF AfterError(u) = "exit" THEN NothingAnswered(u)
       ELSE UNCHANGED <<answers, sessionCache, fresh>>
    /\ UNCHANGED <<objects, runs, careful>>

RunAgain(u) ==
    /\ pc[u] \in {"exit", "done"} /\ runs < MaxRuns
    /\ runs' = runs + 1
    /\ Goto(u, "start")
    /\ UNCHANGED <<objects, answers, sessionCache, fresh, failures, careful>>

\* All runs are over.
Finished ==
    /\ \A u \in Users : pc[u] \in {"exit", "done"}
    /\ UNCHANGED vars

Init ==
    /\ secrets = [k \in Drivers \X Servers |-> Absent]
    /\ vccs = [k \in Drivers \X Servers |-> Absent]
    /\ vdoConfigs = <<>> /\ rivals = {}
    /\ pc = [u \in Users |-> "start"]
    /\ driver = [u \in Users |-> "cpi"] /\ cred = [u \in Users |-> NoCredentials]
    /\ vcIPList = [u \in Users |-> <<>>]
    /\ thumbprintMap = [u \in Users |-> [s \in Servers |-> Absent]]
    /\ sessionCache = [u \in Users |-> [s \in Servers |-> Absent]]
    /\ fresh = [u \in Users |-> FALSE]
    /\ failures = 0 /\ runs = 0
    /\ careful = Experts

\* From some time on a user gives no answer that the command cannot accept.
TakeCare(u) ==
    /\ u \notin careful
    /\ careful' = careful \cup {u}
    /\ UNCHANGED <<objects, pc, answers, sessionCache, fresh, bounds>>

Answer(u) ==
    LET MayAnswer(right) == u \in careful => right
    IN \/ \E s \in Servers, insecure \in BOOLEAN :
             MayAnswer(s \in Reachable) /\ fetchVCIP(u, s, insecure)
       \/ \E t \in Servers : MayAnswer(t = cred[u].vcIp) /\ fetchThumbprint(u, t)
       \/ \E p \in Passwords : MayAnswer(p = RightPassword) /\ fetchCredentials(u, p)
       \/ \E dcs \in Typed : MayAnswer(Found(dcs)) /\ fetchDatacenters(u, dcs)
       \/ AnotherVCenter(u)
       \/ \E s \in Servers : StorageProvider(u, s)

Work(u) ==
    \/ Start(u) \/ createSecret(u) \/ createVsphereCloudConfig(u)
    \/ UpdateVsphereCloudConfig(u) \/ createVDOConfig(u)

Next ==
    \/ \E u \in Users : Answer(u) \/ TakeCare(u) \/ Work(u) \/ Exit(u) \/ RunAgain(u)
    \/ Finished

Spec == Init /\ [][Next]_vars

\* Commands go on, questions are answered, and users take care some time.
Fairness ==
    \A u \in Users : WF_vars(Answer(u) \/ Work(u) \/ Exit(u)) /\ WF_vars(TakeCare(u))

FairSpec == Spec /\ Fairness

-----------------------------------------------------------------------------
(* Properties *)

\* Every VDOConfig names VsphereCloudConfigs that are there, each with its
\* secret, although runs are interrupted between the objects, fail, are repeated
\* with other answers and overwrite each other's objects.
ReferencesExist ==
    \A i \in DOMAIN vdoConfigs :
        LET v == vdoConfigs[i]
            named == {<<"cpi", v.cpi[j]>> : j \in DOMAIN v.cpi} \cup {<<"csi", v.csi>>}
        IN \A k \in named : vccs[k] # Absent /\ secrets[k] # Absent

\* "Upon successful validation of the above information, you will be asked for
\* the next set of configuration": what a run has stored, vCenter has accepted.
\* (It holds as long as no session is reused; with datacenters typed as paths the
\* password of CSI is not looked at.)
StoredIsValidated ==
    \A k \in Drivers \X Servers :
        /\ secrets[k] \in {RightPassword, Absent}
        /\ vccs[k] # Absent => /\ k[2] \in Reachable /\ Found(vccs[k].datacenters)
                               /\ vccs[k].thumbprint \in {Absent, k[2]}

\* Several VDOConfigs, which the VDOConfig controller refuses, come only of runs
\* that were all under way when the first was created, one of each: no run that
\* starts later creates one, whoever makes it, however long the others take.
NoneAfterConfigured == Len(vdoConfigs) <= Cardinality(rivals)

\* A thumbprint left from another server, for a connection that is not to be
\* secure: every login fails, and it is not asked for again.
LeftOver(u) ==
    /\ driver[u] = "cpi" /\ cred[u].insecure /\ cred[u].vcIp \in Reachable
    /\ cred[u].thumbprint \notin {Absent, cred[u].vcIp}

\* Another run has written the VsphereCloudConfig: the update is a conflict.
Overtaken(u) == pc[u] = "update" /\ ~fresh[u]

\* Who ends up giving answers that can be accepted, a single datacenter among
\* them, is not asked for ever: once nothing breaks runs off, the run gets to the
\* creation of the VDOConfig (it leaves UnderWay in no other way), whatever was
\* answered before and whichever questions came again; unless a thumbprint is left
\* over or another run is in the way.  (The list of datacenters that the
\* documentation shows is never accepted.)
GetsThrough ==
    \A u \in Users :
        []<>(u \in careful /\ u \in UnderWay /\ failures = MaxFailures =>
                 pc[u] = "createVDOConfig" \/ LeftOver(u) \/ Overtaken(u))
=============================================================================
