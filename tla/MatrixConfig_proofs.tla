------------------------ MODULE MatrixConfig_proofs ------------------------
(***************************************************************************)
(* Proofs about the way of the compatibility matrix, for any number of     *)
(* published matrices and of disturbances.                                 *)
(***************************************************************************)
EXTENDS MatrixConfig, TLAPS

USE MatrixAssumption

-----------------------------------------------------------------------------
(* Types *)

\* The helpers keep the types.
LEMMA HelperTypes ==
    /\ Empty \in Data
    /\ \A e \in Data : getMatrixConfig(e) \in Matrices
    /\ \A d \in Data \cup {Absent}, e \in Data : updateMatrixInfo(d, e) \in Data
    /\ \A n \in Matrices, mode \in Modes : [Empty EXCEPT ![mode] = n] \in Data
<1>1. Empty \in Data
  BY DEF Empty, Data, Matrices
<1>2. \A e \in Data : getMatrixConfig(e) \in Matrices
  BY DEF getMatrixConfig, Data, Matrices
<1>3. \A d \in Data \cup {Absent}, e \in Data : updateMatrixInfo(d, e) \in Data
  BY <1>1 DEF updateMatrixInfo, Data
<1>4. \A n \in Matrices, mode \in Modes : [Empty EXCEPT ![mode] = n] \in Data
  BY DEF Empty, Data, Matrices
<1>. QED  BY <1>1, <1>2, <1>3, <1>4

\* The types hold initially.
LEMMA TypeInit == Init => TypeOK
<1>1. 0 \in Matrices /\ 0 \in 0 .. MaxEvents
  BY DEF Matrices
<1>. QED  BY <1>1, HelperTypes DEF Init, TypeOK

\* Every step keeps the types.
LEMMA TypeStep == TypeOK /\ [Next]_vars => TypeOK'
<1>. SUFFICES ASSUME TypeOK, [Next]_vars PROVE TypeOK'
  OBVIOUS
<1>1. ASSUME NEW r \in {"vdo", "cm"}, Reconcile(r) PROVE TypeOK'
  <2>1. env' \in Data
    BY <1>1, HelperTypes DEF Reconcile, TypeOK
  <2>2. active' \in Matrices
    BY <1>1, <2>1, HelperTypes DEF Reconcile, TypeOK
  <2>3. events' \in 0 .. MaxEvents
    BY <1>1 DEF Reconcile, TypeOK, Calm, Happens
  <2>4. requests' \subseteq {"vdo", "cm", "compat"}
    BY <1>1 DEF Reconcile, TypeOK
  <2>5. nsKnown' = TRUE /\ UNCHANGED <<cm, seen, notice, configured, op, compat, writes>>
    BY <1>1 DEF Reconcile
  <2>. QED  BY <2>1, <2>2, <2>3, <2>4, <2>5 DEF TypeOK
<1>2. CASE CompatReconcile \/ Watch \/ Handle
  BY <1>2 DEF CompatReconcile, Watch, Handle, Calm, TypeOK
<1>3. CASE Resync
  <2>1. notice' \in BOOLEAN /\ requests' \subseteq {"vdo", "cm", "compat"}
    BY <1>3 DEF Resync
  <2>. QED  BY <1>3, <2>1 DEF Resync, Calm, TypeOK
<1>4. CASE Crash
  <2>1. events' \in 0 .. MaxEvents
    BY <1>4 DEF Crash, Happens, TypeOK
  <2>2. env' \in Data /\ seen' = Absent
    BY <1>4, HelperTypes DEF Crash
  <2>. QED  BY <1>4, <2>1, <2>2 DEF Crash, TypeOK
<1>5. CASE Start \/ Sync
  <2>1. env' \in Data
    BY <1>5 DEF Start, Sync, CanStart, ContainerEnv, TypeOK
  <2>2. notice' \in BOOLEAN /\ requests' \subseteq {"vdo", "cm", "compat"}
    BY <1>5 DEF Start, Sync, TypeOK
  <2>. QED  BY <1>5, <2>1, <2>2 DEF Start, Sync, Calm, TypeOK
<1>6. CASE updateMatrix \/ configureMatrix
  <2>1. writes' \in Matrices
    BY <1>6 DEF updateMatrix, configureMatrix, Publish, TypeOK, Matrices
  <2>2. writes' = writes + 1
    BY <1>6 DEF updateMatrix, configureMatrix, Publish
  <2>3. cm' \in Data
    BY <1>6, <2>1, <2>2, HelperTypes DEF updateMatrix, configureMatrix, OneKey
  <2>. QED  BY <1>6, <2>1, <2>3 DEF updateMatrix, configureMatrix, Calm, TypeOK
<1>7. CASE DeleteConfigMap
  BY <1>7 DEF DeleteConfigMap, Happens, TypeOK
<1>8. CASE createVDOConfig
  BY <1>8 DEF createVDOConfig, Calm, TypeOK
<1>9. CASE ApplyCompatibilityConfig
  <2>1. writes' \in Matrices /\ compat' \in Matrices
    BY <1>9 DEF ApplyCompatibilityConfig, Publish, TypeOK, Matrices
  <2>. QED  BY <1>9, <2>1 DEF ApplyCompatibilityConfig, Happens, TypeOK
<1>10. CASE UNCHANGED vars
  BY <1>10 DEF vars, TypeOK
<1>. QED
  BY <1>1, <1>2, <1>3, <1>4, <1>5, <1>6, <1>7, <1>8, <1>9, <1>10 DEF Next

\* The operator, vdoctl and users stay within the types for any number of
\* published matrices: in particular a container that starts finds a ConfigMap
\* for its environment variables.
THEOREM TypeCorrect == Spec => []TypeOK
BY TypeInit, TypeStep, PTL DEF Spec

-----------------------------------------------------------------------------
(* Matrices are never used out of order *)

\* A ConfigMap written by vdoctl has one key, and its number.
OneKeyOnly(d) == \/ d.url # 0 /\ d.content = 0
                 \/ d.url = 0 /\ d.content # 0

\* No older than everything that has been selected from or is in the
\* environment.
Newest(d) == LET n == getMatrixConfig(d)
             IN  n >= active /\ n >= env.url /\ n >= env.content

\* The ConfigMap is the newest of all, then comes the informer's copy, then
\* the environment, which is no older than the matrix in use if it is usable
\* at all.  While the ConfigMap is absent, the next write is the newest.
Order ==
    /\ active <= writes /\ env.url <= writes /\ env.content <= writes
    /\ cm # Absent => /\ OneKeyOnly(cm) /\ Newest(cm) /\ getMatrixConfig(cm) <= writes
    /\ seen # Absent => /\ OneKeyOnly(seen) /\ Newest(seen)
                        /\ getMatrixConfig(seen) <= writes
                        /\ cm # Absent => getMatrixConfig(seen) <= getMatrixConfig(cm)
    /\ getMatrixConfig(env) # 0 => getMatrixConfig(env) >= active
    /\ op # "running" => seen = Absent

\* The order holds initially.
LEMMA OrderInit == Init => Order
BY DEF Init, Order, Empty, getMatrixConfig

\* Every step keeps the order.
LEMMA OrderStep == TypeOK /\ Order /\ [Next]_vars => Order'
<1>. SUFFICES ASSUME TypeOK, Order, [Next]_vars PROVE Order'
  OBVIOUS
<1>0. /\ active \in Nat /\ writes \in Nat /\ env.url \in Nat /\ env.content \in Nat
      /\ cm # Absent => cm \in Data /\ cm.url \in Nat /\ cm.content \in Nat
      /\ seen # Absent => seen \in Data /\ seen.url \in Nat /\ seen.content \in Nat
  BY DEF TypeOK, Data, Matrices
<1>1. ASSUME NEW r \in {"vdo", "cm"}, Reconcile(r) PROVE Order'
  <2>1. UNCHANGED <<cm, seen, writes, op>>
    BY <1>1 DEF Reconcile
  <2>2. active' = active \/ (active' = getMatrixConfig(env') /\ active' # 0)
    BY <1>1 DEF Reconcile
  <2>3. CASE env' = env
    BY <1>0, <2>1, <2>2, <2>3 DEF Order, OneKeyOnly, Newest, getMatrixConfig
  <2>4. CASE r = "cm" /\ seen = Absent
    <3>1. env' = Empty
      BY <1>1, <2>4 DEF Reconcile, updateMatrixInfo
    <3>. QED
      BY <1>0, <2>1, <2>2, <2>4, <3>1 DEF Order, OneKeyOnly, Newest, getMatrixConfig, Empty
  <2>5. CASE r = "cm" /\ seen # Absent
    <3>1. env' = [url |-> IF seen.url # 0 THEN seen.url ELSE env.url,
                  content |-> IF seen.content # 0 THEN seen.content ELSE env.content]
      BY <1>1, <2>5 DEF Reconcile, updateMatrixInfo
    <3>. QED
      BY <1>0, <2>1, <2>2, <2>5, <3>1 DEF Order, OneKeyOnly, Newest, getMatrixConfig
  <2>. QED  BY <1>1, <2>3, <2>4, <2>5 DEF Reconcile
<1>2. CASE CompatReconcile \/ Handle \/ Resync \/ createVDOConfig
  BY <1>2 DEF CompatReconcile, Handle, Resync, createVDOConfig, Order, Newest
<1>3. CASE Watch \/ Sync
  <2>1. seen' = cm /\ op' = "running" /\ UNCHANGED <<cm, env, active, writes>>
    BY <1>3 DEF Watch, Sync
  <2>. QED  BY <1>0, <2>1 DEF Order, Newest, getMatrixConfig
<1>4. CASE Crash
  <2>1. env' = Empty /\ seen' = Absent /\ UNCHANGED <<cm, active, writes>>
    BY <1>4 DEF Crash
  <2>. QED  BY <1>0, <2>1 DEF Order, OneKeyOnly, Newest, getMatrixConfig, Empty
<1>5. CASE Start
  <2>1. /\ cm # Absent /\ env' = cm /\ seen = Absent
        /\ op' = "started" /\ UNCHANGED <<cm, seen, active, writes>>
    BY <1>5 DEF Start, CanStart, ContainerEnv, Order
  <2>. QED  BY <1>0, <2>1 DEF Order, OneKeyOnly, Newest, getMatrixConfig
<1>6. CASE updateMatrix \/ configureMatrix
  <2>1. PICK mode \in {"url", "content"} : cm' = [Empty EXCEPT ![mode] = writes + 1]
    BY <1>6 DEF updateMatrix, configureMatrix, OneKey
  <2>2. writes' = writes + 1 /\ UNCHANGED <<seen, env, active, op>>
    BY <1>6 DEF updateMatrix, configureMatrix, Publish
  <2>3. \/ cm'.url = writes + 1 /\ cm'.content = 0
        \/ cm'.url = 0 /\ cm'.content = writes + 1
    <3>1. CASE mode = "url"
      BY <2>1, <3>1 DEF Empty
    <3>2. CASE mode = "content"
      BY <2>1, <3>2 DEF Empty
    <3>. QED  BY <3>1, <3>2
  <2>. QED  BY <1>0, <2>2, <2>3 DEF Order, OneKeyOnly, Newest, getMatrixConfig
<1>7. CASE DeleteConfigMap
  <2>1. cm' = Absent /\ UNCHANGED <<seen, env, active, op, writes>>
    BY <1>7 DEF DeleteConfigMap
  <2>. QED  BY <2>1 DEF Order, Newest
<1>8. CASE ApplyCompatibilityConfig
  <2>1. writes' = writes + 1 /\ UNCHANGED <<cm, seen, env, active, op>>
    BY <1>8 DEF ApplyCompatibilityConfig, Publish
  <2>. QED  BY <1>0, <2>1 DEF Order, OneKeyOnly, Newest, getMatrixConfig
<1>9. CASE UNCHANGED vars
  BY <1>9 DEF vars, Order, Newest
<1>. QED
  BY <1>1, <1>2, <1>3, <1>4, <1>5, <1>6, <1>7, <1>8, <1>9 DEF Next

\* Drivers are never selected from an older matrix than before, in whatever
\* order restarts, deletions, dropped events and changes between URL and
\* content happen.
THEOREM NeverOlderMatrixAlways == Spec => NeverOlderMatrix
<1>1. TypeOK /\ Order /\ Order' /\ [Next]_vars => [active' >= active]_vars
  <2>. SUFFICES ASSUME TypeOK, Order, Order', Next PROVE active' >= active
    BY DEF vars
  <2>1. active \in Nat
    BY DEF TypeOK, Matrices
  <2>2. ASSUME NEW r \in {"vdo", "cm"}, Reconcile(r) PROVE active' >= active
    <3>0. /\ env.url \in Nat /\ env.content \in Nat
          /\ seen # Absent => seen.url \in Nat /\ seen.content \in Nat
      BY DEF TypeOK, Data, Matrices
    <3>1. active' = active \/ (active' = getMatrixConfig(env') /\ active' # 0)
      BY <2>2 DEF Reconcile
    <3>2. CASE env' = env
      BY <2>1, <3>1, <3>2 DEF Order
    <3>3. CASE r = "cm" /\ seen = Absent
      <4>1. env' = Empty
        BY <2>2, <3>3 DEF Reconcile, updateMatrixInfo
      <4>. QED  BY <2>1, <3>1, <4>1 DEF Empty, getMatrixConfig
    <3>4. CASE r = "cm" /\ seen # Absent
      <4>1. env' = [url |-> IF seen.url # 0 THEN seen.url ELSE env.url,
                    content |-> IF seen.content # 0 THEN seen.content ELSE env.content]
        BY <2>2, <3>4 DEF Reconcile, updateMatrixInfo
      <4>. QED
        BY <2>1, <3>0, <3>1, <3>4, <4>1 DEF Order, OneKeyOnly, Newest, getMatrixConfig
    <3>. QED  BY <2>2, <3>2, <3>3, <3>4 DEF Reconcile
  <2>3. CASE ~ \E r \in {"vdo", "cm"} : Reconcile(r)
    <3>1. active' = active
      BY <2>3 DEF Next, CompatReconcile, Watch, Handle, Resync, Crash, Start, Sync,
                  updateMatrix, configureMatrix, DeleteConfigMap, createVDOConfig,
                  ApplyCompatibilityConfig
    <3>. QED  BY <2>1, <3>1
  <2>. QED  BY <2>2, <2>3
<1>. QED  BY <1>1, TypeInit, TypeStep, OrderInit, OrderStep, PTL DEF Spec, NeverOlderMatrix
=============================================================================
