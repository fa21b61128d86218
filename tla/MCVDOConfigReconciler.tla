------------------------ MODULE MCVDOConfigReconciler ------------------------
EXTENDS VDOConfigReconciler

Doc(f, k) == [file |-> f, key |-> k]

MCCpiDocs == [v \in CpiVersions |->
    <<Doc(1, "rbac"), Doc(2, "ds")>>]

MCCsiDocs == [v \in CsiVersions |->
    IF v = "2.2.2" THEN <<Doc(1, DriverKey), Doc(2, DsKey("kube"))>>
    ELSE IF v = "2.6.2" THEN <<Doc(1, NsKey), Doc(2, DriverKey), Doc(2, DsKey("own")), Doc(2, FssKey)>>
    ELSE <<Doc(1, DriverKey), Doc(1, DsKey("own")), Doc(1, FssKey)>>]

\* Any first matrix; the CPI versions have the same manifests, so one will do.
MCFirst == {m \in Matrices : m.cpi \in {"1.21", None}}
\* A first matrix with a version of each driver.
MCFirstSelects == {m \in MCFirst : m.cpi # None /\ m.csi # None}

MCOwnNs == CsiVersions \ {"2.2.2"}
MCFss == CsiVersions \ {"2.2.2", "2.4.0"}
=============================================================================
