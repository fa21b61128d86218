---------------------------- MODULE MCCloudConfig ----------------------------
EXTENDS CloudConfig, TLC

Path(d) == <<"path", d>>

\* One resource for CPI alone, one that CPI and CSI share.
MCCpiConfigs == <<"one", "two">>

\* By inventory path: a session for datacenters by name is never reused.
MCLists == {<<Path("d1")>>, <<Path("d1"), Path("d2")>>}

\* Two vCenters, or one whose session the resources share.
MCFirstSpecs == {[one |-> [server |-> "vc1", dcs |-> <<Path("d1")>>],
                  two |-> [server |-> "vc2", dcs |-> <<Path("d1"), Path("d2")>>]],
                 [one |-> [server |-> "vc1", dcs |-> <<Path("d1")>>],
                  two |-> [server |-> "vc1", dcs |-> <<Path("d1")>>]]}

Range(min, max) == [min |-> min, max |-> max]
CpiEntry(vsphere, skew) == [valid |-> TRUE, vsphere |-> vsphere, skew |-> skew]
CsiEntry(vsphere, range) == [valid |-> TRUE, vsphere |-> vsphere, k8s |-> range]

\* vSphere 67 and 70, Kubernetes 21 and 22; each of the four has its own drivers.
MCCpiMatrix == (<<1, 21, 0>> :> CpiEntry(Range(67, 70), 21))
            @@ (<<1, 22, 1>> :> CpiEntry(Range(67, 70), 22))
MCCsiMatrix == (<<2, 2, 0>> :> CsiEntry(Range(67, 67), Range(21, 22)))
            @@ (<<2, 3, 0>> :> CsiEntry(Range(67, 70), Range(21, 21)))
            @@ (<<2, 4, 1>> :> CsiEntry(Range(70, 70), Range(21, 22)))
=============================================================================
