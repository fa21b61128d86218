-------------------------- MODULE VersionSelection --------------------------
(***************************************************************************)
(* How a driver version is chosen from the compatibility matrix for the    *)
(* versions of the vCenters and of Kubernetes (FetchCpiDeploymentYamls,    *)
(* FetchCsiDeploymentYamls), with a reference definition.                  *)
(*                                                                         *)
(* A driver version is the tuple of its numbers; versions of vSphere and   *)
(* Kubernetes, which are only compared as versions, are numbers.  An entry *)
(* of the matrix that version.NewVersion rejects is not valid.             *)
(***************************************************************************)
EXTENDS Integers, Sequences, FiniteSets

CONSTANTS
    VcVersions, K8sVersions,  \* versions of vSphere and of Kubernetes
    CpiMatrix, CsiMatrix      \* cpi and csi sections of the matrix

ASSUME VersionSelectionAssumption == VcVersions \subseteq Nat /\ K8sVersions \subseteq Nat

\* A version is the key of a JSON object, with numbers of at most two digits.
Numbers == 0 .. 99

ASSUME SectionsAssumption ==
    /\ IsFiniteSet(DOMAIN CpiMatrix) /\ DOMAIN CpiMatrix \subseteq Seq(Numbers) \ {<<>>}
    /\ IsFiniteSet(DOMAIN CsiMatrix) /\ DOMAIN CsiMatrix \subseteq Seq(Numbers) \ {<<>>}

\* No version is found, or the selection returns an error.
Nothing == <<>>
SelectionError == <<-1>>

-----------------------------------------------------------------------------
(* Orders of versions *)

Lexicographic(a, b) ==
    \E i \in 1 .. Len(b) :
        /\ \A j \in 1 .. i - 1 : j <= Len(a) /\ a[j] = b[j]
        /\ i > Len(a) \/ a[i] < b[i]

\* The place of a numeral (below 100) among numerals that are sorted as text:
\* 1, 10, 11, ..., 19, 2, 20, ...  The dot sorts before the digits.
AsText(n) == IF n < 10 THEN 20 * n - 1 ELSE 2 * n
Text(v) == [i \in DOMAIN v |-> AsText(v[i])]

\* Slip: the list is gone through from its start.
BeforeReversed(v, w) == Lexicographic(Text(w), Text(v))

\* v comes before w in the list that sort.Strings makes.
Before(v, w) == Lexicographic(Text(v), Text(w))

-----------------------------------------------------------------------------
(* The selection *)

compareVersions(min, current, max) == min <= current /\ current <= max

compareSkewVersions(current, supported) == current = supported

\* The versions that suit.  An entry of the CSI section has a range of Kubernetes
\* versions, one of the CPI section a single one.
SuitsCsi(section, vsphere, kube) ==
    {v \in DOMAIN section :
        /\ section[v].valid
        /\ compareVersions(section[v].vsphere.min, vsphere, section[v].vsphere.max)
        /\ compareVersions(section[v].k8s.min, kube, section[v].k8s.max)}

SuitsCpi(section, vsphere, kube) ==
    {v \in DOMAIN section :
        /\ section[v].valid
        /\ compareVersions(section[v].vsphere.min, vsphere, section[v].vsphere.max)
        /\ compareSkewVersions(kube, section[v].skew)}

\* The inner loop goes through the sorted list from its end to the first entry
\* that suits, and fails on one that is not valid before it gets there.
Found(section, hits) ==
    IF \E b \in DOMAIN section : ~section[b].valid /\ \A v \in hits : Before(v, b)
    THEN SelectionError
    ELSE IF hits = {} THEN Nothing
    ELSE CHOOSE v \in hits : \A w \in hits \ {v} : Before(w, v)

\* The outer loop, over the vCenters: what is found for one replaces what was
\* found for those before it.
Selected(found) ==
    LET some == {i \in DOMAIN found : found[i] # Nothing}
    IN IF \E i \in some : found[i] = SelectionError THEN SelectionError
       ELSE IF some = {} THEN Nothing
       ELSE found[CHOOSE i \in some : \A j \in some : j <= i]

FoundCpi == [v \in VcVersions |-> [k \in K8sVersions |->
                Found(CpiMatrix, SuitsCpi(CpiMatrix, v, k))]]
FoundCsi == [v \in VcVersions |-> [k \in K8sVersions |->
                Found(CsiMatrix, SuitsCsi(CsiMatrix, v, k))]]

FetchCpiDeploymentYamls(vspheres, kube) ==
    Selected([i \in DOMAIN vspheres |-> FoundCpi[vspheres[i]][kube]])
FetchCsiDeploymentYamls(vspheres, kube) ==
    Selected([i \in DOMAIN vspheres |-> FoundCsi[vspheres[i]][kube]])

-----------------------------------------------------------------------------
(* Reference: the newest version that suits every vCenter *)

NewestOf(hits) ==
    IF hits = {} THEN Nothing ELSE CHOOSE v \in hits : \A w \in hits \ {v} : Lexicographic(w, v)

SuitingCpi == [v \in VcVersions |-> [k \in K8sVersions |-> SuitsCpi(CpiMatrix, v, k)]]
SuitingCsi == [v \in VcVersions |-> [k \in K8sVersions |-> SuitsCsi(CsiMatrix, v, k)]]

NewestCpi(vspheres, kube) ==
    NewestOf({v \in DOMAIN CpiMatrix : \A x \in vspheres : v \in SuitingCpi[x][kube]})
NewestCsi(vspheres, kube) ==
    NewestOf({v \in DOMAIN CsiMatrix : \A x \in vspheres : v \in SuitingCsi[x][kube]})
=============================================================================
