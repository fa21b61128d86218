----------------------- MODULE VersionSelection_proofs -----------------------
(***************************************************************************)
(* Proofs about the selection of a driver version, for any matrix: what is *)
(* selected suits a vCenter that was asked about, and it is the newest one *)
(* when sorting the versions as text puts them in the order of versions.   *)
(***************************************************************************)
EXTENDS VersionSelection, FiniteSetTheorems, WellFoundedInduction, TLAPS

(* Smallest and largest elements *)

\* A set of natural numbers has a smallest element.
LEMMA Smallest ==
    ASSUME NEW T, T \subseteq Nat, T # {}
    PROVE  \E x \in T : \A y \in T : x <= y
<1>. DEFINE R == OpToRel(<, Nat)
<1>1. PICK x \in T : \A y \in T : ~(<<y, x>> \in R)
  <2>1. IsWellFoundedOn(R, Nat)
    BY NatLessThanWellFounded
  <2>. HIDE DEF R
  <2>. QED  BY <2>1, WFMin
<1>2. \A y \in T : ~(y < x)
  BY <1>1 DEF OpToRel
<1>. QED  BY <1>2

\* A set of positions of a sequence has a largest one.
LEMMA Largest ==
    ASSUME NEW n \in Nat, NEW T, T \subseteq 1 .. n, T # {}
    PROVE  \E x \in T : \A y \in T : y <= x
<1>. DEFINE U == {n - x : x \in T}
<1>1. U \subseteq Nat /\ U # {}
  <2>1. \A x \in T : n - x \in Nat
    OBVIOUS
  <2>. QED  BY <2>1
<1>2. PICK u \in U : \A z \in U : u <= z
  <2>. HIDE DEF U
  <2>. QED  BY <1>1, Smallest
<1>3. PICK x \in T : u = n - x
  OBVIOUS
<1>4. ASSUME NEW y \in T PROVE y <= x
  <2>1. n - x <= n - y
    BY <1>2, <1>3
  <2>. QED  BY <2>1
<1>. QED  BY <1>4

\* A finite set has a last element in a strict total order (a set of pairs).
LEMMA LastOne ==
    ASSUME NEW S, IsFiniteSet(S), S # {}, NEW R,
           \A x \in S : <<x, x>> \notin R,
           \A x, y, z \in S : <<x, y>> \in R /\ <<y, z>> \in R => <<x, z>> \in R,
           \A x, y \in S : x # y => <<x, y>> \in R \/ <<y, x>> \in R
    PROVE  \E v \in S : \A w \in S \ {v} : <<w, v>> \in R
<1>. DEFINE After(v) == {w \in S : <<v, w>> \in R}
            T == {Cardinality(After(v)) : v \in S}
<1>1. ASSUME NEW v \in S PROVE IsFiniteSet(After(v)) /\ Cardinality(After(v)) \in Nat
  <2>1. After(v) \in SUBSET S
    OBVIOUS
  <2>. HIDE DEF After
  <2>. QED  BY <2>1, FS_Subset, FS_CardinalityType
<1>2. T \subseteq Nat /\ T # {}
  <2>. HIDE DEF After
  <2>. QED  BY <1>1
<1>3. PICK v \in S : \A w \in S : Cardinality(After(v)) <= Cardinality(After(w))
  <2>1. PICK x \in T : \A y \in T : x <= y
    <3>. HIDE DEF T
    <3>. QED  BY <1>2, Smallest
  <2>2. PICK v \in S : x = Cardinality(After(v))
    BY <2>1
  <2>. HIDE DEF After
  <2>. QED  BY <2>1, <2>2
<1>4. ASSUME NEW w \in S \ {v}, <<w, v>> \notin R PROVE FALSE
  <2>1. w \in After(v) /\ w \notin After(w) /\ After(w) \subseteq After(v)
    BY <1>4
  <2>2. Cardinality(After(w)) <= Cardinality(After(v))
        /\ (Cardinality(After(v)) = Cardinality(After(w)) => After(v) = After(w))
    <3>. HIDE DEF After
    <3>. QED  BY <1>1, <2>1, FS_Subset
  <2>3. After(v) # After(w)
    <3>. HIDE DEF After
    <3>. QED  BY <2>1
  <2>4. Cardinality(After(v)) <= Cardinality(After(w))
    BY <1>3
  <2>5. Cardinality(After(v)) \in Nat /\ Cardinality(After(w)) \in Nat
    BY <1>1
  <2>. HIDE DEF After
  <2>. QED  BY <2>2, <2>3, <2>4, <2>5
<1>. QED  BY <1>4

-----------------------------------------------------------------------------
(* Orders of versions *)

\* No version comes before itself.
LEMMA LexicographicIrreflexive ==
    ASSUME NEW a \in Seq(Int) PROVE ~Lexicographic(a, a)
BY DEF Lexicographic

\* The order of versions is transitive.
LEMMA LexicographicTransitive ==
    ASSUME NEW a \in Seq(Int), NEW b \in Seq(Int), NEW c \in Seq(Int),
           Lexicographic(a, b), Lexicographic(b, c)
    PROVE  Lexicographic(a, c)
<1>1. PICK i \in 1 .. Len(b) : /\ \A j \in 1 .. i - 1 : j <= Len(a) /\ a[j] = b[j]
                               /\ i > Len(a) \/ a[i] < b[i]
  BY DEF Lexicographic
<1>2. PICK k \in 1 .. Len(c) : /\ \A j \in 1 .. k - 1 : j <= Len(b) /\ b[j] = c[j]
                               /\ k > Len(b) \/ b[k] < c[k]
  BY DEF Lexicographic
<1>3. CASE i < k
  <2>1. i \in 1 .. Len(c) /\ b[i] = c[i]
    BY <1>2, <1>3
  <2>2. \A j \in 1 .. i - 1 : j <= Len(a) /\ a[j] = c[j]
    BY <1>1, <1>2, <1>3
  <2>. QED  BY <1>1, <2>1, <2>2 DEF Lexicographic
<1>4. CASE i >= k
  <2>1. b[k] < c[k] /\ k \in 1 .. Len(b)
    BY <1>2, <1>4
  <2>2. \A j \in 1 .. k - 1 : j <= Len(a) /\ a[j] = c[j]
    BY <1>1, <1>2, <1>4
  <2>3. k > Len(a) \/ a[k] < c[k]
    <3>1. CASE i = k
      <4>1. CASE k <= Len(a)
        <5>1. a[k] \in Int /\ b[k] \in Int /\ c[k] \in Int
          BY <2>1, <4>1
        <5>. QED  BY <1>1, <2>1, <3>1, <4>1, <5>1
      <4>. QED  BY <4>1
    <3>2. CASE i > k
      BY <1>1, <2>1, <3>2
    <3>. QED  BY <1>4, <3>1, <3>2
  <2>. QED  BY <2>2, <2>3 DEF Lexicographic
<1>. QED  BY <1>3, <1>4

\* Of two different versions one comes first: at the first place where they differ.
LEMMA LexicographicTotal ==
    ASSUME NEW a \in Seq(Int), NEW b \in Seq(Int), a # b
    PROVE  Lexicographic(a, b) \/ Lexicographic(b, a)
<1>. DEFINE Differ == {j \in Nat \ {0} :
                          \/ j <= Len(a) /\ (j > Len(b) \/ a[j] # b[j])
                          \/ j <= Len(b) /\ (j > Len(a) \/ a[j] # b[j])}
<1>1. Differ # {}
  <2>1. CASE Len(a) = Len(b)
    <3>1. PICK j \in 1 .. Len(a) : a[j] # b[j]
      BY <2>1
    <3>. QED  BY <3>1
  <2>2. CASE Len(a) < Len(b)
    <3>1. Len(b) \in Differ
      BY <2>2
    <3>. QED  BY <3>1
  <2>3. CASE Len(b) < Len(a)
    <3>1. Len(a) \in Differ
      BY <2>3
    <3>. QED  BY <3>1
  <2>. QED  BY <2>1, <2>2, <2>3
<1>2. PICK m \in Differ : \A j \in Differ : m <= j
  <2>1. Differ \subseteq Nat
    OBVIOUS
  <2>. HIDE DEF Differ
  <2>. QED  BY <1>1, <2>1, Smallest
<1>3. \A j \in 1 .. m - 1 : j \notin Differ
  BY <1>2
<1>4. \A j \in 1 .. m - 1 : j <= Len(a) /\ j <= Len(b) /\ a[j] = b[j]
  BY <1>2, <1>3
<1>5. CASE m > Len(a)
  BY <1>2, <1>4, <1>5 DEF Lexicographic
<1>6. CASE m > Len(b)
  BY <1>2, <1>4, <1>6 DEF Lexicographic
<1>7. CASE m <= Len(a) /\ m <= Len(b)
  <2>1. m \in 1 .. Len(a) /\ m \in 1 .. Len(b) /\ a[m] # b[m]
    BY <1>2, <1>7
  <2>2. a[m] < b[m] \/ b[m] < a[m]
    BY <2>1
  <2>. QED  BY <1>4, <2>1, <2>2 DEF Lexicographic
<1>. QED  BY <1>2, <1>5, <1>6, <1>7

-----------------------------------------------------------------------------
(* Versions as text *)

\* Different numbers are different text.
LEMMA AsTextInjective ==
    ASSUME NEW m \in Numbers, NEW n \in Numbers, AsText(m) = AsText(n) PROVE m = n
BY DEF AsText, Numbers

\* The text of a version.
LEMMA TextType ==
    ASSUME NEW v \in Seq(Numbers)
    PROVE  Text(v) \in Seq(Int) /\ Len(Text(v)) = Len(v)
           /\ \A i \in 1 .. Len(v) : Text(v)[i] = AsText(v[i]) /\ v[i] \in Numbers
<1>1. \A n \in Numbers : AsText(n) \in Int
  BY DEF AsText, Numbers
<1>2. \A i \in 1 .. Len(v) : v[i] \in Numbers
  OBVIOUS
<1>3. DOMAIN v = 1 .. Len(v)
  OBVIOUS
<1>. QED  BY <1>1, <1>2, <1>3 DEF Text

\* Different versions are different text.
LEMMA TextInjective ==
    ASSUME NEW v \in Seq(Numbers), NEW w \in Seq(Numbers), Text(v) = Text(w) PROVE v = w
<1>1. Len(v) = Len(w)
  BY TextType
<1>2. ASSUME NEW i \in 1 .. Len(v) PROVE v[i] = w[i]
  <2>1. v[i] \in Numbers /\ Text(v)[i] = AsText(v[i])
    BY TextType
  <2>2. w[i] \in Numbers /\ Text(w)[i] = AsText(w[i])
    BY <1>1, TextType
  <2>. QED  BY <2>1, <2>2, AsTextInjective
<1>. QED  BY <1>1, <1>2

\* sort.Strings puts versions in a strict total order.
LEMMA BeforeOrder ==
    ASSUME NEW S, S \subseteq Seq(Numbers)
    PROVE  /\ \A v \in S : ~Before(v, v)
           /\ \A u, v, w \in S : Before(u, v) /\ Before(v, w) => Before(u, w)
           /\ \A v, w \in S : v # w => Before(v, w) \/ Before(w, v)
<1>1. \A v \in S : Text(v) \in Seq(Int)
  BY TextType
<1>2. \A v, w \in S : v # w => Text(v) # Text(w)
  BY TextInjective
<1>. QED
  BY <1>1, <1>2, LexicographicIrreflexive, LexicographicTransitive, LexicographicTotal
  DEF Before
-----------------------------------------------------------------------------
(* What the loops find *)

\* The keys of a section of the matrix.
IsSection(section) ==
    IsFiniteSet(DOMAIN section) /\ DOMAIN section \subseteq Seq(Numbers) \ {<<>>}

\* One of the versions that suit comes last in the sorted list.
LEMMA LastHit ==
    ASSUME NEW hits, IsFiniteSet(hits), hits \subseteq Seq(Numbers), hits # {}
    PROVE  \E v \in hits : \A w \in hits \ {v} : Before(w, v)
<1>. DEFINE R == {p \in hits \X hits : Before(p[1], p[2])}
<1>1. \A v, w \in hits : <<v, w>> \in R <=> Before(v, w)
  OBVIOUS
<1>. HIDE DEF R
<1>2. /\ \A x \in hits : <<x, x>> \notin R
      /\ \A x, y, z \in hits : <<x, y>> \in R /\ <<y, z>> \in R => <<x, z>> \in R
      /\ \A x, y \in hits : x # y => <<x, y>> \in R \/ <<y, x>> \in R
  BY <1>1, BeforeOrder
<1>3. PICK v \in hits : \A w \in hits \ {v} : <<w, v>> \in R
  BY <1>2, LastOne
<1>. QED  BY <1>1, <1>3

\* What the inner loop finds for a vCenter: an error, nothing when nothing suits,
\* or the one that comes last of those that suit.
LEMMA FoundIs ==
    ASSUME NEW section, IsSection(section), NEW hits, hits \subseteq DOMAIN section
    PROVE  \/ Found(section, hits) = SelectionError /\ \E b \in DOMAIN section : ~section[b].valid
           \/ Found(section, hits) = Nothing /\ hits = {}
           \/ /\ Found(section, hits) \in hits
              /\ \A w \in hits \ {Found(section, hits)} : Before(w, Found(section, hits))
<1>1. IsFiniteSet(hits) /\ hits \subseteq Seq(Numbers)
  BY FS_Subset DEF IsSection
<1>2. hits # {} => \E v \in hits : \A w \in hits \ {v} : Before(w, v)
  BY <1>1, LastHit
<1>. DEFINE last == CHOOSE v \in hits : \A w \in hits \ {v} : Before(w, v)
<1>3. hits # {} => last \in hits /\ \A w \in hits \ {last} : Before(w, last)
  BY <1>2
<1>4. \/ Found(section, hits) = SelectionError /\ \E b \in DOMAIN section : ~section[b].valid
      \/ Found(section, hits) = Nothing /\ hits = {}
      \/ hits # {} /\ Found(section, hits) = last
  BY DEF Found
<1>. HIDE DEF last
<1>. QED  BY <1>3, <1>4

\* A key of the matrix is not one of the marks.
LEMMA KeysAreVersions ==
    ASSUME NEW section, IsSection(section), NEW v \in DOMAIN section
    PROVE  v # Nothing /\ v # SelectionError
<1>1. v \in Seq(Numbers) /\ v # <<>>
  BY DEF IsSection
<1>2. Len(v) >= 1 /\ v[1] \in Numbers
  BY <1>1
<1>3. \A k \in Numbers : k # -1
  BY DEF Numbers
<1>. QED  BY <1>1, <1>2, <1>3 DEF Nothing, SelectionError

\* What the outer loop ends with is what it found for one of the vCenters, the
\* last one that something was found for.
LEMMA SelectedIs ==
    ASSUME NEW n \in Nat, NEW found, DOMAIN found = 1 .. n
    PROVE  \/ Selected(found) = SelectionError /\ \E i \in 1 .. n : found[i] = SelectionError
           \/ Selected(found) = Nothing /\ \A i \in 1 .. n : found[i] = Nothing
           \/ \E i \in 1 .. n : /\ Selected(found) = found[i]
                                /\ found[i] # Nothing /\ found[i] # SelectionError
                                /\ \A j \in i + 1 .. n : found[j] = Nothing
<1>. DEFINE some == {i \in 1 .. n : found[i] # Nothing}
            last == CHOOSE i \in some : \A j \in some : j <= i
<1>1. some # {} => \E i \in some : \A j \in some : j <= i
  BY Largest
<1>2. some # {} => last \in some /\ \A j \in some : j <= last
  BY <1>1
<1>3. \/ Selected(found) = SelectionError /\ \E i \in some : found[i] = SelectionError
      \/ Selected(found) = Nothing /\ some = {}
      \/ /\ Selected(found) = found[last] /\ some # {}
         /\ ~\E i \in some : found[i] = SelectionError
  BY DEF Selected
<1>. HIDE DEF last
<1>4. CASE Selected(found) = found[last] /\ some # {}
           /\ ~\E i \in some : found[i] = SelectionError
  <2>1. last \in 1 .. n /\ found[last] # Nothing /\ found[last] # SelectionError
    BY <1>2, <1>4
  <2>2. \A j \in last + 1 .. n : found[j] = Nothing
    BY <1>2, <1>4
  <2>. QED  BY <1>4, <2>1, <2>2
<1>. QED  BY <1>3, <1>4
\* How a selection may end, with the sets of versions that suit each vCenter: an
\* error, for a matrix with an entry that is not valid; nothing, when nothing
\* suits any vCenter; or, of what suits the last vCenter that something suits,
\* the version that comes last in the sorted list.
Outcome(section, hits, result) ==
    \/ result = SelectionError /\ \E b \in DOMAIN section : ~section[b].valid
    \/ result = Nothing /\ \A i \in DOMAIN hits : hits[i] = {}
    \/ \E i \in DOMAIN hits :
          /\ result \in hits[i] /\ \A w \in hits[i] \ {result} : Before(w, result)
          /\ \A j \in DOMAIN hits : j > i => hits[j] = {}

\* The loops over the vCenters and the sorted list.
LEMMA SelectionSuits ==
    ASSUME NEW section, IsSection(section), NEW n \in Nat,
           NEW hits \in [1 .. n -> SUBSET DOMAIN section],
           NEW found, DOMAIN found = 1 .. n,
           \A i \in 1 .. n : found[i] = Found(section, hits[i])
    PROVE  Outcome(section, hits, Selected(found))
<1>1. ASSUME NEW i \in 1 .. n
      PROVE  /\ found[i] = Nothing => hits[i] = {}
             /\ found[i] = SelectionError => \E b \in DOMAIN section : ~section[b].valid
             /\ found[i] # Nothing /\ found[i] # SelectionError =>
                   found[i] \in hits[i] /\ \A w \in hits[i] \ {found[i]} : Before(w, found[i])
  <2>1. found[i] = Found(section, hits[i]) /\ hits[i] \subseteq DOMAIN section
    OBVIOUS
  <2>2. found[i] \in hits[i] => found[i] # Nothing /\ found[i] # SelectionError
    BY <2>1, KeysAreVersions
  <2>3. Nothing # SelectionError
    BY DEF Nothing, SelectionError
  <2>. QED  BY <2>1, <2>2, <2>3, FoundIs
<1>2. \/ Selected(found) = SelectionError /\ \E i \in 1 .. n : found[i] = SelectionError
      \/ Selected(found) = Nothing /\ \A i \in 1 .. n : found[i] = Nothing
      \/ \E i \in 1 .. n : /\ Selected(found) = found[i]
                           /\ found[i] # Nothing /\ found[i] # SelectionError
                           /\ \A j \in i + 1 .. n : found[j] = Nothing
  BY SelectedIs
<1>3. ASSUME NEW i \in 1 .. n, Selected(found) = found[i],
             found[i] # Nothing, found[i] # SelectionError,
             \A j \in i + 1 .. n : found[j] = Nothing
      PROVE  /\ Selected(found) \in hits[i]
             /\ \A w \in hits[i] \ {Selected(found)} : Before(w, Selected(found))
             /\ \A j \in 1 .. n : j > i => hits[j] = {}
  <2>1. \A j \in 1 .. n : j > i => j \in i + 1 .. n
    OBVIOUS
  <2>. QED  BY <1>1, <1>3, <2>1
<1>4. DOMAIN hits = 1 .. n
  OBVIOUS
<1>. QED  BY <1>1, <1>2, <1>3, <1>4 DEF Outcome

\* Both sections have versions as their keys.
LEMMA Sections == IsSection(CpiMatrix) /\ IsSection(CsiMatrix)
BY SectionsAssumption DEF IsSection

\* For each vCenter, the versions of CPI and of CSI that suit.
CpiHits(vspheres, kube) == [i \in DOMAIN vspheres |-> SuitsCpi(CpiMatrix, vspheres[i], kube)]
CsiHits(vspheres, kube) == [i \in DOMAIN vspheres |-> SuitsCsi(CsiMatrix, vspheres[i], kube)]

\* Whatever the matrix, the vCenters and Kubernetes are, a driver version that is
\* selected suits a vCenter that was asked about, no later vCenter has any that
\* suits, and none is selected only when none suits any vCenter, or the matrix
\* has an entry that is not valid: the reverse loops over the sorted keys and the
\* loop over the vCenters, which overwrite each other's results, pass nothing over.
THEOREM SelectionOutcome ==
    \A vspheres \in Seq(VcVersions), kube \in K8sVersions :
        /\ Outcome(CpiMatrix, CpiHits(vspheres, kube), FetchCpiDeploymentYamls(vspheres, kube))
        /\ Outcome(CsiMatrix, CsiHits(vspheres, kube), FetchCsiDeploymentYamls(vspheres, kube))
<1>. SUFFICES ASSUME NEW vspheres \in Seq(VcVersions), NEW kube \in K8sVersions
     PROVE /\ Outcome(CpiMatrix, CpiHits(vspheres, kube), FetchCpiDeploymentYamls(vspheres, kube))
           /\ Outcome(CsiMatrix, CsiHits(vspheres, kube), FetchCsiDeploymentYamls(vspheres, kube))
  OBVIOUS
<1>. DEFINE n == Len(vspheres)
<1>1. DOMAIN vspheres = 1 .. n /\ n \in Nat /\ \A i \in 1 .. n : vspheres[i] \in VcVersions
  OBVIOUS
<1>. HIDE DEF n
<1>2. Outcome(CpiMatrix, CpiHits(vspheres, kube), FetchCpiDeploymentYamls(vspheres, kube))
  <2>. DEFINE hits == CpiHits(vspheres, kube)
              found == [i \in DOMAIN vspheres |-> FoundCpi[vspheres[i]][kube]]
  <2>1. hits \in [1 .. n -> SUBSET DOMAIN CpiMatrix]
    BY <1>1 DEF CpiHits, SuitsCpi
  <2>2. DOMAIN found = 1 .. n /\ \A i \in 1 .. n : found[i] = Found(CpiMatrix, hits[i])
    BY <1>1 DEF FoundCpi, CpiHits
  <2>3. FetchCpiDeploymentYamls(vspheres, kube) = Selected(found)
    BY DEF FetchCpiDeploymentYamls
  <2>. HIDE DEF hits, found
  <2>4. Outcome(CpiMatrix, hits, Selected(found))
    BY <1>1, <2>1, <2>2, Sections, SelectionSuits
  <2>. QED  BY <2>3, <2>4 DEF hits
<1>3. Outcome(CsiMatrix, CsiHits(vspheres, kube), FetchCsiDeploymentYamls(vspheres, kube))
  <2>. DEFINE hits == CsiHits(vspheres, kube)
              found == [i \in DOMAIN vspheres |-> FoundCsi[vspheres[i]][kube]]
  <2>1. hits \in [1 .. n -> SUBSET DOMAIN CsiMatrix]
    BY <1>1 DEF CsiHits, SuitsCsi
  <2>2. DOMAIN found = 1 .. n /\ \A i \in 1 .. n : found[i] = Found(CsiMatrix, hits[i])
    BY <1>1 DEF FoundCsi, CsiHits
  <2>3. FetchCsiDeploymentYamls(vspheres, kube) = Selected(found)
    BY DEF FetchCsiDeploymentYamls
  <2>. HIDE DEF hits, found
  <2>4. Outcome(CsiMatrix, hits, Selected(found))
    BY <1>1, <2>1, <2>2, Sections, SelectionSuits
  <2>. QED  BY <2>3, <2>4 DEF hits
<1>. QED  BY <1>2, <1>3
-----------------------------------------------------------------------------
(* The newest version *)

\* Numbers in the same place of two versions have the same number of digits, as
\* those of the published matrices have (1.20.0 and 1.22.1, but not 1.9.0).
SameDigits(section) ==
    \A v, w \in DOMAIN section : \A i \in DOMAIN v \cap DOMAIN w : v[i] < 10 <=> w[i] < 10

AllValid(section) == \A v \in DOMAIN section : section[v].valid

\* Numbers with the same number of digits are sorted as text like numbers.
LEMMA AsTextMonotone ==
    ASSUME NEW m \in Numbers, NEW n \in Numbers, m < 10 <=> n < 10
    PROVE  AsText(m) < AsText(n) => m < n
BY DEF AsText, Numbers

\* The order of the sorted list is that of versions.
LEMMA TextOrder ==
    ASSUME NEW v \in Seq(Numbers), NEW w \in Seq(Numbers), Before(v, w),
           \A i \in DOMAIN v \cap DOMAIN w : v[i] < 10 <=> w[i] < 10
    PROVE  Lexicographic(v, w)
<1>1. PICK i \in 1 .. Len(w) :
         /\ \A j \in 1 .. i - 1 : j <= Len(v) /\ Text(v)[j] = Text(w)[j]
         /\ i > Len(v) \/ Text(v)[i] < Text(w)[i]
  BY TextType DEF Before, Lexicographic
<1>2. ASSUME NEW j \in 1 .. i - 1 PROVE j <= Len(v) /\ v[j] = w[j]
  <2>1. j \in 1 .. Len(v) /\ j \in 1 .. Len(w)
    BY <1>1
  <2>2. v[j] \in Numbers /\ w[j] \in Numbers /\ AsText(v[j]) = AsText(w[j])
    BY <1>1, <2>1, TextType
  <2>. QED  BY <2>1, <2>2, AsTextInjective
<1>3. ASSUME i <= Len(v) PROVE v[i] < w[i]
  <2>1. i \in 1 .. Len(v) /\ i \in DOMAIN v \cap DOMAIN w
    BY <1>3
  <2>2. v[i] \in Numbers /\ w[i] \in Numbers /\ AsText(v[i]) < AsText(w[i])
    BY <1>1, <1>3, <2>1, TextType
  <2>. QED  BY <2>1, <2>2, AsTextMonotone
<1>. QED  BY <1>1, <1>2, <1>3 DEF Lexicographic

\* There is one newest version.
LEMMA NewestIs ==
    ASSUME NEW hits, hits \subseteq Seq(Numbers), NEW r \in hits,
           \A w \in hits \ {r} : Lexicographic(w, r)
    PROVE  NewestOf(hits) = r
<1>. DEFINE v == CHOOSE x \in hits : \A w \in hits \ {x} : Lexicographic(w, x)
<1>1. v \in hits /\ \A w \in hits \ {v} : Lexicographic(w, v)
  OBVIOUS
<1>2. NewestOf(hits) = v
  BY DEF NewestOf
<1>. HIDE DEF v
<1>3. ASSUME NEW x \in hits PROVE x \in Seq(Int)
  <2>1. \A k \in Numbers : k \in Int
    BY DEF Numbers
  <2>2. x \in Seq(Numbers) /\ \A i \in 1 .. Len(x) : x[i] \in Int
    BY <2>1
  <2>. QED  BY <2>2
<1>4. ASSUME v # r PROVE FALSE
  <2>1. Lexicographic(v, r) /\ Lexicographic(r, v)
    BY <1>1, <1>4
  <2>. QED  BY <1>1, <1>3, <2>1, LexicographicTransitive, LexicographicIrreflexive
<1>. QED  BY <1>2, <1>4

\* A selection for vCenters that the same versions suit ends with the newest one.
LEMMA OutcomeNewest ==
    ASSUME NEW section, IsSection(section), AllValid(section), SameDigits(section),
           NEW hits, NEW result, Outcome(section, hits, result),
           NEW suits, suits \subseteq DOMAIN section,
           DOMAIN hits # {}, \A i \in DOMAIN hits : hits[i] = suits
    PROVE  result = NewestOf(suits)
<1>1. ~\E b \in DOMAIN section : ~section[b].valid
  BY DEF AllValid
<1>2. CASE result = Nothing /\ \A i \in DOMAIN hits : hits[i] = {}
  BY <1>2 DEF NewestOf
<1>3. CASE result \in suits /\ \A w \in suits \ {result} : Before(w, result)
  <2>1. suits \subseteq Seq(Numbers)
    BY DEF IsSection
  <2>2. \A w \in suits \ {result} : Lexicographic(w, result)
    BY <1>3, <2>1, TextOrder DEF SameDigits
  <2>. QED  BY <1>3, <2>1, <2>2, NewestIs
<1>. QED  BY <1>1, <1>2, <1>3 DEF Outcome

\* The newest driver that suits is selected, for vCenters of one version, by a
\* matrix whose entries are valid and whose numbers have the same number of
\* digits: then it does no harm that versions are sorted as text.
THEOREM SelectsNewest ==
    ASSUME NEW vspheres \in Seq(VcVersions), vspheres # <<>>, NEW kube \in K8sVersions,
           NEW x \in VcVersions, \A i \in DOMAIN vspheres : vspheres[i] = x
    PROVE  /\ AllValid(CpiMatrix) /\ SameDigits(CpiMatrix) =>
                 FetchCpiDeploymentYamls(vspheres, kube) = NewestCpi({x}, kube)
           /\ AllValid(CsiMatrix) /\ SameDigits(CsiMatrix) =>
                 FetchCsiDeploymentYamls(vspheres, kube) = NewestCsi({x}, kube)
<1>1. DOMAIN vspheres # {}
  OBVIOUS
<1>2. ASSUME AllValid(CpiMatrix), SameDigits(CpiMatrix)
      PROVE  FetchCpiDeploymentYamls(vspheres, kube) = NewestCpi({x}, kube)
  <2>. DEFINE hits == CpiHits(vspheres, kube)
              suits == SuitsCpi(CpiMatrix, x, kube)
  <2>1. DOMAIN hits # {} /\ \A i \in DOMAIN hits : hits[i] = suits
    BY <1>1 DEF CpiHits
  <2>2. suits \subseteq DOMAIN CpiMatrix
    BY DEF SuitsCpi
  <2>3. NewestCpi({x}, kube) = NewestOf(suits)
    <3>1. SuitingCpi[x][kube] = suits
      BY DEF SuitingCpi
    <3>. HIDE DEF suits
    <3>2. {v \in DOMAIN CpiMatrix : \A y \in {x} : v \in SuitingCpi[y][kube]} = suits
      BY <2>2, <3>1
    <3>. QED  BY <3>2 DEF NewestCpi
  <2>4. Outcome(CpiMatrix, hits, FetchCpiDeploymentYamls(vspheres, kube))
    BY SelectionOutcome
  <2>. HIDE DEF hits, suits
  <2>. QED  BY <1>2, <2>1, <2>2, <2>3, <2>4, Sections, OutcomeNewest
<1>3. ASSUME AllValid(CsiMatrix), SameDigits(CsiMatrix)
      PROVE  FetchCsiDeploymentYamls(vspheres, kube) = NewestCsi({x}, kube)
  <2>. DEFINE hits == CsiHits(vspheres, kube)
              suits == SuitsCsi(CsiMatrix, x, kube)
  <2>1. DOMAIN hits # {} /\ \A i \in DOMAIN hits : hits[i] = suits
    BY <1>1 DEF CsiHits
  <2>2. suits \subseteq DOMAIN CsiMatrix
    BY DEF SuitsCsi
  <2>3. NewestCsi({x}, kube) = NewestOf(suits)
    <3>1. SuitingCsi[x][kube] = suits
      BY DEF SuitingCsi
    <3>. HIDE DEF suits
    <3>2. {v \in DOMAIN CsiMatrix : \A y \in {x} : v \in SuitingCsi[y][kube]} = suits
      BY <2>2, <3>1
    <3>. QED  BY <3>2 DEF NewestCsi
  <2>4. Outcome(CsiMatrix, hits, FetchCsiDeploymentYamls(vspheres, kube))
    BY SelectionOutcome
  <2>. HIDE DEF hits, suits
  <2>. QED  BY <1>3, <2>1, <2>2, <2>3, <2>4, Sections, OutcomeNewest
<1>. QED  BY <1>2, <1>3
=============================================================================
