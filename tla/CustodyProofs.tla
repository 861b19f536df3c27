---------------------------- MODULE CustodyProofs ---------------------------
(***************************************************************************)
(* Proofs about what is kept in custody. Of CustodyInventory: the verdict  *)
(* of the readiness scan means what it says, for any table, any page size, *)
(* any number of rounds and any statements of Control processes between    *)
(* two reads of the scan. Of ServerKey, for any number of keys, operators, *)
(* idempotency keys, Server API requests and digest key versions, any page *)
(* size and any bound: ServerKeySafe and RevocationHolds.                  *)
(***************************************************************************)
EXTENDS CustodyInventory, ServerKey, FiniteSetTheorems, WellFoundedInduction, TLAPS

-----------------------------------------------------------------------------
(* Pages *)

\* A set of numbers that is not empty has a least element ...
LEMMA LeastExists ==
    ASSUME NEW S \in SUBSET Nat, S # {}
    PROVE  \E x \in S : \A y \in S : x <= y
  <1> DEFINE R == {p \in Nat \X Nat : p[1] < p[2]}
  <1>1. IsWellFoundedOn(R, Nat)
    BY NatLessThanWellFounded, Zenon DEF OpToRel
  <1>2. PICK x \in S : \A y \in S : ~(<<y, x>> \in R)
    <2> HIDE DEF R
    <2> QED
      BY <1>1, WFMin
  <1>3. ASSUME NEW a \in Nat, NEW b \in Nat, a < b PROVE <<a, b>> \in R
    BY <1>3
  <1>4. \A y \in S : ~(y < x)
    BY <1>2, <1>3
  <1> QED
    BY <1>4

\* ... which is its Min.
LEMMA MinOfNaturals ==
    ASSUME NEW S \in SUBSET Nat, S # {}
    PROVE  Min(S) \in S /\ \A y \in S : Min(S) <= y
  BY LeastExists DEF Min

\* What the proofs use of the constants.
LEMMA Numbers ==
    ASSUME InventoryAssumption
    PROVE  /\ \A m \in Materials : m \in Nat /\ m > 0
           /\ PageSize \in Nat /\ PageSize > 0 /\ Rounds \in Nat /\ Rounds > 0
           /\ MaxChanges \in Nat /\ MaxOutages \in Nat
  BY DEF InventoryAssumption

\* The page read behind a cursor leaves behind only what comes after all of it,
\* and is empty only if nothing is left.
LEMMA PageIsPrefix ==
    ASSUME InventoryAssumption, NEW after \in Nat
    PROVE  /\ PageAfter(after) \subseteq {m \in Live : m > after}
           /\ \A m \in Live, n \in PageAfter(after) :
                 m > after /\ m \notin PageAfter(after) => m > n
           /\ PageAfter(after) = {} => \A m \in Live : m <= after
  <1> DEFINE behind == {m \in Live : m > after}
             before(m) == {n \in behind : n < m}
  <1>1. /\ behind \subseteq Nat /\ IsFiniteSet(behind) /\ PageSize \in Nat \ {0}
        /\ PageAfter(after) = {m \in behind : Cardinality(before(m)) < PageSize}
    BY FS_Subset DEF InventoryAssumption, Live, PageAfter
  <1>2. \A m \in behind : IsFiniteSet(before(m)) /\ Cardinality(before(m)) \in Nat
    BY <1>1, FS_Subset, FS_CardinalityType
  <1>3. ASSUME NEW m \in behind, NEW n \in behind, m <= n
        PROVE  Cardinality(before(m)) <= Cardinality(before(n))
    <2>1. before(m) \subseteq before(n)
      BY <1>1, <1>3
    <2> QED
      BY <1>2, <2>1, FS_Subset
  <1>4. ASSUME behind # {}
        PROVE  \E m \in behind : Cardinality(before(m)) < PageSize
    <2>1. Min(behind) \in behind /\ \A y \in behind : Min(behind) <= y
      BY <1>1, <1>4, MinOfNaturals
    <2>2. before(Min(behind)) = {}
      BY <1>1, <2>1
    <2> QED
      BY <1>1, <2>1, <2>2, FS_EmptySet
  <1>5. ASSUME NEW m \in behind, NEW n \in PageAfter(after), m \notin PageAfter(after)
        PROVE  m > n
    <2>1. n \in behind /\ Cardinality(before(n)) < PageSize /\ ~(Cardinality(before(m)) < PageSize)
      BY <1>1, <1>5
    <2>2. ~(m <= n)
      <3> SUFFICES ASSUME m <= n PROVE FALSE
        OBVIOUS
      <3>1. Cardinality(before(m)) <= Cardinality(before(n))
        BY <1>3, <2>1
      <3>2. Cardinality(before(m)) \in Nat /\ Cardinality(before(n)) \in Nat /\ PageSize \in Nat
        BY <1>1, <1>2, <2>1
      <3> HIDE DEF before, behind
      <3> QED
        BY <2>1, <3>1, <3>2
    <2> QED
      BY <1>1, <2>1, <2>2
  <1>6. PageAfter(after) = {} => behind = {}
    BY <1>1, <1>4
  <1>7. Live \subseteq Nat
    BY DEF Live, InventoryAssumption
  <1> QED
    BY <1>1, <1>5, <1>6, <1>7

-----------------------------------------------------------------------------
(* The inductive invariant *)

Scan == [pc : {"revision", "capabilities", "page", "candidate", "compare"} \cup Decided,
         round : Nat, seen : Nat, after : Materials \cup {0},
         page : SUBSET (Materials \X (Seals \cup {"none"})), failed : BOOLEAN]

\* The components of a scan.
LEMMA ScanParts ==
    ASSUME InventoryAssumption, scan \in Scan
    PROVE  /\ scan.after \in Materials \cup {0} /\ scan.after \in Nat
           /\ scan.round \in Nat /\ scan.seen \in Nat
           /\ \A c \in scan.page : /\ c[1] \in Materials /\ c[1] \in Nat
                                   /\ c[2] \in Seals \cup {"none"} /\ c = <<c[1], c[2]>>
  <1>1. /\ scan.after \in Materials \cup {0} /\ scan.round \in Nat /\ scan.seen \in Nat
        /\ scan.page \subseteq Materials \X (Seals \cup {"none"})
    BY DEF Scan
  <1> QED
    BY <1>1, Numbers

Shape ==
    /\ row \in [Materials -> [state : {"absent", "pending", "live", "erased"},
                              seal : Seals \cup {"none"}]]
    /\ revision \in 1..(MaxChanges + 1)
    /\ scan \in Scan /\ scan.seen <= revision
    /\ scan.round >= 1 /\ scan.round <= Rounds + 1
    /\ scan.pc \notin Decided => scan.round <= Rounds
    /\ scan.pc = "capabilities" => scan.after = 0
    /\ scan.pc \in {"capabilities", "page", "candidate"} => ~scan.failed
    /\ outages \in 0..MaxOutages

\* No statement has run since the revision was read.
Undisturbed == scan.seen = revision

\* What the scan has passed is usable.
PassedUsable ==
    scan.pc \in {"page", "candidate"} /\ Undisturbed =>
        \A m \in Live : m <= scan.after => Authentic(m)

\* The page in hand is what the table holds behind the cursor, and what it leaves
\* out comes after it.
InHand(m) == \E s \in Seals \cup {"none"} : <<m, s>> \in scan.page

PageTrue ==
    scan.pc = "candidate" =>
        /\ scan.page # {}
        /\ Undisturbed =>
              /\ \A c \in scan.page : /\ c[1] \in Live /\ c[1] > scan.after
                                      /\ Intact(c[1]) /\ c[2] = row[c[1]].seal
              /\ \A m \in Live : m > scan.after /\ ~InHand(m) => \A c \in scan.page : m > c[1]

\* The verdict about to be given has its reason.
VerdictTrue ==
    scan.pc = "compare" /\ Undisturbed =>
        IF scan.failed THEN outages > 0 \/ \E m \in Live : ~Authentic(m)
                       ELSE \A m \in Live : Authentic(m)

InventoryInv == Shape /\ PassedUsable /\ PageTrue /\ VerdictTrue

LEMMA InventoryInitEstablishes ==
    ASSUME InventoryAssumption, InventoryInit
    PROVE  InventoryInv
  <1>1. PICK seal \in [StartLive -> Seals] :
            row = [m \in Materials |->
                     IF m \in StartLive THEN [state |-> "live", seal |-> seal[m]] ELSE Absent]
    BY DEF InventoryInit
  <1>2. row \in [Materials -> [state : {"absent", "pending", "live", "erased"},
                               seal : Seals \cup {"none"}]]
    BY <1>1 DEF Absent
  <1>3. scan \in Scan
    BY DEF InventoryInit, Scan
  <1> QED
    BY <1>2, <1>3
    DEF InventoryInit, InventoryInv, Shape, PassedUsable, PageTrue, VerdictTrue, InventoryAssumption, Decided

\* A statement of a Control process disturbs the scan, which then claims nothing.
LEMMA StatementKeeps ==
    ASSUME InventoryAssumption, InventoryInv, NEW m \in Materials,
           NEW r \in [state : {"absent", "pending", "live", "erased"}, seal : Seals \cup {"none"}],
           Statement(m, r)
    PROVE  InventoryInv'
  <1>1. Shape'
    BY DEF InventoryAssumption, InventoryInv, Shape, Statement, Scan
  <1>2. ~Undisturbed'
    BY DEF InventoryAssumption, InventoryInv, Shape, Statement, Undisturbed, Scan
  <1>3. PageTrue'
    BY <1>2 DEF InventoryInv, PageTrue, Statement
  <1> QED
    BY <1>1, <1>2, <1>3 DEF InventoryInv, PassedUsable, VerdictTrue

\* A round begins with nothing passed.
LEMMA ReadRevisionKeeps ==
    ASSUME InventoryAssumption, InventoryInv, ReadRevision
    PROVE  InventoryInv'
  <1>1. scan \in Scan /\ revision \in Nat /\ scan.pc = "revision" /\ UNCHANGED <<row, revision, outages>>
    BY DEF InventoryInv, Shape, InventoryAssumption, ReadRevision, Server
  <1>2. /\ scan' \in Scan /\ scan'.pc = "capabilities" /\ scan'.round = scan.round
        /\ scan'.seen = revision /\ scan'.after = 0 /\ ~scan'.failed
    BY <1>1 DEF ReadRevision, Scan
  <1>3. Shape'
    BY <1>1, <1>2 DEF InventoryInv, Shape, Decided
  <1> QED
    BY <1>2, <1>3 DEF InventoryInv, PassedUsable, PageTrue, VerdictTrue

\* A check that fails has found a material that is live and cannot be used, as
\* long as nothing has changed since.
LEMMA FailingKeeps ==
    ASSUME InventoryAssumption, InventoryInv, scan.pc \notin Decided, UNCHANGED <<row, revision>>,
           outages' \in 0..MaxOutages,
           scan' = [scan EXCEPT !.pc = "compare", !.failed = TRUE],
           Undisturbed => outages' > 0 \/ \E m \in Live : ~Authentic(m)
    PROVE  InventoryInv'
  <1>1. scan \in Scan
    BY DEF InventoryInv, Shape
  <1>2. /\ scan' \in Scan /\ scan'.pc = "compare" /\ scan'.round = scan.round
        /\ scan'.seen = scan.seen /\ scan'.failed
    BY <1>1 DEF Scan
  <1>3. Shape'
    BY <1>2 DEF InventoryInv, Shape
  <1>4. VerdictTrue'
    BY <1>2 DEF VerdictTrue, Undisturbed, Live, Authentic, Intact, Supported
  <1> QED
    BY <1>2, <1>3, <1>4 DEF InventoryInv, PassedUsable, PageTrue

LEMMA RequiredCapabilitiesKeeps ==
    ASSUME InventoryAssumption, InventoryInv, RequiredCapabilities
    PROVE  InventoryInv'
  <1>1. /\ scan \in Scan /\ scan.pc = "capabilities" /\ scan.after = 0 /\ ~scan.failed
        /\ UNCHANGED <<row, revision, outages>> /\ outages \in 0..MaxOutages
    BY DEF InventoryInv, Shape, RequiredCapabilities, Server
  <1>2. CASE \A m \in Live : Supported(m)
    <2>1. /\ scan' \in Scan /\ scan'.pc = "page" /\ scan'.round = scan.round
          /\ scan'.seen = scan.seen /\ scan'.after = 0 /\ ~scan'.failed
      BY <1>1, <1>2 DEF RequiredCapabilities, Scan
    <2>2. Shape'
      BY <1>1, <2>1 DEF InventoryInv, Shape, Decided
    <2>3. \A m \in Live' : ~(m <= 0)
      BY Numbers DEF Live
    <2> QED
      BY <2>1, <2>2, <2>3 DEF InventoryInv, PassedUsable, PageTrue, VerdictTrue
  <1>3. CASE ~\A m \in Live : Supported(m)
    <2>1. scan' = [scan EXCEPT !.pc = "compare", !.failed = TRUE]
      BY <1>3 DEF RequiredCapabilities
    <2>2. \E m \in Live : ~Authentic(m)
      BY <1>3 DEF Authentic
    <2> QED
      BY <1>1, <2>1, <2>2, FailingKeeps DEF Decided
  <1> QED
    BY <1>2, <1>3

LEMMA ReadPageKeeps ==
    ASSUME InventoryAssumption, InventoryInv, ReadPage
    PROVE  InventoryInv'
  <1> DEFINE page == PageAfter(scan.after)
             rows == {<<m, row[m].seal>> : m \in page}
  <1>1. /\ scan \in Scan /\ scan.pc = "page" /\ ~scan.failed
        /\ UNCHANGED <<row, revision, outages>> /\ outages \in 0..MaxOutages
        /\ row \in [Materials -> [state : {"absent", "pending", "live", "erased"},
                                  seal : Seals \cup {"none"}]]
    BY DEF InventoryInv, Shape, ReadPage, Server
  <1>2. scan.after \in Nat
    BY <1>1, ScanParts
  <1>3. /\ page \subseteq {m \in Live : m > scan.after}
        /\ \A m \in Live, n \in page : m > scan.after /\ m \notin page => m > n
        /\ page = {} => \A m \in Live : m <= scan.after
    BY <1>2, PageIsPrefix
  <1> HIDE DEF page
  <1>4. CASE \E m \in page : ~Intact(m)
    <2>1. scan' = [scan EXCEPT !.pc = "compare", !.failed = TRUE]
      BY <1>4 DEF ReadPage, page
    <2>2. \E m \in Live : ~Authentic(m)
      BY <1>3, <1>4 DEF Authentic
    <2> QED
      BY <1>1, <2>1, <2>2, FailingKeeps DEF Decided
  <1>5. CASE \A m \in page : Intact(m)
    <2>1. scan' = [scan EXCEPT !.page = rows, !.pc = IF page = {} THEN "compare" ELSE "candidate"]
      BY <1>5 DEF ReadPage, page
    <2>2. rows \in SUBSET (Materials \X (Seals \cup {"none"}))
      BY <1>1, <1>3 DEF Live
    <2>3. /\ scan' \in Scan /\ scan'.pc = (IF page = {} THEN "compare" ELSE "candidate")
          /\ scan'.round = scan.round /\ scan'.seen = scan.seen /\ scan'.after = scan.after
          /\ ~scan'.failed /\ scan'.page = rows
      <3> HIDE DEF rows
      <3> QED
        BY <1>1, <2>1, <2>2 DEF Scan
    <2>4. Shape'
      BY <1>1, <2>3 DEF InventoryInv, Shape, Decided
    <2>5. PassedUsable' /\ VerdictTrue'
      BY <1>1, <1>3, <2>3
      DEF InventoryInv, PassedUsable, VerdictTrue, Undisturbed, Live, Authentic, Intact, Supported
    <2>6. PageTrue'
      <3> SUFFICES ASSUME scan'.pc = "candidate" PROVE PageTrue'
        BY DEF PageTrue
      <3>1. page # {} /\ scan'.page # {}
        BY <2>3
      <3>2. ASSUME NEW c \in scan'.page
            PROVE  /\ c[1] \in page /\ c[1] \in Live' /\ c[1] > scan'.after
                   /\ Intact(c[1])' /\ c[2] = row'[c[1]].seal
        BY <1>1, <1>3, <1>5, <2>3, <3>2 DEF Live, Intact
      <3>3. ASSUME NEW m \in Live', m > scan'.after, ~InHand(m)', NEW c \in scan'.page
            PROVE  m > c[1]
        <4>1. m \in Live /\ m > scan.after
          BY <1>1, <2>3, <3>3 DEF Live
        <4>2. m \notin page
          <5> SUFFICES ASSUME m \in page PROVE FALSE
            OBVIOUS
          <5>1. <<m, row[m].seal>> \in scan'.page /\ row[m].seal \in Seals \cup {"none"}
            BY <1>1, <2>3, <4>1 DEF Live
          <5> QED
            BY <3>3, <5>1 DEF InHand
        <4> QED
          BY <1>3, <3>2, <4>1, <4>2
      <3> QED
        BY <3>1, <3>2, <3>3 DEF PageTrue
    <2> QED
      BY <2>4, <2>5, <2>6 DEF InventoryInv
  <1> QED
    BY <1>4, <1>5

LEMMA AuthenticateCandidateKeeps ==
    ASSUME InventoryAssumption, InventoryInv, AuthenticateCandidate
    PROVE  InventoryInv'
  <1> DEFINE m == Min({c[1] : c \in scan.page})
             rest == {c \in scan.page : c[1] # m}
  <1>1. /\ scan \in Scan /\ scan.pc = "candidate" /\ ~scan.failed /\ scan.page # {}
        /\ UNCHANGED <<row, revision>> /\ outages \in 0..MaxOutages /\ MaxOutages \in Nat
    BY DEF InventoryInv, Shape, AuthenticateCandidate, Server, InventoryAssumption, PageTrue
  <1>2. /\ m \in Materials /\ m \in Nat
        /\ \E c \in scan.page : c[1] = m
        /\ \A c \in scan.page : m <= c[1]
    <2>1. {c[1] : c \in scan.page} \in SUBSET Nat /\ {c[1] : c \in scan.page} # {}
      BY <1>1, ScanParts
    <2>2. m \in {c[1] : c \in scan.page} /\ \A y \in {c[1] : c \in scan.page} : m <= y
      BY <2>1, MinOfNaturals
    <2> HIDE DEF m
    <2> QED
      BY <1>1, <2>1, <2>2, ScanParts
  <1> HIDE DEF m
  <1>3. CASE scan' = [scan EXCEPT !.pc = "compare", !.failed = TRUE] /\ outages' = outages + 1
             /\ outages < MaxOutages
    BY <1>1, <1>3, FailingKeeps DEF Decided
  <1>4. CASE UNCHANGED outages /\ ~(<<m, "own">> \in scan.page /\ Supported(m))
    <2>1. scan' = [scan EXCEPT !.pc = "compare", !.failed = TRUE]
      BY <1>1, <1>4 DEF AuthenticateCandidate, m
    <2>2. Undisturbed => \E n \in Live : ~Authentic(n)
      <3> SUFFICES ASSUME Undisturbed PROVE m \in Live /\ ~Authentic(m)
        OBVIOUS
      <3>1. PICK c \in scan.page : c[1] = m
        BY <1>2
      <3>2. c = <<m, row[m].seal>> /\ m \in Live
        BY <1>1, <3>1 DEF InventoryInv, PageTrue, Scan
      <3> QED
        BY <1>4, <3>2 DEF Authentic
    <2> QED
      BY <1>1, <1>4, <2>1, <2>2, FailingKeeps DEF Decided
  <1>5. CASE UNCHANGED outages /\ <<m, "own">> \in scan.page /\ Supported(m)
    <2>1. scan' = [scan EXCEPT !.after = m, !.page = rest,
                               !.pc = IF rest = {} THEN "page" ELSE "candidate"]
      BY <1>1, <1>5 DEF AuthenticateCandidate, m
    <2>2. rest \subseteq scan.page
      OBVIOUS
    <2>3. /\ scan' \in Scan /\ scan'.pc = (IF rest = {} THEN "page" ELSE "candidate")
          /\ scan'.round = scan.round /\ scan'.seen = scan.seen /\ scan'.after = m
          /\ ~scan'.failed /\ scan'.page = rest
      <3> HIDE DEF rest
      <3> QED
        BY <1>1, <1>2, <2>1, <2>2 DEF Scan
    <2>4. Shape'
      BY <1>1, <1>5, <2>3 DEF InventoryInv, Shape, Decided
    <2>5. PassedUsable'
      <3> SUFFICES ASSUME Undisturbed, NEW n \in Live, n <= m PROVE Authentic(n)
        BY <1>1, <2>3 DEF PassedUsable, Undisturbed, Live, Authentic, Intact, Supported
      <3>1. n \in Nat /\ scan.after \in Nat
        BY <1>1, ScanParts, Numbers DEF Live
      <3>2. CASE n <= scan.after
        BY <1>1, <3>2 DEF InventoryInv, PassedUsable
      <3>3. CASE n > scan.after /\ ~InHand(n)
        <4>1. \A c \in scan.page : n > c[1]
          BY <1>1, <3>3 DEF InventoryInv, PageTrue
        <4> QED
          BY <1>2, <3>1, <4>1
      <3>4. CASE InHand(n)
        <4>1. PICK s \in Seals \cup {"none"} : <<n, s>> \in scan.page
          BY <3>4 DEF InHand
        <4>2. m <= n
          BY <1>2, <4>1
        <4>3. n = m
          BY <1>2, <3>1, <4>2
        <4>4. Intact(m) /\ "own" = row[m].seal
          BY <1>1, <1>5 DEF InventoryInv, PageTrue
        <4> QED
          BY <1>5, <4>3, <4>4 DEF Authentic
      <3> QED
        BY <3>1, <3>2, <3>3, <3>4
    <2>6. PageTrue'
      <3> SUFFICES ASSUME scan'.pc = "candidate", Undisturbed' PROVE PageTrue'
        BY <2>3 DEF PageTrue
      <3>1. Undisturbed
        BY <1>1, <2>3 DEF Undisturbed
      <3>2. ASSUME NEW c \in scan'.page
            PROVE  /\ c[1] \in Live' /\ c[1] > scan'.after
                   /\ Intact(c[1])' /\ c[2] = row'[c[1]].seal
        <4>1. c \in scan.page /\ c[1] # m /\ c[1] \in Nat
          BY <1>1, <2>3, <3>2, ScanParts
        <4>2. c[1] \in Live /\ Intact(c[1]) /\ c[2] = row[c[1]].seal
          BY <1>1, <3>1, <4>1 DEF InventoryInv, PageTrue
        <4>3. c[1] > m
          BY <1>2, <4>1
        <4> QED
          BY <1>1, <2>3, <4>2, <4>3 DEF Live, Intact
      <3>3. ASSUME NEW n \in Live', n > scan'.after, ~InHand(n)', NEW c \in scan'.page
            PROVE  n > c[1]
        <4>1. n \in Live /\ n > m /\ n \in Nat /\ scan.after \in Nat /\ c \in scan.page
          BY <1>1, <2>3, <3>3, ScanParts, Numbers DEF Live
        <4>2. ~InHand(n)
          <5> SUFFICES ASSUME NEW s \in Seals \cup {"none"}, <<n, s>> \in scan.page PROVE FALSE
            BY DEF InHand
          <5>1. <<n, s>> \in rest
            BY <1>2, <4>1
          <5> QED
            BY <2>3, <3>3, <5>1 DEF InHand
        <4>3. m > scan.after
          BY <1>1, <1>2, <3>1 DEF InventoryInv, PageTrue
        <4>4. n > scan.after
          BY <1>2, <4>1, <4>3
        <4> QED
          BY <1>1, <3>1, <4>1, <4>2, <4>4 DEF InventoryInv, PageTrue
      <3>4. scan'.page # {}
        BY <2>3
      <3> QED
        BY <3>2, <3>3, <3>4 DEF PageTrue
    <2>7. VerdictTrue'
      BY <2>3 DEF VerdictTrue
    <2> QED
      BY <2>3, <2>4, <2>5, <2>6, <2>7 DEF InventoryInv
  <1> QED
    BY <1>3, <1>4, <1>5 DEF AuthenticateCandidate, m

LEMMA CompareRevisionKeeps ==
    ASSUME InventoryAssumption, InventoryInv, CompareRevision
    PROVE  InventoryInv'
  <1>1. /\ scan \in Scan /\ scan.pc = "compare" /\ UNCHANGED <<row, revision, outages>>
        /\ scan.round \in Nat /\ scan.round <= Rounds /\ Rounds \in Nat
    BY DEF InventoryInv, Shape, CompareRevision, Server, InventoryAssumption, Decided, Scan
  <1>2. /\ scan' \in Scan /\ scan'.pc \in {"gave_up", "revision", "refused", "ready"}
        /\ scan'.seen = scan.seen
        /\ scan'.round = scan.round \/ scan'.round = scan.round + 1
        /\ scan'.pc = "revision" => scan'.round <= Rounds
    <2>1. CASE revision # scan.seen
      <3> DEFINE pc == IF scan.round = Rounds THEN "gave_up" ELSE "revision"
      <3>1. scan' = [scan EXCEPT !.pc = pc, !.round = scan.round + 1]
        BY <1>1, <2>1 DEF CompareRevision
      <3>2. pc \in {"gave_up", "revision"} /\ (pc = "revision" => scan.round + 1 <= Rounds)
        BY <1>1
      <3>3. scan.round + 1 \in Nat /\ pc \in Decided \cup {"revision"}
        BY <1>1, <3>2 DEF Decided
      <3> HIDE DEF pc
      <3> QED
        BY <1>1, <3>1, <3>2, <3>3 DEF Scan
    <2>2. CASE revision = scan.seen
      <3> DEFINE pc == IF scan.failed THEN "refused" ELSE "ready"
      <3>1. scan' = [scan EXCEPT !.pc = pc]
        BY <1>1, <2>2 DEF CompareRevision
      <3>2. pc \in {"refused", "ready"}
        OBVIOUS
      <3> HIDE DEF pc
      <3> QED
        BY <1>1, <3>1, <3>2 DEF Scan, Decided
    <2> QED
      BY <2>1, <2>2
  <1>3. Shape'
    BY <1>1, <1>2 DEF InventoryInv, Shape, Decided
  <1> QED
    BY <1>2, <1>3 DEF InventoryInv, PassedUsable, PageTrue, VerdictTrue

LEMMA InventoryStep ==
    ASSUME InventoryAssumption, InventoryInv, [InventoryNext]_inventoryVars
    PROVE  InventoryInv'
  <1>1. ASSUME NEW m \in Materials, Reserve(m) \/ Finalize(m) \/ Erase(m)
        PROVE  InventoryInv'
    BY <1>1, StatementKeeps DEF Reserve, Finalize, Erase
  <1>2. CASE UNCHANGED inventoryVars
    BY <1>2 DEF inventoryVars, InventoryInv, Shape, PassedUsable, PageTrue, VerdictTrue, Undisturbed, InHand,
                Live, Authentic, Intact, Supported
  <1> QED
    BY <1>1, <1>2, ReadRevisionKeeps, RequiredCapabilitiesKeeps, ReadPageKeeps,
       AuthenticateCandidateKeeps, CompareRevisionKeeps DEF InventoryNext, ServerStep

-----------------------------------------------------------------------------
(* What is claimed of the scan *)

THEOREM InventoryInvariant == ASSUME InventoryAssumption PROVE InventorySpec => []InventoryInv
  <1>1. InventoryInit => InventoryInv
    BY InventoryInitEstablishes
  <1>2. InventoryInv /\ [InventoryNext]_inventoryVars => InventoryInv'
    BY InventoryStep
  <1> QED
    BY <1>1, <1>2, PTL DEF InventorySpec

\* A verdict is given by a comparison that finds the revision unmoved.
LEMMA VerdictsAreCompared ==
    ASSUME InventoryInv, InventoryNext, scan.pc # scan'.pc, scan'.pc \in {"ready", "refused"}
    PROVE  /\ scan.pc = "compare" /\ Undisturbed
           /\ scan.failed <=> scan'.pc = "refused"
  <1>1. scan \in Scan
    BY DEF InventoryInv, Shape
  <1>2. CompareRevision
    BY <1>1 DEF InventoryNext, ServerStep, ReadRevision, RequiredCapabilities, ReadPage,
                AuthenticateCandidate, Reserve, Finalize, Erase, Statement, Scan
  <1> QED
    BY <1>1, <1>2 DEF CompareRevision, Server, Undisturbed, Scan

\* A process that declares itself ready can use every material that is live at
\* that moment, whatever was written between the reads of its scan, and one that
\* refuses to start does so for a material that is live and unusable when it
\* refuses, or after its provider has failed (validate_provider_readiness).
THEOREM VerdictsAreTrue == ASSUME InventoryAssumption PROVE InventorySpec => VerdictIsTrue
  <1>1. InventoryInv => InventoryTypeOK
    <2> SUFFICES ASSUME InventoryInv PROVE InventoryTypeOK
      OBVIOUS
    <2>1. /\ scan \in Scan /\ scan.seen <= revision /\ revision \in 1..(MaxChanges + 1)
          /\ scan.round >= 1 /\ scan.round <= Rounds + 1
      BY DEF InventoryInv, Shape
    <2>2. scan.seen \in 0..revision /\ scan.round \in 1..(Rounds + 1)
      BY <2>1, Numbers DEF Scan
    <2> QED
      BY <2>1, <2>2 DEF InventoryInv, Shape, InventoryTypeOK, Scan
  <1>2. InventoryInv /\ InventoryNext => ReadyMeansUsable
    BY VerdictsAreCompared DEF ReadyMeansUsable, InventoryInv, VerdictTrue
  <1>3. InventoryInv /\ InventoryNext => RefusalHasCause
    BY VerdictsAreCompared DEF RefusalHasCause, InventoryInv, VerdictTrue
  <1>4. InventoryInv /\ [InventoryNext]_inventoryVars
            => [InventoryTypeOK /\ ReadyMeansUsable /\ RefusalHasCause]_inventoryVars
    BY <1>1, <1>2, <1>3
  <1> QED
    BY <1>4, InventoryInvariant, PTL DEF InventorySpec, VerdictIsTrue

-----------------------------------------------------------------------------
(* KeyNumbers and positions *)

\* What the proofs use of the constants.
LEMMA KeyNumbers ==
    ASSUME KeyAssumption
    PROVE  /\ \A k \in Keys : k \in Nat /\ k > 0 /\ k # 0
           /\ IsFiniteSet(Keys)
           /\ MaxActive \in Nat /\ MaxActive > 0 /\ Attempts \in Nat /\ Attempts > 0
           /\ MaxTime \in Nat /\ MaxTime > 0 /\ KeysPerPage \in Nat /\ KeysPerPage > 0
  BY DEF KeyAssumption

\* The order of the listing is a strict total order on positions.
LEMMA PrecedesIsOrder ==
    ASSUME NEW a \in Nat, NEW b \in Nat, NEW c \in Nat, NEW d \in Nat, NEW e \in Nat, NEW f \in Nat
    PROVE  /\ ~Precedes(<<a, b>>, <<a, b>>)
           /\ <<a, b>> = <<c, d>> \/ Precedes(<<a, b>>, <<c, d>>) \/ Precedes(<<c, d>>, <<a, b>>)
           /\ Precedes(<<a, b>>, <<c, d>>) => ~Precedes(<<c, d>>, <<a, b>>)
           /\ Precedes(<<a, b>>, <<c, d>>) /\ Precedes(<<c, d>>, <<e, f>>) => Precedes(<<a, b>>, <<e, f>>)
  BY DEF Precedes

-----------------------------------------------------------------------------
(* The inductive invariant *)

Row == [status : {"none", "active", "revoked"}, revision : 0..3,
        acknowledged : BOOLEAN, created : 0..MaxTime,
        last_used : 0..MaxTime, version : Versions \cup {0}]

\* The rows, and how often their credentials were shown.
RowsShaped ==
    /\ key \in [Keys -> Row]
    /\ shown \in [Keys -> 0..1]
    /\ \A k \in Keys :
          /\ key[k].status = "none" => shown[k] = 0 /\ key[k].last_used = 0
          /\ key[k].status # "none" => key[k].created >= 1
          /\ key[k].status = "active" /\ key[k].acknowledged => key[k].revision = 2
          /\ key[k].status = "active" /\ ~key[k].acknowledged => key[k].revision = 1

RowsCounted == Cardinality(Active) <= MaxActive /\ Cardinality(Unacknowledged) <= 1

Caller == [pc : {"idle", "replay", "attempt", "change", "answered"},
           kind : {"none", "create", "acknowledge", "revoke"},
           idem : IdemKeys \cup {0}, key : Keys \cup {0}, expected : 0..3, tries : 0..Attempts]

CallerShaped(new) ==
    /\ new.pc # "idle" => new.idem \in IdemKeys
    /\ new.pc # "idle" /\ new.kind # "create" => new.key \in Keys
    /\ new.pc = "replay" => new.tries = 0
    /\ new.pc = "attempt" => new.tries < Attempts

\* Where the Control requests stand.
CallersShaped ==
    /\ caller \in [Callers -> Caller]
    /\ \A c \in Callers : CallerShaped(caller[c])

\* Whoever was answered under an idempotency key was told its completed record.
AnswersRecorded ==
    /\ idem = [i \in IdemKeys |-> idem[i]]
    /\ answers = [i \in IdemKeys |-> answers[i]]
    /\ \A i \in IdemKeys : \A a \in answers[i] :
          idem[i] # NoRecord /\ a = <<idem[i].digest, idem[i].key, idem[i].response>>

\* The Server API requests, the telemetry and the clock.
ServingShaped ==
    /\ project \in {"active", "disabled"}
    /\ request \in [Requests -> [pc : {"idle", "digest", "confirm", "authenticated"},
                                 key : Keys \cup {0}]]
    /\ \A r \in Requests : request[r].pc # "idle" => request[r].key \in Keys
    /\ usage \in [observed : [Keys -> 0..MaxTime], writing : Keys \cup {0}, bucket : 0..MaxTime]
    /\ now \in 1..MaxTime

\* What the walk has seen is not behind its cursor; what it has not, is.
WalkInOrder ==
    /\ walk \in [pc : {"idle", "walking", "done"}, after : Nat \X Nat, there : SUBSET Keys,
                 seen : SUBSET Keys, twice : BOOLEAN]
    /\ walk.pc = "walking" =>
          /\ ~walk.twice
          /\ \A k \in walk.there : k \in Existing
          /\ \A k \in walk.seen : k \in Existing /\ ~Precedes(walk.after, Position(k))
          /\ \A k \in walk.there : k \in walk.seen \/ Precedes(walk.after, Position(k))
    /\ walk.pc = "done" => walk.there \subseteq walk.seen /\ ~walk.twice

KeyInv ==
    RowsShaped /\ RowsCounted /\ CallersShaped /\ AnswersRecorded /\ ServingShaped /\ WalkInOrder

LEMMA KeyInitEstablishes ==
    ASSUME KeyAssumption, KeyInit
    PROVE  KeyInv
  <1>1. RowsShaped
    BY KeyNumbers DEF KeyInit, RowsShaped, Row, NoRow
  <1>2. RowsCounted
    <2>1. Active = {} /\ Unacknowledged = {}
      BY DEF KeyInit, Active, Unacknowledged, NoRow
    <2> QED
      BY <2>1, KeyNumbers, FS_EmptySet DEF RowsCounted
  <1>3. CallersShaped
    BY KeyNumbers DEF KeyInit, CallersShaped, Caller, CallerShaped, Idle
  <1>4. AnswersRecorded
    BY DEF KeyInit, AnswersRecorded
  <1>5. ServingShaped
    BY KeyNumbers DEF KeyInit, ServingShaped
  <1>6. WalkInOrder
    BY DEF KeyInit, WalkInOrder
  <1> QED
    BY <1>1, <1>2, <1>3, <1>4, <1>5, <1>6 DEF KeyInv

-----------------------------------------------------------------------------
(* What a step may do to the rows *)

RowsKept == UNCHANGED <<key, shown>>

Inserted(k) ==
    /\ key[k].status = "none" /\ MayCreate
    /\ \E entry \in Row :
          /\ entry.status = "active" /\ entry.revision = 1 /\ ~entry.acknowledged
          /\ entry.created = now /\ entry.last_used = 0
          /\ key' = [key EXCEPT ![k] = entry]
    /\ shown' = [shown EXCEPT ![k] = @ + 1]

Acknowledged(k) ==
    /\ key[k].status = "active" /\ ~key[k].acknowledged
    /\ key' = [key EXCEPT ![k] = [key[k] EXCEPT !.acknowledged = TRUE, !.revision = @ + 1]]
    /\ UNCHANGED shown

Revoked(k) ==
    /\ key[k].status = "active"
    /\ key' = [key EXCEPT ![k] = [key[k] EXCEPT !.status = "revoked", !.revision = @ + 1]]
    /\ UNCHANGED shown

Touched(k) ==
    /\ key[k].status = "active"
    /\ \E v \in 0..MaxTime :
          key[k].last_used < v /\ key' = [key EXCEPT ![k] = [key[k] EXCEPT !.last_used = v]]
    /\ UNCHANGED shown

RowsStep ==
    RowsKept \/ \E k \in Keys : Inserted(k) \/ Acknowledged(k) \/ Revoked(k) \/ Touched(k)

\* What such a step does to one row.
RowMoves(old, new) ==
    /\ old.status # "none" => new.status # "none" /\ new.created = old.created
    /\ old.status = "revoked" => new = old
    /\ new.last_used >= old.last_used
    /\ new.last_used # old.last_used => new.revision = old.revision

LEMMA AcknowledgedRow ==
    ASSUME NEW r \in Row, NEW n \in 0..3
    PROVE  LET new == [r EXCEPT !.acknowledged = TRUE, !.revision = n]
           IN /\ new \in Row /\ new.status = r.status /\ new.created = r.created
              /\ new.acknowledged = TRUE /\ new.revision = n /\ new.last_used = r.last_used
  BY DEF Row

LEMMA RevokedRow ==
    ASSUME NEW r \in Row, NEW n \in 0..3
    PROVE  LET new == [r EXCEPT !.status = "revoked", !.revision = n]
           IN /\ new \in Row /\ new.status = "revoked" /\ new.created = r.created
              /\ new.last_used = r.last_used
  BY DEF Row

LEMMA RowsMove ==
    ASSUME KeyAssumption, RowsShaped, ServingShaped, RowsStep
    PROVE  RowsShaped' /\ \A k \in Keys : RowMoves(key[k], key'[k])
  <1> DEFINE Goal == RowsShaped' /\ \A k \in Keys : RowMoves(key[k], key'[k])
  <1>1. /\ key \in [Keys -> Row] /\ shown \in [Keys -> 0..1] /\ now \in 1..MaxTime /\ MaxTime \in Nat
        /\ \A k \in Keys : /\ key[k].status \in {"none", "active", "revoked"} /\ key[k].created \in Nat
                           /\ key[k].last_used \in Nat /\ key[k].revision \in Nat
                           /\ key[k] \in Row
    BY KeyNumbers DEF RowsShaped, ServingShaped, Row
  <1>2. CASE RowsKept
    BY <1>1, <1>2 DEF RowsKept, RowsShaped, RowMoves
  <1>3. ASSUME NEW k \in Keys, NEW new \in Row, key' = [key EXCEPT ![k] = new],
               RowMoves(key[k], new),
               new.status # "none", new.created >= 1,
               new.status = "active" /\ new.acknowledged => new.revision = 2,
               new.status = "active" /\ ~new.acknowledged => new.revision = 1,
               shown' \in [Keys -> 0..1], \A j \in Keys \ {k} : shown'[j] = shown[j]
        PROVE  Goal
    <2>1. key' \in [Keys -> Row] /\ key'[k] = new /\ \A j \in Keys \ {k} : key'[j] = key[j]
      BY <1>1, <1>3
    <2>2. \A j \in Keys : RowMoves(key[j], key'[j])
      BY <1>1, <1>3, <2>1 DEF RowMoves
    <2>3. RowsShaped'
      BY <1>3, <2>1 DEF RowsShaped
    <2> QED
      BY <2>2, <2>3
  <1>4. ASSUME NEW k \in Keys, Inserted(k) PROVE Goal
    <2>1. PICK entry \in Row : /\ entry.status = "active" /\ entry.revision = 1 /\ ~entry.acknowledged
                             /\ entry.created = now /\ entry.last_used = 0
                             /\ key' = [key EXCEPT ![k] = entry]
      BY <1>4 DEF Inserted
    <2>2. shown' \in [Keys -> 0..1] /\ \A j \in Keys \ {k} : shown'[j] = shown[j]
      BY <1>1, <1>4 DEF Inserted, RowsShaped
    <2>3. RowMoves(key[k], entry)
      <3>1. key[k].status = "none" /\ key[k].last_used = 0
        BY <1>4 DEF Inserted, RowsShaped
      <3> QED
        BY <2>1, <3>1 DEF RowMoves
    <2>4. entry.status # "none" /\ entry.created >= 1
      BY <1>1, <2>1
    <2>5. /\ entry.status = "active" /\ entry.acknowledged => entry.revision = 2
          /\ entry.status = "active" /\ ~entry.acknowledged => entry.revision = 1
      BY <2>1
    <2> QED
      BY <1>3, <2>1, <2>2, <2>3, <2>4, <2>5
  <1>5. ASSUME NEW k \in Keys, Acknowledged(k) PROVE Goal
    <2> DEFINE new == [key[k] EXCEPT !.acknowledged = TRUE, !.revision = @ + 1]
    <2>1. key[k].revision = 1 /\ key[k] \in Row /\ key[k].status = "active" /\ key[k].created >= 1
      BY <1>1, <1>5 DEF Acknowledged, RowsShaped
    <2>2. /\ new \in Row /\ new.status = "active" /\ new.created = key[k].created
          /\ new.acknowledged = TRUE /\ new.revision = 2 /\ new.last_used = key[k].last_used
      <3>1. key[k].revision + 1 \in 0..3 /\ key[k].revision + 1 = 2
        BY <2>1
      <3> QED
        BY <2>1, <3>1, AcknowledgedRow
    <2>3. key' = [key EXCEPT ![k] = new] /\ shown' = shown
      BY <1>5 DEF Acknowledged
    <2> HIDE DEF new
    <2>4. RowMoves(key[k], new)
      BY <1>1, <2>1, <2>2 DEF RowMoves
    <2> QED
      BY <1>1, <1>3, <2>1, <2>2, <2>3, <2>4
  <1>6. ASSUME NEW k \in Keys, Revoked(k) PROVE Goal
    <2> DEFINE new == [key[k] EXCEPT !.status = "revoked", !.revision = @ + 1]
    <2>1. key[k].revision \in 1..2 /\ key[k] \in Row /\ key[k].status = "active" /\ key[k].created >= 1
      BY <1>1, <1>6 DEF Revoked, RowsShaped
    <2>2. /\ new \in Row /\ new.status = "revoked" /\ new.created = key[k].created
          /\ new.last_used = key[k].last_used
      <3>1. key[k].revision + 1 \in 0..3
        BY <2>1
      <3> QED
        BY <2>1, <3>1, RevokedRow
    <2>3. key' = [key EXCEPT ![k] = new] /\ shown' = shown
      BY <1>6 DEF Revoked
    <2> HIDE DEF new
    <2>4. RowMoves(key[k], new)
      BY <1>1, <2>1, <2>2 DEF RowMoves
    <2> QED
      BY <1>1, <1>3, <2>1, <2>2, <2>3, <2>4
  <1>7. ASSUME NEW k \in Keys, Touched(k) PROVE Goal
    <2>1. PICK v \in 0..MaxTime :
            key[k].last_used < v /\ key' = [key EXCEPT ![k] = [key[k] EXCEPT !.last_used = v]]
      BY <1>7 DEF Touched
    <2> DEFINE new == [key[k] EXCEPT !.last_used = v]
    <2>2. key[k] \in Row /\ key[k].status = "active" /\ key[k].created >= 1
      BY <1>1, <1>7 DEF Touched, RowsShaped
    <2>3. /\ new \in Row /\ new.status = "active" /\ new.created = key[k].created
          /\ new.last_used = v /\ new.revision = key[k].revision
      BY <2>2 DEF Row
    <2>4. new.acknowledged = key[k].acknowledged
      BY <2>2 DEF Row
    <2>5. key' = [key EXCEPT ![k] = new] /\ shown' = shown
      BY <1>7, <2>1 DEF Touched
    <2>6. /\ new.status = "active" /\ new.acknowledged => new.revision = 2
          /\ new.status = "active" /\ ~new.acknowledged => new.revision = 1
      <3> HIDE DEF new
      <3> QED
        BY <2>2, <2>3, <2>4 DEF RowsShaped
    <2>7. RowMoves(key[k], new)
      <3> HIDE DEF new
      <3> QED
        BY <1>1, <2>1, <2>2, <2>3 DEF RowMoves
    <2> HIDE DEF new
    <2> QED
      BY <1>1, <1>3, <2>2, <2>3, <2>5, <2>6, <2>7
  <1> QED
    BY <1>2, <1>4, <1>5, <1>6, <1>7 DEF RowsStep

\* At most MaxActive rows stay active, and at most one unacknowledged.
LEMMA RowsStayCounted ==
    ASSUME KeyAssumption, RowsShaped, RowsCounted, ServingShaped, RowsStep
    PROVE  RowsCounted'
  <1>1. /\ IsFiniteSet(Active) /\ Cardinality(Active) \in Nat
        /\ IsFiniteSet(Unacknowledged) /\ Cardinality(Unacknowledged) \in Nat
    BY KeyNumbers, FS_Subset, FS_CardinalityType DEF Active, Unacknowledged
  <1>2. ASSUME NEW S, S \subseteq Active, NEW T, T \subseteq Unacknowledged, Active' = S, Unacknowledged' = T
        PROVE  RowsCounted'
    <2>1. IsFiniteSet(S) /\ Cardinality(S) <= Cardinality(Active) /\ Cardinality(S) \in Nat
      BY <1>1, <1>2, FS_Subset, FS_CardinalityType
    <2>2. IsFiniteSet(T) /\ Cardinality(T) <= Cardinality(Unacknowledged) /\ Cardinality(T) \in Nat
      BY <1>1, <1>2, FS_Subset, FS_CardinalityType
    <2> QED
      BY <1>1, <1>2, <2>1, <2>2, KeyNumbers DEF RowsCounted
  <1>3. CASE RowsKept
    <2>1. Active' = Active /\ Unacknowledged' = Unacknowledged
      BY <1>3 DEF RowsKept, Active, Unacknowledged
    <2> QED
      BY <1>2, <2>1
  <1>4. ASSUME NEW k \in Keys, Inserted(k) PROVE RowsCounted'
    <2>1. PICK entry \in Row : /\ entry.status = "active" /\ ~entry.acknowledged
                             /\ key' = [key EXCEPT ![k] = entry]
      BY <1>4 DEF Inserted
    <2>2. key'[k] = entry /\ \A j \in Keys \ {k} : key'[j] = key[j]
      BY <2>1 DEF RowsShaped
    <2>3. Active' = Active \cup {k} /\ k \notin Active
      BY <1>4, <2>1, <2>2 DEF Active, Inserted
    <2>4. Unacknowledged = {} /\ Cardinality(Active) < MaxActive
      BY <1>4 DEF Inserted, MayCreate
    <2>5. Unacknowledged' = {k}
      BY <2>1, <2>2, <2>3, <2>4 DEF Unacknowledged
    <2>6. Cardinality(Active \cup {k}) = Cardinality(Active) + 1 /\ Cardinality({k}) = 1
      BY <1>1, <2>3, FS_AddElement, FS_Singleton
    <2> QED
      BY <1>1, <2>3, <2>4, <2>5, <2>6, KeyNumbers DEF RowsCounted
  <1>5. ASSUME NEW k \in Keys, key[k].status = "active", NEW new, key' = [key EXCEPT ![k] = new],
               new.status = "active" /\ ~new.acknowledged => ~key[k].acknowledged
        PROVE  RowsCounted'
    <2>1. key'[k] = new /\ \A j \in Keys \ {k} : key'[j] = key[j]
      BY <1>5 DEF RowsShaped
    <2>2. Active' \subseteq Active
      BY <1>5, <2>1 DEF Active
    <2>3. Unacknowledged' \subseteq Unacknowledged
      BY <1>5, <2>1, <2>2 DEF Unacknowledged, Active
    <2> QED
      BY <1>2, <2>2, <2>3
  <1>6. ASSUME NEW k \in Keys, Acknowledged(k) PROVE RowsCounted'
    <2> DEFINE new == [key[k] EXCEPT !.acknowledged = TRUE, !.revision = @ + 1]
    <2>1. key[k] \in Row
      BY DEF RowsShaped
    <2>2. new.acknowledged = TRUE
      BY <2>1 DEF Row
    <2>3. key[k].status = "active" /\ key' = [key EXCEPT ![k] = new]
      BY <1>6 DEF Acknowledged
    <2> HIDE DEF new
    <2> QED
      BY <1>5, <2>2, <2>3
  <1>7. ASSUME NEW k \in Keys, Revoked(k) PROVE RowsCounted'
    <2> DEFINE new == [key[k] EXCEPT !.status = "revoked", !.revision = @ + 1]
    <2>1. key[k] \in Row
      BY DEF RowsShaped
    <2>2. new.status = "revoked"
      BY <2>1 DEF Row
    <2>3. key[k].status = "active" /\ key' = [key EXCEPT ![k] = new]
      BY <1>7 DEF Revoked
    <2> HIDE DEF new
    <2> QED
      BY <1>5, <2>2, <2>3
  <1>8. ASSUME NEW k \in Keys, Touched(k) PROVE RowsCounted'
    <2>1. PICK v \in 0..MaxTime : key' = [key EXCEPT ![k] = [key[k] EXCEPT !.last_used = v]]
      BY <1>8 DEF Touched
    <2> DEFINE new == [key[k] EXCEPT !.last_used = v]
    <2>2. key[k] \in Row /\ key[k].status = "active"
      BY <1>8 DEF RowsShaped, Touched
    <2>3. new.acknowledged = key[k].acknowledged
      BY <2>2 DEF Row
    <2> HIDE DEF new
    <2>4. key' = [key EXCEPT ![k] = new]
      BY <2>1 DEF new
    <2> QED
      BY <1>5, <2>2, <2>3, <2>4
  <1> QED
    BY <1>3, <1>4, <1>6, <1>7, <1>8 DEF RowsStep

\* The walk of an operator survives whatever happens to the rows meanwhile.
LEMMA WalkStaysInOrder ==
    ASSUME WalkInOrder, walk' = walk, \A k \in Keys : RowMoves(key[k], key'[k])
    PROVE  WalkInOrder'
  <1>1. ASSUME NEW k \in Existing PROVE k \in Existing' /\ Position(k)' = Position(k)
    BY <1>1 DEF Existing, RowMoves, Position
  <1>2. \A k \in walk.there : walk.pc = "walking" =>
           k \in Existing' /\ (k \in walk.seen \/ Precedes(walk.after, Position(k)'))
    BY <1>1 DEF WalkInOrder
  <1>3. \A k \in walk.seen : walk.pc = "walking" =>
           k \in Existing' /\ ~Precedes(walk.after, Position(k)')
    BY <1>1 DEF WalkInOrder
  <1> QED
    BY <1>2, <1>3 DEF WalkInOrder

-----------------------------------------------------------------------------
(* Control requests *)

LEMMA CallerMoves ==
    ASSUME CallersShaped, NEW c \in Callers, NEW new \in Caller, CallerShaped(new),
           caller' = [caller EXCEPT ![c] = new]
    PROVE  CallersShaped'
  BY DEF CallersShaped

\* A request may be answered once it is on its way.
LEMMA AnsweredStaysShaped ==
    ASSUME CallersShaped, NEW c \in Callers, caller[c].pc # "idle",
           caller' = [caller EXCEPT ![c].pc = "answered"]
    PROVE  CallersShaped'
  <1> DEFINE new == [caller[c] EXCEPT !.pc = "answered"]
  <1>1. caller[c] \in Caller /\ CallerShaped(caller[c]) /\ caller' = [caller EXCEPT ![c] = new]
    BY DEF CallersShaped
  <1>2. /\ new \in Caller /\ new.pc = "answered" /\ new.idem = caller[c].idem
        /\ new.kind = caller[c].kind /\ new.key = caller[c].key
    BY <1>1 DEF Caller
  <1>3. CallerShaped(new)
    <2> HIDE DEF new
    <2> QED
      BY <1>1, <1>2 DEF CallerShaped
  <1> HIDE DEF new
  <1> QED
    BY <1>1, <1>2, <1>3, CallerMoves

\* A step that leaves the records and the answers alone.
LEMMA AnswersStay ==
    ASSUME AnswersRecorded, UNCHANGED <<idem, answers>>
    PROVE  AnswersRecorded'
  BY DEF AnswersRecorded

\* A refusal changes the request alone.
LEMMA RefuseKeeps ==
    ASSUME KeyInv, NEW c \in Callers, caller[c].pc # "idle", Refuse(c)
    PROVE  RowsStep /\ CallersShaped' /\ AnswersRecorded' /\ UNCHANGED <<project, request, usage, walk, now>>
  <1>1. caller[c].idem \in IdemKeys
    BY DEF KeyInv, CallersShaped, CallerShaped
  <1>2. answers' = [answers EXCEPT ![caller[c].idem] = answers[caller[c].idem]]
    BY DEF Refuse, Respond
  <1>3. answers' = answers
    BY <1>1, <1>2 DEF KeyInv, AnswersRecorded
  <1>4. CallersShaped'
    BY AnsweredStaysShaped DEF KeyInv, Refuse, Respond
  <1>5. AnswersRecorded'
    BY <1>3, AnswersStay DEF Refuse, KeyInv
  <1> QED
    BY <1>4, <1>5 DEF Refuse, RowsStep, RowsKept

\* A replay answers with the completed record of the same command.
LEMMA ReplayKeeps ==
    ASSUME KeyInv, NEW c \in Callers, caller[c].pc # "idle", Replayed(c), ReplayAnswer(c)
    PROVE  RowsStep /\ CallersShaped' /\ AnswersRecorded' /\ UNCHANGED <<project, request, usage, walk, now>>
  <1> DEFINE i == caller[c].idem
             told == <<idem[i].digest, idem[i].key, idem[i].response>>
  <1>1. i \in IdemKeys /\ idem[i] # NoRecord
    BY DEF KeyInv, CallersShaped, CallerShaped, Replayed, Recorded
  <1>2. answers' = [answers EXCEPT ![i] = answers[i] \cup {told}] /\ UNCHANGED idem
    BY DEF ReplayAnswer, Respond, Replayed
  <1>3. CallersShaped'
    BY AnsweredStaysShaped DEF KeyInv, ReplayAnswer, Respond
  <1>4. AnswersRecorded'
    <2> HIDE DEF i
    <2> QED
      BY <1>1, <1>2 DEF KeyInv, AnswersRecorded
  <1> QED
    BY <1>3, <1>4 DEF ReplayAnswer, RowsStep, RowsKept

\* A completed command leaves the first record of its key, and is answered with it.
LEMMA CompleteKeeps ==
    ASSUME KeyInv, NEW c \in Callers, caller[c].pc # "idle", ~Recorded(c),
           NEW k, NEW entry, Complete(c, k, entry), Respond(c, "done", k, entry)
    PROVE  CallersShaped' /\ AnswersRecorded'
  <1> DEFINE i == caller[c].idem
             record == [digest |-> Digest(c), key |-> k, response |-> entry]
  <1>1. i \in IdemKeys /\ idem[i] = NoRecord
    BY DEF KeyInv, CallersShaped, CallerShaped, Recorded
  <1>2. /\ answers' = [answers EXCEPT ![i] = answers[i] \cup {<<Digest(c), k, entry>>}]
        /\ idem' = [idem EXCEPT ![i] = record]
    BY DEF Complete, Respond
  <1>3. CallersShaped'
    BY AnsweredStaysShaped DEF KeyInv, Respond
  <1>4. answers[i] = {}
    BY <1>1 DEF KeyInv, AnswersRecorded
  <1>5. record # NoRecord /\ <<Digest(c), k, entry>> = <<record.digest, record.key, record.response>>
    <2>1. DOMAIN record # DOMAIN NoRecord
      <3>1. "digest" \in DOMAIN record /\ "digest" \notin DOMAIN NoRecord
        BY DEF NoRecord
      <3> QED
        BY <3>1
    <2> QED
      BY <2>1
  <1>6. AnswersRecorded'
    <2> HIDE DEF i, record
    <2> QED
      BY <1>1, <1>2, <1>4, <1>5 DEF KeyInv, AnswersRecorded
  <1> QED
    BY <1>3, <1>6

\* What a Control request leaves alone, and how it moves the rest.
ControlEffect ==
    /\ RowsStep /\ CallersShaped' /\ AnswersRecorded'
    /\ UNCHANGED <<project, request, usage, walk, now>>

\* A step of one request that touches no row and answers nobody.
LEMMA CallerAloneKeeps ==
    ASSUME KeyInv, NEW c \in Callers, NEW new \in Caller, CallerShaped(new),
           caller' = [caller EXCEPT ![c] = new],
           UNCHANGED <<project, key, idem, answers, shown, request, usage, walk, now>>
    PROVE  ControlEffect
  <1>1. CallersShaped'
    BY CallerMoves DEF KeyInv
  <1>2. AnswersRecorded'
    BY AnswersStay DEF KeyInv
  <1> QED
    BY <1>1, <1>2 DEF ControlEffect, RowsStep, RowsKept

LEMMA SubmitKeeps ==
    ASSUME KeyAssumption, KeyInv, NEW c \in Callers, NEW i \in IdemKeys,
           \/ SubmitCreate(c, i)
           \/ \E k \in Keys, kind \in {"acknowledge", "revoke"} : SubmitChange(c, i, kind, k)
    PROVE  ControlEffect
  <1>1. CASE SubmitCreate(c, i)
    <2> DEFINE new == [Idle EXCEPT !.pc = "replay", !.kind = "create", !.idem = i]
    <2>1. new \in Caller /\ CallerShaped(new)
      <3>1. Idle \in Caller /\ Idle.tries = 0
        BY KeyNumbers DEF Idle, Caller
      <3>2. /\ new \in Caller /\ new.pc = "replay" /\ new.kind = "create" /\ new.idem = i
            /\ new.tries = 0
        BY <3>1 DEF Caller
      <3> HIDE DEF new
      <3> QED
        BY <3>2 DEF CallerShaped
    <2>2. /\ caller' = [caller EXCEPT ![c] = new]
          /\ UNCHANGED <<project, key, idem, answers, shown, request, usage, walk, now>>
      BY <1>1 DEF SubmitCreate
    <2> HIDE DEF new
    <2> QED
      BY <2>1, <2>2, CallerAloneKeeps
  <1>2. ASSUME NEW k \in Keys, NEW kind \in {"acknowledge", "revoke"}, SubmitChange(c, i, kind, k)
        PROVE  ControlEffect
    <2> DEFINE new == [Idle EXCEPT !.pc = "change", !.kind = kind, !.idem = i, !.key = k,
                                   !.expected = key[k].revision]
    <2>1. key[k].revision \in 0..3
      BY DEF KeyInv, RowsShaped, Row
    <2>2. new \in Caller /\ CallerShaped(new)
      <3>1. Idle \in Caller
        BY KeyNumbers DEF Idle, Caller
      <3>2. new \in Caller /\ new.pc = "change" /\ new.idem = i /\ new.key = k
        BY <2>1, <3>1 DEF Caller
      <3> HIDE DEF new
      <3> QED
        BY <3>2 DEF CallerShaped
    <2>3. /\ caller' = [caller EXCEPT ![c] = new]
          /\ UNCHANGED <<project, key, idem, answers, shown, request, usage, walk, now>>
      BY <1>2 DEF SubmitChange
    <2> HIDE DEF new
    <2> QED
      BY <2>2, <2>3, CallerAloneKeeps
  <1> QED
    BY <1>1, <1>2

LEMMA ReplayCreateKeeps ==
    ASSUME KeyAssumption, KeyInv, NEW c \in Callers, ReplayCreate(c)
    PROVE  ControlEffect
  <1>1. caller[c] \in Caller /\ CallerShaped(caller[c]) /\ caller[c].pc = "replay"
    BY DEF KeyInv, CallersShaped, ReplayCreate
  <1>2. CASE Refuse(c)
    BY <1>1, <1>2, RefuseKeeps DEF ControlEffect
  <1>3. CASE Replayed(c) /\ ReplayAnswer(c)
    BY <1>1, <1>3, ReplayKeeps DEF ControlEffect
  <1>4. CASE /\ caller' = [caller EXCEPT ![c].pc = "attempt"]
             /\ UNCHANGED <<project, key, idem, answers, shown, request, usage, walk, now, faults>>
    <2> DEFINE new == [caller[c] EXCEPT !.pc = "attempt"]
    <2>1. /\ new \in Caller /\ new.pc = "attempt" /\ new.idem = caller[c].idem
          /\ new.kind = caller[c].kind /\ new.key = caller[c].key /\ new.tries = caller[c].tries
      BY <1>1 DEF Caller
    <2>2. caller' = [caller EXCEPT ![c] = new]
      BY <1>4
    <2> HIDE DEF new
    <2>3. CallerShaped(new)
      BY <1>1, <2>1, KeyNumbers DEF CallerShaped
    <2> QED
      BY <1>4, <2>1, <2>2, <2>3, CallerAloneKeeps
  <1> QED
    BY <1>2, <1>3, <1>4 DEF ReplayCreate

LEMMA AttemptCreateKeeps ==
    ASSUME KeyAssumption, KeyInv, NEW c \in Callers, AttemptCreate(c)
    PROVE  ControlEffect
  <1>1. caller[c].pc # "idle"
    BY DEF AttemptCreate
  <1>2. CASE Refuse(c)
    BY <1>1, <1>2, RefuseKeeps DEF ControlEffect
  <1>3. CASE Replayed(c) /\ ReplayAnswer(c)
    BY <1>1, <1>3, ReplayKeeps DEF ControlEffect
  <1>4. ASSUME ~Recorded(c), MayCreate, NEW k \in Keys \ Existing, NEW v \in Versions, InsertKey(c, k, v)
        PROVE  ControlEffect
    <2> DEFINE entry == [status |-> "active", revision |-> 1, acknowledged |-> FALSE,
                       created |-> now, last_used |-> 0, version |-> v]
    <2>1. /\ key' = [key EXCEPT ![k] = entry] /\ Complete(c, k, entry) /\ Respond(c, "done", k, entry)
          /\ shown' = [shown EXCEPT ![k] = @ + 1] /\ UNCHANGED <<project, request, usage, walk, now>>
      BY <1>4 DEF InsertKey
    <2>2. now \in 0..MaxTime /\ 0 \in 0..MaxTime
      BY KeyNumbers DEF KeyInv, ServingShaped
    <2>3. /\ entry \in Row /\ entry.status = "active" /\ entry.revision = 1 /\ ~entry.acknowledged
          /\ entry.created = now /\ entry.last_used = 0
      BY <2>2 DEF Row
    <2> HIDE DEF entry
    <2>4. CallersShaped' /\ AnswersRecorded'
      BY <1>1, <1>4, <2>1, CompleteKeeps
    <2>5. Inserted(k)
      BY <1>4, <2>1, <2>3 DEF Inserted, Existing
    <2> QED
      BY <2>1, <2>4, <2>5 DEF ControlEffect, RowsStep
  <1> QED
    BY <1>2, <1>3, <1>4 DEF AttemptCreate

LEMMA CollideKeeps ==
    ASSUME KeyAssumption, KeyInv, NEW c \in Callers, Collide(c)
    PROVE  ControlEffect
  <1>1. caller[c] \in Caller /\ CallerShaped(caller[c]) /\ caller[c].pc = "attempt"
    BY DEF KeyInv, CallersShaped, Collide
  <1>2. caller[c].tries \in Nat /\ caller[c].tries < Attempts /\ Attempts \in Nat
    BY <1>1, KeyNumbers DEF Caller, CallerShaped
  <1> DEFINE pc == IF caller[c].tries + 1 = Attempts THEN "answered" ELSE "attempt"
             new == [caller[c] EXCEPT !.tries = caller[c].tries + 1, !.pc = pc]
  <1>3. caller' = [caller EXCEPT ![c] = new]
    BY <1>1 DEF Collide, KeyInv, CallersShaped
  <1>4. /\ pc \in {"answered", "attempt"} /\ (pc = "attempt" => caller[c].tries + 1 < Attempts)
        /\ caller[c].tries + 1 \in 0..Attempts
    BY <1>2
  <1>5. /\ new \in Caller /\ new.pc = pc /\ new.idem = caller[c].idem
        /\ new.kind = caller[c].kind /\ new.key = caller[c].key /\ new.tries = caller[c].tries + 1
    <2> HIDE DEF pc
    <2> QED
      BY <1>1, <1>4 DEF Caller
  <1> HIDE DEF pc, new
  <1>6. CallerShaped(new)
    BY <1>1, <1>4, <1>5 DEF CallerShaped
  <1> QED
    BY <1>3, <1>5, <1>6, CallerAloneKeeps DEF Collide

LEMMA AcknowledgeDeliveryKeeps ==
    ASSUME KeyAssumption, KeyInv, NEW c \in Callers, AcknowledgeDelivery(c)
    PROVE  ControlEffect
  <1> DEFINE k == caller[c].key
             new == [key[k] EXCEPT !.acknowledged = TRUE, !.revision = @ + 1]
  <1>1. caller[c].pc # "idle" /\ k \in Keys
    BY DEF AcknowledgeDelivery, KeyInv, CallersShaped, CallerShaped
  <1>2. CASE Refuse(c)
    BY <1>1, <1>2, RefuseKeeps DEF ControlEffect
  <1>3. CASE Replayed(c) /\ ReplayAnswer(c)
    BY <1>1, <1>3, ReplayKeeps DEF ControlEffect
  <1>4. CASE ~Recorded(c) /\ MayAcknowledge(k, caller[c].expected) /\ Change(c, new)
    <2>1. CallersShaped' /\ AnswersRecorded'
      BY <1>1, <1>4, CompleteKeeps DEF Change
    <2>2. Acknowledged(k)
      BY <1>4 DEF Acknowledged, MayAcknowledge, Change
    <2> QED
      BY <1>1, <1>4, <2>1, <2>2 DEF Change, ControlEffect, RowsStep
  <1> QED
    BY <1>2, <1>3, <1>4 DEF AcknowledgeDelivery

LEMMA RevokeKeyKeeps ==
    ASSUME KeyAssumption, KeyInv, NEW c \in Callers, RevokeKey(c)
    PROVE  ControlEffect
  <1> DEFINE k == caller[c].key
             new == [key[k] EXCEPT !.status = "revoked", !.revision = @ + 1]
  <1>1. caller[c].pc # "idle" /\ k \in Keys
    BY DEF RevokeKey, KeyInv, CallersShaped, CallerShaped
  <1>2. CASE Refuse(c)
    BY <1>1, <1>2, RefuseKeeps DEF ControlEffect
  <1>3. CASE Replayed(c) /\ ReplayAnswer(c)
    BY <1>1, <1>3, ReplayKeeps DEF ControlEffect
  <1>4. CASE ~Recorded(c) /\ MayRevoke(k, caller[c].expected) /\ Change(c, new)
    <2>1. CallersShaped' /\ AnswersRecorded'
      BY <1>1, <1>4, CompleteKeeps DEF Change
    <2>2. Revoked(k)
      BY <1>4 DEF Revoked, MayRevoke, Change
    <2> QED
      BY <1>1, <1>4, <2>1, <2>2 DEF Change, ControlEffect, RowsStep
  <1> QED
    BY <1>2, <1>3, <1>4 DEF RevokeKey

LEMMA ReceiptKeeps ==
    ASSUME KeyAssumption, KeyInv, NEW c \in Callers, Deliver(c) \/ LoseAnswer(c)
    PROVE  ControlEffect
  <1>1. caller[c] \in Caller /\ CallerShaped(caller[c])
    BY DEF KeyInv, CallersShaped
  <1>2. CASE Deliver(c)
    <2>1. Idle \in Caller /\ CallerShaped(Idle)
      BY KeyNumbers DEF Idle, Caller, CallerShaped
    <2> QED
      BY <1>2, <2>1, CallerAloneKeeps DEF Deliver
  <1>3. CASE LoseAnswer(c)
    <2> DEFINE pc == IF caller[c].kind = "create" THEN "replay" ELSE "change"
               new == [caller[c] EXCEPT !.pc = pc, !.tries = 0]
    <2>1. caller' = [caller EXCEPT ![c] = new] /\ caller[c].pc = "answered"
      BY <1>1, <1>3 DEF LoseAnswer, KeyInv, CallersShaped
    <2>2. pc \in {"replay", "change"} /\ 0 \in 0..Attempts
      BY KeyNumbers
    <2>3. /\ new \in Caller /\ new.pc = pc /\ new.idem = caller[c].idem
          /\ new.kind = caller[c].kind /\ new.key = caller[c].key /\ new.tries = 0
      <3> HIDE DEF pc
      <3> QED
        BY <1>1, <2>2 DEF Caller
    <2> HIDE DEF pc, new
    <2>4. CallerShaped(new)
      BY <1>1, <2>1, <2>2, <2>3 DEF CallerShaped
    <2> QED
      BY <1>3, <2>1, <2>3, <2>4, CallerAloneKeeps DEF LoseAnswer
  <1> QED
    BY <1>2, <1>3

LEMMA ControlKeeps ==
    ASSUME KeyAssumption, KeyInv, NEW c \in Callers, Control(c)
    PROVE  ControlEffect
  BY SubmitKeeps, ReplayCreateKeeps, AttemptCreateKeeps, CollideKeeps, AcknowledgeDeliveryKeeps,
     RevokeKeyKeeps, ReceiptKeeps DEF Control

-----------------------------------------------------------------------------
(* Server API requests, telemetry, time *)

LEMMA RequestMoves ==
    ASSUME ServingShaped, NEW r \in Requests,
           NEW new \in [pc : {"idle", "digest", "confirm", "authenticated"}, key : Keys \cup {0}],
           new.pc # "idle" => new.key \in Keys, SetRequest(r, new)
    PROVE  /\ request' \in [Requests -> [pc : {"idle", "digest", "confirm", "authenticated"},
                                         key : Keys \cup {0}]]
           /\ \A q \in Requests : request'[q].pc # "idle" => request'[q].key \in Keys
           /\ request'[r] = new /\ \A q \in Requests \ {r} : request'[q] = request[q]
  BY DEF ServingShaped, SetRequest

\* A step of a request keeps the shape, and authenticates with a usable key only.
LEMMA ServeKeeps ==
    ASSUME KeyAssumption, KeyInv, NEW r \in Requests, Serve(r)
    PROVE  /\ ServingShaped' /\ AuthenticatedWhileActive
           /\ UNCHANGED <<key, shown, idem, caller, answers, walk>>
  <1> DEFINE Kept(new) ==
               /\ new \in [pc : {"idle", "digest", "confirm", "authenticated"}, key : Keys \cup {0}]
               /\ new.pc # "idle" => new.key \in Keys
             None0 == [pc |-> "idle", key |-> 0]
  <1>1. request[r] \in [pc : {"idle", "digest", "confirm", "authenticated"}, key : Keys \cup {0}]
    BY DEF KeyInv, ServingShaped
  <1>2. request[r].pc # "idle" => request[r].key \in Keys
    BY DEF KeyInv, ServingShaped
  <1>3. Kept(None0) /\ None0.pc = "idle"
    OBVIOUS
  <1>4. ASSUME NEW new, Kept(new), SetRequest(r, new),
               usage' \in [observed : [Keys -> 0..MaxTime], writing : Keys \cup {0}, bucket : 0..MaxTime],
               new.pc = "authenticated" => Usable(request[r].key)
        PROVE  /\ ServingShaped' /\ AuthenticatedWhileActive
               /\ UNCHANGED <<key, shown, idem, caller, answers, walk>>
    <2>1. /\ request' \in [Requests -> [pc : {"idle", "digest", "confirm", "authenticated"},
                                         key : Keys \cup {0}]]
          /\ \A q \in Requests : request'[q].pc # "idle" => request'[q].key \in Keys
          /\ request'[r] = new /\ \A q \in Requests \ {r} : request'[q] = request[q]
      BY <1>4, RequestMoves DEF KeyInv
    <2>2. ServingShaped'
      BY <1>4, <2>1 DEF KeyInv, ServingShaped, SetRequest
    <2>3. AuthenticatedWhileActive
      BY <1>4, <2>1 DEF AuthenticatedWhileActive
    <2> QED
      BY <1>4, <2>2, <2>3 DEF SetRequest
  <1>5. UNCHANGED usage =>
          usage' \in [observed : [Keys -> 0..MaxTime], writing : Keys \cup {0}, bucket : 0..MaxTime]
    BY DEF KeyInv, ServingShaped
  <1>6. ASSUME NEW k \in Keys, ReadAuthority(r, k)
        PROVE  /\ ServingShaped' /\ AuthenticatedWhileActive
               /\ UNCHANGED <<key, shown, idem, caller, answers, walk>>
    <2> DEFINE new == [pc |-> "digest", key |-> k]
    <2>1. Kept(new) /\ new.pc # "authenticated"
      OBVIOUS
    <2>2. SetRequest(r, new) /\ UNCHANGED usage
      BY <1>6 DEF ReadAuthority
    <2> HIDE DEF new, Kept
    <2> QED
      BY <1>4, <1>5, <2>1, <2>2
  <1>7. CASE CompareDigest(r)
    <2> DEFINE new == IF key[request[r].key].version \in Ring
                        THEN [request[r] EXCEPT !.pc = "confirm"] ELSE None0
    <2>1. Kept([request[r] EXCEPT !.pc = "confirm"]) /\ [request[r] EXCEPT !.pc = "confirm"].pc = "confirm"
      BY <1>1, <1>2, <1>7 DEF CompareDigest
    <2>2. SetRequest(r, new) /\ UNCHANGED usage
      BY <1>7 DEF CompareDigest
    <2>3. Kept(new) /\ new.pc # "authenticated"
      <3> HIDE DEF Kept, None0
      <3> QED
        BY <1>3, <2>1
    <2> HIDE DEF new, Kept
    <2> QED
      BY <1>4, <1>5, <2>2, <2>3
  <1>8. CASE ConfirmActive(r)
    <2> DEFINE new == IF Usable(request[r].key)
                        THEN [request[r] EXCEPT !.pc = "authenticated"] ELSE None0
    <2>1. Kept([request[r] EXCEPT !.pc = "authenticated"])
      BY <1>1, <1>2, <1>8 DEF ConfirmActive
    <2>2. SetRequest(r, new) /\ UNCHANGED usage
      BY <1>8 DEF ConfirmActive
    <2>3. Kept(new) /\ (new.pc = "authenticated" => Usable(request[r].key))
      <3> HIDE DEF Kept, None0
      <3> QED
        BY <1>3, <2>1
    <2> HIDE DEF new, Kept
    <2> QED
      BY <1>4, <1>5, <2>2, <2>3
  <1>9. CASE ObserveUsage(r)
    <2> DEFINE k == request[r].key
               new == [usage EXCEPT !.writing = k, !.bucket = now, !.observed[k] = now]
    <2>1. SetRequest(r, None0) /\ usage' \in {new, usage} /\ k \in Keys
      BY <1>2, <1>9 DEF ObserveUsage
    <2>2. usage \in [observed : [Keys -> 0..MaxTime], writing : Keys \cup {0}, bucket : 0..MaxTime]
      BY DEF KeyInv, ServingShaped
    <2>3. now \in 0..MaxTime
      BY KeyNumbers DEF KeyInv, ServingShaped
    <2>4. new \in [observed : [Keys -> 0..MaxTime], writing : Keys \cup {0}, bucket : 0..MaxTime]
      <3> HIDE DEF k
      <3> QED
        BY <2>1, <2>2, <2>3
    <2>5. usage' \in [observed : [Keys -> 0..MaxTime], writing : Keys \cup {0}, bucket : 0..MaxTime]
      <3> HIDE DEF new
      <3> QED
        BY <2>1, <2>2, <2>4
    <2> HIDE DEF Kept, None0
    <2> QED
      BY <1>3, <1>4, <2>1, <2>5
  <1> QED
    BY <1>6, <1>7, <1>8, <1>9 DEF Serve

\* The detached write touches an active row at most.
LEMMA UsageKeeps ==
    ASSUME KeyAssumption, KeyInv, RecordUsage \/ DropUsage
    PROVE  RowsStep /\ ServingShaped' /\ UNCHANGED <<idem, caller, answers, walk, request>>
  <1>1. usage \in [observed : [Keys -> 0..MaxTime], writing : Keys \cup {0}, bucket : 0..MaxTime]
    BY DEF KeyInv, ServingShaped
  <1>2. [usage EXCEPT !.writing = 0]
          \in [observed : [Keys -> 0..MaxTime], writing : Keys \cup {0}, bucket : 0..MaxTime]
    BY <1>1
  <1>3. ServingShaped' /\ UNCHANGED <<idem, caller, answers, walk, request>>
    BY <1>2 DEF KeyInv, ServingShaped, RecordUsage, DropUsage
  <1>4. CASE DropUsage
    BY <1>3, <1>4 DEF DropUsage, RowsStep, RowsKept
  <1>5. CASE RecordUsage
    <2> DEFINE k == usage.writing
               value == IF usage.bucket > key[k].created THEN usage.bucket ELSE key[k].created
    <2>1. k \in Keys /\ UNCHANGED shown
      BY <1>1, <1>5 DEF RecordUsage
    <2>2. value \in 0..MaxTime
      BY <1>1, <2>1 DEF KeyInv, RowsShaped, Row
    <2>3. \/ key' = key
          \/ /\ key[k].status = "active" /\ key[k].last_used < value
             /\ key' = [key EXCEPT ![k].last_used = value]
      BY <1>5 DEF RecordUsage, Usable
    <2> HIDE DEF value, k
    <2> QED
      BY <1>3, <2>1, <2>2, <2>3 DEF RowsStep, RowsKept, Touched
  <1> QED
    BY <1>3, <1>4, <1>5

-----------------------------------------------------------------------------
(* The walk *)

\* Positions of rows that exist.
LEMMA Positions ==
    ASSUME KeyAssumption, RowsShaped, NEW k \in Keys
    PROVE  /\ key[k].created \in Nat /\ k \in Nat
           /\ Position(k) = <<key[k].created, k>>
           /\ k \in Existing => Precedes(<<0, 0>>, Position(k))
  <1>1. key[k].created \in Nat /\ k \in Nat
    BY KeyNumbers DEF RowsShaped, Row
  <1>2. k \in Existing => key[k].created >= 1
    BY DEF RowsShaped, Existing
  <1> QED
    BY <1>1, <1>2 DEF Position, Precedes

\* The order of the listing on keys.
LEMMA KeysOrdered ==
    ASSUME KeyAssumption, RowsShaped, NEW i \in Keys, NEW j \in Keys, NEW k \in Keys
    PROVE  /\ ~Precedes(Position(i), Position(i))
           /\ i = j \/ Precedes(Position(i), Position(j)) \/ Precedes(Position(j), Position(i))
           /\ Precedes(Position(i), Position(j)) => ~Precedes(Position(j), Position(i))
           /\ Precedes(Position(i), Position(j)) /\ Precedes(Position(j), Position(k))
                 => Precedes(Position(i), Position(k))
  <1>1. /\ key[i].created \in Nat /\ i \in Nat /\ Position(i) = <<key[i].created, i>>
        /\ key[j].created \in Nat /\ j \in Nat /\ Position(j) = <<key[j].created, j>>
        /\ key[k].created \in Nat /\ k \in Nat /\ Position(k) = <<key[k].created, k>>
    BY Positions
  <1>2. Position(i) = Position(j) => i = j
    BY <1>1
  <1> DEFINE a == key[i].created
             b == key[j].created
             c == key[k].created
  <1>3. a \in Nat /\ b \in Nat /\ c \in Nat
    BY <1>1
  <1> HIDE DEF a, b, c
  <1>4. Position(i) = <<a, i>> /\ Position(j) = <<b, j>> /\ Position(k) = <<c, k>>
    BY <1>1 DEF a, b, c
  <1> QED
    BY <1>1, <1>2, <1>3, <1>4, PrecedesIsOrder

\* The page is a prefix of what is behind the cursor, is empty only if nothing is,
\* and has a last key.
LEMMA KeyPageIsPrefix ==
    ASSUME KeyAssumption, RowsShaped
    PROVE  /\ \A k \in Page : k \in Existing /\ Precedes(walk.after, Position(k))
           /\ \A k \in Existing, j \in Page :
                 Precedes(walk.after, Position(k)) /\ k \notin Page => Precedes(Position(j), Position(k))
           /\ Page = {} => \A k \in Existing : ~Precedes(walk.after, Position(k))
           /\ Page # {} => \E k \in Page : \A j \in Page : j = k \/ Precedes(Position(j), Position(k))
  <1> DEFINE behind == {k \in Existing : Precedes(walk.after, Position(k))}
             before(k) == {j \in behind : Precedes(Position(j), Position(k))}
             count(k) == Cardinality(before(k))
  <1>1. behind \subseteq Keys /\ Page = {k \in behind : count(k) < KeysPerPage}
    BY DEF Existing, Page
  <1>2. IsFiniteSet(behind) /\ KeysPerPage \in Nat /\ KeysPerPage > 0
    BY <1>1, KeyNumbers, FS_Subset
  <1>3. \A k \in behind : IsFiniteSet(before(k)) /\ count(k) \in Nat
    BY <1>2, FS_Subset, FS_CardinalityType
  <1>4. ASSUME NEW i \in behind, NEW j \in behind, Precedes(Position(i), Position(j))
        PROVE  count(i) + 1 <= count(j)
    <2>1. i \notin before(i) /\ before(i) \cup {i} \subseteq before(j)
      BY <1>1, <1>4, KeysOrdered
    <2>2. Cardinality(before(i) \cup {i}) = count(i) + 1
      BY <1>3, <2>1, FS_AddElement
    <2>3. Cardinality(before(i) \cup {i}) <= count(j)
      BY <1>3, <2>1, FS_Subset
    <2> QED
      BY <2>2, <2>3
  <1> HIDE DEF count
  <1>5. ASSUME NEW k \in behind, NEW j \in Page, k \notin Page
        PROVE  Precedes(Position(j), Position(k))
    <2>1. j \in behind /\ count(j) < KeysPerPage /\ ~(count(k) < KeysPerPage)
      BY <1>1, <1>5
    <2>2. j # k
      BY <1>5
    <2>3. ~Precedes(Position(k), Position(j))
      <3> SUFFICES ASSUME Precedes(Position(k), Position(j)) PROVE FALSE
        OBVIOUS
      <3>1. count(k) + 1 <= count(j)
        BY <1>4, <2>1
      <3>2. count(k) \in Nat /\ count(j) \in Nat
        BY <1>3, <2>1
      <3> QED
        BY <1>2, <2>1, <3>1, <3>2
    <2> QED
      BY <1>1, <2>1, <2>2, <2>3, KeysOrdered
  <1>6. ASSUME behind # {} PROVE Page # {}
    <2> DEFINE counts == {count(k) : k \in behind}
    <2>1. counts \in SUBSET Nat /\ counts # {}
      BY <1>3, <1>6
    <2>2. PICK x \in counts : \A y \in counts : x <= y
      BY <2>1, LeastExists
    <2>3. PICK k \in behind : x = count(k)
      BY <2>2
    <2>4. before(k) = {}
      <3> SUFFICES ASSUME NEW j \in before(k) PROVE FALSE
        OBVIOUS
      <3>1. j \in behind /\ count(j) + 1 <= count(k)
        BY <1>4
      <3>2. count(k) <= count(j) /\ count(k) \in Nat /\ count(j) \in Nat
        BY <1>3, <2>2, <2>3, <3>1
      <3> QED
        BY <3>1, <3>2
    <2>5. count(k) = 0
      BY <2>4, FS_EmptySet DEF count
    <2> QED
      BY <1>1, <1>2, <2>5
  <1>7. ASSUME Page # {}
        PROVE  \E k \in Page : \A j \in Page : j = k \/ Precedes(Position(j), Position(k))
    <2> DEFINE rest == {KeysPerPage - count(k) : k \in Page}
    <2>1. \A k \in Page : k \in behind /\ count(k) \in Nat /\ KeysPerPage - count(k) \in Nat
      <3>1. \A k \in Page : k \in behind /\ count(k) \in Nat /\ count(k) < KeysPerPage
        BY <1>1, <1>3
      <3> HIDE DEF behind
      <3> QED
        BY <1>2, <3>1
    <2>2. rest \in SUBSET Nat /\ rest # {}
      BY <1>7, <2>1
    <2>3. PICK x \in rest : \A y \in rest : x <= y
      BY <2>2, LeastExists
    <2>4. PICK k \in Page : x = KeysPerPage - count(k)
      BY <2>3
    <2>5. ASSUME NEW j \in Page PROVE j = k \/ Precedes(Position(j), Position(k))
      <3>1. ~Precedes(Position(k), Position(j))
        <4> SUFFICES ASSUME Precedes(Position(k), Position(j)) PROVE FALSE
          OBVIOUS
        <4>1. count(k) + 1 <= count(j)
          BY <1>4, <2>1
        <4>2. KeysPerPage - count(k) <= KeysPerPage - count(j)
          BY <2>3, <2>4
        <4> QED
          BY <1>2, <2>1, <4>1, <4>2
      <3> QED
        BY <1>1, <2>1, <3>1, KeysOrdered
    <2> QED
      BY <2>5
  <1> QED
    BY <1>1, <1>5, <1>6, <1>7

LEMMA BeginWalkKeeps ==
    ASSUME KeyAssumption, RowsShaped, BeginWalk
    PROVE  WalkInOrder'
  <1>1. \A k \in Existing : k \in Keys /\ Precedes(<<0, 0>>, Position(k))
    BY Positions DEF Existing
  <1>2. Existing' = Existing /\ \A k \in Keys : Position(k)' = Position(k)
    BY DEF BeginWalk, Existing, Position
  <1>3. walk' = [pc |-> "walking", after |-> <<0, 0>>, there |-> Existing, seen |-> {}, twice |-> FALSE]
    BY DEF BeginWalk
  <1>4. walk' \in [pc : {"idle", "walking", "done"}, after : Nat \X Nat, there : SUBSET Keys,
                   seen : SUBSET Keys, twice : BOOLEAN]
    BY <1>1, <1>3
  <1>5. /\ walk'.pc = "walking" /\ walk'.after = <<0, 0>> /\ walk'.there = Existing /\ walk'.seen = {}
        /\ walk'.twice = FALSE
    BY <1>3
  <1> QED
    BY <1>1, <1>2, <1>4, <1>5 DEF WalkInOrder

LEMMA ListKeysKeeps ==
    ASSUME KeyAssumption, RowsShaped, WalkInOrder, ListKeys
    PROVE  WalkInOrder'
  <1> DEFINE Walk == [pc : {"idle", "walking", "done"}, after : Nat \X Nat, there : SUBSET Keys,
                      seen : SUBSET Keys, twice : BOOLEAN]
  <1>1. walk \in Walk /\ walk.pc = "walking"
    BY DEF WalkInOrder, ListKeys
  <1>2. Existing' = Existing /\ \A k \in Keys : Position(k)' = Position(k)
    BY DEF ListKeys, Existing, Position
  <1>3. /\ \A k \in walk.there : k \in Existing
        /\ \A k \in walk.seen : k \in Existing /\ ~Precedes(walk.after, Position(k))
        /\ \A k \in walk.there : k \in walk.seen \/ Precedes(walk.after, Position(k))
    BY <1>1 DEF WalkInOrder
  <1>4. ~walk.twice
    BY <1>1 DEF WalkInOrder
  <1>5. Existing \subseteq Keys
    BY DEF Existing
  <1>6. CASE Page = {}
    <2>1. walk' = [walk EXCEPT !.pc = "done"]
      BY <1>6 DEF ListKeys
    <2>2. /\ walk' \in Walk /\ walk'.pc = "done" /\ walk'.there = walk.there /\ walk'.seen = walk.seen
          /\ walk'.twice = walk.twice
      BY <1>1, <2>1
    <2>3. walk.there \subseteq walk.seen
      BY <1>3, <1>6, KeyPageIsPrefix
    <2> QED
      BY <1>4, <2>2, <2>3 DEF WalkInOrder
  <1>7. CASE Page # {}
    <2> DEFINE last == CHOOSE k \in Page : \A j \in Page : j = k \/ Precedes(Position(j), Position(k))
               again == walk.twice \/ walk.seen \cap Page # {}
    <2>1. last \in Page /\ \A j \in Page : j = last \/ Precedes(Position(j), Position(last))
      <3>1. \E k \in Page : \A j \in Page : j = k \/ Precedes(Position(j), Position(k))
        BY <1>7, KeyPageIsPrefix
      <3> QED
        BY <3>1
    <2>2. walk' = [walk EXCEPT !.after = Position(last), !.seen = walk.seen \cup Page, !.twice = again]
      BY <1>7 DEF ListKeys
    <2>3. /\ \A k \in Page : k \in Existing /\ Precedes(walk.after, Position(k))
          /\ \A k \in Existing, j \in Page :
                Precedes(walk.after, Position(k)) /\ k \notin Page => Precedes(Position(j), Position(k))
      BY KeyPageIsPrefix
    <2>4. again = FALSE
      <3>1. walk.seen \cap Page = {}
        BY <1>3, <2>3
      <3> QED
        BY <1>4, <3>1
    <2> HIDE DEF last, again
    <2>5. Position(last) \in Nat \X Nat /\ last \in Existing /\ last \in Keys
      <3>1. last \in Keys /\ last \in Existing
        BY <1>5, <2>1, <2>3
      <3>2. key[last].created \in Nat /\ last \in Nat /\ Position(last) = <<key[last].created, last>>
        BY <3>1, Positions
      <3> QED
        BY <3>1, <3>2
    <2>6. walk.seen \cup Page \in SUBSET Keys
      BY <1>3, <1>5, <2>3
    <2>7. /\ walk' \in Walk /\ walk'.pc = "walking" /\ walk'.there = walk.there
          /\ walk'.seen = walk.seen \cup Page /\ walk'.after = Position(last) /\ walk'.twice = FALSE
      <3> DEFINE p == Position(last)
                 s == walk.seen \cup Page
      <3>1. p \in Nat \X Nat /\ s \in SUBSET Keys
        BY <2>5, <2>6
      <3> HIDE DEF p, s
      <3>2. walk' = [walk EXCEPT !.after = p, !.seen = s, !.twice = FALSE]
        BY <2>2, <2>4 DEF p, s
      <3>3. /\ walk' \in Walk /\ walk'.pc = "walking" /\ walk'.there = walk.there
            /\ walk'.seen = s /\ walk'.after = p /\ walk'.twice = FALSE
        BY <1>1, <3>1, <3>2
      <3> QED
        BY <3>3 DEF p, s
    <2>8. ASSUME NEW k \in walk.seen \cup Page
          PROVE  k \in Existing /\ ~Precedes(Position(last), Position(k))
      <3>1. k \in Existing /\ k \in Keys
        BY <1>3, <1>5, <2>3
      <3>2. CASE k \in Page
        BY <2>1, <2>5, <3>1, <3>2, KeysOrdered
      <3>3. CASE k \in walk.seen
        <4>1. ~Precedes(walk.after, Position(k)) /\ Precedes(walk.after, Position(last))
          BY <1>3, <2>1, <2>3, <3>3
        <4>2. PICK a \in Nat, b \in Nat : walk.after = <<a, b>>
          BY <1>1
        <4>3. /\ key[k].created \in Nat /\ k \in Nat /\ Position(k) = <<key[k].created, k>>
              /\ key[last].created \in Nat /\ last \in Nat /\ Position(last) = <<key[last].created, last>>
          BY <2>5, <3>1, Positions
        <4> DEFINE x == key[k].created
                   y == key[last].created
        <4>4. x \in Nat /\ y \in Nat
          BY <4>3
        <4> HIDE DEF x, y
        <4>5. Position(k) = <<x, k>> /\ Position(last) = <<y, last>>
          BY <4>3 DEF x, y
        <4> QED
          BY <3>1, <4>1, <4>2, <4>3, <4>4, <4>5, PrecedesIsOrder
      <3> QED
        BY <3>2, <3>3
    <2>9. ASSUME NEW k \in walk.there, k \notin walk.seen \cup Page
          PROVE  Precedes(Position(last), Position(k))
      BY <1>3, <2>1, <2>3, <2>9
    <2>10. /\ \A k \in walk'.there : k \in Existing'
           /\ \A k \in walk'.seen : k \in Existing' /\ ~Precedes(walk'.after, Position(k)')
           /\ \A k \in walk'.there : k \in walk'.seen \/ Precedes(walk'.after, Position(k)')
      BY <1>2, <1>3, <1>5, <2>7, <2>8, <2>9
    <2> QED
      BY <2>7, <2>10 DEF WalkInOrder
  <1> QED
    BY <1>6, <1>7

-----------------------------------------------------------------------------
(* Every step keeps the invariant *)

LEMMA KeyStep ==
    ASSUME KeyAssumption, KeyInv, [WalkNext]_keyVars
    PROVE  KeyInv' /\ [AuthenticatedWhileActive /\ RevokedIsFinal]_keyVars
  <1> DEFINE Goal == KeyInv' /\ AuthenticatedWhileActive /\ RevokedIsFinal
  <1>1. RowsShaped /\ RowsCounted /\ CallersShaped /\ AnswersRecorded /\ ServingShaped /\ WalkInOrder
    BY DEF KeyInv
  <1>2. UNCHANGED request => AuthenticatedWhileActive
    BY DEF AuthenticatedWhileActive
  <1>3. ASSUME RowsStep PROVE RowsShaped' /\ RowsCounted' /\ RevokedIsFinal /\ (walk' = walk => WalkInOrder')
    <2>1. RowsShaped' /\ \A k \in Keys : RowMoves(key[k], key'[k])
      BY <1>1, <1>3, RowsMove
    <2>2. RowsCounted'
      BY <1>1, <1>3, RowsStayCounted
    <2>3. RevokedIsFinal
      BY <2>1 DEF RevokedIsFinal, RowMoves
    <2>4. walk' = walk => WalkInOrder'
      BY <1>1, <2>1, WalkStaysInOrder
    <2> QED
      BY <2>1, <2>2, <2>3, <2>4
  <1>4. UNCHANGED <<key, shown>> => RowsStep
    BY DEF RowsStep, RowsKept
  <1>5. UNCHANGED caller => CallersShaped'
    BY <1>1 DEF CallersShaped
  <1>6. UNCHANGED <<idem, answers>> => AnswersRecorded'
    BY <1>1, AnswersStay
  <1>7. UNCHANGED <<project, request, usage, now>> => ServingShaped'
    BY <1>1 DEF ServingShaped
  <1>8. ASSUME NEW c \in Callers, Control(c) PROVE Goal
    <2>1. ControlEffect
      BY <1>8, ControlKeeps
    <2> QED
      BY <1>2, <1>3, <1>7, <2>1 DEF ControlEffect, KeyInv
  <1>9. ASSUME NEW r \in Requests, Serve(r) PROVE Goal
    BY <1>3, <1>4, <1>5, <1>6, <1>9, ServeKeeps DEF KeyInv
  <1>10. ASSUME RecordUsage \/ DropUsage PROVE Goal
    BY <1>2, <1>3, <1>5, <1>6, <1>10, UsageKeeps DEF KeyInv
  <1>11. ASSUME DisableProject \/ NextBucket PROVE Goal
    <2>1. ServingShaped'
      BY <1>1, <1>11, KeyNumbers DEF DisableProject, NextBucket, ServingShaped
    <2> QED
      BY <1>2, <1>3, <1>4, <1>5, <1>6, <1>11, <2>1 DEF KeyInv, DisableProject, NextBucket
  <1>12. ASSUME BeginWalk PROVE Goal
    BY <1>1, <1>2, <1>3, <1>4, <1>5, <1>6, <1>7, <1>12, BeginWalkKeeps DEF KeyInv, BeginWalk
  <1>13. ASSUME ListKeys PROVE Goal
    BY <1>1, <1>2, <1>3, <1>4, <1>5, <1>6, <1>7, <1>13, ListKeysKeeps DEF KeyInv, ListKeys
  <1>14. CASE UNCHANGED keyVars
    BY <1>2, <1>3, <1>4, <1>5, <1>6, <1>7, <1>14 DEF KeyInv, keyVars
  <1>15. ASSUME WalkNext PROVE Goal
    <2> HIDE DEF Goal
    <2>1. CASE \E c \in Callers : Control(c)
      BY <1>8, <2>1
    <2>2. CASE \E r \in Requests : Serve(r)
      BY <1>9, <2>2
    <2> QED
      BY <1>10, <1>11, <1>12, <1>13, <1>15, <2>1, <2>2 DEF WalkNext, KeyNext
  <1> QED
    BY <1>14, <1>15

THEOREM KeyInvariant == ASSUME KeyAssumption PROVE KeySpec => []KeyInv
  <1>1. KeyInit => KeyInv
    BY KeyInitEstablishes
  <1>2. KeyInv /\ [WalkNext]_keyVars => KeyInv'
    BY KeyStep
  <1> QED
    BY <1>1, <1>2, PTL DEF KeySpec

-----------------------------------------------------------------------------
(* What is claimed of the keys *)

\* However creations, repetitions, acknowledgements, revocations, uses and a paging
\* operator interleave: at most MaxActive keys are active and at most one of them is
\* unacknowledged, a credential is shown at most once, one idempotency key has one
\* answer, and a walk that ends has seen each key it found exactly once
\* (create, acknowledge, revoke, list of server_key.rs).
THEOREM KeysAreSafe == ASSUME KeyAssumption PROVE KeySpec => []ServerKeySafe
  <1>1. KeyInv => ServerKeySafe
    <2> SUFFICES ASSUME KeyInv PROVE ServerKeySafe
      OBVIOUS
    <2>1. KeyTypeOK
      <3>1. \A c \in Callers : caller[c].tries \in 0..Attempts
        BY DEF KeyInv, CallersShaped, Caller
      <3>2. usage.writing \in Keys \cup {0}
        BY DEF KeyInv, ServingShaped
      <3> QED
        BY <3>1, <3>2 DEF KeyInv, RowsShaped, Row, RowsCounted, ServingShaped, KeyTypeOK
    <2>2. OneUnacknowledged
      BY DEF KeyInv, RowsCounted, OneUnacknowledged
    <2>3. RevealedOnce
      BY DEF KeyInv, RowsShaped, RevealedOnce
    <2>4. OneAnswer
      BY DEF KeyInv, AnswersRecorded, OneAnswer
    <2>5. WalkComplete
      BY DEF KeyInv, WalkInOrder, WalkComplete
    <2> QED
      BY <2>1, <2>2, <2>3, <2>4, <2>5 DEF ServerKeySafe
  <1> QED
    BY <1>1, KeyInvariant, PTL

\* A request is authenticated only while its key and its Project are active, as the
\* last read of authenticate finds them; a revoked row never changes again, and a usage
\* write moves no revision and no time of last use backwards (revoke, record_usage).
THEOREM RevocationsHold == ASSUME KeyAssumption PROVE KeySpec => RevocationHolds
  <1>1. KeyInv /\ [WalkNext]_keyVars => [AuthenticatedWhileActive /\ RevokedIsFinal]_keyVars
    BY KeyStep
  <1> QED
    BY <1>1, KeyInvariant, PTL DEF KeySpec, RevocationHolds
=============================================================================
