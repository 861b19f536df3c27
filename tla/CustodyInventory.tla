-------------------------- MODULE CustodyInventory --------------------------
(***************************************************************************)
(* The inventory of protected materials and the readiness scan that every  *)
(* Auth process runs over it before it binds a listener                    *)
(* (composition.rs, adapters/postgres/custody.rs, protected_runtime.rs).   *)
(*                                                                         *)
(* Control processes keep reserving, finalizing and erasing materials      *)
(* while the scan runs.  The scan reads page after page, each in its own   *)
(* snapshot, and new materials have random identifiers that may sort       *)
(* behind the cursor.  What makes its verdict mean something is the        *)
(* inventory revision read before and after it.                            *)
(***************************************************************************)
EXTENDS Integers, FiniteSets, FiniteSetsExt

CONSTANTS
    Materials,      \* identifiers, ordered as the database orders them
    Kind,           \* [Materials -> {"signing_key", "configuration_secret"}]
    Format,         \* [Materials -> provider and format that sealed it]
    Signers,        \* formats the registered Runtime signers support
    Openers,        \* formats the registered secret openers support
    Seals,          \* what a finalized row may hold: "own", "foreign", "misfiled"
    StartLive,      \* materials that are live when the process starts
    PageSize,       \* rows read at a time (128 in the code)
    Rounds,         \* scans before startup gives up (3 in the code)
    MaxChanges,     \* bound: statements of the Control processes
    MaxOutages      \* bound: provider calls that fail for no lasting reason

InventoryAssumption ==
    /\ Materials \subseteq Nat \ {0}
    /\ IsFiniteSet(Materials)
    /\ StartLive \subseteq Materials
    /\ {PageSize, Rounds} \subseteq Nat \ {0}
    /\ {MaxChanges, MaxOutages} \subseteq Nat

VARIABLES
    row,        \* [Materials -> [state, seal]]: the table protected_materials
    revision,   \* protected_material_inventory_authority.revision
    scan,       \* where the starting process stands
    outages     \* transient provider failures so far

inventoryVars == <<row, revision, scan, outages>>

Absent == [state |-> "absent", seal |-> "none"]

Live == {m \in Materials : row[m].state = "live"}

\* Some registered capability handles the kind and format of the material.
Supported(m) ==
    Format[m] \in IF Kind[m] = "signing_key" THEN Signers ELSE Openers

\* The stored row belongs to this deployment and to its own columns: the
\* digest of the recomputed context is the stored one, and a signing key has
\* exactly the one owner it names.
Intact(m) == row[m].seal # "misfiled"

\* The opener decrypts the envelope, or the signer's signature verifies under
\* the published key.
Authentic(m) == Intact(m) /\ Supported(m) /\ row[m].seal = "own"

-----------------------------------------------------------------------------
(***************************************************************************)
(* Control processes.  Every statement on the table moves the revision in  *)
(* the same transaction.                                                   *)
(***************************************************************************)

Statement(m, r) ==
    /\ revision <= MaxChanges
    /\ row' = [row EXCEPT ![m] = r]
    /\ revision' = revision + 1
    /\ UNCHANGED <<scan, outages>>

\* A reservation writes a pending row without an envelope.
Reserve(m) ==
    /\ row[m].state = "absent"
    /\ Statement(m, [state |-> "pending", seal |-> "none"])

\* The envelope is stored.  A control process of another deployment key, or a
\* row restored from another deployment, leaves one this process cannot use.
Finalize(m) ==
    /\ row[m].state = "pending"
    /\ \E s \in Seals : Statement(m, [state |-> "live", seal |-> s])

Erase(m) ==
    /\ row[m].state \in {"pending", "live"}
    /\ Statement(m, [state |-> "erased", seal |-> "none"])

-----------------------------------------------------------------------------
(***************************************************************************)
(* The starting process.                                                   *)
(***************************************************************************)

Server(pc) == scan.pc = pc /\ UNCHANGED <<row, revision>>

ReadRevision ==
    /\ Server("revision")
    /\ scan' = [scan EXCEPT !.pc = "capabilities", !.seen = revision,
                            !.after = 0, !.page = {}, !.failed = FALSE]
    /\ UNCHANGED outages

\* The distinct kinds and formats of the live materials are all supported.
RequiredCapabilities ==
    /\ Server("capabilities")
    /\ scan' = IF \A m \in Live : Supported(m)
                 THEN [scan EXCEPT !.pc = "page"]
                 ELSE [scan EXCEPT !.pc = "compare", !.failed = TRUE]
    /\ UNCHANGED outages

\* The next page: the first live rows behind the cursor, in order.
PageAfter(after) ==
    LET behind == {m \in Live : m > after}
    IN {m \in behind : Cardinality({n \in behind : n < m}) < PageSize}

ReadPage ==
    /\ Server("page")
    /\ LET page == PageAfter(scan.after)
       IN scan' = IF \E m \in page : ~Intact(m)
                    THEN [scan EXCEPT !.pc = "compare", !.failed = TRUE]
                    ELSE [scan EXCEPT !.page = {<<m, row[m].seal>> : m \in page},
                                      !.pc = IF page = {} THEN "compare"
                                                          ELSE "candidate"]
    /\ UNCHANGED outages

AuthenticateCandidate ==
    /\ Server("candidate")
    /\ LET m == Min({c[1] : c \in scan.page})
           rest == {c \in scan.page : c[1] # m}
           opens == <<m, "own">> \in scan.page /\ Supported(m)
       IN \/ /\ scan' = IF opens
                          THEN [scan EXCEPT !.after = m, !.page = rest,
                                            !.pc = IF rest = {} THEN "page"
                                                                ELSE "candidate"]
                          ELSE [scan EXCEPT !.pc = "compare", !.failed = TRUE]
             /\ UNCHANGED outages
          \/ /\ outages < MaxOutages
             /\ outages' = outages + 1
             /\ scan' = [scan EXCEPT !.pc = "compare", !.failed = TRUE]

CompareRevisionMutant2 ==
    /\ Server("compare")
    /\ scan' = IF scan.failed /\ revision # scan.seen
                 THEN [scan EXCEPT !.pc = IF scan.round = Rounds THEN "gave_up"
                                                                 ELSE "revision",
                                   !.round = @ + 1]
                 ELSE [scan EXCEPT !.pc = IF scan.failed THEN "refused" ELSE "ready"]
    /\ UNCHANGED outages

CompareRevision ==
    /\ Server("compare")
    /\ scan' = IF revision # scan.seen
                 THEN [scan EXCEPT !.pc = IF scan.round = Rounds THEN "gave_up"
                                                                 ELSE "revision",
                                   !.round = @ + 1]
                 ELSE [scan EXCEPT !.pc = IF scan.failed THEN "refused" ELSE "ready"]
    /\ UNCHANGED outages

-----------------------------------------------------------------------------
InventoryInit ==
    /\ \E seal \in [StartLive -> Seals] :
          row = [m \in Materials |->
                   IF m \in StartLive THEN [state |-> "live", seal |-> seal[m]]
                                      ELSE Absent]
    /\ revision = 1
    /\ scan = [pc |-> "revision", round |-> 1, seen |-> 0, after |-> 0,
               page |-> {}, failed |-> FALSE]
    /\ outages = 0

ServerStep ==
    \/ ReadRevision
    \/ RequiredCapabilities
    \/ ReadPage
    \/ AuthenticateCandidate
    \/ CompareRevision

InventoryNext ==
    \/ ServerStep
    \/ \E m \in Materials : Reserve(m) \/ Finalize(m) \/ Erase(m)

InventorySpec == InventoryInit /\ [][InventoryNext]_inventoryVars

-----------------------------------------------------------------------------
Decided == {"ready", "refused", "gave_up"}

InventoryTypeOK ==
    /\ row \in [Materials -> [state : {"absent", "pending", "live", "erased"},
                              seal : Seals \cup {"none"}]]
    /\ revision \in 1..(MaxChanges + 1)
    /\ scan.pc \in {"revision", "capabilities", "page", "candidate", "compare"}
                     \cup Decided
    /\ scan.round \in 1..(Rounds + 1)
    /\ scan.seen \in 0..revision
    /\ scan.after \in Materials \cup {0}
    /\ outages \in 0..MaxOutages

(***************************************************************************)
(* validate_provider_readiness: a process that declares itself ready can   *)
(* use every material that is live at that moment, although no single read *)
(* of the scan saw them all.                                               *)
(***************************************************************************)
ReadyMeansUsable ==
    scan.pc # "ready" /\ scan'.pc = "ready" => \A m \in Live : Authentic(m)

(***************************************************************************)
(* A process refuses to start for an unusable material only if one is live *)
(* when it refuses, or the provider failed on the way; one that was erased *)
(* during the scan never stops a startup.                                  *)
(***************************************************************************)
RefusalHasCause ==
    scan.pc # "refused" /\ scan'.pc = "refused" =>
        outages > 0 \/ \E m \in Live : ~Authentic(m)

(***************************************************************************)
(* validate_provider_readiness: either verdict of a scan is true when it   *)
(* is given, although rows were written between any two of its reads.      *)
(***************************************************************************)
VerdictIsTrue == [][InventoryTypeOK /\ ReadyMeansUsable /\ RefusalHasCause]_inventoryVars

(***************************************************************************)
(* The scan ends with a verdict, although materials keep being added       *)
(* behind and before its cursor.                                           *)
(***************************************************************************)
ScanOpen == scan.pc \notin Decided
=============================================================================
