\* The inventory has four materials read two at a time, two of them live from the
\* start; one signer is missing, and Control processes make five changes. Three server keys, two
\* operators with three idempotency keys and two requests of the Server API.
SPECIFICATION Spec
CONSTANTS
    k1 = k1
    k2 = k2
    w1 = w1
    w2 = w2
    c1 = c1
    c2 = c2
    s1 = s1
    s2 = s2
    p1 = p1
    p2 = p2
    a1 = a1
    a2 = a2
    a3 = a3
    r1 = r1
    r2 = r2
    Off = Off
    Materials = {1, 2, 3, 4}
    Kind <- MaterialKind
    Format <- MaterialFormat
    Signers = {"v1"}
    Openers = {"v1", "v2"}
    Seals = {"own", "foreign", "misfiled"}
    StartLive = {1, 3}
    PageSize = 2
    Rounds = 3
    MaxChanges = 5
    MaxOutages = 1
    Keys = {1, 2, 3}
    Callers = {c1, c2}
    IdemKeys = {a1, a2, a3}
    Requests = {r1, r2}
    MaxActive = 2
    Attempts = 2
    Versions = {1, 2}
    Ring = {1}
    MaxLosses = 1
    MaxCollisions = 2
    MaxTime = 2
    KeysPerPage = 1
SYMMETRY Symmetry
CHECK_DEADLOCK FALSE
INVARIANTS
    SigningSafe
    SecretSafe
    ServerKeySafe
PROPERTIES
    LedgerFirst
    RevocationHolds
    VerdictIsTrue
