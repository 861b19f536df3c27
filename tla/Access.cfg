\* Two sign-ins, a proof and a reauthorization in two browsers; the link of one sign-in
\* may travel. The link of an identity mutation is opened by its browser and another.
SPECIFICATION Spec
CONSTANTS
    c1 = c1
    c2 = c2
    origin = origin
    stranger = stranger
    b1 = b1
    b2 = b2
    u1 = u1
    r1 = r1
    r2 = r2
    j1 = j1
    j2 = j2
    Off = Off
    Browsers = {b1, b2}
    Users = {u1}
    Nobody = None
    Logins = {"l1", "l2"}
    Proofs = {"p1"}
    Reauthorizations = {"r1"}
    SameBrowserOnly = {"l2"}
    MaxAnswers = 2
    Owner = "identity_mutation"
    Contexts = {c1, c2}
    Holders = {origin, stranger}
    Origin = origin
    None = None
    MaxGeneration = 2
    MaxContexts = 1
    Validity = 2
    ContextTtl = 2
    OwnerDeadline = 3
    MaxClockLag = 1
    MaxTime = 4
SYMMETRY Symmetry
CHECK_DEADLOCK FALSE
INVARIANTS
    HostedSafe
    MagicSafe
    RetentionSafe
PROPERTIES
    NothingLiveGoes
