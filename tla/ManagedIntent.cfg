\* A revocation is requested between the claim of a renewal and its recovery.
SPECIFICATION Spec
CONSTANTS
    c1 = c1
    c2 = c2
    w1 = w1
    w2 = w2
    i1 = i1
    i2 = i2
    i3 = i3
    u1 = u1
    u2 = u2
    u3 = u3
    a1 = a1
    a2 = a2
    k1 = k1
    k2 = k2
    Off = Off
    Kinds = {"link", "unlink"}
    Methods = {"provider", "email"}
    IntentLife = 3
    ReceiptLife = 2
    CodeLife = 2
    ResendAfter = 1
    MaxGenerations = 2
    MaxAttempts = 2
    MaxIntentRevision = 10
    Volatile = {"email"}
    MaxOwnerRevision = 2
    MaxTime = 3
    MaxClockLag = 0
    Users = {u1, u2, u3}
    Idents = {i1, i2, i3}
    Apps = {a1, a2}
    Intents = {k1, k2}
    Tokens = {w1, w2}
    None = None
    Registered <- Accounts
    Operations = {"link", "unlink"}
    MaxBindings = 1
    MaxGraphRevision = 4
SYMMETRY Symmetry
CHECK_DEADLOCK FALSE
INVARIANTS
    IntentOwnsActive
