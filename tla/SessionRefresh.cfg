\* One session: its exchange and two refresh requests that may present any
\* token, and a logout interaction, while the user's profile, the signing key and
\* the clock move.
SPECIFICATION SessionSpec
CONSTANTS
    Login = {k1}
    Browser = {b1}
    Request = {r1, r2, r3}
    Logout = {i1}
    Volatile = {"signing", "user", "profile"}
    MaxOwnerRevision = 2
    MaxTime = 2
    MaxClockLag = 1
    HandoffLifetime = 1
    IdleLifetime = 1
    BrowserLifetime = 2
    SessionLifetime = 2
    ReuseMaxAge = 1
    LogoutLifetime = 1
    MaxGeneration = 3
SYMMETRY Symmetry
CHECK_DEADLOCK FALSE
INVARIANTS
    TokensMatchFamily
PROPERTIES
    OverIsOver
    OvertakenWorkIsLost
    TokensInTime
    KeepsChain
