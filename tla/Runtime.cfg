\* Two logins of one browser, one of them perhaps by a provider and the second
\* perhaps by reuse of the first; two requests that exchange and refresh, and a
\* logout interaction, while operators change the Application.
SPECIFICATION RuntimeSpec
CONSTANTS
    Login = {l1, l2}
    Callback = {c1}
    Browser = {b1}
    Request = {r1, r2}
    Logout = {i1}
    Volatile = {"application"}
    MaxOwnerRevision = 2
    MaxTime = 1
    MaxClockLag = 0
    LoginLifetime = 1
    HandoffLifetime = 1
    AbandonAfter = 0
    ChallengeLifetime = 1
    ResendAfter = 0
    MaxGenerations = 1
    OtpMaxAttempts = 1
    LastStart = 0
    IdleLifetime = 1
    BrowserLifetime = 2
    SessionLifetime = 2
    ReuseMaxAge = 1
    LogoutLifetime = 1
    MaxGeneration = 2
SYMMETRY Symmetry
CHECK_DEADLOCK FALSE
INVARIANTS
    LogoutEndsWhatItSaw
    SessionsInheritLogins
