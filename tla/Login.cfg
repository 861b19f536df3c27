\* One login that two competing provider callbacks may complete, or one of two
\* generations of an emailed code with two attempts each, while operators withdraw and
\* restore the Project, the provider and the email method.
SPECIFICATION LoginSpec
CONSTANTS
    Login = {l1}
    Callback = {c1, c2}
    Volatile = {"project", "provider", "email"}
    MaxOwnerRevision = 3
    MaxTime = 5
    MaxClockLag = 1
    LoginLifetime = 3
    HandoffLifetime = 2
    AbandonAfter = 1
    ChallengeLifetime = 2
    ResendAfter = 1
    MaxGenerations = 2
    OtpMaxAttempts = 2
    LastStart = 0
CHECK_DEADLOCK FALSE
INVARIANTS
    ClaimFence
    TicketAgreesWithLogin
    GuessesBounded
PROPERTIES
    WithdrawalIsFinal
    ExchangedInTime
    KeepsPromise
