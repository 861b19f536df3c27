\* A callback that lost the claim, or was denied, arrives after the expiry of
\* a login whose exchange another callback still has in progress.
SPECIFICATION LoginSpec
CONSTANTS
    Login = {l1}
    Callback = {c1, c2}
    Volatile = {"project"}
    MaxOwnerRevision = 2
    MaxTime = 6
    MaxClockLag = 1
    LoginLifetime = 3
    HandoffLifetime = 2
    AbandonAfter = 1
    ChallengeLifetime = 1
    ResendAfter = 0
    MaxGenerations = 1
    OtpMaxAttempts = 1
    LastStart = 0
CHECK_DEADLOCK FALSE
PROPERTIES
    LoserLeavesClaimAlone
