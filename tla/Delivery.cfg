SPECIFICATION Spec
CONSTANTS
    w1 = w1
    w2 = w2
    c1 = c1
    c2 = c2
    e1 = e1
    v1 = v1
    v2 = v2
    Volatile = {"email", "application", "project"}
    MaxOwnerRevision = 2
    MaxTime = 4
    MaxClockLag = 1
    Login = {"l1", "l2"}
    Worker = {w1, w2}
    Smtp = {c1, c2}
    ProjectSmtp = {c1}
    SmtpVolatile = {c1, c2}
    RecipientOf <- Recipient
    MaxGenerations = 2
    MaxAttempts = 2
    ClaimLease = 2
    CompletionReserve = 1
    RetryDelay = 1
    ResendAfter = 3
    BacklogLimit = 1
    LoginLifetime = 4
    ChallengeLifetime = 3
    SmtpRetention = 1
    LastStart = 0
    Endpoint = {e1}
    Event = {v1, v2}
    Sender = {w1, w2}
    Registered = {e1}
    UrlOf <- Url
    Generations = 3
    Replays = 0
    MaxEndpoints = 1
    MaxDeliveryAttempts = 2
    MaxSealing = 1
    MaxEndpointRevision = 5
    Lease = 1
    DeliveryRetryDelay = 1
    OverlapWindow = 1
    ReplayWindow = 2
    Retention = 4
    LastEvent = 0
SYMMETRY Symmetry
CHECK_DEADLOCK FALSE
INVARIANTS
    MailSafe
    WebhookSafe
PROPERTIES
    KeepsLeases
    KeepsDeliveries
