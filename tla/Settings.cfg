\* Two processes that start with differing configurations while generations of the
\* deployment are terminated and a login is pinned to one; requests of browsers to two
\* Applications while an operator replaces their origins; a user of three Applications
\* that may be bound to two, read and changed by processes with differing rings.
SPECIFICATION Spec
CONSTANTS
    w1 = w1
    w2 = w2
    r1 = r1
    r2 = r2
    s1 = s1
    s2 = s2
    p1 = p1
    p2 = p2
    a1 = a1
    a2 = a2
    a3 = a3
    c1 = c1
    c2 = c2
    u1 = u1
    u2 = u2
    Off = Off
    Generations = {1, 2}
    Servers = {p1, p2}
    Registrations = {"r1"}
    MailLogins = {"l1"}
    Secrets = {s1, s2}
    Retention = 1
    LoginLife = 2
    MaxCommands = 2
    MaxStarts = 3
    Applications = {c1, c2}
    Redirects = {"d1"}
    Origins = {"o1"}
    Operators = {"op"}
    Requests = {"q1"}
    Logins = {"l1"}
    MaxRevision = 3
    None = None
    Apps = {a1, a2, a3}
    Processes = {p1, p2}
    Handoffs = {"h1"}
    Names = {u1, u2}
    Emails = {"e1"}
    Versions = {1, 2}
    MaxBindings = 2
    MaxChanges = 4
SYMMETRY Symmetry
CHECK_DEADLOCK FALSE
INVARIANTS
    SmtpSafe
    DeploymentSafe
    ConfigurationSafe
    ProjectionSafe
PROPERTIES
    DecisionsHold
