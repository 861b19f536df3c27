--------------------------- MODULE HandoffTicket ---------------------------
(***************************************************************************)
(* The handoff ticket, the one row that a login and the sessions share:    *)
(* a login issues it, the exchange that creates a session consumes it.     *)
(* There is at most one ticket for a login, and it carries the login's     *)
(* name here.                                                              *)
(***************************************************************************)
EXTENDS ControlPlane

CONSTANTS
    Login,
    HandoffLifetime   \* the sixty seconds of a handoff ticket

ASSUME TicketAssumption == HandoffLifetime \in Nat \ {0}

VARIABLE ticket

Lesser(a, b) == IF a <= b THEN a ELSE b

\* The owners whose revisions a ticket stores.
TicketOwners == {"project", "application", "policy", "user", "provider"}

\* A revision of 0 is a column that is NULL: the provider of a ticket that no
\* provider authenticated.
TicketSnapshot == [TicketOwners -> Nat]

TicketRow == [status : {"none", "issued", "consumed", "expired"},
              expires : Nat, snap : TicketSnapshot]

TicketTypeOK == ticket \in [Login -> TicketRow]

TicketInit ==
    ticket = [l \in Login |-> [status |-> "none", expires |-> 0,
                               snap |-> [o \in TicketOwners |-> 0]]]

\* The owners an exchange compares with the ticket.  It does not look at the
\* Project's metadata revision again.  (A definition whose name ends in Mutant is
\* the next one with a fault put in; no specification uses it.)
HandoffOwnersMutant(l) == {o \in {"provider"} : ticket[l].snap[o] # 0}
HandoffOwners(l) == {o \in TicketOwners : ticket[l].snap[o] # 0}

IssueTicket(l, expires, snap) ==
    ticket' = [ticket EXCEPT ![l] = [status |-> "issued", expires |-> expires, snap |-> snap]]

\* The provider's profile of the user may differ from the one stored.
ObservedProfile ==
    \/ UNCHANGED owner
    \/ FanOutProjectedUser

ExpireTicket(l, t) ==
    /\ ticket[l].status = "issued" /\ ticket[l].expires <= t
    /\ ticket' = [ticket EXCEPT ![l].status = "expired"]

SpendTicket(l, t) ==
    /\ ticket[l].status = "issued" /\ ticket[l].expires > t
    /\ Current(HandoffOwners(l), ticket[l].snap)
    /\ ticket' = [ticket EXCEPT ![l].status = "consumed"]
=============================================================================
