----------------------------- MODULE LeasedWork -----------------------------
(***************************************************************************)
(* What the outbox promises about work that is handed to workers under a   *)
(* lease, without clocks, retries, authority or reasons.                   *)
(*                                                                         *)
(* Each time an item is handed out its term grows, also when it is taken   *)
(* from a worker that did not come back.  Only the worker that was given   *)
(* the latest term can say what became of the item; a worker that comes    *)
(* back late changes nothing.  What is done is never handed out again.     *)
(***************************************************************************)
EXTENDS Naturals

CONSTANTS Item, Worker

VARIABLES
    item,   \* item[i]: [state, term]
    claim   \* claim[w]: the item and the term that w believes it holds

leasedVars == <<item, claim>>

NoClaim == <<>>

LeasedInit ==
    /\ item = [i \in Item |-> [state |-> "absent", term |-> 0]]
    /\ claim = [w \in Worker |-> NoClaim]

\* Items are added, and those not done are taken back or given up by others than
\* workers.
Administer ==
    /\ \A i \in Item :
          \/ item'[i] = item[i]
          \/ item[i].state = "absent" /\ item'[i] = [state |-> "open", term |-> 0]
          \/ item[i].state = "held" /\ item'[i] = [item[i] EXCEPT !.state = "open"]
          \/ item[i].state \in {"open", "held"} /\ item'[i] = [item[i] EXCEPT !.state = "done"]
    /\ DOMAIN item' = Item
    /\ UNCHANGED claim

\* The worker may fail to learn what it was given.
Take(w, i) ==
    /\ item[i].state \in {"open", "held"}
    /\ item' = [item EXCEPT ![i] = [state |-> "held", term |-> @.term + 1]]
    /\ claim' \in {claim, [claim EXCEPT ![w] = <<i, item[i].term + 1>>]}

Record(w, i, state) ==
    /\ claim[w] = <<i, item[i].term>> /\ item[i].state = "held"
    /\ item' = [item EXCEPT ![i].state = state]
    /\ claim' = [claim EXCEPT ![w] = NoClaim]

GiveUp(w) ==
    /\ claim' = [claim EXCEPT ![w] = NoClaim]
    /\ UNCHANGED item

LeasedNext ==
    \/ Administer
    \/ \E w \in Worker : GiveUp(w)
    \/ \E w \in Worker, i \in Item : Take(w, i)
    \/ \E w \in Worker, i \in Item, s \in {"open", "done"} : Record(w, i, s)

LeasedSpec == LeasedInit /\ [][LeasedNext]_leasedVars
=============================================================================
