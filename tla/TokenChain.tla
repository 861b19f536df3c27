----------------------------- MODULE TokenChain -----------------------------
(***************************************************************************)
(* What a refresh family promises.  It is a chain of tokens: the first is  *)
(* born with the family, each token is exchanged at most once, for its one *)
(* successor, and only the newest token can be exchanged at all.  A chain  *)
(* whose old token turns up again is cut, a cut chain stays cut, and every *)
(* token some request was handed lies on the chain.                        *)
(***************************************************************************)
EXTENDS Naturals

CONSTANTS Chain, Holder

VARIABLES
    head,   \* head[k]: the newest token of the chain, 0 before its birth
    cut,    \* cut[k]: no token of the chain is of use any more
    handed  \* handed[h]: the token <<k, n>> the holder was handed, or <<>>

chainVars == <<head, cut, handed>>

Init ==
    /\ head = [k \in Chain |-> 0]
    /\ cut = [k \in Chain |-> FALSE]
    /\ handed = [h \in Holder |-> <<>>]

\* The token after the newest one goes to one holder.
Grow(k, h) ==
    /\ ~cut[k] /\ handed[h] = <<>>
    /\ head' = [head EXCEPT ![k] = @ + 1]
    /\ handed' = [handed EXCEPT ![h] = <<k, head[k] + 1>>]
    /\ UNCHANGED cut

Cut(k) ==
    /\ head[k] > 0
    /\ cut' = [cut EXCEPT ![k] = TRUE]
    /\ UNCHANGED <<head, handed>>

Next == \E k \in Chain : Cut(k) \/ \E h \in Holder : Grow(k, h)

Spec == Init /\ [][Next]_chainVars
=============================================================================
