---------------------------- MODULE OneShotGrant ----------------------------
(***************************************************************************)
(* What a login promises, without revisions, clocks or retries: it grants  *)
(* at most one handoff, the handoff is spent at most once, at most one     *)
(* provider callback ever gets to work for it, and once a handoff has been *)
(* granted only its expiry can take it back, never a failure.              *)
(***************************************************************************)
CONSTANTS Login, Callback

VARIABLES
    phase,    \* phase[l]: how far the login has come
    holders   \* holders[l]: the callbacks that have claimed it

grantVars == <<phase, holders>>

Phase == {"open", "claimed", "granted", "spent", "failed", "lapsed"}

Init ==
    /\ phase = [l \in Login |-> "open"]
    /\ holders = [l \in Login |-> {}]

Claim(l, c) ==
    /\ phase[l] = "open" /\ holders[l] = {}
    /\ phase' = [phase EXCEPT ![l] = "claimed"]
    /\ holders' = [holders EXCEPT ![l] = {c}]

Move(l, from, to) ==
    /\ phase[l] \in from
    /\ phase' = [phase EXCEPT ![l] = to]
    /\ UNCHANGED holders

Grant(l) == Move(l, {"open", "claimed"}, "granted")
Spend(l) == Move(l, {"granted"}, "spent")
Fail(l)  == Move(l, {"open", "claimed"}, "failed")
Lapse(l) == Move(l, {"open", "claimed", "granted"}, "lapsed")

Next == \E l \in Login :
    \/ \E c \in Callback : Claim(l, c)
    \/ Grant(l) \/ Spend(l) \/ Fail(l) \/ Lapse(l)

Spec == Init /\ [][Next]_grantVars
=============================================================================
