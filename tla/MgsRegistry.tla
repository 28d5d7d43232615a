---------------------------- MODULE MgsRegistry ----------------------------
(***************************************************************************)
(* What the peer relation of lustre-server promises: one MGS is chosen,    *)
(* once, among the units that have one, and clients are offered that one.  *)
(***************************************************************************)
CONSTANTS
    Units,
    Addresses,
    Nobody,     \* no MGS has been chosen
    Nothing     \* nothing is offered

VARIABLES
    formatted,  \* the units with an MGS target
    mgs,        \* the MGS: its unit and its NIDs
    offered     \* the NIDs that clients are given

vars == <<formatted, mgs, offered>>

Init == formatted = {} /\ mgs = Nobody /\ offered = Nothing

Format(u) ==
    /\ formatted' = formatted \cup {u}
    /\ UNCHANGED <<mgs, offered>>

(* The choice may be offered in the same step. *)
Choose(u, n) ==
    /\ mgs = Nobody /\ u \in formatted /\ n.host = u
    /\ mgs' = [unit |-> u, nids |-> n]
    /\ offered' \in {offered, n}
    /\ UNCHANGED formatted

Offer ==
    /\ mgs # Nobody
    /\ offered' = mgs.nids
    /\ UNCHANGED <<formatted, mgs>>

Next ==
    \/ \E u \in Units : Format(u)
    \/ \E u \in Units, a \in Addresses : Choose(u, [host |-> u, addr |-> a])
    \/ Offer

Spec == Init /\ [][Next]_vars
=============================================================================
