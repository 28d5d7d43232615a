------------------------------- MODULE Target -------------------------------
(***************************************************************************)
(* What provisioning promises of a unit's Lustre target, whatever happens  *)
(* to the hooks that do it: a pool is made once, from a number of devices  *)
(* it can be made of, a target is formatted once, on a pool, and only what *)
(* is formatted is mounted.  LustrePeer relies on it.                      *)
(***************************************************************************)
CONSTANTS
    Labels,   \* what a target is formatted with
    None

VARIABLES
    layouts,  \* the sets of devices that a pool of this kind is made of
    pool, label, mounted

vars == <<layouts, pool, label, mounted>>

Init == {} \notin layouts /\ pool = {} /\ label = None /\ mounted = FALSE

Create(l) == pool = {} /\ pool' = l /\ UNCHANGED <<label, mounted>>
Format(n) == pool # {} /\ label = None /\ label' = n /\ UNCHANGED <<pool, mounted>>
Mount == label # None /\ mounted' = TRUE /\ UNCHANGED <<pool, label>>
Unmount == mounted' = FALSE /\ UNCHANGED <<pool, label>>

Next ==
    /\ UNCHANGED layouts
    /\ \/ \E l \in layouts : Create(l)
       \/ \E n \in Labels : Format(n)
       \/ Mount \/ Unmount

Spec == Init /\ [][Next]_vars
=============================================================================
