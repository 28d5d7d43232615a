---------------------------- MODULE Publication ----------------------------
(***************************************************************************)
(* What a filesystem provider promises: one value at a time, and every     *)
(* related client sees that value or, for a while, none.                   *)
(***************************************************************************)
CONSTANTS
    Clients,
    Values,
    NoValue,   \* no value: nothing has been published
    Unrelated  \* no value either: the client is not related

VARIABLES
    value,     \* what is published
    copy       \* copy[c]: what client c sees

vars == <<value, copy>>

Init == value = NoValue /\ copy = [c \in Clients |-> Unrelated]

Relate(c) ==
    /\ copy[c] = Unrelated
    /\ copy' = [copy EXCEPT ![c] = NoValue]
    /\ UNCHANGED value

Unrelate(c) ==
    /\ copy' = [copy EXCEPT ![c] = Unrelated]
    /\ UNCHANGED value

(* Who sees a value sees the new one at once; who sees none is served now or
   later. *)
Publish(v) ==
    /\ value' = v
    /\ \E now \in SUBSET Clients :
         /\ \A c \in Clients : copy[c] \in Values => c \in now
         /\ copy' = [c \in Clients |->
                       IF copy[c] # Unrelated /\ c \in now THEN v ELSE copy[c]]

Serve(c) ==
    /\ value # NoValue /\ copy[c] # Unrelated
    /\ copy' = [copy EXCEPT ![c] = value]
    /\ UNCHANGED value

Next ==
    \/ \E v \in Values : Publish(v)
    \/ \E c \in Clients : Relate(c) \/ Unrelate(c) \/ Serve(c)

Spec == Init /\ [][Next]_vars
=============================================================================
