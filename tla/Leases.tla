------------------------------- MODULE Leases -------------------------------
(***************************************************************************)
(* What a pool of fictitious addresses promises: an address is leased to   *)
(* one name at a time, a name has one address at a time, and a lease ends  *)
(* only by running out.                                                    *)
(***************************************************************************)
CONSTANTS Name, Address, Nobody

VARIABLE holder         \* holder[a]: the name that a is leased to, or Nobody

Init == holder = [a \in Address |-> Nobody]

Grant(n, a) ==
    /\ holder[a] = Nobody
    /\ \A b \in Address : holder[b] # n
    /\ holder' = [holder EXCEPT ![a] = n]

RunOut(S) == holder' = [a \in Address |-> IF a \in S THEN Nobody ELSE holder[a]]

Next == (\E n \in Name, a \in Address : Grant(n, a)) \/ \E S \in SUBSET Address : RunOut(S)

Spec == Init /\ [][Next]_holder
=============================================================================
