------------------------------ MODULE MCProxy ------------------------------
(* Small instances of Proxy for TLC.                                       *)
EXTENDS Proxy, TLC

CONSTANTS u1, u2, u3, u4, s1, s2, user

UserTier == {user}

OfUsers == [r \in Requests |-> user]

OneSlot == [t \in Tiers |-> {s1}]
TwoSlots == [t \in Tiers |-> {s1, s2}]

OneMayWait == [t \in Tiers |-> 1]
TwoMayWait == [t \in Tiers |-> 2]

UsersAndSlotsAlike == Permutations(Requests) \cup Permutations({s1, s2})
=============================================================================
