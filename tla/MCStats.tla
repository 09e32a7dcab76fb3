------------------------------- MODULE MCStats -------------------------------
EXTENDS Stats, TLC

CONSTANTS e1, e2, t1, t2, r1, r2, s1, c1, c2, a1

Line(t, q) == [type |-> t, quantity |-> q, answers |-> a1]
CashCart(e, t, q) == [event |-> e, method |-> "CASH", items |-> <<Line(t, q)>>]

CreateRoutes == {"events.create", "types.create", "events.publish"}

OneEventDto == {[startsAt |-> 2, endsAt |-> 3, capacity |-> 1]}
OneTypeDto == {[price |-> 1, quantity |-> 3]}
NoField == {}

\* Two orders of t1 would take four of its three units.
GateCarts == {CashCart(e1, t1, 2), CashCart(e2, t2, 1)}

Draws == Permutations({c1, c2})
=============================================================================
