----------------------------- MODULE MCEvently ------------------------------
EXTENDS Evently, TLC

CONSTANTS e1, e2, t1, t2, r1, r2, s1, s2, x1, x2, c1, c2, a1

Line(t, q) == [type |-> t, quantity |-> q, answers |-> a1]
CashCart(e, t, q) == [event |-> e, method |-> "CASH", items |-> <<Line(t, q)>>]

CreateRoutes == {"events.create", "types.create", "events.publish"}
RemoveRoutes == CreateRoutes \cup {"events.remove", "types.remove"}
DoorRoutes   == CreateRoutes \cup {"events.cancel", "events.remove", "events.update"}

\* Check-in opens at 0 or at 1, and closes after 1 or after 3.
DoorEventDtos == {[startsAt |-> 2, endsAt |-> 1, capacity |-> 1],
                  [startsAt |-> 3, endsAt |-> 3, capacity |-> 1]}
OneEventDto == {[startsAt |-> 2, endsAt |-> 3, capacity |-> 1]}
OneTypeDto == {[price |-> 1, quantity |-> 2]}
StartAndEnd == {"startsAt", "endsAt"}
NoField == {}

OneCart == {CashCart(e1, t1, 1)}
RemoveCarts == {[CashCart(e1, t1, 1) EXCEPT !.items = <<Line(t1, 1), Line(t2, 1)>>]}

Doors == Permutations({s1, s2}) \cup Permutations({c1, c2})
=============================================================================
