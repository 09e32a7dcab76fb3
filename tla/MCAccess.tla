------------------------------ MODULE MCAccess ------------------------------
EXTENDS Access, TLC

CONSTANTS e1, e2, t1, o1, o2, m1, m2, p1, l1, l2, q1, q2, q3, q4

EditRoutes == {"events.create", "events.publish", "events.cancel",
               "events.update", "events.remove", "types.create", "types.update"}
PairRoutes == {"events.create"}
OneEventDto == {[startsAt |-> 1, endsAt |-> 1, capacity |-> 1]}
PriceDtos == {[price |-> 1, quantity |-> 1], [price |-> 2, quantity |-> 1]}
PriceOnly == {"price"}
NoField == {}

People == Permutations({o1, o2}) \cup Permutations({m1, m2}) \cup
          Permutations({e1, e2}) \cup Permutations({l1, l2}) \cup
          Permutations({q1, q2, q3, q4})
=============================================================================
