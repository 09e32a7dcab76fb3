------------------------------ MODULE MCSales -------------------------------
EXTENDS Sales, TLC

CONSTANTS e1, e2, t1, t2, r1, r2, r3, c1, c2, c3, a1, a2

Line(t, q, a) == [type |-> t, quantity |-> q, answers |-> a]
CartOf(e, m, items) == [event |-> e, method |-> m, items |-> items]

CreateRoutes  == {"events.create", "types.create"}
SellingRoutes == CreateRoutes \cup {"types.update"}

OneEventDto == {[startsAt |-> 1, endsAt |-> 1, capacity |-> 1]}
OneTypeDto == {[price |-> 1, quantity |-> 2]}
TwoPriceDtos == {[price |-> 1, quantity |-> 2], [price |-> 2, quantity |-> 2]}
PriceOnly == {"price"}
NoField == {}

RaceCarts ==
  {CartOf(e1, "CASH", <<Line(t1, 1, a1), Line(t2, 1, a1)>>),
   CartOf(e1, "CASH", <<Line(t1, 2, a1)>>),
   CartOf(e1, "CASH", <<Line(t1, 1, a1), Line(t1, 1, a2)>>),
   CartOf(e1, "STRIPE", <<Line(t1, 1, a1)>>),
   CartOf(e1, "OTHER", <<Line(t1, 1, a1)>>)}

TwoUnitCarts == {CartOf(e1, "CASH", <<Line(t1, 2, a1)>>)}

SplitCarts == {CartOf(e1, "CASH", <<Line(t1, 2, a1), Line(t1, 1, a2)>>)}

Symmetry == Permutations({c1, c2, c3}) \cup Permutations({r1, r2, r3})
=============================================================================
