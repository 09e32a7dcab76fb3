--------------------------- MODULE TableTheorems ----------------------------
(***************************************************************************)
(* What the statements of Database and the handlers of Catalog do to a     *)
(* table and to what refers to it, and what a sum over rows is.            *)
(***************************************************************************)
EXTENDS Catalog, FiniteSetTheorems, WellFoundedInduction, TLAPS

(* A table is still a table after an INSERT of rows of its kind.           *)
LEMMA InsertTable ==
  ASSUME NEW K, NEW R, NEW t, NEW rows, IsTable(t, K, R), IsTable(rows, K, R)
  PROVE  /\ IsTable(Insert(t, rows), K, R)
         /\ DOMAIN Insert(t, rows) = DOMAIN t \cup DOMAIN rows
         /\ \A k \in DOMAIN rows : Insert(t, rows)[k] = rows[k]
         /\ \A k \in DOMAIN t \ DOMAIN rows : Insert(t, rows)[k] = t[k]
  BY DEF IsTable, Insert

(* A single row is a table.                                                *)
LEMMA RowTable ==
  ASSUME NEW K, NEW R, NEW k \in K, NEW row \in R
  PROVE  /\ IsTable(Row(k, row), K, R)
         /\ DOMAIN Row(k, row) = {k}
         /\ Row(k, row)[k] = row
  BY DEF IsTable, Row

(* What DELETE leaves is a table, and the rows it leaves are as they were. *)
LEMMA DeleteTable ==
  ASSUME NEW K, NEW R, NEW t, NEW gone, IsTable(t, K, R)
  PROVE  /\ IsTable(Delete(t, gone), K, R)
         /\ DOMAIN Delete(t, gone) = DOMAIN t \ gone
         /\ \A k \in DOMAIN t \ gone : Delete(t, gone)[k] = t[k]
  BY DEF IsTable, Delete, Restrict

(* An UPDATE of one row keeps the keys and the other rows.                 *)
LEMMA UpdateTable ==
  ASSUME NEW K, NEW R, NEW t, NEW k, NEW row \in R, IsTable(t, K, R)
  PROVE  /\ IsTable([t EXCEPT ![k] = row], K, R)
         /\ DOMAIN [t EXCEPT ![k] = row] = DOMAIN t
         /\ \A j \in DOMAIN t \ {k} : [t EXCEPT ![k] = row][j] = t[j]
  BY DEF IsTable

(* The tables of DatabaseInit hold no row of any kind.                     *)
LEMMA EmptyTable ==
  ASSUME NEW K, NEW R
  PROVE  IsTable([x \in {} |-> 0], K, R)
  BY DEF IsTable

(* The empty schema of schema.prisma, before the first request, is well typed. *)
LEMMA InitTypeOK == DatabaseInit => DatabaseTypeOK
  BY EmptyTable DEF DatabaseInit, DatabaseTypeOK

(* Deleting an event leaves tables of the same kinds.                      *)
LEMMA DeleteEventTypeOK ==
  ASSUME NEW e, DatabaseTypeOK, DeleteEvent(e)
  PROVE  DatabaseTypeOK'
  BY DeleteTable DEF DatabaseTypeOK, DeleteEvent

(* Every edit of the catalogue leaves rows of the schema's types: its      *)
(* bodies were validated, and its rows are keyed by fresh uuids.           *)
LEMMA CatalogTypes ==
  ASSUME DatabaseTypeOK, CatalogTypeOK, CatalogNext
  PROVE  DatabaseTypeOK' /\ CatalogTypeOK'
<1> USE DEF CatalogTypeOK
<1>1. ASSUME NEW e \in EventId, NEW dto \in EventDto, CreateEvent(e, dto)
      PROVE  DatabaseTypeOK' /\ CatalogTypeOK'
  <2> DEFINE row == [status |-> "DRAFT", startsAt |-> dto.startsAt,
                     endsAt |-> dto.endsAt, capacity |-> dto.capacity]
  <2>1. row \in EventRow
    BY EventDtoAssumption DEF EventBody, EventRow, EventStatus
  <2>2. IsTable(event', EventId, EventRow)
    <3>1. event' = Insert(event, Row(e, row))
      BY <1>1 DEF CreateEvent
    <3> HIDE DEF row
    <3>2. IsTable(Row(e, row), EventId, EventRow)
      BY <2>1, RowTable
    <3> QED BY <3>1, <3>2, InsertTable DEF DatabaseTypeOK
  <2>3. /\ UNCHANGED <<ticketType, order, orderItem, ticket, checkIn, removing>>
        /\ fresh' = fresh \ {e}
    BY <1>1 DEF CreateEvent
  <2> QED BY <2>2, <2>3 DEF DatabaseTypeOK
<1>2. ASSUME NEW e \in EventId, NEW dto \in EventDto,
             NEW fields \in SUBSET EventField, UpdateEvent(e, dto, fields)
      PROVE  DatabaseTypeOK' /\ CatalogTypeOK'
  <2>1. event[e] \in EventRow
    BY <1>2 DEF UpdateEvent, DatabaseTypeOK, IsTable
  <2>2. event'[e] \in EventRow
    BY <1>2, <2>1, EventDtoAssumption
    DEF UpdateEvent, EventBody, EventRow, DatabaseTypeOK, IsTable
  <2>3. IsTable(event', EventId, EventRow)
    BY <1>2, <2>2 DEF UpdateEvent, DatabaseTypeOK, IsTable
  <2> QED BY <1>2, <2>3 DEF UpdateEvent, DatabaseTypeOK
<1>3. ASSUME NEW e \in EventId, Publish(e) \/ CancelEvent(e)
      PROVE  DatabaseTypeOK' /\ CatalogTypeOK'
  <2>1. IsTable(event', EventId, EventRow)
    BY <1>3 DEF Publish, CancelEvent, DatabaseTypeOK, IsTable, EventRow, EventStatus
  <2> QED BY <1>3, <2>1 DEF Publish, CancelEvent, DatabaseTypeOK
<1>4. ASSUME NEW e \in EventId, RemoveEvent(e)
      PROVE  DatabaseTypeOK' /\ CatalogTypeOK'
  BY <1>4, DeleteEventTypeOK DEF RemoveEvent
<1>5. ASSUME NEW t \in TicketTypeId, NEW e \in EventId, NEW dto \in TicketTypeDto,
             CreateTicketType(t, e, dto)
      PROVE  DatabaseTypeOK' /\ CatalogTypeOK'
  <2> DEFINE row == [event |-> e, price |-> dto.price, quantity |-> dto.quantity,
                     sold |-> 0]
  <2>1. row \in TicketTypeRow
    BY TicketTypeDtoAssumption, MaxIntAssumption
    DEF TicketTypeBody, TicketTypeRow, INTEGER
  <2>2. IsTable(ticketType', TicketTypeId, TicketTypeRow)
    <3>1. ticketType' = Insert(ticketType, Row(t, row))
      BY <1>5 DEF CreateTicketType
    <3> HIDE DEF row
    <3>2. IsTable(Row(t, row), TicketTypeId, TicketTypeRow)
      BY <2>1, RowTable
    <3> QED BY <3>1, <3>2, InsertTable DEF DatabaseTypeOK
  <2>3. /\ UNCHANGED <<event, order, orderItem, ticket, checkIn, removing>>
        /\ fresh' = fresh \ {t}
    BY <1>5 DEF CreateTicketType
  <2> QED BY <2>2, <2>3 DEF DatabaseTypeOK
<1>6. ASSUME NEW t \in TicketTypeId, NEW dto \in TicketTypeDto,
             NEW fields \in SUBSET TicketTypeField, UpdateTicketType(t, dto, fields)
      PROVE  DatabaseTypeOK' /\ CatalogTypeOK'
  <2>1. ticketType[t] \in TicketTypeRow
    BY <1>6 DEF UpdateTicketType, DatabaseTypeOK, IsTable
  <2>2. dto.price \in INTEGER /\ dto.quantity \in INTEGER
    BY TicketTypeDtoAssumption DEF TicketTypeBody
  <2>3. ticketType'[t] \in TicketTypeRow
    BY <1>6, <2>1, <2>2
    DEF UpdateTicketType, TicketTypeRow, DatabaseTypeOK, IsTable
  <2>4. IsTable(ticketType', TicketTypeId, TicketTypeRow)
    BY <1>6, <2>3 DEF UpdateTicketType, DatabaseTypeOK, IsTable
  <2> QED BY <1>6, <2>4 DEF UpdateTicketType, DatabaseTypeOK
<1>7. ASSUME NEW t \in TicketTypeId, NEW force \in BOOLEAN,
             CheckRemoval(t, force)
      PROVE  DatabaseTypeOK' /\ CatalogTypeOK'
  BY <1>7 DEF CheckRemoval, DatabaseTypeOK, tables
<1>8. ASSUME NEW t \in TicketTypeId, NEW force \in BOOLEAN,
             RemoveTicketType(t, force)
      PROVE  DatabaseTypeOK' /\ CatalogTypeOK'
  <2>1. IsTable(ticketType', TicketTypeId, TicketTypeRow)
    BY <1>8, DeleteTable DEF RemoveTicketType, DatabaseTypeOK
  <2> QED BY <1>8, <2>1 DEF RemoveTicketType, DatabaseTypeOK
<1> QED
  BY <1>1, <1>2, <1>3, <1>4, <1>5, <1>6, <1>7, <1>8
  DEF CatalogNext, EventsNext, TicketTypesNext

-----------------------------------------------------------------------------
(***************************************************************************)
(* Sums over a finite set, as SumFunction of the community modules defines *)
(* them.  Induction is by sets, not by an operator that the provers would  *)
(* have to instantiate.                                                    *)
(***************************************************************************)
Unfold(f, s, g) == IF s = {} THEN 0
                   ELSE f[CHOOSE x \in s : TRUE] + g[s \ {CHOOSE x \in s : TRUE}]

Iterates(f, S, g) == g = [s \in SUBSET S |-> Unfold(f, s, g)]

(* The sum is the value at S of a function that iterates over its subsets. *)
LEMMA SumIterates ==
  ASSUME NEW f, NEW S
  PROVE  SumFunctionOnSet(f, S) = (CHOOSE g : Iterates(f, S, g))[S]
  BY DEF SumFunctionOnSet, FoldFunctionOnSet, MapThenFoldSet, Iterates, Unfold

(* Induction over Nat, for a set of numbers: the least number left out would *)
(* have its predecessor in the set.                                        *)
LEMMA NatInductionSet ==
  ASSUME NEW I, 0 \in I, \A n \in Nat : n \in I => n + 1 \in I
  PROVE  Nat \subseteq I
<1> DEFINE Bad == Nat \ I
<1> SUFFICES ASSUME Bad # {} PROVE FALSE
  OBVIOUS
<1>1. PICK m \in Bad : \A n \in Bad : ~ (<<n, m>> \in OpToRel(<, Nat))
  BY WFMin, NatLessThanWellFounded
<1>2. m # 0 /\ m - 1 \in Nat /\ m - 1 < m
  OBVIOUS
<1>3. <<m - 1, m>> \in OpToRel(<, Nat)
  BY <1>2 DEF OpToRel
<1>4. m - 1 \in I
  BY <1>1, <1>2, <1>3
<1>5. (m - 1) + 1 = m
  OBVIOUS
<1> QED BY <1>2, <1>4, <1>5

(* Such a function exists: it is built up by the size of the subsets.      *)
LEMMA SumExists ==
  ASSUME NEW f, NEW S, IsFiniteSet(S)
  PROVE  \E g : Iterates(f, S, g)
<1> DEFINE Small(n) == {s \in SUBSET S : Cardinality(s) <= n}
           I == {n \in Nat : \E h : h = [s \in Small(n) |-> Unfold(f, s, h)]}
<1>1. \A s \in SUBSET S : IsFiniteSet(s) /\ Cardinality(s) \in Nat
  BY FS_Subset, FS_CardinalityType
<1>2. 0 \in I
  <2> DEFINE h == [s \in Small(0) |-> 0]
  <2>1. \A s \in Small(0) : s = {}
    BY <1>1, FS_EmptySet
  <2>2. h = [s \in Small(0) |-> Unfold(f, s, h)]
    BY <2>1 DEF Unfold
  <2> QED BY <2>2
<1>3. ASSUME NEW n \in Nat, n \in I PROVE n + 1 \in I
  <2> PICK h : h = [s \in Small(n) |-> Unfold(f, s, h)]
    BY <1>3
  <2> DEFINE k == [s \in Small(n + 1) |-> Unfold(f, s, h)]
  <2>1. ASSUME NEW s \in Small(n + 1), s # {}
        PROVE  s \ {CHOOSE x \in s : TRUE} \in Small(n)
    <3>1. (CHOOSE x \in s : TRUE) \in s
      BY <2>1
    <3>2. Cardinality(s \ {CHOOSE x \in s : TRUE}) = Cardinality(s) - 1
      BY <1>1, <3>1, FS_RemoveElement
    <3> QED BY <1>1, <3>2
  <2>2. \A s \in Small(n) : s \in Small(n + 1) /\ h[s] = k[s]
    BY <1>1
  <2>3. \A s \in Small(n + 1) : Unfold(f, s, h) = Unfold(f, s, k)
    <3> TAKE s \in Small(n + 1)
    <3> HIDE DEF k, Small
    <3> QED BY <2>1, <2>2 DEF Unfold
  <2>4. k = [s \in Small(n + 1) |-> Unfold(f, s, k)]
    BY <2>3
  <2> HIDE DEF k, Small
  <2>5. \E w : w = [s \in Small(n + 1) |-> Unfold(f, s, w)]
    BY <2>4
  <2> QED BY <2>5
<1> HIDE DEF I
<1>4. Cardinality(S) \in I
  BY <1>1, <1>2, <1>3, NatInductionSet
<1>5. PICK h : h = [s \in Small(Cardinality(S)) |-> Unfold(f, s, h)]
  BY <1>4 DEF I
<1>6. Small(Cardinality(S)) = SUBSET S
  BY FS_Subset
<1> QED BY <1>5, <1>6 DEF Iterates

(* Induction over a finite set: F holds S if it holds every subset of S    *)
(* that it holds less any one element.                                     *)
LEMMA SubsetInduction ==
  ASSUME NEW S, IsFiniteSet(S), NEW F,
         \A s \in SUBSET S : (\A x \in s : s \ {x} \in F) => s \in F
  PROVE  S \in F
<1> DEFINE I == {n \in Nat : \A s \in SUBSET S : Cardinality(s) = n => s \in F}
<1>1. \A s \in SUBSET S : IsFiniteSet(s) /\ Cardinality(s) \in Nat
  BY FS_Subset, FS_CardinalityType
<1>2. 0 \in I
  <2> SUFFICES ASSUME NEW s \in SUBSET S, Cardinality(s) = 0 PROVE s \in F
    OBVIOUS
  <2>1. s = {}
    BY <1>1, FS_EmptySet
  <2> QED BY <2>1
<1>3. ASSUME NEW n \in Nat, n \in I PROVE n + 1 \in I
  <2> SUFFICES ASSUME NEW s \in SUBSET S, Cardinality(s) = n + 1 PROVE s \in F
    OBVIOUS
  <2>1. ASSUME NEW x \in s PROVE s \ {x} \in F
    <3>1. IsFiniteSet(s)
      BY <1>1
    <3>2. Cardinality(s \ {x}) = Cardinality(s) - 1
      BY <3>1, FS_RemoveElement
    <3> QED BY <1>3, <3>2
  <2> QED BY <2>1
<1> HIDE DEF I
<1>4. Nat \subseteq I
  BY <1>2, <1>3, NatInductionSet
<1>5. Cardinality(S) \in I
  BY <1>1, <1>4
<1> QED BY <1>5 DEF I

(* It is the only one, on every finite set.                                *)
LEMMA SumUnique ==
  ASSUME NEW f, NEW S, NEW T, IsFiniteSet(T), NEW g, NEW h,
         Iterates(f, S, g), Iterates(f, T, h), T \subseteq S
  PROVE  g[T] = h[T]
<1> DEFINE F == {s \in SUBSET T : g[s] = h[s]}
<1>1. \A s \in SUBSET T : g[s] = Unfold(f, s, g) /\ h[s] = Unfold(f, s, h)
  BY DEF Iterates
<1>2. \A s \in SUBSET T : (\A x \in s : s \ {x} \in F) => s \in F
  <2> SUFFICES ASSUME NEW s \in SUBSET T, \A x \in s : s \ {x} \in F
               PROVE  g[s] = h[s]
    OBVIOUS
  <2>1. s # {} => (CHOOSE x \in s : TRUE) \in s
    OBVIOUS
  <2> QED BY <1>1, <2>1 DEF Unfold
<1> HIDE DEF F
<1>3. T \in F
  BY <1>2, SubsetInduction
<1> QED BY <1>3 DEF F

(* So the sum over S is that over S less the element CHOOSE takes first.   *)
LEMMA SumStep ==
  ASSUME NEW f, NEW S, IsFiniteSet(S)
  PROVE  SumFunctionOnSet(f, S) =
           IF S = {} THEN 0
           ELSE f[CHOOSE x \in S : TRUE] + SumFunctionOnSet(f, S \ {CHOOSE x \in S : TRUE})
<1> DEFINE T == S \ {CHOOSE x \in S : TRUE}
           g == CHOOSE g : Iterates(f, S, g)
           h == CHOOSE h : Iterates(f, T, h)
<1>1. IsFiniteSet(T)
  BY FS_Subset
<1>2. Iterates(f, S, g) /\ Iterates(f, T, h)
  BY <1>1, SumExists
<1>3. g[T] = h[T]
  BY <1>1, <1>2, SumUnique
<1>4. g[S] = Unfold(f, S, g)
  BY <1>2 DEF Iterates
<1>5. SumFunctionOnSet(f, S) = g[S] /\ SumFunctionOnSet(f, T) = h[T]
  BY SumIterates
<1> HIDE DEF g, h
<1> QED BY <1>3, <1>4, <1>5 DEF Unfold

(* Nothing sums to 0.                                                      *)
LEMMA SumEmpty == \A f : SumFunctionOnSet(f, {}) = 0
  BY SumStep, FS_EmptySet

(* Naturals sum to a natural.                                              *)
LEMMA SumNat ==
  ASSUME NEW f, NEW S, IsFiniteSet(S), \A x \in S : f[x] \in Nat
  PROVE  SumFunctionOnSet(f, S) \in Nat
<1> DEFINE F == {s \in SUBSET S : SumFunctionOnSet(f, s) \in Nat}
<1>1. \A s \in SUBSET S : (\A x \in s : s \ {x} \in F) => s \in F
  <2> SUFFICES ASSUME NEW s \in SUBSET S, \A x \in s : s \ {x} \in F
               PROVE  SumFunctionOnSet(f, s) \in Nat
    OBVIOUS
  <2>1. IsFiniteSet(s)
    BY FS_Subset
  <2>2. s # {} => (CHOOSE x \in s : TRUE) \in s
    OBVIOUS
  <2>3. s # {} => /\ f[CHOOSE x \in s : TRUE] \in Nat
                  /\ SumFunctionOnSet(f, s \ {CHOOSE x \in s : TRUE}) \in Nat
    BY <2>2
  <2>4. CASE s = {}
    BY <2>4, SumEmpty
  <2>5. CASE s # {}
    <3>1. SumFunctionOnSet(f, s) = f[CHOOSE x \in s : TRUE]
                                    + SumFunctionOnSet(f, s \ {CHOOSE x \in s : TRUE})
      BY <2>1, <2>5, SumStep
    <3> QED BY <2>3, <2>5, <3>1
  <2> QED BY <2>4, <2>5
<1> HIDE DEF F
<1>2. S \in F
  BY <1>1, SubsetInduction
<1> QED BY <1>2 DEF F

(* Any element may be taken out first.                                     *)
LEMMA SumRemove ==
  ASSUME NEW f, NEW S, IsFiniteSet(S), \A y \in S : f[y] \in Nat, NEW x \in S
  PROVE  SumFunctionOnSet(f, S) = f[x] + SumFunctionOnSet(f, S \ {x})
<1> DEFINE F == {s \in SUBSET S :
                   \A z \in s : SumFunctionOnSet(f, s) = f[z] + SumFunctionOnSet(f, s \ {z})}
<1>1. \A s \in SUBSET S : IsFiniteSet(s) /\ SumFunctionOnSet(f, s) \in Nat
  BY FS_Subset, SumNat
<1>2. \A s \in SUBSET S : (\A y \in s : s \ {y} \in F) => s \in F
  <2> SUFFICES ASSUME NEW s \in SUBSET S, \A y \in s : s \ {y} \in F, NEW z \in s
               PROVE  SumFunctionOnSet(f, s) = f[z] + SumFunctionOnSet(f, s \ {z})
    OBVIOUS
  <2> DEFINE c == CHOOSE y \in s : TRUE
  <2>1. c \in s
    OBVIOUS
  <2>2. SumFunctionOnSet(f, s) = f[c] + SumFunctionOnSet(f, s \ {c})
    BY <1>1, SumStep
  <2> HIDE DEF c
  <2>3. CASE z = c
    BY <2>2, <2>3
  <2>4. CASE z # c
    <3>1. SumFunctionOnSet(f, s \ {c}) = f[z] + SumFunctionOnSet(f, (s \ {c}) \ {z})
      BY <2>1, <2>4
    <3>2. SumFunctionOnSet(f, s \ {z}) = f[c] + SumFunctionOnSet(f, (s \ {z}) \ {c})
      BY <2>1, <2>4
    <3>3. (s \ {c}) \ {z} = (s \ {z}) \ {c}
      OBVIOUS
    <3>4. /\ f[c] \in Nat /\ f[z] \in Nat
          /\ SumFunctionOnSet(f, (s \ {c}) \ {z}) \in Nat
      BY <1>1, <2>1
    <3> QED BY <2>2, <3>1, <3>2, <3>3, <3>4
  <2> QED BY <2>3, <2>4
<1> HIDE DEF F
<1>3. S \in F
  BY <1>2, SubsetInduction
<1> QED BY <1>3 DEF F

(* A sum does not depend on what its terms are indexed by.                 *)
LEMMA SumBijection ==
  ASSUME NEW S, NEW T, NEW b \in Bijection(S, T), NEW f, NEW g, IsFiniteSet(S),
         \A x \in S : f[x] \in Nat /\ g[b[x]] = f[x]
  PROVE  SumFunctionOnSet(f, S) = SumFunctionOnSet(g, T)
<1> DEFINE Image(s) == {b[x] : x \in s}
           F == {s \in SUBSET S : SumFunctionOnSet(f, s) = SumFunctionOnSet(g, Image(s))}
<1>1. \A x, y \in S : b[x] = b[y] => x = y
  BY DEF Bijection, Injection, IsInjective
<1>2. IsFiniteSet(T) /\ Image(S) = T
  BY FS_Bijection DEF ExistsBijection, Bijection, Surjection
<1>3. \A s \in SUBSET S : (\A x \in s : s \ {x} \in F) => s \in F
  <2> SUFFICES ASSUME NEW s \in SUBSET S, \A x \in s : s \ {x} \in F
               PROVE  SumFunctionOnSet(f, s) = SumFunctionOnSet(g, Image(s))
    OBVIOUS
  <2>1. CASE s = {}
    BY <2>1, SumEmpty
  <2>2. ASSUME NEW x \in s PROVE SumFunctionOnSet(f, s) = SumFunctionOnSet(g, Image(s))
    <3>1. SumFunctionOnSet(f, s) = f[x] + SumFunctionOnSet(f, s \ {x})
      BY FS_Subset, SumRemove
    <3>2. SumFunctionOnSet(f, s \ {x}) = SumFunctionOnSet(g, Image(s \ {x}))
      OBVIOUS
    <3>3. Image(s \ {x}) = Image(s) \ {b[x]} /\ b[x] \in Image(s)
      BY <1>1
    <3>4. IsFiniteSet(Image(s)) /\ \A y \in Image(s) : g[y] \in Nat
      BY <1>2, FS_Subset
    <3>5. SumFunctionOnSet(g, Image(s)) = g[b[x]] + SumFunctionOnSet(g, Image(s) \ {b[x]})
      <4> HIDE DEF Image
      <4> QED BY <3>3, <3>4, SumRemove
    <3> QED BY <3>1, <3>2, <3>3, <3>5
  <2> QED BY <2>1, <2>2
<1> HIDE DEF F
<1>4. S \in F
  BY <1>3, SubsetInduction
<1> QED BY <1>2, <1>4 DEF F

(* More terms sum to no less.                                              *)
LEMMA SumMonotone ==
  ASSUME NEW f, NEW S, NEW T, IsFiniteSet(T), S \subseteq T, \A x \in T : f[x] \in Nat
  PROVE  SumFunctionOnSet(f, S) <= SumFunctionOnSet(f, T)
<1> DEFINE F == {s \in SUBSET T :
                   SumFunctionOnSet(f, s \cap S) <= SumFunctionOnSet(f, s)}
<1>1. \A s \in SUBSET T : IsFiniteSet(s) /\ SumFunctionOnSet(f, s) \in Nat
  BY FS_Subset, SumNat
<1>2. \A s \in SUBSET T : (\A x \in s : s \ {x} \in F) => s \in F
  <2> SUFFICES ASSUME NEW s \in SUBSET T, \A x \in s : s \ {x} \in F
               PROVE  SumFunctionOnSet(f, s \cap S) <= SumFunctionOnSet(f, s)
    OBVIOUS
  <2>1. CASE s \subseteq S
    <3>1. s \cap S = s
      BY <2>1
    <3> QED BY <1>1, <3>1
  <2>2. ASSUME NEW x \in s \ S PROVE SumFunctionOnSet(f, s \cap S) <= SumFunctionOnSet(f, s)
    <3>1. SumFunctionOnSet(f, s) = f[x] + SumFunctionOnSet(f, s \ {x})
      BY <1>1, SumRemove
    <3>2. SumFunctionOnSet(f, (s \ {x}) \cap S) <= SumFunctionOnSet(f, s \ {x})
      OBVIOUS
    <3>3. (s \ {x}) \cap S = s \cap S
      OBVIOUS
    <3>4. /\ f[x] \in Nat /\ SumFunctionOnSet(f, s \cap S) \in Nat
          /\ SumFunctionOnSet(f, s \ {x}) \in Nat
      BY <1>1
    <3> QED BY <3>1, <3>2, <3>3, <3>4
  <2> QED BY <2>1, <2>2
<1> HIDE DEF F
<1>3. T \in F
  BY <1>2, SubsetInduction
<1>4. T \cap S = S
  OBVIOUS
<1> QED BY <1>3, <1>4 DEF F

(* Equal terms have equal sums.                                            *)
LEMMA SumSame ==
  ASSUME NEW f, NEW g, NEW S, IsFiniteSet(S), \A x \in S : f[x] \in Nat /\ g[x] = f[x]
  PROVE  SumFunctionOnSet(g, S) = SumFunctionOnSet(f, S)
<1> DEFINE b == [x \in S |-> x]
<1>1. b \in Bijection(S, S)
  BY DEF Bijection, Injection, IsInjective, Surjection
<1>2. \A x \in S : f[x] \in Nat /\ g[b[x]] = f[x]
  OBVIOUS
<1> HIDE DEF b
<1> QED BY <1>1, <1>2, SumBijection
=============================================================================
