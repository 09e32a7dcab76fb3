# Evently in TLA+

TLA+ models of the Evently API (`src/`: NestJS handlers over PostgreSQL through
Prisma), model-checked with TLC and proved with TLAPS. The service keeps no
state of its own: all of it is in the tables of `prisma/schema.prisma`, and
any number of handlers work on them at once. Nothing serialises two handlers
except what PostgreSQL does for one statement or one transaction, so most of
the models are about what may happen between two statements; the rest is about
the bytes by which a ticket in a pocket is recognised at a door.

## 1. The system

| Component | State | Operations | Interacts through | Modelled in |
| --- | --- | --- | --- | --- |
| Database schema (`prisma/schema.prisma`, `src/db`) | tables Organizer, Event, TicketType, Order, OrderItem, ScannerSession, Ticket, CheckIn | foreign keys with CASCADE or RESTRICT, unique indexes, INTEGER columns | every service | Tables, Database, Auth |
| Events (`src/events`) | Event rows | create, update, publish, cancel, remove, stats and listings | cascades; check-in reads `status`, `startsAt`, `endsAt` | Catalog, Stats |
| Ticket types (`src/ticket-types`) | TicketType rows (`price`, `quantity`, `sold`) | create, update, remove(force) | orders read price and stock and increment `sold` | Catalog |
| Orders (`src/orders`) | Order, OrderItem rows; inserts Ticket rows | create: stock check, order, lines, payment, increments, tickets | all tables above | Orders, Scanning |
| Tickets (`src/tickets`) | Ticket.status, CheckIn rows | check-in by signature or by code, cancel, refund, QR code, public reads | tickets inserted by orders, status of the event | Tickets, Scanning |
| Ticket signing (`src/ticket-signing`) | none (two keys) | pack/sign, verify/unpack, generateCode | orders sign, check-in verifies | Payload, Scanning |
| Authentication (`src/auth`) | Organizer, ScannerSession rows | register, login, scanner session, scanner login | guards; a scanner's event | Auth |
| Ownership guards (`src/common/guards`) | none | owner of event or ticket; scanner's event = payload's event | run before the handlers | Access, Tickets, Scanning |
| Request validation (`*/dto`, `main.ts`) | none | bounds on quantity, price, capacity | what a handler can be given | assumptions on Cart, EventDto, TicketTypeDto |
| Application shell (`app.*`, `main.ts`) | none | wiring, CORS, OpenAPI | - | not modelled |
| Stripe payments | none | stubs: a card order stops at PENDING | - | not modelled (the stub is, in Orders) |

What is hard in this code:

* `POST /orders` is eight statements with no transaction around them. Between
  any two, another order, an organizer's edit or deletion, a failed statement
  or a crash may come (orders.service.ts:37-190).
* The stock check reads `sold` several statements before `sold` is written
  (orders.service.ts:45-65 and 132-139).
* The increments are sent by `Promise.all`: the first that fails makes the
  handler throw while the others go on running behind it.
* A check-in reads the ticket and the event, decides, and then writes in a
  transaction whose condition is on the ticket alone
  (tickets.service.ts:70-108); cancel and refund write first and read the
  answer afterwards (184-200).
* Deletions cascade through tables that half-finished handlers still use.
* A ticket is found by the signature of bytes that hold a code, an event, four
  short hashes and an index cut to one byte (ticket-signing.service.ts:152-255):
  two unique indexes, on the code and on the signature, must agree on which
  tickets are different.
* Registration and pairing check a row and write it by separate statements
  (auth.service.ts:25-45, 129-145), guards look at rows before the handler
  does, and a scanner's token is honoured without a look at its session
  (jwt.strategy-scanner.ts:23).
* `stats()` counts by queries that run in any order, among everything else.

What each component must guarantee, as checked below:

* Orders: all of an order's tickets or none; the buyer is told what the tables
  say; total = sum of the lines at the prices charged; `sold` counts tickets
  exactly when nothing failed, and never too few; no type is oversold when
  orders come one at a time.
* Catalogue and schema: no row refers to a row that is gone; an order's
  tickets vanish together.
* Tickets: at most one of any number of racing check-ins, cancels and refunds
  of a ticket succeeds; a ticket is used if and only if one entry is recorded
  for it; an entry is at a gate of the event the ticket was sold for.
* Signing: the QR code of a ticket leads to that ticket only; no QR code, cut
  or mixed, leads to another; the index on signatures refuses nothing that the
  index on codes admits.
* Authentication and guards: one organizer per address; a scanner's token has
  a session behind it while its event exists; an event changes only by a
  request of its owner.
* All handlers: each request that begins is answered.

## 2. Modules

```
Tables -- Database -- Catalog --+-- Sales --+-- Evently -- Stats
                 |-- Orders ----+           |      |
                 |-- Tickets ---------------+   Admission (abstract)
                 Catalog -- Auth -- Access
Tables, Payload -- Scanning

MCSales, MCEvently, MCStats, MCAccess, MCScanning: constants and bodies for TLC
TableTheorems -- SalesTheorems -- LedgerTheorems -- EventlyTheorems -- StatsTheorems
TableTheorems -- AccessTheorems       ScanningTheorems       AdmissionTheorems
```

**Tables** - a table as the function from the primary keys of its live rows to
the rows; INSERT and DELETE.

**Database** - the tables of the sales side, and the effects the schema
decides: `DeleteEvent` (the whole cascade), `Referenced` (the RESTRICT of
OrderItem and Ticket on TicketType), `CodesUnique` (the `(eventId, ticketCode)`
index), `Fits` (INTEGER). Uuids are never generated twice: a request's rows are
keyed by the request, a line's by its position, a ticket's by its line and
index; `fresh` holds the uuids that events and ticket types have yet to take.

**Catalog** - EventsService and TicketTypesService, one action per write. A
handler that reads a row only to answer 404 and then writes by key takes effect
at its write, so it is one action; `remove()` of a ticket type decides on what
it read and is two (`CheckRemoval`, `RemoveTicketType`).

**Orders** - OrdersService.create, one handler per request, one action per
statement: `FindTicketTypes` (findMany and the stock check), `CreateOrder`,
`CreateOrderItems` (and the branch to cash or card), `MarkPaid`, `FindOrder`,
`FindOrderItems`, `IncrementSold` for each line in any order, `CreateTickets`.
`pc[r]` names the statement `r` runs next; `prices`, `lines` and `pending` are
the handler's locals. `Throw` is a refused statement; `Abort` a crash or a lost
connection before a statement or after the commit of the one before, and
`Return` allows the same after the commit of the last one, when the handler
throws and the order is complete all the same. Two lookups keep their exact form: `find` takes the
first line of a type (`Requested`), the `Map` the last (`MatchedAnswers`).

**Sales** - the composition of Catalog and Orders, and the properties of orders.

**Tickets** - TicketsService: `ScanSignature`/`ScanCode` (guard, lookup and
status check), `FindEvent` (the second SELECT of Prisma's include, and the
check of status and hour), `CheckIn` (the transaction), and `FindOwner`,
`Transition`, `Answer` for cancel and refund. `Abort*` stops a handler anywhere;
the answer of a committed check-in may be lost too. In `ScanCode` the ticket is
looked up within the scanner's event, as the code does.

**Admission** - the abstract specification: tickets are issued, decided once
(used, cancelled or refunded), an entry is recorded by the very step that uses
a ticket, and tickets vanish only with their entries.

**Evently** - Sales and Tickets over the same tables, and the refinement
`Admission` (`status` is the status column of the tickets there are, `admits`
the ticket of each check-in row).

**Stats** - EventsService.stats over Evently: `AskStats` is the guard's read,
`Count` one query; the figures the tables held at the start are kept to compare
the answer with.

**Payload** - pack() and unpack() of TicketSigningService as operators on
sequences of bytes: version, index, code, marker and uuid or length and text,
four hashes. Widths are constants, so that the theorems hold for the real ones
and TLC runs on narrow ones. unpack() is what it does to any buffer, not the
inverse of pack(): `WellFormed` is when it does not throw.

**Scanning** - the life of a QR code over Payload: `Issue` is what
createTicket() signs and inserts for the units of a line under both unique
indexes, `RemoveEvent` the cascade, `Scan` the two routes that read a QR code
(POST /tickets/check-in with CheckInOwnershipGuard, GET /tickets), given a code
that was printed once, cut at its end or made of the halves of two. Orders and
Tickets name tickets by their keys; Scanning is why they may.

**Auth** - AuthService.register (`FindEmail`, `CreateOrganizer`), createScanner
(`FindOwnEvent`, `CreateSession`) and scannerLogin (`FindSession`, `UseSession`),
with the tables Organizer and ScannerSession and the clock that expiry is read
from. Each of the three ends in a write whose answer may be lost: the row is
there and the request failed. A handler that dies between its two statements is
one that takes no further step: nothing here assumes that it takes one.

**Access** - Auth and Catalog together: `GuardEvent` is EventOwnershipGuard, a
statement of its own before `Handle`, the handler of the route; `Create` is POST
/events; `DropSessions` the cascade to sessions.

Abstractions: names, descriptions, dates of creation, contacts and amounts no
handler decides on are left out; custom-field answers are opaque values;
times are hours on one clock; Ed25519 signatures are deterministic and
unforgeable, a password or token hash stands for what was hashed; hash columns
of a ticket are any bytes, so they may collide; a text is its UTF-8 bytes, and
byte strings that are no UTF-8 (which the code would decode with replacement
characters) are left out, as is the letter case of uuids, which packing
normalises; an access token does not expire, which only lets a scanner do more.
In Sales and Evently an organizer owns what it edits, which Access shows.
Access places no orders, and leaves the deletion of ticket types to Sales.

## 3. Runs

Most sets have two or three values, enough for two handlers to race for one row
and for a third party to intervene. Requests, tickets and clock are finite, so
systems come to rest: `CHECK_DEADLOCK FALSE` everywhere.

| Run | Checks | What happens in it |
| --- | --- | --- |
| SalesRace | TypeOK, IssuedInFull, AnswerMatchesTables, TotalMatchesLines, SoldCoversTickets, SoldIsTickets | two orders with one or two lines (same or different types), cash, card or refused, against price edits, three ticket codes (so codes collide), MaxInt = 3 (so `sold` and totals overflow), handlers that stop anywhere, also after the tickets' INSERT has committed. One event, and nothing is deleted |
| EventlyDoor | TicketsTypeOK, OneWinner, AnswerIsFinal, ImplementsAdmission | two check-ins and two edits race for a ticket while the event is published, cancelled and rescheduled, and the clock runs. The event is deleted only before the ticket's order has a line: its own ticket type keeps it from then on, and deletion under an open door is met in EventlyRemove |
| EventlyFigures | EntryAtOwnGate, NotOversold, FiguresInRange | two events whose tickets may share a short code, a scanner of either, two orders one at a time that would together oversell a type, and GET /events/:id/stats in the middle of it all |
| EventlyRemove | AllReferencesResolve, AnswerMatchesTables, AnswerIsFinal, ImplementsAdmission, TicketsStayTogether, HandlersEnd, DoorHandlersEnd | events and ticket types are deleted between any two statements; the order names two types, which may be another event's or be gone before its lines are stored; a ticket of another event's tier goes with its event while it is checked in or cancelled; every handler still ends |
| Access | AccessTypeOK, OneAccount, TokensBacked, OwnersOnly, NobodyPairsLater | two registrations with the same or different addresses, a pairing token used by two scanners, its expiry, answers lost after the commit, two events, and four requests of their owners, or of the other, on the routes of events and ticket types |
| Scanning | ScanningTypeOK, CodeIndexSuffices, QrFindsItsTicket, FoundAsRead | two lines of one or three units with bytes of two values, so that an index wraps; all hashes equal; one QR code read whole, cut by a byte or mixed |
| OversellRace, ForeignTier, AnswersOfLastLine, PaidWithoutTickets, LateEntry, PairedTwice | one property each | violations: section 5 |

Bounds and what they stand for: `MaxInFlight` bounds concurrent orders (2 is
what a race needs; 1 makes sales serial); `MaxInt` stands for 2^31 - 1, and is
small so that overflow happens; `MaxTime` stops the clocks; `PairingLife` is the
15 minutes of a pairing token (0: it expires at the first tick); `Routes` names
the organizer's routes that a run opens; `Cart`, `EventDto`, `TicketTypeDto`,
`EventField`, `TicketTypeField` enumerate the bodies sent; `RequestId`,
`LoginId`, `PairingId` and the other sets of requests bound how many are made;
`MayAbort` lets handlers stop; `MaxCut` bounds the bytes missing at the end of
what was scanned (1: any cut makes the lengths disagree). In Scanning a byte
has `ByteCount` = 2 values instead of 256, codes and uuids two bytes and hashes
one: fields keep their order and their places, and wrap after two units.
Symmetry is used on requests, codes and people, never with liveness.

Fairness is weak, for each handler that has begun, and for nothing else: Node
resumes a handler whose statement was answered, but no buyer has to order, no
scanner to scan, and the clock need not move. EventlyRemove, which checks
liveness, has MayAbort FALSE, for a crashed handler has an end that is not an
answer.

Every property of a passing run is also checked against a mutation of the code
it is about (`mutants` in PROJECT.json; the mutated operators stand in the
modules, marked `Mutant:`): an increment by one, a swallowed rejection, prices
read twice, an UPDATE without its status condition, an entry recorded outside
the transaction, orders that survive their event, a code left out of the signed
bytes, an unpack that slices from the marker, `used` written and not read, a
ticket type looked up without its event, and so on.

## 4. Proofs

TLAPS checks these for every set of requests, lines, ticket types, codes,
scanners, organizers and edits, any width of integers and of packed fields, and
with crashes anywhere:

| Theorem | States |
| --- | --- |
| SalesTheorems!SalesTypeOK | `Spec => []TypeOK` |
| SalesTheorems!OrdersIssuedInFull | `Spec => []IssuedInFull` |
| SalesTheorems!AnswersMatchTables | `Spec => []AnswerMatchesTables` |
| SalesTheorems!NoDanglingReference | `Spec => []ReferencesResolve` |
| LedgerTheorems!SerialSalesKeepQuantity | `SerialSales /\ Spec => []NotOversold` |
| LedgerTheorems!TotalsMatchLines | `Spec => []TotalMatchesLines` |
| LedgerTheorems!SoldCovers | `Spec => []SoldCoversTickets` |
| LedgerTheorems!SoldExactNoRemoval | `NoRemoval /\ Spec => []SoldIsTickets` |
| LedgerTheorems!SoldExact | `Spec => [](OrdersKept => SoldIsTickets)` |
| AdmissionTheorems!AdmitsOnce | `ASpec => []OneEntryPerUsedTicket` |
| EventlyTheorems!EventlyImplementsAdmission | `SystemSpec => ImplementsAdmission` |
| EventlyTheorems!DoorTypeOK | `SystemSpec => []TicketsTypeOK` |
| EventlyTheorems!NoDanglingReferenceAtAll | `SystemSpec => []AllReferencesResolve` |
| EventlyTheorems!EntriesAtOwnGate | `SystemSpec => []EntryAtOwnGate` |
| EventlyTheorems!OrdersStandTogether | `SystemSpec => TicketsStayTogether` |
| EventlyTheorems!OneWinnerEach | `SystemSpec => []OneWinner` |
| EventlyTheorems!AnswersAreFinal | `SystemSpec => []AnswerIsFinal` |
| EventlyTheorems!OneEntryEach | `SystemSpec => []Admission!OneEntryPerUsedTicket` |
| EventlyTheorems!SystemKeepsBooks | `SystemSpec => [](IssuedInFull /\ AnswerMatchesTables /\ TotalMatchesLines /\ SoldCoversTickets)` |
| StatsTheorems!FiguresStayInRange | `StatsSpec => []FiguresInRange` |
| ScanningTheorems!RoundTrip | `Unpack(Pack(t)) = Carried(t)`, and it does not throw |
| ScanningTheorems!PackInjective | `Pack(t) = Pack(u) => Carried(t) = Carried(u)` |
| ScanningTheorems!ScanningTypes | `ScanningSpec => []ScanningTypeOK` |
| ScanningTheorems!OneIndexDecides | `ScanningSpec => []CodeIndexSuffices` |
| ScanningTheorems!QrLeadsHome | `ScanningSpec => []QrFindsItsTicket` |
| ScanningTheorems!NoOtherTicket | `ScanningSpec => []FoundAsRead` |
| AccessTheorems!AccessTypes | `AccessSpec => []AccessTypeOK` |
| AccessTheorems!OneAccountEach | `AccessSpec => []OneAccount` |
| AccessTheorems!TokensAreBacked | `AccessSpec => []TokensBacked` |
| AccessTheorems!OthersAreLeftAlone | `AccessSpec => OwnersOnly` |
| AccessTheorems!SpentTokens | `AccessSpec => NobodyPairsLater` |

Assumptions: `CartAssumption`, `EventDtoAssumption`, `TicketTypeDtoAssumption`,
`FieldAssumption` (what class-validator lets through), `MaxIntAssumption`,
`MaxTimeAssumption`, `TimeAssumption` (clocks count in Nat), `WidthAssumption`
and `OrderItemAssumption` (fields have a width, lines have quantities and hashes
of it), `SpellingAssumption` (different uuids have different texts).

*Types.* TypeOK is not inductive: that a ticket carries answers of its request
needs `LinesOfCart`, that the lines stored, and those the handler read back, are
lines of the request. `MatchedAnswersType` shows that the last line of a type
exists, by well-foundedness of `<` on the distance to the end.

*Stock.* `SerialSales` names the conditions: one handler in progress, one line
per type, no PATCH of quantities. `SerialInv` then follows the room that the
stock check found: first for the lines of the request, from the moment they are
read back for the increments still pending. An increment takes the room of its
own line and of no other, as the others are of other types; an organizer's edit
takes none, as it neither sells nor creates a type an order could name
(`KnownTypes`: nobody names a uuid that is yet to be generated).

*Issuance.* IssuedInFull speaks of finished orders only. `ProgressOf(r)` says,
for each statement a handler may be at, which of its rows exist: tickets only
once it is over, returned or thrown after its last statement, and then with
every line stored and no increment under way; `RowsAgree`
says that rows of one order agree with the request and that a ticket has its
line. The step lemmas split by action; `OwnStep` disposes of all other requests
at once. ReferencesResolve has to be carried along: a deletion takes an order's
lines and tickets because they refer to it, and takes only those tickets
because a ticket's event is its order's. Deleting an event never strands a
ticket of its types although the guard of the deletion looks at lines only,
because a ticket is of the type of its line.

*Sums.* Totals and revenue are `SumFunction` of the community modules, a fold
over a set, which no backend computes. TableTheorems proves what is needed of it
from its definition: the recursive CHOOSE has a value on every finite set
(`SumExists`) and only one (`SumUnique`), hence the law for one element more
(`SumStep`), and by induction over the subsets of a finite set that any element
may be taken out first (`SumRemove`), that renaming the indices changes nothing
(`SumBijection`) and that more naturals sum to more (`SumMonotone`). Induction
is stated with a set of good subsets instead of a predicate, and proved from the
well-foundedness of `<`, as a lemma with an operator parameter cannot be used.

*Totals.* An order and its lines are inserted by two statements from one quote of
prices: `PricedOf` says that in between the total is that of the request at that
quote, and a bijection from the positions of the request to the keys of its
lines carries the sum over. Afterwards neither the lines nor the total change,
except that all of them go.

*Sold.* A unit of a line counts once the line's increment has run (`CountedOf`),
and `sold` is the number of units counted of all requests (`SoldOf`). The units
of one line are as many as its quantity (`UnitsOfLine`), so an increment adds to
`sold` what it adds to the units. A ticket is a unit that was counted, since the
INSERT of tickets waits for every increment: so `sold` covers the tickets. A
handler that failed counts the units it has tickets for (`Counts`: all, if only
its last answer was lost, otherwise none) and leaves what it added to `sold`: from
then on that is an upper bound, without failures it is exact. For it to be
the number of *tickets* then, the tickets of every request that returned must
still be there. They are where events are not deleted (`NoRemoval`), and in every
state in which the orders are (`OrdersKept`). Without that it is false: an order
may name a tier of another event (section 5), and deleting the order's event
takes its tickets while the tier stays, `sold` and all (with SoldIsTickets as an
invariant of EventlyRemove, TLC finds it in fifteen states).

*Refinement.* `SystemInv` adds `EntriesAgree`: an entry's request has finished,
its ticket exists and is of its event. So a check-in records an entry that is
new (Admit), a cancel or refund annuls, `CreateTickets` only adds tickets
(the order had none, by Progress), and a deleted event takes with its tickets
exactly their entries (Withdraw). The door's steps leave everything
`IssuanceInv` speaks of alone (`DoorFrame`).

*Races for a ticket.* OneWinner and AnswerIsFinal speak of tickets that may be
gone, and must not come back: a ticket is inserted by the step that ends its
order's handler, and an order's handler ends once (`OverStays`). `RaceInv` then
says that each request at the door holds one ticket (`OneEach`; a code names one
ticket of an event, by the unique index), that whoever won left the ticket as it
wanted it (`ScanKept`, `EditKept`) and that what an edit read afterwards is what
the ticket still is (`AnswerKept`). Whoever takes a ticket finds it ISSUED
(`Taken`), which nobody who won it before can have left.

*Entries.* `EntriesInv` is the abstract OneEntryPerUsedTicket told of the rows: a
check-in finds its ticket ISSUED, so no entry was recorded for it; a cancel or
refund does too, so it takes no entry's ticket.

*Figures.* FiguresInRange compares counts with the tables of now and of the
moment of the request. While an event is there, no step takes a ticket, an entry
or a line of a paid order from it (`RowsKept`), whatever is deleted besides, and a
line keeps its price and quantity; so each figure only grows (`FiguresGrow`). The
strengthening is that the figures at the start are below those of now
(`SinceStart`), for a query yet to run, and that the uuid of an event asked for is
never given to a new one (`KeysUsed`), for a deleted event. There are no more
entries than tickets, as an entry's ticket is of its event and no other entry has
it (an injection).

*Bytes.* `Pack` is a concatenation; the first lemmas of ScanningTheorems say where
each field begins and that SubSeq between two beginnings is the field. The version,
index and code come before anything of variable length, the event next, and the
rest has a fixed width, so the length of the buffer fits one reading only.
`PackInjective` follows from `RoundTrip`.

*Scanning.* `Signed` says that a row's payload is packed of its line, its code
and its index, and `OnePerSignature` that rows with one signature are one row.
Two tickets of an event have different codes, hence different payloads, hence
different signatures: so the index on codes decides (OneIndexDecides), although
indexes wrap and hashes collide. A printed code is that of a ticket, or its
event is gone for good (`Printed`), and a request carries a signature that was
printed (`Carrying`): so a ticket issued after a scan is not one the scan should
have found, and a signature that verifies is of the bytes that were read.

*Access.* `Accounts` ties a row to its registration, which succeeded, or failed
by losing its answer; `KeysSpent`
says that the uuid of a row, or one that a request or token still names, is not
given to a new row, under another owner say; `Guarded` that a request past its
guard is of the owner of its event, if that still exists; `Paired` and
`LoggedIn` follow a pairing from its request, answered or not, to the session and
to the token. A
session goes only with its event, and `used` never falls.

Every safety property that a passing run checks is proved, NotOversold under
`SerialSales` and SoldIsTickets under the condition above. Only model-checked: the
liveness properties HandlersEnd and DoorHandlersEnd, as liveness under fairness
is out of the prover's reach.

## 5. Where code and documentation part

Each is a run in which TLC finds the behaviour.

* **OversellRace**: two orders pass the check of orders.service.ts:60 before
  either increments `sold`.
* **ForeignTier**: ticket types are looked up by id alone, so an order may take
  tickets of another event's tier.
* **AnswersOfLastLine**: with two lines of one type the first line's tickets get
  the second line's answers.
* **PaidWithoutTickets**: PAID is committed before tickets exist and nothing
  issues them later.
* **LateEntry**: an entry commits after the event was cancelled, because the
  transaction looks at the ticket only.
* **PairedTwice**: two scanners that log in together with one pairing token both
  get an access token, because `used` is read and set by two statements.
  NobodyPairsLater is what remains true: after an answer, nobody else pairs.

Seen while modelling, and not runs of their own:

* no handler reads `Event.capacity`, documented with "0 means unlimited"
  (create-event.dto.ts:56);
* `find` takes the first line of a type (orders.service.ts:56-59), so an order
  with two lines of one type is checked for the first only, and oversells even
  when served alone: hence the condition of `SerialSales`, and requests with one
  line per type in the runs of NotOversold (on the constants of
  AnswersOfLastLine.cfg, where requests have two, TLC finds NotOversold violated
  after eleven states);
* a comment on the expiry check of a pairing token says "FIXME: Its not working"
  (auth.service.ts:134). The check is modelled as it is written, `new Date() >
  existing.expiresAt`, with one clock that dates the session and is compared with
  it, and there it works: a token read after its expiry is refused. What the
  comment refers to does not show in the source;
* a buyer whose tickets were stored, but for whom the last answer was lost, is
  told that the order failed, and an organizer in that case that registration
  did; a retry makes a second order, or answers that the address is taken
  (orders.service.ts:141, auth.service.ts:39);
* decompress() is called the inverse of compress() (ticket-signing.service.ts:126),
  and is one up to the index modulo 256: `quantity` has no upper bound in
  create-order.dto.ts:33-36 (`Carried` is what comes back);
* `DELETE .../ticket-types/:id?force=true` of a type with sales is refused by
  the foreign key of its order lines (ticket-types.service.ts:70-76), so `force`
  only helps after an order failed between increments and lines; likewise no
  event with order lines of its own types can be deleted;
* payment method OTHER is a valid value answered 400 (orders.service.ts:30)
  where README.md:25 says "any other method";
* an order of a deleted event leaves a tier of another event that it named with
  units sold and no tickets (events.service.ts:90; *Sold* in section 4);
* TicketTypeOwnershipGuard is used by no route.

## 6. Not modelled

* The primitives: Ed25519, bcrypt, JWT signing and expiry of access tokens, the
  random draw of codes (any code may be drawn), and reading the keys at start-up.
* The reads that change nothing and decide nothing: listings, findOne, login,
  me, scanner, verifySignature and the public lookups by code.
* Stripe: `createStripe()` and the webhook are stubs; Orders models that a card
  order stops at PENDING.
* The application shell: wiring, CORS, the OpenAPI document.
* Formats of strings in request bodies, beyond the bounds the handlers rely on.
