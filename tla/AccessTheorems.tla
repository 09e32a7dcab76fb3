--------------------------- MODULE AccessTheorems ---------------------------
(***************************************************************************)
(* Access, for every set of organizers, events, scanners and requests.     *)
(*                                                                         *)
(* What a request or a token knows of an event stays true because uuids    *)
(* are never used again (KeysSpent) and an event never changes owner: the  *)
(* other parts of AccessInv say what each has seen, for an event that is   *)
(* still there.                                                            *)
(***************************************************************************)
EXTENDS Access, TableTheorems

(* An organizer has the address its registration carried.                  *)
Accounts ==
  /\ \A a \in DOMAIN organizer : organizer[a].email = email[a]
  /\ OneAccount

(* A uuid that is in use, or that a request or a token still names, is not *)
(* given to another row.                                                   *)
KeysSpent ==
  /\ DOMAIN event \cap fresh = {}
  /\ DOMAIN ticketType \cap fresh = {}
  /\ \A q \in RequestId : eventId[q] \cap fresh = {}
  /\ \A p \in PairingId : pairPc[p] = "scannerSession.create" =>
       \A x \in pairing[p] : x.event \notin fresh
  /\ \A l \in LoginId : \A k \in existing[l] : k.eventId \notin fresh

(* A request past the guard is one of the owner.                           *)
Guarded ==
  \A q \in RequestId : editPc[q] = "handler" =>
    \A e \in eventId[q] \cap DOMAIN event : caller[q] = {owner[e]}

(* A session is one of the owner of its event, and so is one to be made.   *)
Paired ==
  /\ \A p \in PairingId : pairPc[p] = "scannerSession.create" =>
       \A x \in pairing[p] : x.event \in DOMAIN event => owner[x.event] = x.organizer
  /\ \A p \in DOMAIN scannerSession :
       /\ pairPc[p] \in {"done", "failed"}
       /\ scannerSession[p].organizer = owner[scannerSession[p].event]

(* The session a scanner-login request read is there as long as its event, *)
(* and is spent once the request is answered with a token.                 *)
LoggedIn ==
  \A l \in LoginId :
    /\ accessToken[l] \subseteq existing[l]
    /\ accessToken[l] # {} => loginPc[l] = "done"
    /\ \A k, m \in existing[l] : k = m
    /\ \A k \in existing[l] :
         /\ pairPc[k.sub] = "done"
         /\ k.eventId \in DOMAIN event =>
              /\ k.sub \in DOMAIN scannerSession
              /\ scannerSession[k.sub].event = k.eventId
         /\ loginPc[l] = "done" /\ k.sub \in DOMAIN scannerSession =>
              scannerSession[k.sub].used

AccessInv == AccessTypeOK /\ Accounts /\ KeysSpent /\ Guarded /\ Paired /\ LoggedIn

(* Nothing is there before the first request.                              *)
LEMMA AccessInv_Init == AccessInit => AccessInv
<1> SUFFICES ASSUME AccessInit PROVE AccessInv
  OBVIOUS
<1>1. AccessTypeOK
  BY EmptyTable, InitTypeOK, TimeAssumption
  DEF AccessInit, AuthInit, CatalogInit, AccessTypeOK, AuthTypeOK, CatalogTypeOK,
      DatabaseInit, RegStage, PairStage, LoginStage
<1> QED
  BY <1>1 DEF AccessInit, AuthInit, DatabaseInit, AccessInv, Accounts, OneAccount,
              KeysSpent, Guarded, Paired, LoggedIn

-----------------------------------------------------------------------------
(* AuthService leaves the catalogue alone.                                 *)
LEMMA AuthFrame ==
  ASSUME AccessTypeOK, UNCHANGED <<tables, removing, requestVars>>
  PROVE  /\ DatabaseTypeOK' /\ CatalogTypeOK'
         /\ caller' \in [RequestId -> SUBSET AccountId]
         /\ eventId' \in [RequestId -> SUBSET EventId]
         /\ editPc' \in [RequestId -> {"idle", "handler", "done", "refused"}]
         /\ event' = event /\ ticketType' = ticketType /\ fresh' = fresh
         /\ caller' = caller /\ eventId' = eventId /\ editPc' = editPc
  BY DEF AccessTypeOK, DatabaseTypeOK, CatalogTypeOK, IsTable, tables, requestVars

(* A registration, up to its INSERT, is refused while its address is taken. *)
LEMMA Register_Step ==
  ASSUME AccessInv, UNCHANGED <<tables, removing, requestVars>>,
         NEW a \in AccountId, FindEmail(a) \/ CreateOrganizer(a)
  PROVE  AccessInv'
<1> USE DEF AccessInv
<1>1. /\ UNCHANGED <<now, owner, email, scannerSession, pairPc, pairing, loginPc,
                     existing, accessToken>>
      /\ regPc' \in [AccountId -> RegStage]
  BY DEF FindEmail, CreateOrganizer, sessionVars, AccessTypeOK, AuthTypeOK, RegStage
<1>2. IsTable(organizer', AccountId, OrganizerRow) /\ DOMAIN organizer \subseteq DOMAIN organizer'
  <2>1. CASE FindEmail(a)
    BY <2>1 DEF FindEmail, AccessTypeOK, AuthTypeOK
  <2>2. CASE CreateOrganizer(a)
    <3> DEFINE row == [email |-> email[a]]
    <3>1. row \in OrganizerRow /\ IsTable(organizer, AccountId, OrganizerRow)
      BY DEF AccessTypeOK, AuthTypeOK, OrganizerRow
    <3>2. organizer' = organizer \/ organizer' = Insert(organizer, Row(a, row))
      BY <2>2 DEF CreateOrganizer
    <3>3. IsTable(Insert(organizer, Row(a, row)), AccountId, OrganizerRow)
          /\ DOMAIN Insert(organizer, Row(a, row)) = DOMAIN organizer \cup {a}
      <4> HIDE DEF row, AccessInv
      <4> QED
        BY <3>1 DEF IsTable, Insert, Row
    <3> QED
      BY <3>1, <3>2, <3>3
  <2> QED
    BY <2>1, <2>2
<1>3. Accounts'
  <2>1. CASE FindEmail(a)
    BY <2>1 DEF FindEmail, Accounts, OneAccount, EmailTaken, AccessTypeOK, AuthTypeOK,
                IsTable
  <2>2. CASE /\ regPc[a] = "organizer.create" /\ regPc' = [regPc EXCEPT ![a] = "failed"]
             /\ UNCHANGED <<organizer, email>>
    BY <2>2 DEF Accounts, OneAccount, EmailTaken, AccessTypeOK, AuthTypeOK, IsTable
  <2>3. CASE /\ regPc[a] = "organizer.create" /\ email' = email
             /\ EmailUnique(a)
             /\ organizer' = Insert(organizer, Row(a, [email |-> email[a]]))
             /\ \/ regPc' = [regPc EXCEPT ![a] = "done"]
                \/ MayAbort /\ regPc' = [regPc EXCEPT ![a] = "failed"]
    <3>1. /\ DOMAIN organizer' = DOMAIN organizer \cup {a}
          /\ organizer'[a].email = email[a]
          /\ \A b \in DOMAIN organizer \ {a} : organizer'[b] = organizer[b]
      BY <2>3 DEF Insert, Row
    <3>2. \A b \in DOMAIN organizer : organizer[b].email # email[a]
      BY <2>3 DEF EmailUnique, EmailTaken
    <3>3. /\ a \notin DOMAIN organizer
          /\ \A b \in AccountId \ {a} : regPc'[b] = regPc[b]
          /\ regPc'[a] = "done" \/ (MayAbort /\ regPc'[a] = "failed")
      BY <2>3 DEF Accounts, OneAccount, AccessTypeOK, AuthTypeOK
    <3> QED
      BY <2>3, <3>1, <3>2, <3>3 DEF Accounts, OneAccount, EmailTaken
  <2> QED
    BY <2>1, <2>2, <2>3 DEF CreateOrganizer
<1>4. AccessTypeOK'
  BY <1>1, <1>2, AuthFrame DEF AccessTypeOK, AuthTypeOK
<1> QED
  BY <1>1, <1>3, <1>4, AuthFrame DEF KeysSpent, Guarded, Paired, LoggedIn

(* A pairing is made for the owner of an event, and only while the event   *)
(* is there.                                                               *)
LEMMA CreateScanner_Step ==
  ASSUME AccessInv, UNCHANGED <<tables, removing, requestVars>>,
         NEW p \in PairingId, NEW o \in AccountId, NEW e \in EventId,
         FindOwnEvent(p, o, e) \/ CreateSession(p, o, e)
  PROVE  AccessInv'
<1> USE DEF AccessInv
<1>1. /\ UNCHANGED <<now, owner, organizer, email, regPc, loginPc, existing, accessToken>>
      /\ pairPc' \in [PairingId -> PairStage]
      /\ pairing' \in [PairingId -> SUBSET [organizer : AccountId, event : EventId]]
  BY DEF FindOwnEvent, CreateSession, accountVars, AccessTypeOK, AuthTypeOK, PairStage
<1>2. CASE FindOwnEvent(p, o, e)
  <2>1. /\ pairPc[p] = "idle"
        /\ pairing' = [pairing EXCEPT ![p] = {[organizer |-> o, event |-> e]}]
        /\ \A j \in PairingId \ {p} : pairPc'[j] = pairPc[j] /\ pairing'[j] = pairing[j]
        /\ pairPc'[p] = "scannerSession.create" => OwnEvent(e, o)
        /\ scannerSession' = scannerSession
    BY <1>2 DEF FindOwnEvent, AccessTypeOK, AuthTypeOK
  <2>2. AccessTypeOK' /\ Accounts'
    BY <1>1, <2>1, AuthFrame DEF AccessTypeOK, AuthTypeOK, Accounts, OneAccount, EmailTaken
  <2>3. KeysSpent'
    BY <1>1, <2>1, AuthFrame DEF KeysSpent, OwnEvent, AccessTypeOK, AuthTypeOK
  <2>4. Paired'
    BY <1>1, <2>1, AuthFrame DEF Paired, OwnEvent, AccessTypeOK, AuthTypeOK, IsTable
  <2>5. LoggedIn'
    BY <1>1, <2>1, AuthFrame DEF LoggedIn, AccessTypeOK, AuthTypeOK,
                                 JwtScannerSessionPayload
  <2> QED
    BY <1>1, <2>2, <2>3, <2>4, <2>5, AuthFrame DEF Guarded
<1>3. CASE /\ CreateSession(p, o, e) /\ UNCHANGED scannerSession
           /\ pairPc' = [pairPc EXCEPT ![p] = "failed"]
  <2>1. pairPc' = [pairPc EXCEPT ![p] = "failed"] /\ UNCHANGED <<scannerSession, pairing>>
        /\ pairPc[p] = "scannerSession.create"
    BY <1>3 DEF CreateSession
  <2>2. AccessTypeOK' /\ Accounts' /\ KeysSpent'
    BY <1>1, <2>1, AuthFrame
    DEF AccessTypeOK, AuthTypeOK, Accounts, OneAccount, EmailTaken, KeysSpent
  <2>3. Paired'
    BY <1>1, <2>1, AuthFrame DEF Paired, AccessTypeOK, AuthTypeOK, IsTable
  <2>4. LoggedIn'
    BY <1>1, <2>1, AuthFrame DEF LoggedIn, AccessTypeOK, AuthTypeOK,
                                 JwtScannerSessionPayload
  <2> QED
    BY <1>1, <2>2, <2>3, <2>4, AuthFrame DEF Guarded
<1>4. CASE /\ CreateSession(p, o, e) /\ e \in DOMAIN event
           /\ scannerSession' = Insert(scannerSession,
                Row(p, [event |-> e, organizer |-> o,
                        expiresAt |-> now + PairingLife, used |-> FALSE]))
           /\ \E outcome \in {"done", "failed"} : pairPc' = [pairPc EXCEPT ![p] = outcome]
  <2> DEFINE row == [event |-> e, organizer |-> o, expiresAt |-> now + PairingLife,
                     used |-> FALSE]
  <2>1. /\ pairPc[p] = "scannerSession.create"
        /\ [organizer |-> o, event |-> e] \in pairing[p]
        /\ \E outcome \in {"done", "failed"} : pairPc' = [pairPc EXCEPT ![p] = outcome]
        /\ pairing' = pairing
        /\ scannerSession' = Insert(scannerSession, Row(p, row))
    BY <1>4 DEF CreateSession
  <2>2. p \notin DOMAIN scannerSession /\ owner[e] = o
    BY <1>4, <2>1 DEF Paired
  <2>3. row \in SessionRow
    BY TimeAssumption DEF SessionRow, AccessTypeOK, AuthTypeOK
  <2>4. /\ IsTable(scannerSession', PairingId, SessionRow)
        /\ DOMAIN scannerSession' = DOMAIN scannerSession \cup {p}
        /\ scannerSession'[p] = row
        /\ \A j \in DOMAIN scannerSession : scannerSession'[j] = scannerSession[j]
    <3>1. IsTable(scannerSession, PairingId, SessionRow)
      BY DEF AccessTypeOK, AuthTypeOK
    <3> DEFINE new == Insert(scannerSession, Row(p, row))
    <3>2. /\ IsTable(new, PairingId, SessionRow)
          /\ DOMAIN new = DOMAIN scannerSession \cup {p}
          /\ new[p] = row
          /\ \A j \in DOMAIN scannerSession \ {p} : new[j] = scannerSession[j]
      <4> HIDE DEF row, AccessInv
      <4> QED
        BY <2>3, <3>1 DEF IsTable, Insert, Row
    <3> HIDE DEF new
    <3>3. scannerSession' = new
      BY <2>1 DEF new
    <3> QED
      BY <2>2, <3>2, <3>3
  <2> HIDE DEF row
  <2>5. row.event = e /\ row.organizer = o
    BY DEF row
  <2>6. AccessTypeOK' /\ Accounts' /\ KeysSpent'
    <3>1. AccessTypeOK'
      BY <1>1, <1>4, <2>1, <2>4, <2>5, AuthFrame DEF AccessTypeOK, AuthTypeOK
    <3>2. Accounts'
      BY <1>1 DEF Accounts, OneAccount, EmailTaken
    <3>3. KeysSpent'
      BY <1>1, <2>1, AuthFrame DEF KeysSpent, AccessTypeOK, AuthTypeOK
    <3> QED
      BY <3>1, <3>2, <3>3
  <2>7. Paired'
    BY <1>1, <2>1, <2>2, <2>4, <2>5, AuthFrame DEF Paired, AccessTypeOK, AuthTypeOK, IsTable
  <2>8. LoggedIn'
    <3>1. \A l \in LoginId : \A k \in existing[l] : k.sub \in PairingId /\ k.sub # p
      BY <2>1 DEF LoggedIn, AccessTypeOK, AuthTypeOK, JwtScannerSessionPayload
    <3> QED
      BY <1>1, <2>1, <2>4, <3>1, AuthFrame DEF LoggedIn, AccessTypeOK, AuthTypeOK
  <2> QED
    BY <1>1, <2>6, <2>7, <2>8, AuthFrame DEF Guarded
<1> QED
  BY <1>2, <1>3, <1>4 DEF CreateSession

(* A scanner that logs in reads a session that is not spent, and spends it. *)
LEMMA ScannerLogin_Step ==
  ASSUME AccessInv, UNCHANGED <<tables, removing, requestVars>>,
         NEW l \in LoginId,
         \/ \E p \in PairingId : FindSession(l, p)
         \/ \E k \in existing[l] : UseSession(l, k)
  PROVE  AccessInv'
<1> USE DEF AccessInv
<1>1. UNCHANGED <<now, owner, organizer, email, regPc, pairPc, pairing>>
  BY DEF FindSession, UseSession, accountVars
<1>2. ASSUME NEW p \in PairingId, FindSession(l, p)
      PROVE  AccessInv'
  <2> DEFINE k == [sub |-> p, eventId |-> scannerSession[p].event]
  <2>1. /\ loginPc[l] = "idle" /\ accessToken[l] = {}
        /\ UNCHANGED <<scannerSession, accessToken>>
        /\ \A m \in LoginId \ {l} : loginPc'[m] = loginPc[m] /\ existing'[m] = existing[m]
        /\ loginPc'[l] \in {"scannerSession.update", "refused"}
        /\ \/ existing'[l] = existing[l]
           \/ existing'[l] = {k} /\ p \in DOMAIN scannerSession /\ pairPc[p] = "done"
    BY <1>2 DEF FindSession, LoggedIn, AccessTypeOK, AuthTypeOK
  <2>2. p \in DOMAIN scannerSession =>
          /\ k \in JwtScannerSessionPayload /\ k.sub = p
          /\ k.eventId = scannerSession[p].event /\ k.eventId \in DOMAIN event
    BY DEF AccessTypeOK, AuthTypeOK, IsTable, SessionRow, JwtScannerSessionPayload, Paired
  <2>3. loginPc' \in [LoginId -> LoginStage]
        /\ existing' \in [LoginId -> SUBSET JwtScannerSessionPayload]
    BY <1>2, <2>2 DEF FindSession, AccessTypeOK, AuthTypeOK, LoginStage
  <2> HIDE DEF k
  <2>4. AccessTypeOK' /\ Accounts'
    BY <1>1, <2>1, <2>3, AuthFrame DEF AccessTypeOK, AuthTypeOK, Accounts, OneAccount, EmailTaken
  <2>5. KeysSpent'
    BY <1>1, <2>1, <2>2, AuthFrame DEF KeysSpent
  <2>6. LoggedIn'
    BY <1>1, <2>1, <2>2, AuthFrame DEF LoggedIn
  <2> QED
    BY <1>1, <2>1, <2>4, <2>5, <2>6, AuthFrame DEF Guarded, Paired
<1>3. ASSUME NEW k \in existing[l], UseSession(l, k)
      PROVE  AccessInv'
  <2>1. /\ loginPc[l] = "scannerSession.update"
        /\ existing' = existing
        /\ \A m \in LoginId \ {l} : loginPc'[m] = loginPc[m] /\ accessToken'[m] = accessToken[m]
        /\ accessToken'[l] \in {accessToken[l], {k}}
        /\ loginPc'[l] \in {"done", "failed"}
        /\ accessToken'[l] # {} => loginPc'[l] = "done"
        /\ loginPc'[l] = "done" => k.sub \in DOMAIN scannerSession
    BY <1>3 DEF UseSession, LoggedIn, AccessTypeOK, AuthTypeOK
  <2>2. /\ DOMAIN scannerSession' = DOMAIN scannerSession
        /\ \A p \in DOMAIN scannerSession :
             /\ scannerSession'[p].event = scannerSession[p].event
             /\ scannerSession'[p].organizer = scannerSession[p].organizer
             /\ scannerSession[p].used => scannerSession'[p].used
        /\ loginPc'[l] = "done" => scannerSession'[k.sub].used
        /\ IsTable(scannerSession', PairingId, SessionRow)
    <3>1. CASE UNCHANGED scannerSession /\ loginPc'[l] # "done"
      BY <3>1 DEF AccessTypeOK, AuthTypeOK
    <3>2. CASE /\ k.sub \in DOMAIN scannerSession
               /\ scannerSession' = [scannerSession EXCEPT ![k.sub].used = TRUE]
      <4>1. /\ scannerSession \in [DOMAIN scannerSession -> SessionRow]
            /\ scannerSession' = [scannerSession EXCEPT ![k.sub].used = TRUE]
        BY <3>2 DEF AccessTypeOK, AuthTypeOK, IsTable
      <4>2. [scannerSession[k.sub] EXCEPT !.used = TRUE] \in SessionRow
        BY <3>2, <4>1 DEF SessionRow
      <4>3. scannerSession' \in [DOMAIN scannerSession -> SessionRow]
        BY <4>1, <4>2
      <4>4. IsTable(scannerSession', PairingId, SessionRow)
        BY <4>1, <4>3 DEF AccessTypeOK, AuthTypeOK, IsTable
      <4> QED
        BY <3>2, <4>1, <4>4 DEF SessionRow
    <3> QED
      BY <1>3, <3>1, <3>2 DEF UseSession, AccessTypeOK, AuthTypeOK
  <2>3. /\ loginPc' \in [LoginId -> LoginStage]
        /\ accessToken' \in [LoginId -> SUBSET JwtScannerSessionPayload]
        /\ \A p \in DOMAIN scannerSession' : scannerSession'[p].event \in DOMAIN event
    BY <1>3, <2>2 DEF UseSession, AccessTypeOK, AuthTypeOK, LoginStage
  <2>4. AccessTypeOK' /\ Accounts' /\ KeysSpent'
    BY <1>1, <2>1, <2>2, <2>3, AuthFrame
    DEF AccessTypeOK, AuthTypeOK, Accounts, OneAccount, EmailTaken, KeysSpent
  <2>5. LoggedIn'
    BY <1>1, <2>1, <2>2, AuthFrame DEF LoggedIn
  <2> QED
    BY <1>1, <2>2, <2>4, <2>5, AuthFrame DEF Guarded, Paired
<1> QED
  BY <1>2, <1>3

(* A tick of the clock concerns nothing that was recorded.                 *)
LEMMA Tick_Step ==
  ASSUME AccessInv, UNCHANGED <<tables, removing, requestVars>>, Tick
  PROVE  AccessInv'
<1> USE DEF AccessInv
<1>1. /\ now' \in 0 .. MaxTime
      /\ UNCHANGED <<owner, organizer, email, regPc, scannerSession, pairPc, pairing,
                     loginPc, existing, accessToken>>
  BY TimeAssumption DEF Tick, accountVars, sessionVars, AccessTypeOK, AuthTypeOK
<1>2. AccessTypeOK'
  BY <1>1, AuthFrame DEF AccessTypeOK, AuthTypeOK, IsTable
<1> QED
  BY <1>1, <1>2, AuthFrame
  DEF Accounts, OneAccount, EmailTaken, KeysSpent, Guarded, Paired, LoggedIn

-----------------------------------------------------------------------------
(* EventOwnershipGuard lets the owner of an event through.                 *)
LEMMA GuardEvent_Step ==
  ASSUME AccessInv, NEW q \in RequestId, NEW o \in AccountId, NEW e \in EventId,
         GuardEvent(q, o, e)
  PROVE  AccessInv'
<1> USE DEF AccessInv
<1>1. /\ UNCHANGED <<tables, removing>> /\ UNCHANGED authVars
      /\ caller' \in [RequestId -> SUBSET AccountId]
      /\ eventId' \in [RequestId -> SUBSET EventId]
      /\ editPc' \in [RequestId -> {"idle", "handler", "done", "refused"}]
  BY DEF GuardEvent, AccessTypeOK
<1>2. /\ \A r \in RequestId \ {q} :
           caller'[r] = caller[r] /\ eventId'[r] = eventId[r] /\ editPc'[r] = editPc[r]
      /\ editPc'[q] = "handler" => caller'[q] = {o} /\ eventId'[q] = {e}
      /\ editPc'[q] = "handler" => e \in DOMAIN event /\ owner[e] = o
      /\ editPc'[q] # "handler" => eventId'[q] = eventId[q]
  BY DEF GuardEvent, Owns, AccessTypeOK
<1>3. DatabaseTypeOK' /\ CatalogTypeOK' /\ AuthTypeOK'
  BY <1>1 DEF AccessTypeOK, DatabaseTypeOK, CatalogTypeOK, AuthTypeOK, IsTable, tables,
              authVars, accountVars, sessionVars
<1>4. KeysSpent'
  BY <1>1, <1>2 DEF KeysSpent, tables, authVars, sessionVars
<1>5. Guarded'
  BY <1>1, <1>2 DEF Guarded, tables, authVars
<1>6. Accounts' /\ Paired' /\ LoggedIn'
  BY <1>1 DEF Accounts, OneAccount, EmailTaken, Paired, LoggedIn, tables, authVars, accountVars,
              sessionVars
<1> QED
  BY <1>1, <1>3, <1>4, <1>5, <1>6 DEF AccessTypeOK

(* A new event has a uuid of its own and belongs to its maker.             *)
LEMMA Create_Step ==
  ASSUME AccessInv, NEW q \in RequestId, NEW o \in AccountId, Create(q, o)
  PROVE  AccessInv'
<1> USE DEF AccessInv
<1>1. PICK e \in EventId, dto \in EventDto :
        CreateEvent(e, dto) /\ owner' = Insert(owner, Row(e, o))
  BY DEF Create
<1>2. /\ e \in fresh /\ fresh' = fresh \ {e}
      /\ DOMAIN event' = DOMAIN event \cup {e}
      /\ DOMAIN owner' = DOMAIN owner \cup {e}
      /\ owner'[e] = o
      /\ \A f \in DOMAIN owner \ {e} : owner'[f] = owner[f]
      /\ ticketType' = ticketType
  BY <1>1 DEF CreateEvent, Insert, Row
<1>3. /\ UNCHANGED <<now, organizer, email, regPc, scannerSession, pairPc, pairing,
                     loginPc, existing, accessToken, eventId>>
      /\ o \in DOMAIN organizer
      /\ caller' \in [RequestId -> SUBSET AccountId]
      /\ editPc' \in [RequestId -> {"idle", "handler", "done", "refused"}]
      /\ \A r \in RequestId : editPc'[r] = "handler" =>
           editPc[r] = "handler" /\ caller'[r] = caller[r]
  BY DEF Create, accountVars, sessionVars, AccessTypeOK
<1>4. DOMAIN owner = DOMAIN event /\ e \notin DOMAIN event
  BY <1>2 DEF AccessTypeOK, AuthTypeOK, KeysSpent
<1>5. DatabaseTypeOK' /\ CatalogTypeOK'
  BY <1>1, CatalogTypes DEF Create, CatalogNext, EventsNext, AccessTypeOK
<1>6. owner' \in [DOMAIN event' -> DOMAIN organizer']
  BY <1>1, <1>2, <1>3, <1>4 DEF Insert, Row, AccessTypeOK, AuthTypeOK
<1>7. AccessTypeOK'
  BY <1>2, <1>3, <1>5, <1>6 DEF AccessTypeOK, AuthTypeOK, IsTable
<1>8. Accounts' /\ KeysSpent'
  BY <1>2, <1>3 DEF Accounts, OneAccount, EmailTaken, KeysSpent
<1>9. Guarded' /\ Paired'
  BY <1>2, <1>3, <1>4 DEF Guarded, Paired, KeysSpent, AccessTypeOK, AuthTypeOK
<1>10. LoggedIn'
  BY <1>2, <1>3, <1>4 DEF LoggedIn, KeysSpent
<1> QED
  BY <1>7, <1>8, <1>9, <1>10

(* What the handler behind the guard does to its event, but for DELETE.    *)
Edit(e) ==
  \/ Publish(e) \/ CancelEvent(e)
  \/ \E dto \in EventDto, fields \in SUBSET EventField : UpdateEvent(e, dto, fields)
  \/ \E t \in TicketTypeId, dto \in TicketTypeDto : CreateTicketType(t, e, dto)
  \/ \E t \in TicketTypeId, dto \in TicketTypeDto, fields \in SUBSET TicketTypeField :
       OfEvent(t, e) /\ UpdateTicketType(t, dto, fields)
  \/ UNCHANGED <<tables, removing>>

(* A handler edits or removes the event of its path, and nothing else.     *)
LEMMA Handled ==
  ASSUME AccessTypeOK, NEW q \in RequestId, NEW e \in EventId, Handle(q, e)
  PROVE  /\ e \in eventId[q] /\ editPc[q] = "handler" /\ editPc'[q] = "done"
         /\ UNCHANGED <<caller, eventId>>
         /\ editPc' \in [RequestId -> {"idle", "handler", "done", "refused"}]
         /\ \A r \in RequestId : editPc'[r] = "handler" => editPc[r] = "handler"
         /\ DatabaseTypeOK' /\ CatalogTypeOK'
         /\ \/ Edit(e) /\ UNCHANGED authVars
            \/ RemoveEvent(e) /\ DropSessions(e)
<1>1. /\ e \in eventId[q] /\ editPc[q] = "handler"
      /\ UNCHANGED <<caller, eventId>>
      /\ editPc' = [editPc EXCEPT ![q] = "done"]
      /\ \/ Edit(e) /\ UNCHANGED authVars
         \/ RemoveEvent(e) /\ DropSessions(e)
  BY DEF Handle, Edit
<1>2. CatalogNext \/ UNCHANGED <<tables, removing>>
  BY DEF Handle, CatalogNext, EventsNext, TicketTypesNext
<1>3. DatabaseTypeOK' /\ CatalogTypeOK'
  <2>1. CASE CatalogNext
    BY <2>1, CatalogTypes DEF AccessTypeOK
  <2>2. CASE UNCHANGED <<tables, removing>>
    BY <2>2 DEF AccessTypeOK, DatabaseTypeOK, CatalogTypeOK, IsTable, tables
  <2> QED
    BY <1>2, <2>1, <2>2
<1> QED
  BY <1>1, <1>3 DEF AccessTypeOK

(* An edit keeps events and the types of other events; a new type has a    *)
(* uuid of its own.                                                        *)
LEMMA EditKeeps ==
  ASSUME AccessTypeOK, KeysSpent, NEW e \in EventId, Edit(e)
  PROVE  /\ DOMAIN event' = DOMAIN event
         /\ fresh' \subseteq fresh
         /\ DOMAIN ticketType' \cap fresh' = {}
         /\ \A f \in DOMAIN event \ {e} :
              /\ event'[f] = event[f]
              /\ TypesOf(f)' = TypesOf(f)
              /\ \A t \in TypesOf(f) : ticketType'[t] = ticketType[t]
<1>1. CASE \/ Publish(e) \/ CancelEvent(e)
           \/ \E dto \in EventDto, fields \in SUBSET EventField : UpdateEvent(e, dto, fields)
  <2>1. /\ ticketType' = ticketType /\ fresh' = fresh
        /\ DOMAIN event' = DOMAIN event
        /\ \A f \in DOMAIN event \ {e} : event'[f] = event[f]
    BY <1>1 DEF Publish, CancelEvent, UpdateEvent
  <2>2. \A f : TypesOf(f)' = TypesOf(f)
    BY <2>1 DEF TypesOf
  <2>3. DOMAIN ticketType' \cap fresh' = {}
    BY <2>1 DEF KeysSpent
  <2> QED BY <2>1, <2>2, <2>3 DEF TypesOf
<1>2. ASSUME NEW t \in TicketTypeId, NEW dto \in TicketTypeDto, CreateTicketType(t, e, dto)
      PROVE  /\ event' = event /\ fresh' = fresh \ {t}
             /\ DOMAIN ticketType' \cap fresh' = {}
             /\ \A f \in DOMAIN event \ {e} :
                  /\ TypesOf(f)' = TypesOf(f)
                  /\ \A u \in TypesOf(f) : ticketType'[u] = ticketType[u]
  <2>1. /\ event' = event /\ fresh' = fresh \ {t} /\ t \notin DOMAIN ticketType
        /\ DOMAIN ticketType' = DOMAIN ticketType \cup {t}
        /\ ticketType'[t].event = e
        /\ \A u \in DOMAIN ticketType : ticketType'[u] = ticketType[u]
    BY <1>2 DEF CreateTicketType, Insert, Row, KeysSpent
  <2> QED
    BY <2>1 DEF TypesOf, KeysSpent
<1>3. ASSUME NEW t \in TicketTypeId, NEW dto \in TicketTypeDto,
             NEW fields \in SUBSET TicketTypeField,
             OfEvent(t, e), UpdateTicketType(t, dto, fields)
      PROVE  /\ event' = event /\ fresh' = fresh
             /\ DOMAIN ticketType' \cap fresh' = {}
             /\ \A f \in DOMAIN event \ {e} :
                  /\ TypesOf(f)' = TypesOf(f)
                  /\ \A u \in TypesOf(f) : ticketType'[u] = ticketType[u]
  <2>1. /\ event' = event /\ fresh' = fresh /\ ticketType[t].event = e
        /\ DOMAIN ticketType' = DOMAIN ticketType /\ t \in DOMAIN ticketType
        /\ \A u \in DOMAIN ticketType \ {t} : ticketType'[u] = ticketType[u]
    BY <1>3 DEF UpdateTicketType, OfEvent
  <2>2. ticketType'[t].event = e
    BY <1>3, <2>1 DEF UpdateTicketType, AccessTypeOK, DatabaseTypeOK, IsTable, TicketTypeRow
  <2> QED
    BY <2>1, <2>2 DEF TypesOf, KeysSpent
<1>4. CASE UNCHANGED <<tables, removing>>
  BY <1>4 DEF tables, KeysSpent, TypesOf
<1> QED
  BY <1>1, <1>2, <1>3, <1>4 DEF Edit

(* DELETE of an event takes its types and sessions with it, and no others. *)
LEMMA RemoveKeeps ==
  ASSUME AccessTypeOK, NEW e \in EventId, RemoveEvent(e), DropSessions(e)
  PROVE  /\ DOMAIN event' = DOMAIN event \ {e}
         /\ owner' \in [DOMAIN event' -> DOMAIN organizer]
         /\ fresh' = fresh
         /\ DOMAIN ticketType' \subseteq DOMAIN ticketType
         /\ \A f \in DOMAIN event \ {e} :
              /\ event'[f] = event[f]
              /\ owner'[f] = owner[f]
              /\ TypesOf(f)' = TypesOf(f)
              /\ \A t \in TypesOf(f) : ticketType'[t] = ticketType[t]
         /\ \A p \in DOMAIN scannerSession : p \in DOMAIN scannerSession' <=>
              scannerSession[p].event # e
         /\ DOMAIN scannerSession' \subseteq DOMAIN scannerSession
         /\ \A p \in DOMAIN scannerSession' : scannerSession'[p] = scannerSession[p]
<1>1. /\ event' = Delete(event, {e})
      /\ ticketType' = Delete(ticketType, TypesOf(e))
      /\ fresh' = fresh
  BY DEF RemoveEvent, DeleteEvent
<1>2. /\ owner' = Delete(owner, {e})
      /\ scannerSession' = Delete(scannerSession,
           {p \in DOMAIN scannerSession : scannerSession[p].event = e})
  BY DEF DropSessions
<1>3. owner \in [DOMAIN event -> DOMAIN organizer]
  BY DEF AccessTypeOK, AuthTypeOK
<1> QED
  BY <1>1, <1>2, <1>3 DEF Delete, Restrict, TypesOf

(* What a request behind the guard does, and forgets when its event goes.  *)
LEMMA Handle_Step ==
  ASSUME AccessInv, NEW q \in RequestId, NEW e \in EventId, Handle(q, e)
  PROVE  AccessInv'
<1> USE DEF AccessInv
<1>1. /\ UNCHANGED <<caller, eventId>>
      /\ editPc' \in [RequestId -> {"idle", "handler", "done", "refused"}]
      /\ \A r \in RequestId : editPc'[r] = "handler" => editPc[r] = "handler"
      /\ DatabaseTypeOK' /\ CatalogTypeOK'
      /\ \/ Edit(e) /\ UNCHANGED authVars
         \/ RemoveEvent(e) /\ DropSessions(e)
  BY Handled
<1>2. CASE Edit(e) /\ UNCHANGED authVars
  <2>1. /\ UNCHANGED <<now, owner, organizer, email, regPc, scannerSession, pairPc,
                       pairing, loginPc, existing, accessToken>>
        /\ DOMAIN event' = DOMAIN event /\ fresh' \subseteq fresh
        /\ DOMAIN ticketType' \cap fresh' = {}
    BY <1>2, EditKeeps DEF authVars, accountVars, sessionVars
  <2>2. AccessTypeOK'
    BY <1>1, <2>1 DEF AccessTypeOK, AuthTypeOK
  <2> QED
    BY <1>1, <2>1, <2>2 DEF Accounts, OneAccount, EmailTaken, KeysSpent, Guarded, Paired, LoggedIn
<1>3. CASE RemoveEvent(e) /\ DropSessions(e)
  <2>1. UNCHANGED <<now, organizer, email, regPc, pairPc, pairing, loginPc, existing,
                    accessToken>>
    BY <1>3 DEF DropSessions, accountVars
  <2>2. /\ DOMAIN event' = DOMAIN event \ {e}
        /\ owner' \in [DOMAIN event' -> DOMAIN organizer]
        /\ fresh' = fresh /\ DOMAIN ticketType' \subseteq DOMAIN ticketType
        /\ \A f \in DOMAIN event \ {e} : owner'[f] = owner[f]
        /\ \A p \in DOMAIN scannerSession : p \in DOMAIN scannerSession' <=>
             scannerSession[p].event # e
        /\ DOMAIN scannerSession' \subseteq DOMAIN scannerSession
        /\ \A p \in DOMAIN scannerSession' : scannerSession'[p] = scannerSession[p]
    BY <1>3, RemoveKeeps
  <2>3. IsTable(scannerSession', PairingId, SessionRow)
    BY <1>3, DeleteTable DEF DropSessions, AccessTypeOK, AuthTypeOK
  <2>4. AccessTypeOK'
    BY <1>1, <2>1, <2>2, <2>3 DEF AccessTypeOK, AuthTypeOK
  <2>5. Accounts' /\ KeysSpent' /\ Guarded'
    BY <1>1, <2>1, <2>2 DEF Accounts, OneAccount, EmailTaken, KeysSpent, Guarded
  <2>6. Paired'
    BY <2>1, <2>2 DEF Paired, AccessTypeOK, AuthTypeOK
  <2>7. LoggedIn'
    BY <2>1, <2>2 DEF LoggedIn
  <2> QED
    BY <2>4, <2>5, <2>6, <2>7
<1> QED
  BY <1>1, <1>2, <1>3

-----------------------------------------------------------------------------
(* AccessInv is inductive.                                                 *)
LEMMA AccessInv_Step == AccessInv /\ [AccessNext]_accessVars => AccessInv'
<1> SUFFICES ASSUME AccessInv, [AccessNext]_accessVars PROVE AccessInv'
  OBVIOUS
<1>1. CASE AuthNext /\ UNCHANGED <<tables, removing, requestVars>>
  BY <1>1, Tick_Step, Register_Step, CreateScanner_Step, ScannerLogin_Step DEF AuthNext
<1>2. CASE UNCHANGED accessVars
  BY <1>2 DEF accessVars, authVars, accountVars, sessionVars, requestVars, tables, AccessInv,
              AccessTypeOK, DatabaseTypeOK, CatalogTypeOK, AuthTypeOK, IsTable,
              Accounts, OneAccount, EmailTaken, KeysSpent, Guarded, Paired, LoggedIn
<1> QED
  BY <1>1, <1>2, Create_Step, GuardEvent_Step, Handle_Step DEF AccessNext

(* AccessInv holds in every reachable state.                               *)
LEMMA AccessInvariant == AccessSpec => []AccessInv
<1> QED
  BY AccessInv_Init, AccessInv_Step, PTL DEF AccessSpec

(* Accounts, sessions, tokens and requests keep their types.               *)
THEOREM AccessTypes == AccessSpec => []AccessTypeOK
<1>1. AccessInv => AccessTypeOK
  BY DEF AccessInv
<1> QED
  BY <1>1, AccessInvariant, PTL

(* An address has one organizer, however registrations race and whatever   *)
(* answers are lost: the one whose registration succeeded, or failed for   *)
(* want of nothing but its answer.                                         *)
THEOREM OneAccountEach == AccessSpec => []OneAccount
<1>1. AccessInv => OneAccount
  BY DEF AccessInv, Accounts
<1> QED
  BY <1>1, AccessInvariant, PTL

(* While its event exists, a scanner's token stands for a spent session of *)
(* that event, made for the event's owner.                                 *)
THEOREM TokensAreBacked == AccessSpec => []TokensBacked
<1>1. AccessInv => TokensBacked
  <2> SUFFICES ASSUME AccessInv, NEW l \in LoginId, NEW k \in accessToken[l],
                      k.eventId \in DOMAIN event
               PROVE  /\ k.sub \in DOMAIN scannerSession
                      /\ scannerSession[k.sub].used
                      /\ scannerSession[k.sub].event = k.eventId
                      /\ scannerSession[k.sub].organizer = owner[k.eventId]
    BY DEF TokensBacked
  <2>1. k \in existing[l] /\ loginPc[l] = "done"
    BY DEF AccessInv, LoggedIn
  <2>2. k.sub \in DOMAIN scannerSession /\ scannerSession[k.sub].event = k.eventId
    BY <2>1 DEF AccessInv, LoggedIn
  <2> QED
    BY <2>1, <2>2 DEF AccessInv, LoggedIn, Paired
<1> QED
  BY <1>1, AccessInvariant, PTL

(* No request changes an event, or the ticket types of an event, of an     *)
(* organizer other than its caller.                                        *)
THEOREM OthersAreLeftAlone == AccessSpec => OwnersOnly
<1>1. ASSUME AccessInv, [AccessNext]_accessVars, NEW e \in DOMAIN event,
             Dossier(e)' # Dossier(e)
      PROVE  \E q \in RequestId : editPc'[q] # editPc[q] /\ caller[q] = {owner[e]}
  <2>1. ~ (/\ e \in DOMAIN event' /\ event'[e] = event[e] /\ owner'[e] = owner[e]
           /\ TypesOf(e)' = TypesOf(e)
           /\ \A t \in TypesOf(e) : ticketType'[t] = ticketType[t])
    BY <1>1 DEF Dossier, Restrict
  <2>2. ~ UNCHANGED <<event, owner, ticketType>>
    BY <2>1 DEF TypesOf
  <2>3. CASE AuthNext /\ UNCHANGED <<tables, removing, requestVars>>
    BY <2>2, <2>3 DEF AuthNext, Tick, FindEmail, CreateOrganizer, FindOwnEvent, CreateSession,
                      FindSession, UseSession, tables
  <2>4. ASSUME NEW q \in RequestId, NEW o \in AccountId, Create(q, o)
        PROVE  FALSE
    <3>1. PICK f \in EventId, dto \in EventDto :
            CreateEvent(f, dto) /\ owner' = Insert(owner, Row(f, o))
      BY <2>4 DEF Create
    <3>2. f \notin DOMAIN event /\ e \in DOMAIN owner
      BY <1>1, <3>1 DEF CreateEvent, AccessInv, KeysSpent, AccessTypeOK, AuthTypeOK
    <3>3. event'[e] = event[e] /\ e \in DOMAIN event' /\ ticketType' = ticketType
      BY <3>1, <3>2 DEF CreateEvent, Insert, Row
    <3>4. owner'[e] = owner[e]
      BY <3>1, <3>2 DEF Insert, Row
    <3> QED
      BY <2>1, <3>3, <3>4 DEF TypesOf
  <2>5. ASSUME NEW q \in RequestId, NEW o \in AccountId, NEW f \in EventId,
               GuardEvent(q, o, f)
        PROVE  FALSE
    BY <2>2, <2>5 DEF GuardEvent, tables, authVars
  <2>6. ASSUME NEW q \in RequestId, NEW f \in EventId, Handle(q, f)
        PROVE  editPc'[q] # editPc[q] /\ caller[q] = {owner[e]}
    <3>1. /\ f \in eventId[q] /\ editPc[q] = "handler" /\ editPc'[q] = "done"
          /\ \/ Edit(f) /\ UNCHANGED authVars
             \/ RemoveEvent(f) /\ DropSessions(f)
      BY <1>1, <2>6, Handled DEF AccessInv
    <3>2. f = e
      <4> SUFFICES ASSUME f # e PROVE FALSE
        OBVIOUS
      <4>1. CASE Edit(f) /\ UNCHANGED authVars
        BY <1>1, <2>1, <4>1, EditKeeps DEF AccessInv, authVars
      <4>2. CASE RemoveEvent(f) /\ DropSessions(f)
        BY <1>1, <2>1, <4>2, RemoveKeeps DEF AccessInv
      <4> QED
        BY <3>1, <4>1, <4>2
    <3> QED
      BY <1>1, <3>1, <3>2 DEF AccessInv, Guarded
  <2> QED
    BY <1>1, <2>2, <2>3, <2>4, <2>5, <2>6 DEF AccessNext, accessVars, tables, authVars
<1>2. AccessInv /\ [AccessNext]_accessVars =>
        [\A e \in DOMAIN event : Dossier(e)' # Dossier(e) =>
           \E q \in RequestId : editPc'[q] # editPc[q] /\ caller[q] = {owner[e]}]_accessVars
  BY <1>1
<1> QED
  BY <1>2, AccessInvariant, PTL DEF AccessSpec, OwnersOnly

(* A pairing token that won a scanner its access token wins no other that  *)
(* comes later.                                                            *)
THEOREM SpentTokens == AccessSpec => NobodyPairsLater
<1>1. ASSUME AccessInv, [AccessNext]_accessVars, NEW l \in LoginId, NEW m \in LoginId,
             loginPc[l] = "done", loginPc[m] = "idle",
             loginPc'[m] = "scannerSession.update"
      PROVE  existing'[m] # existing[l]
  <2>1. PICK p \in PairingId : FindSession(m, p)
    <3>1. loginPc' # loginPc /\ loginPc \in [LoginId -> LoginStage]
      BY <1>1 DEF AccessInv, AccessTypeOK, AuthTypeOK
    <3>2. CASE AuthNext /\ UNCHANGED <<tables, removing, requestVars>>
      <4>1. PICK n \in LoginId : \/ \E p \in PairingId : FindSession(n, p)
                                 \/ \E k \in existing[n] : UseSession(n, k)
        BY <3>1, <3>2 DEF AuthNext, Tick, FindEmail, CreateOrganizer, FindOwnEvent,
                          CreateSession, sessionVars
      <4>2. n = m /\ ~ \E k \in existing[n] : UseSession(n, k)
        BY <1>1, <3>1, <4>1 DEF FindSession, UseSession
      <4> QED
        BY <4>1, <4>2
    <3> QED
      BY <1>1, <3>1, <3>2 DEF AccessNext, Create, GuardEvent, Handle, DropSessions,
                              accessVars, authVars, sessionVars
  <2>2. /\ p \in DOMAIN scannerSession /\ ~ scannerSession[p].used
        /\ existing'[m] = {[sub |-> p, eventId |-> scannerSession[p].event]}
    BY <1>1, <2>1 DEF FindSession, Pairable, AccessInv, AccessTypeOK, AuthTypeOK
  <2> SUFFICES ASSUME existing'[m] = existing[l] PROVE FALSE
    OBVIOUS
  <2>3. [sub |-> p, eventId |-> scannerSession[p].event] \in existing[l]
    BY <2>2
  <2> QED
    BY <1>1, <2>2, <2>3 DEF AccessInv, LoggedIn
<1>2. AccessInv /\ [AccessNext]_accessVars =>
        [\A l, m \in LoginId :
           loginPc[l] = "done" /\ loginPc[m] = "idle" /\ loginPc'[m] = "scannerSession.update"
             => existing'[m] # existing[l]]_accessVars
  BY <1>1
<1> QED
  BY <1>2, AccessInvariant, PTL DEF AccessSpec, NobodyPairsLater
=============================================================================
