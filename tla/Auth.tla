-------------------------------- MODULE Auth --------------------------------
(***************************************************************************)
(* AuthService: registration of organizers, and the pairing of scanners    *)
(* with events.  An organizer asks for a pairing token (GET                *)
(* /auth/create-scanner) and shows it to a scanner, which exchanges it     *)
(* once for an access token (POST /auth/scanner-login).                    *)
(*                                                                         *)
(* A registration is named by the uuid of its organizer, a pairing by the  *)
(* uuid of its session.  Passwords and the hash of the pairing token are   *)
(* left out: a login names the organizer or the pairing it has a secret    *)
(* of.  POST /auth/login and the reads GET /auth/me and /auth/scanner      *)
(* change nothing, and no handler changes or deletes an organizer, so any  *)
(* organizer that exists is taken to hold a token of its own.              *)
(*                                                                         *)
(* The answer of each write may be lost after the commit.  A handler that  *)
(* dies between two statements is one that takes no further step: there is *)
(* no fairness here that would make it.                                    *)
(***************************************************************************)
EXTENDS Catalog

CONSTANTS AccountId,    \* POST /auth/register requests
          Email,        \* addresses they carry
          PairingId,    \* GET /auth/create-scanner requests
          LoginId,      \* POST /auth/scanner-login requests
          PairingLife,  \* validity of a pairing token
          MaxTime       \* bound: the clock stops there

ASSUME TimeAssumption == PairingLife \in Nat /\ MaxTime \in Nat

VARIABLES now,             \* Date.now()
          organizer,       \* table Organizer
          owner,           \* column "organizerId" of table Event
          scannerSession,  \* table ScannerSession
          email,           \* RegisterOrganizerDto, the address of each registration
          regPc, pairPc, loginPc,  \* the statement each request runs next
          pairing,         \* whom and what each create-scanner request is for
          existing,        \* the session each scanner-login request read
          accessToken      \* the tokens signed for each scanner-login request

accountVars == <<organizer, email, regPc>>
sessionVars == <<scannerSession, pairPc, pairing, loginPc, existing, accessToken>>
authVars    == <<now, owner, accountVars, sessionVars>>

OrganizerRow == [email : Email]
SessionRow   == [event : EventId, organizer : AccountId, expiresAt : Nat,
                 used : BOOLEAN]
JwtScannerSessionPayload == [sub : PairingId, eventId : EventId]

RegStage   == {"idle", "organizer.create", "done", "conflict", "failed"}
PairStage  == {"idle", "scannerSession.create", "done", "refused", "failed"}
LoginStage == {"idle", "scannerSession.update", "done", "refused", "failed"}

AuthTypeOK ==
  /\ now \in 0 .. MaxTime
  /\ IsTable(organizer, AccountId, OrganizerRow)
  /\ owner \in [DOMAIN event -> DOMAIN organizer]
  /\ IsTable(scannerSession, PairingId, SessionRow)
  /\ \A p \in DOMAIN scannerSession : scannerSession[p].event \in DOMAIN event
  /\ email \in [AccountId -> Email]
  /\ regPc \in [AccountId -> RegStage]
  /\ pairPc \in [PairingId -> PairStage]
  /\ pairing \in [PairingId -> SUBSET [organizer : AccountId, event : EventId]]
  /\ loginPc \in [LoginId -> LoginStage]
  /\ existing \in [LoginId -> SUBSET JwtScannerSessionPayload]
  /\ accessToken \in [LoginId -> SUBSET JwtScannerSessionPayload]

AuthInit ==
  /\ now            = 0
  /\ organizer      = [x \in {} |-> 0]
  /\ owner          = [x \in {} |-> 0]
  /\ scannerSession = [x \in {} |-> 0]
  /\ email          \in [AccountId -> Email]
  /\ regPc          = [a \in AccountId |-> "idle"]
  /\ pairPc         = [p \in PairingId |-> "idle"]
  /\ pairing        = [p \in PairingId |-> {}]
  /\ loginPc        = [l \in LoginId |-> "idle"]
  /\ existing       = [l \in LoginId |-> {}]
  /\ accessToken    = [l \in LoginId |-> {}]

Tick ==
  /\ now < MaxTime
  /\ now' = now + 1
  /\ UNCHANGED <<owner, accountVars, sessionVars>>

-----------------------------------------------------------------------------
(* register() *)

EmailTaken(a) == \E b \in DOMAIN organizer : organizer[b].email = email[a]

\* Mutant: no unique index on "email".
EmailAdmitted(a) == TRUE

\* The unique index on "email" admits the new organizer.
EmailUnique(a) == ~ EmailTaken(a)

\* organizer.findUnique, the only check of the handler itself; then the
\* password is hashed, which takes a while.
FindEmail(a) ==
  /\ regPc[a] = "idle"
  /\ regPc' = [regPc EXCEPT ![a] = IF EmailTaken(a) THEN "conflict" ELSE "organizer.create"]
  /\ UNCHANGED <<now, owner, organizer, email, sessionVars>>

\* organizer.create: the row and the answer, or no row and an error.  When
\* the connection is lost, the row may be there behind the error.
CreateOrganizer(a) ==
  /\ regPc[a] = "organizer.create"
  /\ \/ /\ EmailUnique(a)
        /\ organizer' = Insert(organizer, Row(a, [email |-> email[a]]))
        /\ \/ regPc' = [regPc EXCEPT ![a] = "done"]
           \/ MayAbort /\ regPc' = [regPc EXCEPT ![a] = "failed"]
     \/ /\ ~ EmailUnique(a) \/ MayAbort
        /\ regPc' = [regPc EXCEPT ![a] = "failed"]
        /\ UNCHANGED organizer
  /\ UNCHANGED <<now, owner, email, sessionVars>>

-----------------------------------------------------------------------------
(* createScanner() *)

\* Mutant: anyone may pair a scanner with an event.
AnyEvent(e, o) == e \in DOMAIN event

OwnEvent(e, o) == e \in DOMAIN event /\ owner[e] = o

\* event.findUnique: 404 without the event, 401 for another's.
FindOwnEvent(p, o, e) ==
  /\ pairPc[p] = "idle"
  /\ o \in DOMAIN organizer
  /\ pairing' = [pairing EXCEPT ![p] = {[organizer |-> o, event |-> e]}]
  /\ pairPc' = [pairPc EXCEPT ![p] = IF OwnEvent(e, o) THEN "scannerSession.create" ELSE "refused"]
  /\ UNCHANGED <<now, owner, accountVars, scannerSession, loginPc, existing, accessToken>>

\* The foreign key refuses a session of an event that is gone.  The answer is
\* the only copy of the pairing token.
CreateSession(p, o, e) ==
  /\ pairPc[p] = "scannerSession.create"
  /\ [organizer |-> o, event |-> e] \in pairing[p]
  /\ \/ /\ e \in DOMAIN event
        /\ scannerSession' = Insert(scannerSession,
             Row(p, [event |-> e, organizer |-> o,
                     expiresAt |-> now + PairingLife, used |-> FALSE]))
        /\ \/ pairPc' = [pairPc EXCEPT ![p] = "done"]
           \/ MayAbort /\ pairPc' = [pairPc EXCEPT ![p] = "failed"]
     \/ /\ e \notin DOMAIN event \/ MayAbort
        /\ pairPc' = [pairPc EXCEPT ![p] = "failed"]
        /\ UNCHANGED scannerSession
  /\ UNCHANGED <<now, owner, accountVars, pairing, loginPc, existing, accessToken>>

-----------------------------------------------------------------------------
(* scannerLogin() *)

\* Mutant: `used' is written and not read.
NotExpired(session) == now <= session.expiresAt

Pairable(session) == now <= session.expiresAt /\ ~ session.used

\* scannerSession.findFirst by the hash of a token: that of pairing p, if it
\* was answered, or one that no session has.
FindSession(l, p) ==
  /\ loginPc[l] = "idle"
  /\ \/ /\ pairPc[p] = "done"
        /\ p \in DOMAIN scannerSession
        /\ Pairable(scannerSession[p])
        /\ existing' = [existing EXCEPT
             ![l] = {[sub |-> p, eventId |-> scannerSession[p].event]}]
        /\ loginPc' = [loginPc EXCEPT ![l] = "scannerSession.update"]
     \/ /\ pairPc[p] = "done" /\ p \in DOMAIN scannerSession =>
             ~ Pairable(scannerSession[p])
        /\ loginPc' = [loginPc EXCEPT ![l] = "refused"]
        /\ UNCHANGED existing
  /\ UNCHANGED <<now, owner, accountVars, scannerSession, pairPc, pairing, accessToken>>

\* Sets `used' by key and signs the token.  The row may be gone; after the
\* commit the answer, the only copy of the token, may be lost.
UseSession(l, k) ==
  /\ loginPc[l] = "scannerSession.update"
  /\ k \in existing[l]
  /\ \/ /\ k.sub \in DOMAIN scannerSession
        /\ scannerSession' = [scannerSession EXCEPT ![k.sub].used = TRUE]
        /\ \/ /\ accessToken' = [accessToken EXCEPT ![l] = {k}]
              /\ loginPc' = [loginPc EXCEPT ![l] = "done"]
           \/ /\ MayAbort
              /\ loginPc' = [loginPc EXCEPT ![l] = "failed"]
              /\ UNCHANGED accessToken
     \/ /\ k.sub \notin DOMAIN scannerSession \/ MayAbort
        /\ loginPc' = [loginPc EXCEPT ![l] = "failed"]
        /\ UNCHANGED <<scannerSession, accessToken>>
  /\ UNCHANGED <<now, owner, accountVars, pairPc, pairing, existing>>

-----------------------------------------------------------------------------
AuthNext ==
  \/ Tick
  \/ \E a \in AccountId : FindEmail(a) \/ CreateOrganizer(a)
  \/ \E p \in PairingId, o \in AccountId, e \in EventId :
       FindOwnEvent(p, o, e) \/ CreateSession(p, o, e)
  \/ \E l \in LoginId :
       \/ \E p \in PairingId : FindSession(l, p)
       \/ \E k \in existing[l] : UseSession(l, k)
=============================================================================
