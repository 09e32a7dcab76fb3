----------------------------- MODULE Admission ------------------------------
(***************************************************************************)
(* What the system promises of tickets, whoever asks, in whatever order,   *)
(* and whatever fails: a ticket is issued once, its status is decided once *)
(* and it lets at most one entry through, recorded if and only if the      *)
(* ticket is used.  Tickets vanish only together with their entries.       *)
(***************************************************************************)
EXTENDS Naturals, Functions

CONSTANTS Ticket,   \* everything a ticket can be
          Entry     \* everything an entry can be

VARIABLES status,   \* status of each ticket there is
          admits    \* the ticket of each entry there is

avars == <<status, admits>>

Void == {"CANCELLED", "REFUNDED"}

AInit ==
  /\ status = [u \in {} |-> "ISSUED"]
  /\ admits = [s \in {} |-> "ISSUED"]

Issue ==
  /\ DOMAIN status \subseteq DOMAIN status'
  /\ DOMAIN status' \subseteq Ticket
  /\ status' = [u \in DOMAIN status' |->
                  IF u \in DOMAIN status THEN status[u] ELSE "ISSUED"]
  /\ UNCHANGED admits

Decide(u, verdict) ==
  /\ u \in DOMAIN status
  /\ status[u] = "ISSUED"
  /\ status' = [status EXCEPT ![u] = verdict]

Admit(s, u) ==
  /\ s \in Entry \ DOMAIN admits
  /\ Decide(u, "USED")
  /\ admits' = [z \in DOMAIN admits \cup {s} |-> IF z = s THEN u ELSE admits[z]]

Annul(u, verdict) == Decide(u, verdict) /\ UNCHANGED admits

Withdraw(gone) ==
  /\ status' = Restrict(status, DOMAIN status \ gone)
  /\ admits' = Restrict(admits, {s \in DOMAIN admits : admits[s] \notin gone})

ANext ==
  \/ Issue
  \/ \E s \in Entry, u \in DOMAIN status : Admit(s, u)
  \/ \E u \in DOMAIN status, verdict \in Void : Annul(u, verdict)
  \/ \E gone \in SUBSET DOMAIN status : Withdraw(gone)

ASpec == AInit /\ [][ANext]_avars

-----------------------------------------------------------------------------
(* No ticket admits twice, and exactly the used tickets have an entry.     *)
OneEntryPerUsedTicket ==
  /\ \A s, z \in DOMAIN admits : admits[s] = admits[z] => s = z
  /\ \A u \in DOMAIN status :
       status[u] = "USED" <=> \E s \in DOMAIN admits : admits[s] = u
=============================================================================
