------------------------- MODULE AdmissionTheorems --------------------------
(***************************************************************************)
(* Admission keeps what it is for: one entry for each used ticket and none *)
(* for any other.                                                          *)
(***************************************************************************)
EXTENDS Admission, TLAPS

(* Entries are of tickets there are: otherwise a ticket issued later could *)
(* find an entry waiting for it.                                           *)
AInv ==
  /\ \A s \in DOMAIN admits : admits[s] \in DOMAIN status
  /\ OneEntryPerUsedTicket

(* Nobody is inside and nobody was admitted before the doors open. *)
LEMMA AInv_Init == AInit => AInv
  BY DEF AInit, AInv, OneEntryPerUsedTicket

(* Issuing, withdrawing and answering a scan keep the entries counted per
   pass in step with the passes marked inside. *)
LEMMA AInv_Step == AInv /\ [ANext]_avars => AInv'
<1> SUFFICES ASSUME AInv, [ANext]_avars PROVE AInv'
  OBVIOUS
<1> USE DEF AInv, OneEntryPerUsedTicket
<1>1. CASE UNCHANGED avars
  BY <1>1 DEF avars
<1>2. CASE Issue
  <2>1. /\ DOMAIN status \subseteq DOMAIN status'
        /\ \A u \in DOMAIN status : status'[u] = status[u]
        /\ \A u \in DOMAIN status' \ DOMAIN status : status'[u] = "ISSUED"
        /\ UNCHANGED admits
    BY <1>2 DEF Issue
  <2> QED BY <2>1
<1>3. ASSUME NEW s \in Entry, NEW u \in DOMAIN status, Admit(s, u)
      PROVE  AInv'
  <2>1. /\ s \notin DOMAIN admits
        /\ status[u] = "ISSUED"
        /\ DOMAIN status' = DOMAIN status
        /\ status'[u] = "USED"
        /\ \A v \in DOMAIN status \ {u} : status'[v] = status[v]
        /\ DOMAIN admits' = DOMAIN admits \cup {s}
        /\ admits'[s] = u
        /\ \A z \in DOMAIN admits : admits'[z] = admits[z]
    BY <1>3 DEF Admit, Decide
  <2>2. \A z \in DOMAIN admits : admits[z] # u
    BY <2>1
  <2> QED BY <2>1, <2>2
<1>4. ASSUME NEW u \in DOMAIN status, NEW verdict \in Void, Annul(u, verdict)
      PROVE  AInv'
  <2>1. /\ status[u] = "ISSUED"
        /\ DOMAIN status' = DOMAIN status
        /\ status'[u] = verdict /\ verdict # "USED"
        /\ \A v \in DOMAIN status \ {u} : status'[v] = status[v]
        /\ UNCHANGED admits
    BY <1>4 DEF Annul, Decide, Void
  <2> QED BY <2>1
<1>5. ASSUME NEW gone \in SUBSET DOMAIN status, Withdraw(gone)
      PROVE  AInv'
  <2>1. /\ DOMAIN status' = DOMAIN status \ gone
        /\ \A u \in DOMAIN status' : status'[u] = status[u]
        /\ DOMAIN admits' = {s \in DOMAIN admits : admits[s] \notin gone}
        /\ \A s \in DOMAIN admits' : admits'[s] = admits[s]
    BY <1>5 DEF Withdraw, Restrict
  <2> QED BY <2>1
<1> QED BY <1>1, <1>2, <1>3, <1>4, <1>5 DEF ANext

(* No ticket admits twice, and exactly the used tickets have an entry.     *)
THEOREM AdmitsOnce == ASpec => []OneEntryPerUsedTicket
<1>1. ASpec => []AInv
  BY AInv_Init, AInv_Step, PTL DEF ASpec
<1>2. AInv => OneEntryPerUsedTicket
  BY DEF AInv
<1> QED BY <1>1, <1>2, PTL
=============================================================================
