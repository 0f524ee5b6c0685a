-------------------------- MODULE Authorization_proofs --------------------------
(***************************************************************************)
(* Theorems of Authorization for every set of handlers, ceremonies,        *)
(* tickets and passkeys and every capacity and lifetime: the first lemmas  *)
(* say what a step that leaves the store alone keeps, then one lemma per   *)
(* action shows that it preserves the inductive invariant and is a step of *)
(* the ledger of access.                                                   *)
(***************************************************************************)
EXTENDS Authorization, FiniteSetTheorems, TLAPS

rows == <<ceremony, ticket, device, session, grants, enrolled, best>>

\* what the ledger of access makes of a step
LedgerStep == [Access!Next]_<<Devices, OpenPairs>>

\* the part of the invariant that is about the store alone
StoreOK ==
    /\ Unspent /\ SingleUse /\ OpenSessionHasDevice /\ CounterIsHighest /\ CredentialsDiffer
    /\ WithinCapacity /\ \A d \in Devices : device[d].cred \in Credential

\* the part that is about the requests
HeldOK(r) ==
    /\ r.at \in {"register", "login", "admitted"} => r.token \in Ceremony
    /\ r.at = "register" => r.cred \in Credential
    /\ r.at = "login" => r.device \in Ceremony

LEMMA InvParts == IInv <=> TypeOK /\ StoreOK /\ \A h \in Handler : HeldOK(request[h])
  BY DEF IInv, StoreOK, HeldOK, RequestOK

\* A step that leaves the store alone keeps what is about the store, and is
\* none of the ledger's business.
LEMMA SameRows ==
    ASSUME StoreOK, UNCHANGED rows
    PROVE  StoreOK' /\ LedgerStep
<1>1. Devices' = Devices /\ OpenSessions' = OpenSessions
  BY DEF rows, Devices, OpenSessions
<1>2. OpenPairs' = OpenPairs
  BY <1>1 DEF rows, OpenPairs
<1>3. QED
  BY <1>1, <1>2 DEF rows, StoreOK, Unspent, SingleUse, OpenSessionHasDevice, CounterIsHighest,
     CredentialsDiffer, WithinCapacity, LedgerStep

\* What a handler takes up or puts down keeps the types when it has one.
LEMMA Holding ==
    ASSUME request \in [Handler -> Request], \A g \in Handler : HeldOK(request[g]),
           NEW h, NEW r \in Request, HeldOK(r), Hold(h, r)
    PROVE  request' \in [Handler -> Request] /\ \A g \in Handler : HeldOK(request'[g])
  BY DEF Hold

LEMMA NothingHeld == NoRequest \in Request /\ HeldOK(NoRequest)
  BY SetsAssumption DEF NoRequest, Request, HeldOK, Purpose, DeviceRow, NoDevice

\* A step that only takes up or puts down a request.
LEMMA OnlyHolds ==
    ASSUME IInv, NEW h, NEW r \in Request, HeldOK(r), Hold(h, r), UNCHANGED rows,
           UNCHANGED clock, signed' \in [Credential -> Nat]
    PROVE  IInv' /\ LedgerStep
<1>1. StoreOK' /\ LedgerStep
  BY InvParts, SameRows
<1>2. request' \in [Handler -> Request] /\ \A g \in Handler : HeldOK(request'[g])
  BY InvParts, Holding DEF TypeOK
<1>3. TypeOK'
  BY <1>2, InvParts DEF TypeOK, rows
<1>4. QED
  BY <1>1, <1>2, <1>3 DEF IInv, StoreOK, HeldOK, RequestOK
\* the actions that leave the store alone
LEMMA RegisterOptionsStep ==
    ASSUME IInv, NEW h, NEW t \in Ticket \cup {None}, RegisterOptions(h, t)
    PROVE  IInv' /\ LedgerStep
<1> DEFINE r == [NoRequest EXCEPT !.at = "options", !.purpose = "registration", !.ticket = t,
                                  !.now = clock]
<1>1. r \in Request /\ HeldOK(r)
  BY NothingHeld, InvParts, ZenonT(60) DEF NoRequest, Request, HeldOK, Purpose, TypeOK
<1>2. Hold(h, r) /\ UNCHANGED rows /\ UNCHANGED clock /\ signed' \in [Credential -> Nat]
  BY InvParts DEF RegisterOptions, rows, ghosts, TypeOK
<1>3. QED
  BY <1>1, <1>2, OnlyHolds

LEMMA LoginOptionsStep ==
    ASSUME IInv, NEW h, LoginOptions(h)
    PROVE  IInv' /\ LedgerStep
<1> DEFINE r == [NoRequest EXCEPT !.at = "options", !.purpose = "authentication", !.now = clock]
<1>1. r \in Request /\ HeldOK(r)
  BY NothingHeld, InvParts, ZenonT(60) DEF NoRequest, Request, HeldOK, Purpose, TypeOK
<1>2. Hold(h, r) /\ UNCHANGED rows /\ UNCHANGED clock /\ signed' \in [Credential -> Nat]
  BY InvParts DEF LoginOptions, rows, ghosts, TypeOK
<1>3. QED
  BY <1>1, <1>2, OnlyHolds

LEMMA VerifyRegistrationStep ==
    ASSUME IInv, NEW h, NEW c \in Ceremony, NEW k \in Credential, VerifyRegistration(h, c, k)
    PROVE  IInv' /\ LedgerStep
<1> DEFINE r == [NoRequest EXCEPT !.at = "register", !.token = c, !.cred = k,
                                  !.next = signed[k], !.now = clock]
<1>1. r \in Request /\ HeldOK(r)
  BY NothingHeld, InvParts, ZenonT(60) DEF NoRequest, Request, HeldOK, Purpose, TypeOK
<1>2. Hold(h, r) /\ UNCHANGED rows /\ UNCHANGED clock /\ signed' \in [Credential -> Nat]
  BY InvParts DEF VerifyRegistration, rows, ghosts, TypeOK
<1>3. QED
  BY <1>1, <1>2, OnlyHolds

LEMMA VerifyLoginStep ==
    ASSUME IInv, NEW h, NEW c \in Ceremony, NEW d \in Ceremony, VerifyLogin(h, c, d)
    PROVE  IInv' /\ LedgerStep
<1> DEFINE k == device[d].cred
           r == [NoRequest EXCEPT !.at = "login", !.token = c, !.device = d, !.seen = device[d],
                                  !.next = signed'[k], !.now = clock]
<1>1. k \in Credential /\ device[d] \in DeviceRow
  BY InvParts DEF StoreOK, Devices, VerifyLogin, TypeOK
<1>2. signed' \in [Credential -> Nat]
  BY <1>1, InvParts DEF VerifyLogin, TypeOK
<1>3. r \in Request /\ HeldOK(r)
  BY <1>1, <1>2, NothingHeld, InvParts, ZenonT(60) DEF NoRequest, Request, HeldOK, Purpose, TypeOK
<1>4. Hold(h, r) /\ UNCHANGED rows /\ UNCHANGED clock
  BY DEF VerifyLogin, rows, ghosts
<1>5. QED
  BY <1>2, <1>3, <1>4, OnlyHolds

LEMMA VerificationFailsStep ==
    ASSUME IInv, NEW h, VerificationFails(h)
    PROVE  IInv' /\ LedgerStep
<1>1. Hold(h, NoRequest) /\ UNCHANGED rows /\ UNCHANGED clock /\ signed' \in [Credential -> Nat]
  BY InvParts DEF VerificationFails, rows, ghosts, TypeOK
<1>2. QED
  BY <1>1, NothingHeld, OnlyHolds

LEMMA AdmitStep ==
    ASSUME IInv, NEW h, NEW s \in Ceremony, Admit(h, s)
    PROVE  IInv' /\ LedgerStep
<1> DEFINE r == [NoRequest EXCEPT !.at = "admitted", !.token = s, !.now = clock]
<1>1. r \in Request /\ HeldOK(r)
  BY NothingHeld, InvParts DEF NoRequest, Request, HeldOK, TypeOK
<1>2. Hold(h, r) /\ UNCHANGED rows /\ UNCHANGED clock /\ signed' \in [Credential -> Nat]
  BY InvParts DEF Admit, rows, ghosts, TypeOK
<1>3. QED
  BY <1>1, <1>2, OnlyHolds

LEMMA TickStep ==
    ASSUME IInv, Tick
    PROVE  IInv' /\ LedgerStep
<1>1. StoreOK' /\ LedgerStep
  BY InvParts, SameRows DEF Tick, rows, ghosts
<1>2. TypeOK' /\ UNCHANGED request
  BY InvParts, BoundsAssumption DEF Tick, TypeOK, ghosts
<1>3. QED
  BY <1>1, <1>2, InvParts DEF IInv, StoreOK, HeldOK, RequestOK

LEMMA Assembled ==
    ASSUME TypeOK', StoreOK', \A h \in Handler : HeldOK(request'[h])
    PROVE  IInv'
  BY DEF IInv, StoreOK, HeldOK, RequestOK

LEMMA PutDown ==
    ASSUME IInv, NEW h, Hold(h, NoRequest)
    PROVE  request' \in [Handler -> Request] /\ \A g \in Handler : HeldOK(request'[g])
  BY InvParts, Holding, NothingHeld DEF TypeOK

\* What the ledger sees depends on devices and sessions alone.
LEMMA SameAccess ==
    ASSUME UNCHANGED <<device, session>>
    PROVE  LedgerStep /\ Devices' = Devices
<1>1. Devices' = Devices /\ OpenSessions' = OpenSessions
  BY DEF Devices, OpenSessions
<1>2. OpenPairs' = OpenPairs
  BY <1>1 DEF OpenPairs
<1>3. QED
  BY <1>1, <1>2 DEF LedgerStep

\* The slots: the ceremonies that are open after a save are those that were
\* counted and the new one.
LEMMA OneMore ==
    ASSUME NEW A \in SUBSET Ceremony, HasRoom(A), NEW c \in Ceremony, NEW B \in SUBSET (A \cup {c})
    PROVE  Cardinality(B) <= Capacity
<1>1. IsFiniteSet(A)
  BY SetsAssumption, FS_Subset
<1>2. /\ IsFiniteSet(A \cup {c})
      /\ Cardinality(A \cup {c}) = IF c \in A THEN Cardinality(A) ELSE Cardinality(A) + 1
  BY <1>1, FS_AddElement
<1>3. Cardinality(A) \in Nat /\ Cardinality(A \cup {c}) \in Nat
  BY <1>1, <1>2, FS_CardinalityType
<1>4. IsFiniteSet(B) /\ Cardinality(B) <= Cardinality(A \cup {c})
  BY <1>2, FS_Subset
<1>5. Cardinality(B) \in Nat
  BY <1>4, FS_CardinalityType
<1>6. QED
  BY <1>2, <1>3, <1>4, <1>5, BoundsAssumption DEF HasRoom

LEMMA NoneMore ==
    ASSUME WithinCapacity,
           {c \in Ceremony : ceremony'[c].state = "open"}
              \subseteq {c \in Ceremony : ceremony[c].state = "open"}
    PROVE  WithinCapacity'
<1> DEFINE A == {c \in Ceremony : ceremony[c].state = "open"}
           B == {c \in Ceremony : ceremony'[c].state = "open"}
<1>1. IsFiniteSet(A)
  BY SetsAssumption, FS_Subset
<1>2. IsFiniteSet(B) /\ Cardinality(B) <= Cardinality(A)
  BY <1>1, FS_Subset
<1>3. Cardinality(A) \in Nat /\ Cardinality(B) \in Nat
  BY <1>1, <1>2, FS_CardinalityType
<1>4. Cardinality(B) <= Capacity
  BY <1>2, <1>3, BoundsAssumption DEF WithinCapacity
<1>5. QED
  BY <1>4 DEF WithinCapacity

LEMMA SaveCeremonyStep ==
    ASSUME IInv, NEW h \in Handler, SaveCeremony(h)
    PROVE  IInv' /\ LedgerStep
<1> DEFINE r == request[h]
           active == {c \in Ceremony : ceremony[c].state = "open" /\ ceremony[c].expires > r.now}
           Gone(c) == ceremony[c].state \in {"open", "consumed"} /\ c \notin active
           row == [state |-> "open", purpose |-> r.purpose, ticket |-> r.ticket,
                   expires |-> r.now + Life]
<1>1. Hold(h, NoRequest) /\ UNCHANGED <<clock, ticket, device, session, signed, ghosts>>
  BY DEF SaveCeremony
<1>2. request' \in [Handler -> Request] /\ \A g \in Handler : HeldOK(request'[g])
  BY <1>1, PutDown
<1>3. LedgerStep /\ Devices' = Devices
  BY <1>1, SameAccess
<1>4. CASE UNCHANGED ceremony
  <2>1. StoreOK'
    BY <1>1, <1>4, SameRows, InvParts DEF rows, ghosts
  <2>2. TypeOK'
    BY <1>1, <1>2, <1>4, InvParts DEF TypeOK, ghosts
  <2>3. QED
    BY <1>2, <1>3, <2>1, <2>2, Assembled
<1>5. CASE ~ UNCHANGED ceremony
  <2>1. PICK c \in Ceremony :
            /\ HasRoom(active) /\ ceremony[c].state = "unused"
            /\ ceremony' = [x \in Ceremony |->
                  IF x = c THEN row
                  ELSE IF Gone(x) THEN [NoCeremony EXCEPT !.state = "deleted"] ELSE ceremony[x]]
    BY <1>5 DEF SaveCeremony
  <2>2. row \in CeremonyRow /\ [NoCeremony EXCEPT !.state = "deleted"] \in CeremonyRow
    BY InvParts, BoundsAssumption, SetsAssumption
       DEF TypeOK, Request, CeremonyRow, NoCeremony, Purpose
  <2>3. TypeOK'
    BY <1>1, <1>2, <2>1, <2>2, InvParts DEF TypeOK, ghosts
  <2>4. \A x \in Ceremony : ceremony'[x].state \in {"unused", "open"} =>
                                ceremony[x].state \in {"unused", "open"}
    BY <2>1 DEF NoCeremony
  <2>5. Unspent'
    BY <1>1, <2>4, InvParts DEF StoreOK, Unspent, ghosts
  <2>6. {x \in Ceremony : ceremony'[x].state = "open"} \in SUBSET (active \cup {c})
    BY <2>1 DEF NoCeremony
  <2>7. WithinCapacity'
    BY <2>1, <2>6, OneMore DEF WithinCapacity
  <2>8. StoreOK'
    BY <1>1, <1>3, <2>5, <2>7, InvParts DEF StoreOK, SingleUse, OpenSessionHasDevice,
       CounterIsHighest, CredentialsDiffer, ghosts
  <2>9. QED
    BY <1>2, <1>3, <2>3, <2>8, Assembled
<1>6. QED
  BY <1>4, <1>5

\* Tickets that are issued, replaced or cancelled have enrolled nothing.
LEMMA TicketsStep ==
    ASSUME IInv, NEW h, Hold(h, NoRequest), UNCHANGED <<clock, ceremony, device, session, signed, ghosts>>,
           ticket' \in [Ticket -> TicketRow],
           \A t \in Ticket : /\ ticket'[t].state = "pending" => ticket'[t].creator # None
                             /\ ticket'[t].state \in {"unused", "pending"} =>
                                    ticket[t].state \in {"unused", "pending"}
    PROVE  IInv' /\ LedgerStep
<1>1. request' \in [Handler -> Request] /\ \A g \in Handler : HeldOK(request'[g])
  BY PutDown
<1>2. LedgerStep /\ Devices' = Devices
  BY SameAccess
<1>3. TypeOK'
  BY <1>1, InvParts DEF TypeOK, ghosts
<1>4. Unspent'
  BY InvParts DEF StoreOK, Unspent, ghosts
<1>5. StoreOK'
  BY <1>2, <1>4, InvParts DEF StoreOK, SingleUse, OpenSessionHasDevice, CounterIsHighest,
     CredentialsDiffer, WithinCapacity, ghosts
<1>6. QED
  BY <1>1, <1>2, <1>3, <1>5, Assembled

LEMMA DeletedTicket == [NoTicket EXCEPT !.state = "deleted"] \in TicketRow
  BY DEF NoTicket, TicketRow

LEMMA IssueTicketStep ==
    ASSUME IInv, NEW h \in Handler, IssueTicket(h)
    PROVE  IInv' /\ LedgerStep
<1> DEFINE s == request[h].token
           mine == {t \in Ticket : ticket[t].state = "pending" /\ ticket[t].creator = s}
<1>1. s \in Ceremony /\ s # None
  BY InvParts, SetsAssumption DEF IssueTicket, Serve, HeldOK
<1>2. TicketOf(s) \in TicketRow
  BY <1>1, InvParts, BoundsAssumption DEF TicketOf, TicketRow, TypeOK
<1>3. PICK t \in Ticket :
         /\ ticket[t].state = "unused"
         /\ ticket' = [x \in Ticket |->
               IF x = t THEN TicketOf(s)
               ELSE IF x \in mine THEN [NoTicket EXCEPT !.state = "deleted"] ELSE ticket[x]]
  BY DEF IssueTicket
<1>4. ticket' \in [Ticket -> TicketRow]
  BY <1>2, <1>3, DeletedTicket, InvParts DEF TypeOK
<1>5. \A x \in Ticket : /\ ticket'[x].state = "pending" => ticket'[x].creator # None
                        /\ ticket'[x].state \in {"unused", "pending"} =>
                               ticket[x].state \in {"unused", "pending"}
  BY <1>1, <1>3, InvParts DEF TypeOK, TicketOf, NoTicket
<1>6. QED
  BY <1>4, <1>5, TicketsStep DEF IssueTicket, Serve

LEMMA CancelTicketStep ==
    ASSUME IInv, NEW h, NEW t \in Ticket, CancelTicket(h, t)
    PROVE  IInv' /\ LedgerStep
<1>1. ticket' = [ticket EXCEPT ![t] = [NoTicket EXCEPT !.state = "deleted"]]
  BY DEF CancelTicket
<1>2. ticket' \in [Ticket -> TicketRow]
  BY <1>1, DeletedTicket, InvParts DEF TypeOK
<1>3. \A x \in Ticket : /\ ticket'[x].state = "pending" => ticket'[x].creator # None
                        /\ ticket'[x].state \in {"unused", "pending"} =>
                               ticket[x].state \in {"unused", "pending"}
  BY <1>1, InvParts DEF TypeOK, NoTicket
<1>4. QED
  BY <1>2, <1>3, TicketsStep DEF CancelTicket, Serve

\* Devices and sessions
LEMMA PairsAre ==
    OpenPairs = {<<s, session[s].device>> : s \in {x \in Ceremony : session[x].made /\ ~session[x].revoked}}
  BY DEF OpenPairs, OpenSessions

LEMMA RenameStep ==
    ASSUME IInv, NEW h, NEW d \in Ceremony, Rename(h, d)
    PROVE  IInv' /\ LedgerStep
<1>1. /\ Hold(h, NoRequest) /\ UNCHANGED <<clock, ceremony, ticket, session, signed, ghosts>>
      /\ device' = [device EXCEPT ![d].version = @ + 1]
  BY DEF Rename, Serve
<1>2. request' \in [Handler -> Request] /\ \A g \in Handler : HeldOK(request'[g])
  BY <1>1, PutDown
<1>3. device' \in [Ceremony -> DeviceRow]
  BY <1>1, InvParts, SMTT(40) DEF TypeOK, DeviceRow
<1>4. \A e \in Ceremony : /\ device'[e].held = device[e].held /\ device'[e].cred = device[e].cred
                          /\ device'[e].counter = device[e].counter
  BY <1>1, InvParts DEF TypeOK, DeviceRow
<1>5. Devices' = Devices
  BY <1>4 DEF Devices
<1>6. OpenPairs' = OpenPairs
  BY <1>1 DEF OpenPairs, OpenSessions
<1>7. TypeOK'
  BY <1>1, <1>2, <1>3, InvParts DEF TypeOK, ghosts
<1>8. Unspent'
  BY <1>1, <1>4, InvParts DEF StoreOK, Unspent, ghosts
<1>9. CounterIsHighest' /\ CredentialsDiffer'
  <2>1. \A e \in Devices : e \in Ceremony
    BY DEF Devices
  <2>2. QED
    BY <1>1, <1>4, <1>5, <2>1, InvParts DEF StoreOK, CounterIsHighest, CredentialsDiffer, ghosts
<1>10. (\A e \in Devices : device[e].cred \in Credential)'
  BY <1>4, <1>5, InvParts DEF StoreOK, Devices
<1>11. StoreOK'
  BY <1>1, <1>5, <1>8, <1>9, <1>10, InvParts DEF StoreOK, SingleUse, OpenSessionHasDevice,
     WithinCapacity, ghosts
<1>12. QED
  BY <1>2, <1>5, <1>6, <1>7, <1>11, Assembled DEF LedgerStep

LEMMA NotTheLast ==
    ASSUME NEW S, NEW d, Cardinality(S) >= 2
    PROVE  S # {d}
  BY FS_Singleton

LEMMA RevokeStep ==
    ASSUME IInv, NEW h, NEW d \in Ceremony, Revoke(h, d)
    PROVE  IInv' /\ LedgerStep
<1>1. /\ Hold(h, NoRequest) /\ UNCHANGED <<clock, ceremony, ticket, signed, ghosts>>
      /\ device' = [device EXCEPT ![d] = NoDevice] /\ session' = SessionsWithout(d)
  BY DEF Revoke, Serve
<1>2. request' \in [Handler -> Request] /\ \A g \in Handler : HeldOK(request'[g])
  BY <1>1, PutDown
<1>3. device' \in [Ceremony -> DeviceRow] /\ Devices' = Devices \ {d}
  BY <1>1, InvParts, SetsAssumption DEF TypeOK, DeviceRow, NoDevice, Devices
<1>4. session' \in [Ceremony -> SessionRow]
  BY <1>1, InvParts, ZenonT(60) DEF TypeOK, SessionRow, SessionsWithout
<1>5. /\ \A e \in Devices' : e \in Devices /\ device'[e] = device[e]
  BY <1>1, <1>3, InvParts DEF TypeOK, Devices
<1>6. \A s \in Ceremony : /\ session'[s].made = session[s].made
                          /\ session[s].device # d => session'[s] = session[s]
                          /\ session[s].device = d => session'[s].revoked
  BY <1>1, InvParts DEF TypeOK, SessionRow, SessionsWithout
<1>7. OpenPairs' = {p \in OpenPairs : p[2] # d}
  <2>1. \A s \in Ceremony : s \in OpenSessions' <=> s \in OpenSessions /\ session[s].device # d
    BY <1>1, <1>6, InvParts DEF OpenSessions, TypeOK, SessionRow, SessionsWithout
  <2>2. \A s \in OpenSessions' : s \in Ceremony /\ session'[s].device = session[s].device
    BY <1>6, <2>1 DEF OpenSessions
  <2>3. \A s \in OpenSessions : s \in Ceremony
    BY DEF OpenSessions
  <2>4. QED
    BY <2>1, <2>2, <2>3 DEF OpenPairs
<1>8. d \in Devices /\ Devices # {d}
  BY NotTheLast DEF Revoke, Devices
<1>9. LedgerStep
  BY <1>3, <1>7, <1>8 DEF LedgerStep, Access!Next, Access!Revoke
<1>10. TypeOK'
  BY <1>1, <1>2, <1>3, <1>4, InvParts DEF TypeOK, ghosts
<1>11. Unspent'
  BY <1>1, <1>3, <1>6, InvParts DEF StoreOK, Unspent, ghosts, Devices
<1>12. OpenSessionHasDevice'
  BY <1>3, <1>6, InvParts DEF StoreOK, OpenSessionHasDevice
<1>13. CounterIsHighest' /\ CredentialsDiffer' /\ (\A e \in Devices : device[e].cred \in Credential)'
  BY <1>1, <1>5, InvParts DEF StoreOK, CounterIsHighest, CredentialsDiffer, ghosts
<1>14. StoreOK'
  BY <1>1, <1>11, <1>12, <1>13, InvParts DEF StoreOK, SingleUse, WithinCapacity, ghosts
<1>15. QED
  BY <1>2, <1>9, <1>10, <1>14, Assembled

LEMMA LogoutStep ==
    ASSUME IInv, NEW s \in Ceremony, Logout(s)
    PROVE  IInv' /\ LedgerStep
<1>1. /\ UNCHANGED <<clock, ceremony, ticket, device, request, signed, ghosts>>
      /\ session' = [session EXCEPT ![s].revoked = TRUE]
  BY DEF Logout
<1>2. session' \in [Ceremony -> SessionRow]
  BY <1>1, InvParts, ZenonT(60) DEF TypeOK, SessionRow
<1>3. \A x \in Ceremony : /\ session'[x].made = session[x].made
                          /\ session'[x].device = session[x].device
                          /\ session'[x].revoked = (session[x].revoked \/ x = s)
  BY <1>1, InvParts, ZenonT(60) DEF TypeOK, SessionRow
<1>4. OpenSessions' = OpenSessions \ {s}
  BY <1>3 DEF OpenSessions
<1>5. OpenPairs' = OpenPairs \ {<<s, session[s].device>>}
  BY <1>3, <1>4 DEF OpenPairs, OpenSessions
<1>6. <<s, session[s].device>> \in OpenPairs
  BY DEF OpenPairs, OpenSessions, Logout
<1>7. Devices' = Devices
  BY <1>1 DEF Devices
<1>8. LedgerStep
  BY <1>5, <1>6, <1>7 DEF LedgerStep, Access!Next, Access!Logout
<1>9. TypeOK'
  BY <1>1, <1>2, InvParts DEF TypeOK, ghosts
<1>10. Unspent' /\ OpenSessionHasDevice'
  BY <1>1, <1>3, <1>7, InvParts DEF StoreOK, Unspent, OpenSessionHasDevice, ghosts
<1>11. StoreOK'
  BY <1>1, <1>7, <1>10, InvParts DEF StoreOK, SingleUse, CounterIsHighest, CredentialsDiffer,
     WithinCapacity, ghosts
<1>12. QED
  BY <1>1, <1>8, <1>9, <1>11, InvParts, Assembled

LEMMA ConsumedRow ==
    ASSUME NEW c \in Ceremony, ceremony \in [Ceremony -> CeremonyRow]
    PROVE  [ceremony EXCEPT ![c].state = "consumed"] \in [Ceremony -> CeremonyRow]
  BY DEF CeremonyRow

\* A ticket that enrolled nobody is used up.
LEMMA UsedUp ==
    ASSUME TypeOK, Unspent, SingleUse, NEW t \in Ticket, ticket[t].state = "pending",
           ticket' = [ticket EXCEPT ![t].state = "used"],
           enrolled' = [enrolled EXCEPT ![t] = @ + 1]
    PROVE  /\ ticket' \in [Ticket -> TicketRow] /\ enrolled' \in [Ticket -> Nat]
           /\ \A x \in Ticket : /\ ticket'[x].state = "pending" => ticket'[x].creator # None
                                /\ ticket'[x].state \in {"unused", "pending"} => enrolled'[x] = 0
                                /\ enrolled'[x] <= 1
<1>1. ticket \in [Ticket -> TicketRow] /\ enrolled \in [Ticket -> Nat]
  BY DEF TypeOK
<1>2. ticket' \in [Ticket -> TicketRow] /\ enrolled' \in [Ticket -> Nat]
  BY <1>1 DEF TicketRow
<1>3. \A x \in Ticket : /\ enrolled[x] <= 1
                        /\ ticket[x].state = "pending" => ticket[x].creator # None
                        /\ ticket[x].state \in {"unused", "pending"} => enrolled[x] = 0
  BY DEF Unspent, SingleUse, TypeOK
<1>4. ticket'[t].state = "used" /\ enrolled'[t] = 1
  <2>1. ticket[t] \in TicketRow /\ enrolled[t] = 0
    BY <1>1, <1>3
  <2>2. QED
    BY <1>1, <2>1 DEF TicketRow
<1>5. \A x \in Ticket : x # t => ticket'[x] = ticket[x] /\ enrolled'[x] = enrolled[x]
  BY <1>1
<1>6. QED
  BY <1>2, <1>3, <1>4, <1>5

\* A ceremony that is open has made no device and no session: what it makes is new.
LEMMA CompleteRegistrationStep ==
    ASSUME IInv, NEW h \in Handler, CompleteRegistration(h)
    PROVE  IInv' /\ LedgerStep
<1> DEFINE r == request[h]
           c == r.token
           t == ceremony[c].ticket
           row == [held |-> TRUE, cred |-> r.cred, counter |-> r.next, version |-> 0]
           open == [made |-> TRUE, device |-> c, expires |-> r.now + SessionLife, revoked |-> FALSE]
           LetIn == Devices = {} \/ OpenPairs # {}
           TicketsOK ==
              /\ ticket' \in [Ticket -> TicketRow] /\ enrolled' \in [Ticket -> Nat]
              /\ \A x \in Ticket : /\ ticket'[x].state = "pending" => ticket'[x].creator # None
                                   /\ ticket'[x].state \in {"unused", "pending"} => enrolled'[x] = 0
                                   /\ enrolled'[x] <= 1
<1>1. Hold(h, NoRequest) /\ UNCHANGED <<clock, signed>>
  BY DEF CompleteRegistration
<1>2. /\ c \in Ceremony /\ r.cred \in Credential /\ r \in Request
      /\ r.next \in Nat /\ r.now \in Nat /\ c # None
  BY InvParts, SetsAssumption DEF CompleteRegistration, HeldOK, TypeOK, Request
<1>3. CASE ~ (Admitted(c, r.now) /\ Unregistered(r.cred))
  <2>1. UNCHANGED rows /\ signed' \in [Credential -> Nat]
    BY <1>1, <1>3, InvParts DEF CompleteRegistration, rows, ghosts, TypeOK
  <2>2. QED
    BY <1>1, <2>1, NothingHeld, OnlyHolds
<1>4. CASE Admitted(c, r.now) /\ Unregistered(r.cred)
  <2>1. /\ ticket' = IF t = None THEN ticket ELSE [ticket EXCEPT ![t].state = "used"]
        /\ device' = [device EXCEPT ![c] = row]
        /\ best' = [best EXCEPT ![c] = r.next]
        /\ session' = [session EXCEPT ![c] = open]
        /\ ceremony' = [ceremony EXCEPT ![c].state = "consumed"]
        /\ grants' = [grants EXCEPT ![c] = @ + 1]
        /\ enrolled' = IF t = None THEN enrolled ELSE [enrolled EXCEPT ![t] = @ + 1]
    BY <1>4 DEF CompleteRegistration, Opened, Consumed
  <2>2. /\ ceremony[c].state = "open" /\ ~device[c].held /\ ~session[c].made /\ grants[c] = 0
        /\ t \in Ticket \cup {None}
    BY <1>2, <1>4, InvParts DEF Admitted, Open, StoreOK, Unspent, TypeOK, CeremonyRow
  <2>3. ASSUME t # None PROVE TicketsOK /\ LetIn
    <3>1. TypeOK /\ Unspent /\ SingleUse
      BY InvParts DEF StoreOK
    <3>2. t \in Ticket /\ TicketAvailable(t, r.now)
      BY <2>2, <2>3, <1>4 DEF Admitted
    <3> HIDE DEF r, c, t
    <3>3. /\ ticket[t].state = "pending" /\ ticket[t].creator \in Ceremony
          /\ session[ticket[t].creator].made /\ ~session[ticket[t].creator].revoked
      BY <3>1, <3>2 DEF TicketAvailable, LiveSession, TypeOK, TicketRow
    <3>4. OpenPairs # {}
      BY <3>3 DEF OpenPairs, OpenSessions
    <3>5. TicketsOK
      BY <2>1, <2>3, <3>1, <3>2, <3>3, UsedUp
    <3>6. QED
      BY <3>4, <3>5
  <2>4. ASSUME t = None PROVE TicketsOK /\ LetIn
    <3>1. Devices = {} /\ ticket' = ticket /\ enrolled' = enrolled
      BY <2>1, <2>4, <1>4 DEF Admitted
    <3>2. QED
      BY <3>1, InvParts DEF StoreOK, Unspent, SingleUse, TypeOK
  <2>5. TicketsOK /\ LetIn
    BY <2>3, <2>4
  <2>6. row \in DeviceRow /\ open \in SessionRow
    BY <1>2, BoundsAssumption DEF DeviceRow, SessionRow
  <2>7. request' \in [Handler -> Request] /\ \A g \in Handler : HeldOK(request'[g])
    BY <1>1, PutDown
  <2>8. TypeOK'
    <3>1. ceremony' \in [Ceremony -> CeremonyRow] /\ grants' \in [Ceremony -> Nat]
      BY <1>2, <2>1, ConsumedRow, InvParts DEF TypeOK
    <3>2. /\ device' \in [Ceremony -> DeviceRow] /\ session' \in [Ceremony -> SessionRow]
          /\ best' \in [Ceremony -> Nat]
      BY <1>2, <2>1, <2>6, InvParts DEF TypeOK
    <3>3. QED
      BY <1>1, <2>5, <2>7, <3>1, <3>2, InvParts DEF TypeOK
  <2>9. /\ device'[c] = row /\ session'[c] = open /\ best'[c] = r.next /\ grants'[c] = 1
        /\ ceremony'[c].state = "consumed"
    BY <1>2, <2>1, <2>2, InvParts DEF TypeOK, CeremonyRow
  <2>10. \A x \in Ceremony : x # c =>
            /\ device'[x] = device[x] /\ session'[x] = session[x] /\ best'[x] = best[x]
            /\ grants'[x] = grants[x] /\ ceremony'[x] = ceremony[x]
    BY <1>2, <2>1, InvParts DEF TypeOK
  <2>11. Devices' = Devices \cup {c} /\ c \notin Devices
    BY <1>2, <2>2, <2>9, <2>10 DEF Devices
  <2>12. OpenPairs' = OpenPairs \cup {<<c, c>>}
    <3>1. OpenSessions' = OpenSessions \cup {c} /\ c \notin OpenSessions
      BY <1>2, <2>2, <2>9, <2>10 DEF OpenSessions
    <3>2. \A x \in OpenSessions : x # c /\ session'[x].device = session[x].device
      BY <2>10, <3>1 DEF OpenSessions
    <3>3. session'[c].device = c
      BY <2>9
    <3>4. QED
      BY <3>1, <3>2, <3>3 DEF OpenPairs
  <2>13. LedgerStep
    BY <1>2, <2>5, <2>11, <2>12
       DEF LedgerStep, Access!Next, Access!Claim, Access!Enroll, Access!Admit
  <2>14. Unspent'
    BY <2>5, <2>9, <2>10, InvParts DEF StoreOK, Unspent
  <2>15. SingleUse'
    BY <2>5, <2>9, <2>10, InvParts DEF StoreOK, SingleUse
  <2>16. OpenSessionHasDevice'
    BY <2>9, <2>10, <2>11, InvParts DEF StoreOK, OpenSessionHasDevice
  <2>17. CounterIsHighest'
    BY <2>9, <2>10, <2>11, InvParts DEF StoreOK, CounterIsHighest, Devices
  <2>18. CredentialsDiffer' /\ (\A d \in Devices : device[d].cred \in Credential)'
    <3>1. \A d \in Devices : d \in Ceremony /\ d # c /\ device'[d] = device[d] /\ device[d].cred # r.cred
      BY <1>4, <2>10, <2>11 DEF Devices, Unregistered
    <3>2. device'[c].cred = r.cred
      BY <2>9
    <3>3. QED
      BY <1>2, <2>11, <3>1, <3>2, InvParts DEF StoreOK, CredentialsDiffer
  <2>19. WithinCapacity'
    BY <2>2, <2>9, <2>10, NoneMore, InvParts DEF StoreOK
  <2>20. StoreOK'
    BY <2>14, <2>15, <2>16, <2>17, <2>18, <2>19 DEF StoreOK
  <2>21. QED
    BY <2>7, <2>8, <2>13, <2>20, Assembled, SMTT(40)
<1>5. QED
  BY <1>3, <1>4, SMTT(40)

\* The counter goes up with every assertion that is accepted, and the highest with it.
LEMMA CompleteAuthenticationStep ==
    ASSUME IInv, NEW h \in Handler, CompleteAuthentication(h)
    PROVE  IInv' /\ LedgerStep
<1> DEFINE r == request[h]
           c == r.token
           d == r.device
           n == r.next
           open == [made |-> TRUE, device |-> d, expires |-> r.now + SessionLife, revoked |-> FALSE]
           Accepted == Open(c, "authentication", r.now) /\ Advances(d, r.seen, n)
<1>1. Hold(h, NoRequest) /\ UNCHANGED <<clock, ticket, signed, enrolled>>
  BY DEF CompleteAuthentication
<1>2. c \in Ceremony /\ d \in Ceremony /\ n \in Nat /\ r.now \in Nat /\ d # None
  BY InvParts, SetsAssumption DEF CompleteAuthentication, HeldOK, TypeOK, Request
<1>3. CASE ~ Accepted
  <2>1. UNCHANGED rows /\ signed' \in [Credential -> Nat]
    BY <1>1, <1>3, InvParts DEF CompleteAuthentication, rows, TypeOK
  <2>2. QED
    BY <1>1, <2>1, NothingHeld, OnlyHolds
<1>4. CASE Accepted
  <2>1. /\ device' = [device EXCEPT ![d].counter = IF n = 0 THEN @ ELSE n, ![d].version = @ + 1]
        /\ session' = [session EXCEPT ![c] = open]
        /\ ceremony' = [ceremony EXCEPT ![c].state = "consumed"]
        /\ grants' = [grants EXCEPT ![c] = @ + 1]
        /\ best' = [best EXCEPT ![d] = IF n > @ THEN n ELSE @]
    BY <1>4 DEF CompleteAuthentication, Opened, Consumed
  <2>2. /\ ceremony[c].state = "open" /\ ~device[c].held /\ ~session[c].made /\ grants[c] = 0
        /\ device[d].held /\ d \in Devices /\ c # d
    BY <1>2, <1>4, InvParts DEF Open, Advances, Devices, StoreOK, Unspent
  <2>3. device[d].counter = best[d] /\ best[d] \in Nat /\ (n = 0 \/ n > device[d].counter)
    BY <1>2, <1>4, <2>2, InvParts, SMTT(40) DEF StoreOK, CounterIsHighest, TypeOK, Advances
  <2>4. /\ device' \in [Ceremony -> DeviceRow]
        /\ \A x \in Ceremony : device'[x].held = device[x].held /\ device'[x].cred = device[x].cred
        /\ \A x \in Ceremony : x # d => device'[x].counter = device[x].counter
        /\ device'[d].counter = IF n = 0 THEN device[d].counter ELSE n
    BY <1>2, <2>1, InvParts, SMTT(40) DEF TypeOK, DeviceRow
  <2>5. open \in SessionRow
    BY <1>2, BoundsAssumption DEF SessionRow
  <2>6. request' \in [Handler -> Request] /\ \A g \in Handler : HeldOK(request'[g])
    BY <1>1, PutDown
  <2>7. TypeOK'
    <3>1. ceremony' \in [Ceremony -> CeremonyRow] /\ grants' \in [Ceremony -> Nat]
      BY <1>2, <2>1, ConsumedRow, InvParts DEF TypeOK
    <3>2. session' \in [Ceremony -> SessionRow] /\ best' \in [Ceremony -> Nat]
      BY <1>2, <2>1, <2>3, <2>5, InvParts DEF TypeOK
    <3>3. QED
      BY <1>1, <2>4, <2>6, <3>1, <3>2, InvParts DEF TypeOK
  <2>8. session'[c] = open /\ grants'[c] = 1 /\ ceremony'[c].state = "consumed"
    BY <1>2, <2>1, <2>2, InvParts DEF TypeOK, CeremonyRow
  <2>9. \A x \in Ceremony : x # c => /\ session'[x] = session[x] /\ grants'[x] = grants[x]
                                     /\ ceremony'[x] = ceremony[x]
    BY <1>2, <2>1, InvParts DEF TypeOK
  <2>10. Devices' = Devices
    BY <2>4 DEF Devices
  <2>11. OpenPairs' = OpenPairs \cup {<<c, d>>}
    <3>1. OpenSessions' = OpenSessions \cup {c} /\ c \notin OpenSessions
      BY <1>2, <2>2, <2>8, <2>9 DEF OpenSessions
    <3>2. \A x \in OpenSessions : x # c /\ session'[x].device = session[x].device
      BY <2>9, <3>1 DEF OpenSessions
    <3>3. session'[c].device = d
      BY <2>8
    <3>4. QED
      BY <3>1, <3>2, <3>3 DEF OpenPairs
  <2>12. LedgerStep
    BY <1>2, <2>2, <2>10, <2>11 DEF LedgerStep, Access!Next, Access!Login
  <2>13. Unspent'
    BY <1>1, <2>4, <2>8, <2>9, InvParts DEF StoreOK, Unspent
  <2>14. SingleUse'
    BY <1>1, <2>8, <2>9, InvParts DEF StoreOK, SingleUse
  <2>15. OpenSessionHasDevice'
    BY <2>2, <2>8, <2>9, <2>10, InvParts DEF StoreOK, OpenSessionHasDevice
  <2>16. CounterIsHighest'
    <3>1. best'[d] = IF n > best[d] THEN n ELSE best[d]
      BY <1>2, <2>1, InvParts DEF TypeOK
    <3>2. device'[d].counter = best'[d]
      BY <1>2, <2>3, <2>4, <3>1
    <3>3. \A x \in Ceremony : x # d => best'[x] = best[x]
      BY <1>2, <2>1, InvParts DEF TypeOK
    <3>4. QED
      BY <2>4, <2>10, <3>2, <3>3, InvParts DEF StoreOK, CounterIsHighest, Devices
  <2>17. CredentialsDiffer' /\ (\A e \in Devices : device[e].cred \in Credential)'
    <3>1. \A e \in Devices : e \in Ceremony
      BY DEF Devices
    <3>2. QED
      BY <2>4, <2>10, <3>1, InvParts DEF StoreOK, CredentialsDiffer
  <2>18. WithinCapacity'
    BY <2>2, <2>8, <2>9, NoneMore, InvParts DEF StoreOK
  <2>19. StoreOK'
    BY <2>13, <2>14, <2>15, <2>16, <2>17, <2>18 DEF StoreOK
  <2>20. QED
    BY <2>6, <2>7, <2>12, <2>19, Assembled
<1>5. QED
  BY <1>3, <1>4

LEMMA InitOK == Init => IInv /\ Access!Init
<1> SUFFICES ASSUME Init PROVE IInv /\ Access!Init
  OBVIOUS
<1>1. /\ NoCeremony \in CeremonyRow /\ NoTicket \in TicketRow /\ NoDevice \in DeviceRow
      /\ NoSession \in SessionRow
  BY DEF NoCeremony, CeremonyRow, NoTicket, TicketRow, NoDevice, DeviceRow, NoSession, SessionRow,
         Purpose
<1>2. TypeOK /\ \A h \in Handler : HeldOK(request[h])
  BY <1>1, NothingHeld, BoundsAssumption DEF Init, TypeOK, NoTicket
<1>3. /\ \A x \in Ceremony : ~device[x].held /\ ~session[x].made /\ ceremony[x].state = "unused"
      /\ Devices = {} /\ OpenSessions = {}
  BY DEF Init, NoDevice, NoSession, NoCeremony, Devices, OpenSessions
<1>4. WithinCapacity
  <2>1. {x \in Ceremony : ceremony[x].state = "open"} = {}
    BY <1>3
  <2>2. QED
    BY <2>1, FS_EmptySet, BoundsAssumption DEF WithinCapacity
<1>5. StoreOK
  BY <1>3, <1>4 DEF Init, StoreOK, Unspent, SingleUse, OpenSessionHasDevice, CounterIsHighest,
     CredentialsDiffer
<1>6. Access!Init
  BY <1>3 DEF Access!Init, OpenPairs
<1>7. QED
  BY <1>2, <1>5, <1>6, InvParts

\* Every step keeps the inductive invariant and is one of the ledger's, or none
\* of its business.
LEMMA NextOK == IInv /\ [Next]_vars => IInv' /\ LedgerStep
<1> SUFFICES ASSUME IInv, [Next]_vars PROVE IInv' /\ LedgerStep
  OBVIOUS
<1>1. CASE UNCHANGED vars
  <2>1. StoreOK' /\ LedgerStep
    BY <1>1, InvParts, SameRows DEF vars, rows, ghosts
  <2>2. TypeOK' /\ UNCHANGED request
    BY <1>1, InvParts DEF vars, TypeOK, ghosts
  <2>3. QED
    BY <2>1, <2>2, InvParts, Assembled
<1>2. CASE \E h \in Handler : \E t \in Ticket \cup {None} : RegisterOptions(h, t)
  BY <1>2, RegisterOptionsStep
<1>3. CASE \E h \in Handler : LoginOptions(h) \/ SaveCeremony(h) \/ VerificationFails(h)
  BY <1>3, LoginOptionsStep, SaveCeremonyStep, VerificationFailsStep
<1>4. CASE \E h \in Handler : \E c \in Ceremony : \E k \in Credential : VerifyRegistration(h, c, k)
  BY <1>4, VerifyRegistrationStep
<1>5. CASE \E h \in Handler : \E c, d \in Ceremony : VerifyLogin(h, c, d)
  BY <1>5, VerifyLoginStep
<1>6. CASE \E h \in Handler : CompleteRegistration(h) \/ CompleteAuthentication(h)
  BY <1>6, CompleteRegistrationStep, CompleteAuthenticationStep
<1>7. CASE \E h \in Handler : IssueTicket(h) \/ \E t \in Ticket : CancelTicket(h, t)
  BY <1>7, IssueTicketStep, CancelTicketStep
<1>8. CASE \E h \in Handler : \E c \in Ceremony : Admit(h, c) \/ Rename(h, c) \/ Revoke(h, c)
  BY <1>8, AdmitStep, RenameStep, RevokeStep
<1>9. CASE Tick \/ \E s \in Ceremony : Logout(s)
  BY <1>9, TickStep, LogoutStep
<1>10. QED
  BY <1>1, <1>2, <1>3, <1>4, <1>5, <1>6, <1>7, <1>8, <1>9 DEF Next

\* What the store and the requests keep true together, over all relays that
\* share auth.sqlite.
THEOREM AuthorizationInvariance == Spec => []IInv
<1>1. Init => IInv
  BY InitOK
<1>2. IInv /\ [Next]_vars => IInv'
  BY NextOK
<1>3. QED
  BY <1>1, <1>2, PTL DEF Spec

\* The rows of auth.sqlite keep their types, and a pending ticket its creator.
THEOREM AuthorizationTypes == Spec => []TypeOK
  BY AuthorizationInvariance, PTL DEF IInv

\* completeRegistration and completeAuthentication use a ceremony up once, and
\* the registration its ticket, however many verifications run at a time.
THEOREM UsedOnce == Spec => []SingleUse
  BY AuthorizationInvariance, PTL DEF IInv

\* revokeDevice leaves no session open, also none whose login was under way.
THEOREM SessionsHaveDevices == Spec => []OpenSessionHasDevice
  BY AuthorizationInvariance, PTL DEF IInv

\* advanceCounter keeps the highest counter a device was accepted with.
THEOREM CountersOnlyRise == Spec => []CounterIsHighest
  BY AuthorizationInvariance, PTL DEF IInv

\* Two registrations of one passkey that are verified at a time make one device.
THEOREM PasskeysDiffer == Spec => []CredentialsDiffer
  BY AuthorizationInvariance, PTL DEF IInv

\* saveCeremony never admits more open ceremonies than there are slots.
THEOREM SlotsHold == Spec => []WithinCapacity
  BY AuthorizationInvariance, PTL DEF IInv

\* Devices and sessions come and go as the ledger of access says.
THEOREM ImplementsAccess == Spec => AccessSpec
<1>1. Init => Access!Init
  BY InitOK
<1>2. IInv /\ [Next]_vars => [Access!Next]_<<Devices, OpenPairs>>
  BY NextOK DEF LedgerStep
<1>3. <<Devices, OpenPairs>> = Access!vars
  BY DEF Access!vars
<1>4. QED
  BY <1>1, <1>2, AuthorizationInvariance, PTL DEF Spec, AccessSpec, Access!Spec, Access!vars

-----------------------------------------------------------------------------
(* ------------------------- what is over stays over --------------------- *)
Used(c) == ceremony[c].state \in {"consumed", "deleted"}

\* a ceremony that was used up, or went, is never open again
CeremonyStaysUsed(c) == Used(c) => ceremony'[c].state \in {ceremony[c].state, "deleted"}

\* nor is a ticket pending again
TicketStaysUsed(t) == ticket[t].state \in {"used", "deleted"} => ticket'[t] = ticket[t]

\* a session is made once: it is not prolonged, opened again, or another device's
SessionStaysClosed(s) ==
    session[s].made => /\ session'[s].made /\ session'[s].expires = session[s].expires
                       /\ session[s].revoked => session'[s].revoked
                       /\ session'[s].device \in {session[s].device, None}

\* a device that was revoked, and one that was never registered, is not held later
DeviceStaysGone(d) == Used(d) /\ ~device[d].held => ~device'[d].held

CeremoniesStay == \A c \in Ceremony : CeremonyStaysUsed(c)
TicketsStay == \A t \in Ticket : TicketStaysUsed(t)
SessionsStay == \A s \in Ceremony : SessionStaysClosed(s)
DevicesStay == \A d \in Ceremony : DeviceStaysGone(d)
StaysOver == CeremoniesStay /\ TicketsStay /\ SessionsStay /\ DevicesStay

\* What was closed in auth.sqlite is closed for good, also by a completion that
\* was verified before it was closed: no step opens a used ceremony or ticket
\* again, prolongs or restores a session, or brings a revoked device back.
NothingReopens == [][StaysOver]_vars

\* A table that a step leaves alone keeps what is over.
LEMMA SameStays ==
    /\ UNCHANGED ceremony => CeremoniesStay
    /\ UNCHANGED ticket => TicketsStay
    /\ UNCHANGED session => SessionsStay
    /\ UNCHANGED device => DevicesStay
  BY DEF CeremoniesStay, CeremonyStaysUsed, TicketsStay, TicketStaysUsed, SessionsStay,
         SessionStaysClosed, DevicesStay, DeviceStaysGone

\* A new ceremony takes a slot that was never used; what it deletes was there.
LEMMA SaveCeremonyStays == ASSUME IInv, NEW h, SaveCeremony(h) PROVE StaysOver
<1>1. UNCHANGED <<ticket, session, device>>
  BY DEF SaveCeremony
<1>2. CASE UNCHANGED ceremony
  BY <1>1, <1>2, SameStays DEF StaysOver
<1>3. CASE ~UNCHANGED ceremony
  <2>1. PICK c \in Ceremony :
          /\ ceremony[c].state = "unused"
          /\ \A x \in Ceremony : x # c => ceremony'[x] \in {ceremony[x],
                                                [NoCeremony EXCEPT !.state = "deleted"]}
    BY <1>3, Zenon DEF SaveCeremony
  <2>2. [NoCeremony EXCEPT !.state = "deleted"].state = "deleted"
    BY DEF NoCeremony
  <2>3. CeremoniesStay
    BY <2>1, <2>2 DEF CeremoniesStay, CeremonyStaysUsed, Used
  <2>4. QED
    BY <1>1, <2>3, SameStays DEF StaysOver
<1>4. QED
  BY <1>2, <1>3

\* Tickets are issued on unused rows and cancelled while they are pending.
LEMMA TicketsStayOver ==
    ASSUME IInv, NEW h, IssueTicket(h) \/ \E t \in Ticket : CancelTicket(h, t)
    PROVE  StaysOver
<1>1. UNCHANGED <<ceremony, session, device>>
  BY DEF IssueTicket, CancelTicket
<1>2. CASE IssueTicket(h)
  <2>1. PICK t \in Ticket :
            /\ ticket[t].state = "unused"
            /\ ticket' = [x \in Ticket |->
                  IF x = t THEN TicketOf(request[h].token)
                  ELSE IF x \in {y \in Ticket : ticket[y].state = "pending"
                                              /\ ticket[y].creator = request[h].token}
                       THEN [NoTicket EXCEPT !.state = "deleted"]
                       ELSE ticket[x]]
    BY <1>2 DEF IssueTicket
  <2>2. TicketsStay
    BY <2>1 DEF TicketsStay, TicketStaysUsed
  <2>3. QED
    BY <1>1, <2>2, SameStays DEF StaysOver
<1>3. ASSUME NEW t \in Ticket, CancelTicket(h, t) PROVE StaysOver
  <2>1. ticket[t].state = "pending"
        /\ ticket' = [ticket EXCEPT ![t] = [NoTicket EXCEPT !.state = "deleted"]]
    BY <1>3 DEF CancelTicket
  <2>2. TicketsStay
    BY <2>1, InvParts DEF TicketsStay, TicketStaysUsed, TypeOK
  <2>3. QED
    BY <1>1, <2>2, SameStays DEF StaysOver
<1>4. QED
  BY <1>2, <1>3

\* A device that is renamed is held; one that is revoked takes its sessions along.
LEMMA DevicesStayOver ==
    ASSUME IInv, NEW h, NEW d \in Ceremony, Rename(h, d) \/ Revoke(h, d)
    PROVE  StaysOver
<1>1. UNCHANGED <<ceremony, ticket>>
  BY DEF Rename, Revoke
<1>2. device \in [Ceremony -> DeviceRow] /\ session \in [Ceremony -> SessionRow]
  BY InvParts DEF TypeOK
<1>3. device[d].held
  BY DEF Rename, Revoke
<1>4. \A e \in Ceremony : e # d => device'[e] = device[e]
  BY <1>2 DEF Rename, Revoke
<1>5. DevicesStay
  BY <1>3, <1>4 DEF DevicesStay, DeviceStaysGone
<1>6. CASE Rename(h, d)
  BY <1>1, <1>5, <1>6, SameStays DEF StaysOver, Rename
<1>7. CASE Revoke(h, d)
  <2>1. ASSUME NEW s \in Ceremony, session[s].made PROVE SessionStaysClosed(s)
    <3>1. session[s] \in SessionRow
      BY <1>2
    <3>2. session'[s] \in {session[s], [session[s] EXCEPT !.device = None, !.revoked = TRUE]}
      BY <1>7 DEF Revoke, SessionsWithout
    <3>3. QED
      BY <2>1, <3>1, <3>2 DEF SessionStaysClosed, SessionRow
  <2>2. SessionsStay
    BY <2>1 DEF SessionsStay, SessionStaysClosed
  <2>3. QED
    BY <1>1, <1>5, <2>2, SameStays DEF StaysOver
<1>8. QED
  BY <1>6, <1>7

\* A session that is left is closed.
LEMMA LogoutStays == ASSUME IInv, NEW s \in Ceremony, Logout(s) PROVE StaysOver
<1>1. UNCHANGED <<ceremony, ticket, device>> /\ session' = [session EXCEPT ![s].revoked = TRUE]
  BY DEF Logout
<1>2. session \in [Ceremony -> SessionRow]
  BY InvParts DEF TypeOK
<1>3. \A x \in Ceremony : /\ session'[x].made = session[x].made
                          /\ session'[x].expires = session[x].expires
                          /\ session'[x].device = session[x].device
                          /\ session[x].revoked => session'[x].revoked
  BY <1>1, <1>2 DEF SessionRow
<1>4. SessionsStay
  BY <1>3 DEF SessionsStay, SessionStaysClosed
<1>5. QED
  BY <1>1, <1>4, SameStays DEF StaysOver

\* What a completion makes of an open ceremony: it is consumed, and the session
\* that has its number was not made before.
LEMMA CompletedStays ==
    ASSUME IInv, NEW c \in Ceremony, NEW d, NEW now, ceremony[c].state = "open",
           Opened(c, d, now), Consumed(c)
    PROVE  CeremoniesStay /\ SessionsStay
<1>1. ceremony \in [Ceremony -> CeremonyRow] /\ session \in [Ceremony -> SessionRow]
  BY InvParts DEF TypeOK
<1>2. ~session[c].made
  BY InvParts DEF StoreOK, Unspent
<1>3. \A x \in Ceremony : x # c => ceremony'[x] = ceremony[x] /\ session'[x] = session[x]
  BY <1>1 DEF Opened, Consumed
<1>4. CeremoniesStay
  BY <1>3 DEF CeremoniesStay, CeremonyStaysUsed, Used
<1>5. SessionsStay
  BY <1>2, <1>3 DEF SessionsStay, SessionStaysClosed
<1>6. QED
  BY <1>4, <1>5

\* A registration uses up an open ceremony and a pending ticket.
LEMMA RegistrationStays == ASSUME IInv, NEW h \in Handler, CompleteRegistration(h) PROVE StaysOver
<1> DEFINE c == request[h].token
           t == ceremony[c].ticket
<1>1. CASE UNCHANGED <<ceremony, ticket, device, session>>
  BY <1>1, SameStays DEF StaysOver
<1>2. CASE Admitted(c, request[h].now) /\ Unregistered(request[h].cred)
  <2>1. c \in Ceremony /\ ceremony[c].state = "open"
    BY <1>2, InvParts DEF CompleteRegistration, HeldOK, Admitted, Open
  <2>2. /\ ticket' = IF t = None THEN ticket ELSE [ticket EXCEPT ![t].state = "used"]
        /\ device' = [device EXCEPT ![c] = [held |-> TRUE, cred |-> request[h].cred,
                                            counter |-> request[h].next, version |-> 0]]
        /\ Opened(c, c, request[h].now) /\ Consumed(c)
    BY <1>2 DEF CompleteRegistration
  <2>3. CeremoniesStay /\ SessionsStay
    BY <2>1, <2>2, CompletedStays
  <2>4. TicketsStay
    <3>1. t # None => ticket[t].state = "pending"
      BY <1>2 DEF Admitted, TicketAvailable
    <3>2. ticket \in [Ticket -> TicketRow]
      BY InvParts DEF TypeOK
    <3>3. \A x \in Ticket : x # t => ticket'[x] = ticket[x]
      BY <2>2, <3>2
    <3>4. t = None => ticket' = ticket
      BY <2>2
    <3>5. QED
      BY <3>1, <3>3, <3>4 DEF TicketsStay, TicketStaysUsed
  <2>5. DevicesStay
    <3>1. device \in [Ceremony -> DeviceRow] /\ ~Used(c)
      BY <2>1, InvParts DEF TypeOK, Used
    <3>2. \A x \in Ceremony : x # c => device'[x] = device[x]
      BY <2>2, <3>1
    <3>3. QED
      BY <3>1, <3>2 DEF DevicesStay, DeviceStaysGone
  <2>6. QED
    BY <2>3, <2>4, <2>5 DEF StaysOver
<1>3. QED
  BY <1>1, <1>2 DEF CompleteRegistration

\* A login uses up an open ceremony and leaves held the device it advances.
LEMMA AuthenticationStays ==
    ASSUME IInv, NEW h \in Handler, CompleteAuthentication(h)
    PROVE  StaysOver
<1> DEFINE c == request[h].token
           d == request[h].device
<1>1. UNCHANGED ticket
  BY DEF CompleteAuthentication
<1>2. CASE UNCHANGED <<ceremony, device, session>>
  BY <1>1, <1>2, SameStays DEF StaysOver
<1>3. CASE /\ Open(c, "authentication", request[h].now)
           /\ Advances(d, request[h].seen, request[h].next)
  <2>1. c \in Ceremony /\ ceremony[c].state = "open" /\ device[d].held
    BY <1>3, InvParts DEF CompleteAuthentication, HeldOK, Open, Advances
  <2>2. /\ device' = [device EXCEPT ![d].counter = IF request[h].next = 0 THEN @ ELSE request[h].next,
                                    ![d].version = @ + 1]
        /\ Opened(c, d, request[h].now) /\ Consumed(c)
    BY <1>3 DEF CompleteAuthentication
  <2>3. CeremoniesStay /\ SessionsStay
    BY <2>1, <2>2, CompletedStays
  <2>4. device \in [Ceremony -> DeviceRow]
    BY InvParts DEF TypeOK
  <2>5. \A x \in Ceremony : x # d => device'[x] = device[x]
    BY <2>2, <2>4
  <2>6. DevicesStay
    BY <2>1, <2>5 DEF DevicesStay, DeviceStaysGone
  <2>7. QED
    BY <1>1, <2>3, <2>6, SameStays DEF StaysOver
<1>4. QED
  BY <1>2, <1>3 DEF CompleteAuthentication

\* No step brings back what is over.
LEMMA NextStays == ASSUME IInv, Next PROVE StaysOver
<1>1. CASE \E h \in Handler : SaveCeremony(h)
  BY <1>1, SaveCeremonyStays
<1>2. CASE \E h \in Handler : CompleteRegistration(h) \/ CompleteAuthentication(h)
  BY <1>2, RegistrationStays, AuthenticationStays
<1>3. CASE \E h \in Handler : IssueTicket(h) \/ \E t \in Ticket : CancelTicket(h, t)
  BY <1>3, TicketsStayOver
<1>4. CASE \E h \in Handler : \E c \in Ceremony : Rename(h, c) \/ Revoke(h, c)
  BY <1>4, DevicesStayOver
<1>5. CASE \E s \in Ceremony : Logout(s)
  BY <1>5, LogoutStays
<1>6. ASSUME NEW h \in Handler,
             \/ \E t \in Ticket \cup {None} : RegisterOptions(h, t)
             \/ LoginOptions(h) \/ VerificationFails(h)
             \/ \E c \in Ceremony : \E k \in Credential : VerifyRegistration(h, c, k)
             \/ \E c, d \in Ceremony : VerifyLogin(h, c, d)
             \/ \E c \in Ceremony : Admit(h, c)
      PROVE  StaysOver
  <2>1. UNCHANGED <<ceremony, ticket, session, device>>
    BY <1>6 DEF RegisterOptions, LoginOptions, VerificationFails, VerifyRegistration, VerifyLogin,
       Admit
  <2>2. QED
    BY <2>1, SameStays DEF StaysOver
<1>7. CASE Tick
  BY <1>7, SameStays DEF StaysOver, Tick
<1>8. QED
  BY <1>1, <1>2, <1>3, <1>4, <1>5, <1>6, <1>7 DEF Next

\* What was closed in auth.sqlite is closed for good.
THEOREM OverIsOver == Spec => NothingReopens
<1>1. IInv /\ [Next]_vars => [StaysOver]_vars
  BY NextStays
<1>2. QED
  BY <1>1, AuthorizationInvariance, PTL DEF Spec, NothingReopens
=================================================================================
