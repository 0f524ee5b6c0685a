----------------------------- MODULE Authorization ------------------------------
(***************************************************************************)
(* Passkey authorization of relays that share auth.sqlite: the ceremonies  *)
(* of registration and login (options, then verification, each around an   *)
(* await of the WebAuthn adapter), enrolment tickets, devices with their   *)
(* counters and versions, and sessions.                                    *)
(*                                                                         *)
(* A step is what runs between two awaits, or one transaction where        *)
(* another process may come between two. `now' is read when a request      *)
(* arrives and used after the await, as the endpoints do. A successful     *)
(* ceremony names the session and the device it makes. Outside: the        *)
(* verification of proofs, which may fail, and authenticators, which count *)
(* their assertions unless their passkeys are synced (counter 0).          *)
(***************************************************************************)
EXTENDS Naturals, FiniteSets

CONSTANTS Handler,      \* requests that run at a time, in any process
          Ceremony,     \* bound: ceremony tokens ever made
          Ticket,       \* bound: enrolment tickets ever made
          Credential,   \* passkeys
          Synced,       \* passkeys of type multiDevice
          None,
          Capacity,     \* live ceremonies admitted at a time (64)
          Life,         \* lifetime of ceremonies and tickets
          SessionLife,
          MaxTime,      \* bound: clock
          MaxCount,     \* bound: assertions of a passkey
          MaxVersion    \* bound: changes of a device, for its renaming

ASSUME SetsAssumption ==
    /\ IsFiniteSet(Ceremony) /\ Synced \subseteq Credential
    /\ None \notin Ceremony /\ None \notin Ticket /\ None \notin Credential
ASSUME BoundsAssumption ==
    /\ Capacity \in Nat /\ Life \in Nat /\ SessionLife \in Nat
    /\ MaxTime \in Nat /\ MaxCount \in Nat /\ MaxVersion \in Nat

VARIABLES
    clock,
    ceremony,   \* auth_ceremonies
    ticket,     \* auth_tickets
    device,     \* auth_devices, by the ceremony that registered the device
    session,    \* auth_sessions, by the ceremony that opened the session
    request,    \* what a handler holds across its await
    signed,     \* assertions an authenticator has made
    grants,     \* ghost: successful completions of a ceremony
    enrolled,   \* ghost: devices a ticket has authorized
    best        \* ghost: the highest counter accepted from a device

vars == <<clock, ceremony, ticket, device, session, request, signed, grants, enrolled, best>>
ghosts == <<grants, enrolled, best>>

NoCeremony == [state |-> "unused", purpose |-> "none", ticket |-> None, expires |-> 0]
NoTicket == [state |-> "unused", creator |-> None, expires |-> 0]
NoDevice == [held |-> FALSE, cred |-> None, counter |-> 0, version |-> 0]
NoSession == [made |-> FALSE, device |-> None, expires |-> 0, revoked |-> FALSE]
NoRequest == [at |-> "idle", token |-> None, purpose |-> "none", ticket |-> None, now |-> 0,
              cred |-> None, seen |-> NoDevice, device |-> None, next |-> 0]

Devices == {d \in Ceremony : device[d].held}

Init ==
    /\ clock = 0
    /\ ceremony = [c \in Ceremony |-> NoCeremony] /\ ticket = [t \in Ticket |-> NoTicket]
    /\ device = [d \in Ceremony |-> NoDevice] /\ session = [s \in Ceremony |-> NoSession]
    /\ request = [h \in Handler |-> NoRequest] /\ signed = [k \in Credential |-> 0]
    /\ grants = [c \in Ceremony |-> 0] /\ enrolled = [t \in Ticket |-> 0]
    /\ best = [d \in Ceremony |-> 0]

-----------------------------------------------------------------------------
(* ------------------------------ the store ------------------------------ *)
\* neither revoked nor expired
LiveSession(s, now) == session[s].made /\ ~session[s].revoked /\ session[s].expires > now

\* sessionDevice
SessionDevice(s, now) == IF LiveSession(s, now) THEN session[s].device ELSE None

\* faulty variant: a consumed ceremony is found again
OpenOrConsumed(c, purpose, now) ==
    /\ ceremony[c].state \in {"open", "consumed"}
    /\ ceremony[c].purpose = purpose /\ ceremony[c].expires > now

\* readCeremony
Open(c, purpose, now) ==
    /\ ceremony[c].state = "open" /\ ceremony[c].purpose = purpose /\ ceremony[c].expires > now

\* faulty variant: the creator of the ticket is not asked for
TicketPending(t, now) == ticket[t].state = "pending" /\ ticket[t].expires > now

\* ticketAvailable, and the WHERE of its consumption: its creator's session lives
TicketAvailable(t, now) ==
    /\ ticket[t].state = "pending" /\ ticket[t].expires > now
    /\ LiveSession(ticket[t].creator, now)

\* completeRegistration decides on the ceremony, the ticket or the empty store
Admitted(c, now) ==
    /\ Open(c, "registration", now)
    /\ IF ceremony[c].ticket = None THEN Devices = {} ELSE TicketAvailable(ceremony[c].ticket, now)

\* faulty variant: the counter is compared with the one read before the await
AdvancesFromSeen(d, seen, next) ==
    device[d].held /\ ((next = 0 /\ device[d].cred \in Synced) \/ next > seen.counter)

\* advanceCounter: the device is as it was read, and its counter goes up
Advances(d, seen, next) ==
    /\ device[d].held /\ device[d].counter = seen.counter /\ device[d].version = seen.version
    /\ (next = 0 /\ device[d].cred \in Synced) \/ next > device[d].counter

\* insertDevice: credential_id is UNIQUE
Unregistered(k) == \A d \in Devices : device[d].cred # k

\* saveCeremony: the limit
HasRoom(active) == Cardinality(active) < Capacity

\* faulty variant: a ticket nobody can cancel or close
TicketOfNobody(s) == [state |-> "pending", creator |-> None, expires |-> clock + Life]

TicketOf(s) == [state |-> "pending", creator |-> s, expires |-> clock + Life]

\* faulty variant: a revoked device leaves its sessions open
SessionsLosing(d) ==
    [s \in Ceremony |-> IF session[s].device = d THEN [session[s] EXCEPT !.device = None]
                        ELSE session[s]]

\* revokeDevice closes the sessions, ON DELETE SET NULL takes the device from them
SessionsWithout(d) ==
    [s \in Ceremony |-> IF session[s].device = d
                        THEN [session[s] EXCEPT !.device = None, !.revoked = TRUE]
                        ELSE session[s]]

Consumed(c) == ceremony' = [ceremony EXCEPT ![c].state = "consumed"]

Opened(s, d, now) ==
    session' = [session EXCEPT ![s] = [made |-> TRUE, device |-> d, expires |-> now + SessionLife,
                                       revoked |-> FALSE]]

-----------------------------------------------------------------------------
(* ------------------------------ ceremonies ----------------------------- *)
Hold(h, r) == request' = [request EXCEPT ![h] = r]
Idle(h) == request[h].at = "idle"

\* register/options: an empty store needs no ticket
RegisterOptions(h, t) ==
    /\ Idle(h)
    /\ Devices = {} \/ (t # None /\ TicketAvailable(t, clock))
    /\ Hold(h, [NoRequest EXCEPT !.at = "options", !.purpose = "registration", !.ticket = t,
                                 !.now = clock])
    /\ UNCHANGED <<clock, ceremony, ticket, device, session, signed, ghosts>>

\* login/options
LoginOptions(h) ==
    /\ Idle(h) /\ Devices # {}
    /\ Hold(h, [NoRequest EXCEPT !.at = "options", !.purpose = "authentication", !.now = clock])
    /\ UNCHANGED <<clock, ceremony, ticket, device, session, signed, ghosts>>

\* saveCeremony: consumed and expired rows go, then one of the slots is taken
SaveCeremony(h) ==
    LET r == request[h]
        active == {c \in Ceremony : ceremony[c].state = "open" /\ ceremony[c].expires > r.now}
        Gone(c) == ceremony[c].state \in {"open", "consumed"} /\ c \notin active
    IN  /\ r.at = "options" /\ Hold(h, NoRequest)
        /\ \/ ~HasRoom(active) /\ UNCHANGED ceremony
           \/ /\ HasRoom(active)
              /\ \E c \in Ceremony :
                    /\ ceremony[c].state = "unused"
                    /\ ceremony' = [x \in Ceremony |->
                          IF x = c THEN [state |-> "open", purpose |-> r.purpose,
                                         ticket |-> r.ticket, expires |-> r.now + Life]
                          ELSE IF Gone(x) THEN [NoCeremony EXCEPT !.state = "deleted"]
                          ELSE ceremony[x]]
        /\ UNCHANGED <<clock, ticket, device, session, signed, ghosts>>

\* register/verify, up to the verification
VerifyRegistration(h, c, k) ==
    /\ Idle(h) /\ Open(c, "registration", clock)
    /\ Hold(h, [NoRequest EXCEPT !.at = "register", !.token = c, !.cred = k, !.next = signed[k],
                                 !.now = clock])
    /\ UNCHANGED <<clock, ceremony, ticket, device, session, signed, ghosts>>

\* completeRegistration: everything or, when refused, nothing
CompleteRegistration(h) ==
    LET r == request[h]
        t == ceremony[r.token].ticket
    IN  /\ r.at = "register" /\ Hold(h, NoRequest)
        /\ IF Admitted(r.token, r.now) /\ Unregistered(r.cred)
           THEN /\ ticket' = IF t = None THEN ticket ELSE [ticket EXCEPT ![t].state = "used"]
                /\ device' = [device EXCEPT ![r.token] =
                      [held |-> TRUE, cred |-> r.cred, counter |-> r.next, version |-> 0]]
                /\ best' = [best EXCEPT ![r.token] = r.next]
                /\ Opened(r.token, r.token, r.now) /\ Consumed(r.token)
                /\ grants' = [grants EXCEPT ![r.token] = @ + 1]
                /\ enrolled' = IF t = None THEN enrolled ELSE [enrolled EXCEPT ![t] = @ + 1]
           ELSE UNCHANGED <<ceremony, ticket, device, session, ghosts>>
        /\ UNCHANGED <<clock, signed>>

\* login/verify, up to the verification: the device is read before it
VerifyLogin(h, c, d) ==
    LET k == device[d].cred IN
    /\ Idle(h) /\ Open(c, "authentication", clock) /\ device[d].held
    /\ k \notin Synced => signed[k] < MaxCount
    /\ signed' = IF k \in Synced THEN signed ELSE [signed EXCEPT ![k] = @ + 1]
    /\ Hold(h, [NoRequest EXCEPT !.at = "login", !.token = c, !.device = d, !.seen = device[d],
                                 !.next = signed'[k], !.now = clock])
    /\ UNCHANGED <<clock, ceremony, ticket, device, session, ghosts>>

\* completeAuthentication
CompleteAuthentication(h) ==
    LET r == request[h] IN
    /\ r.at = "login" /\ Hold(h, NoRequest)
    /\ IF Open(r.token, "authentication", r.now) /\ Advances(r.device, r.seen, r.next)
       THEN /\ device' = [device EXCEPT ![r.device].counter = IF r.next = 0 THEN @ ELSE r.next,
                                        ![r.device].version = @ + 1]
            /\ Opened(r.token, r.device, r.now) /\ Consumed(r.token)
            /\ grants' = [grants EXCEPT ![r.token] = @ + 1]
            /\ best' = [best EXCEPT ![r.device] = IF r.next > @ THEN r.next ELSE @]
       ELSE UNCHANGED <<ceremony, device, session, grants, best>>
    /\ UNCHANGED <<clock, ticket, signed, enrolled>>

\* the adapter refuses the proof
VerificationFails(h) ==
    /\ request[h].at \in {"register", "login"} /\ Hold(h, NoRequest)
    /\ UNCHANGED <<clock, ceremony, ticket, device, session, signed, ghosts>>

-----------------------------------------------------------------------------
(* --------------------- tickets, devices and sessions ------------------- *)
\* the boundary admits a request of a session; the endpoint runs later
Admit(h, s) ==
    /\ Idle(h) /\ SessionDevice(s, clock) # None
    /\ Hold(h, [NoRequest EXCEPT !.at = "admitted", !.token = s, !.now = clock])
    /\ UNCHANGED <<clock, ceremony, ticket, device, session, signed, ghosts>>

Serve(h) == request[h].at = "admitted" /\ Hold(h, NoRequest)

\* issueEnrollmentTicket: the creator's unconsumed tickets are replaced
IssueTicket(h) ==
    LET s == request[h].token
        mine == {t \in Ticket : ticket[t].state = "pending" /\ ticket[t].creator = s}
    IN  /\ Serve(h)
        /\ \E t \in Ticket :
            /\ ticket[t].state = "unused"
            /\ ticket' = [x \in Ticket |->
                  IF x = t THEN TicketOf(s)
                  ELSE IF x \in mine THEN [NoTicket EXCEPT !.state = "deleted"]
                  ELSE ticket[x]]
        /\ UNCHANGED <<clock, ceremony, device, session, signed, ghosts>>

\* cancelEnrollmentTicket
CancelTicket(h, t) ==
    /\ Serve(h)
    /\ ticket[t].state = "pending" /\ ticket[t].creator = request[h].token
    /\ ticket[t].expires > request[h].now
    /\ ticket' = [ticket EXCEPT ![t] = [NoTicket EXCEPT !.state = "deleted"]]
    /\ UNCHANGED <<clock, ceremony, device, session, signed, ghosts>>

\* renameDevice
Rename(h, d) ==
    /\ Serve(h)
    /\ device[d].held /\ device[d].version < MaxVersion
    /\ device' = [device EXCEPT ![d].version = @ + 1]
    /\ UNCHANGED <<clock, ceremony, ticket, session, signed, ghosts>>

\* revokeDevice: not the last; its sessions are closed, and lose it
Revoke(h, d) ==
    /\ Serve(h)
    /\ device[d].held /\ Cardinality(Devices) >= 2
    /\ device' = [device EXCEPT ![d] = NoDevice]
    /\ session' = SessionsWithout(d)
    /\ UNCHANGED <<clock, ceremony, ticket, signed, ghosts>>

\* logout
Logout(s) ==
    /\ session[s].made /\ ~session[s].revoked
    /\ session' = [session EXCEPT ![s].revoked = TRUE]
    /\ UNCHANGED <<clock, ceremony, ticket, device, request, signed, ghosts>>

Tick ==
    /\ clock < MaxTime /\ clock' = clock + 1
    /\ UNCHANGED <<ceremony, ticket, device, session, request, signed, ghosts>>

Next ==
    \/ \E h \in Handler :
        \/ \E t \in Ticket \cup {None} : RegisterOptions(h, t)
        \/ LoginOptions(h) \/ SaveCeremony(h)
        \/ \E c \in Ceremony : \E k \in Credential : VerifyRegistration(h, c, k)
        \/ \E c, d \in Ceremony : VerifyLogin(h, c, d)
        \/ CompleteRegistration(h) \/ CompleteAuthentication(h) \/ VerificationFails(h)
        \/ IssueTicket(h) \/ \E t \in Ticket : CancelTicket(h, t)
        \/ \E c \in Ceremony : Admit(h, c) \/ Rename(h, c) \/ Revoke(h, c)
    \/ \E s \in Ceremony : Logout(s)
    \/ Tick

Spec == Init /\ [][Next]_vars

-----------------------------------------------------------------------------
Purpose == {"none", "registration", "authentication"}
CeremonyRow == [state : {"unused", "open", "consumed", "deleted"}, purpose : Purpose,
                ticket : Ticket \cup {None}, expires : Nat]
TicketRow == [state : {"unused", "pending", "used", "deleted"},
              creator : Ceremony \cup {None}, expires : Nat]
DeviceRow == [held : BOOLEAN, cred : Credential \cup {None}, counter : Nat, version : Nat]
SessionRow == [made : BOOLEAN, device : Ceremony \cup {None}, expires : Nat, revoked : BOOLEAN]
Request == [at : {"idle", "options", "register", "login", "admitted"},
            token : Ceremony \cup {None}, purpose : Purpose, ticket : Ticket \cup {None},
            now : Nat, cred : Credential \cup {None}, seen : DeviceRow,
            device : Ceremony \cup {None}, next : Nat]

TypeOK ==
    /\ clock \in Nat /\ clock <= MaxTime
    /\ ceremony \in [Ceremony -> CeremonyRow]
    /\ ticket \in [Ticket -> TicketRow]
    /\ \A t \in Ticket : ticket[t].state = "pending" => ticket[t].creator # None
    /\ device \in [Ceremony -> DeviceRow]
    /\ session \in [Ceremony -> SessionRow]
    /\ request \in [Handler -> Request]
    /\ signed \in [Credential -> Nat]
    /\ grants \in [Ceremony -> Nat] /\ enrolled \in [Ticket -> Nat] /\ best \in [Ceremony -> Nat]

\* A ceremony is good for one session and a ticket for one device, however many
\* verifications of it are under way in however many relays.
SingleUse ==
    /\ \A c \in Ceremony : grants[c] <= 1
    /\ \A t \in Ticket : enrolled[t] <= 1

\* A session that was not closed is one of an authorized device, also when the
\* device was revoked while its login was being verified.
OpenSessionHasDevice ==
    \A s \in Ceremony : session[s].made /\ ~session[s].revoked => session[s].device \in Devices

\* Two assertions of one passkey that are verified at the same time: the device
\* keeps the highest counter it has accepted, and none below it is accepted later.
CounterIsHighest == \A d \in Devices : device[d].counter = best[d]

\* A passkey is registered once.
CredentialsDiffer == \A d, e \in Devices : device[d].cred = device[e].cred => d = e

\* The slots hold over all relays, although each takes the one it saw free
\* before an await.
WithinCapacity == Cardinality({c \in Ceremony : ceremony[c].state = "open"}) <= Capacity

\* A ceremony that is not used up has made nothing, a ticket neither.
Unspent ==
    /\ \A c \in Ceremony : ceremony[c].state \in {"unused", "open"} =>
          ~device[c].held /\ ~session[c].made /\ grants[c] = 0
    /\ \A t \in Ticket : ticket[t].state \in {"unused", "pending"} => enrolled[t] = 0

\* What a handler holds across its await.
RequestOK ==
    /\ \A h \in Handler :
          /\ request[h].at \in {"register", "login", "admitted"} => request[h].token \in Ceremony
          /\ request[h].at = "register" => request[h].cred \in Credential
          /\ request[h].at = "login" => request[h].device \in Ceremony
    /\ \A d \in Devices : device[d].cred \in Credential

\* The inductive invariant behind the theorems.
IInv ==
    /\ TypeOK /\ Unspent /\ RequestOK /\ SingleUse /\ OpenSessionHasDevice
    /\ CounterIsHighest /\ CredentialsDiffer /\ WithinCapacity

\* sessions that were not closed, with their devices
OpenSessions == {s \in Ceremony : session[s].made /\ ~session[s].revoked}
OpenPairs == {<<s, session[s].device>> : s \in OpenSessions}

\* Devices and sessions come and go as the ledger of access says: the first by
\* claiming, the others by a session that is open (refinement of AccessLedger).
Access == INSTANCE AccessLedger WITH Token <- Ceremony, devices <- Devices, opened <- OpenPairs

AccessSpec == Access!Spec
================================================================================
