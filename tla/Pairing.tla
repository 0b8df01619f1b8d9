-------------------------------- MODULE Pairing --------------------------------
(***************************************************************************)
(* Registering a game, issuing a pairing code, pairing a mobile device and *)
(* revoking devices (PairingService and its repository).                   *)
(*                                                                         *)
(* A handler first reads outside any transaction, then writes: from its    *)
(* first write to COMMIT it holds SQLite's write lock, so each handler is  *)
(* a read step, which records what it read and the clock, and a write      *)
(* step.  In _new_device the first write is the no-op UPDATE of            *)
(* lock_profile, so that the count of devices belongs to the write step.   *)
(***************************************************************************)
EXTENDS Integers, FiniteSets

CONSTANTS
  Sessions,    \* database sessions of concurrent HTTP handlers
  Requests,    \* request ids chosen by clients, for every endpoint
  DeviceIds,   \* the uuids of devices, with the two fixed ones:
  OpenGame, OpenWeb,   \* the devices of the open gate tokens
  CodeIds,     \* the uuids of pairing codes; their 8 digits differ
  Profiles,    \* the uuids of profiles, with the fixed one:
  OpenProfile, \* the profile of the open gate
  MaxDevices,  \* max_devices_per_profile
  Ttl,         \* pairing_code_ttl_seconds
  MaxClock,    \* bound: the clock
  NoDevice, NoCode, NoRequest, NoProfile, NoJob   \* absent rows, NULLs, idle

ASSUME ConstantsAssumption ==
  /\ IsFiniteSet(DeviceIds)
  /\ {OpenGame, OpenWeb} \subseteq DeviceIds /\ OpenGame # OpenWeb
  /\ OpenProfile \in Profiles
  /\ MaxDevices \in Nat \ {0}
  /\ Ttl \in Nat \ {0} /\ MaxClock \in Nat
  /\ NoRequest \notin Requests

VARIABLES
  device,  \* device[d]: the devices row, or NoDevice
  code,    \* code[c]: the pairing_codes row, or NoCode
  clock,   \* seconds, as datetime.now(UTC)
  pc,      \* pc[s]: the write step that session s has to do
  job      \* job[s]: what session s read and computed before it

vars == <<device, code, clock, pc, job>>

-------------------------------------------------------------------------------
(* Rows *)

Device == [profile : Profiles, role : {"GameClient", "WebClient"},
           request : Requests \union {NoRequest}, revoked : BOOLEAN]
\* device and redeemed are the paired_device_id and redeemed_request_id columns.
Code == [profile : Profiles, issue : Requests, expires : Nat,
         used : BOOLEAN, usedAt : Nat,
         redeemed : Requests \union {NoRequest}, device : DeviceIds]
Job == [request : Requests, profile : Profiles \union {NoProfile},
        code : CodeIds \union {NoCode}, now : Nat]
\* An absent row is not a row.
ASSUME AbsentAssumption == NoDevice \notin Device /\ NoCode \notin Code

JobOf(q, p, c) == [request |-> q, profile |-> p, code |-> c, now |-> clock]

OpenDevices == {OpenGame, OpenWeb}
Exists(d) == device[d] # NoDevice
Active(d) == Exists(d) /\ ~device[d].revoked
\* list_devices and count_active_devices.
DevicesOf(p) == {d \in DeviceIds : Exists(d) /\ device[d].profile = p}
ActiveDevices(p) == {d \in DevicesOf(p) : ~device[d].revoked}
\* Mutant: the request id is compared among game clients only.
RequestTakenByGame(q) ==
  \E d \in DeviceIds : Exists(d) /\ device[d].request = q /\ device[d].role = "GameClient"
\* find_device_by_creation_request, over every profile and role.
RequestTaken(q) == \E d \in DeviceIds : Exists(d) /\ device[d].request = q
\* Mutant: a code that has been used is not found any more.
IssuedUnused(p, q) ==
  \E c \in CodeIds : code[c] # NoCode /\ ~code[c].used /\ code[c].profile = p /\ code[c].issue = q
\* find_pairing_code_by_issue_request.
Issued(p, q) == \E c \in CodeIds :
                  code[c] # NoCode /\ code[c].profile = p /\ code[c].issue = q
\* find_pairing_code_by_redemption_request.
Redeemed(q) == \E c \in CodeIds : code[c] # NoCode /\ code[c].redeemed = q

NewDevice(p, role, q) ==
  [profile |-> p, role |-> role, request |-> q, revoked |-> FALSE]

Init ==
  /\ device = [d \in DeviceIds |-> NoDevice]
  /\ code = [c \in CodeIds |-> NoCode]
  /\ clock = 0
  /\ pc = [s \in Sessions |-> "idle"]
  /\ job = [s \in Sessions |-> NoJob]

Begin(s, step, j) ==
  /\ pc[s] = "idle"
  /\ pc' = [pc EXCEPT ![s] = step]
  /\ job' = [job EXCEPT ![s] = j]
  /\ UNCHANGED <<device, code, clock>>

\* The handler answers, fails or is cancelled: an open transaction rolls back.
End(s) ==
  /\ pc' = [pc EXCEPT ![s] = "idle"]
  /\ job' = [job EXCEPT ![s] = NoJob]
  /\ UNCHANGED clock

Abort(s) == pc[s] # "idle" /\ End(s) /\ UNCHANGED <<device, code>>

-------------------------------------------------------------------------------
(* POST /register-game *)

\* The answer to a known request is its device's token: nothing changes.
BeginRegister(s, q) ==
  /\ ~RequestTaken(q)
  /\ Begin(s, "register", JobOf(q, NoProfile, NoCode))

\* create_profile with a fresh uuid, _new_device and commit; a device that the
\* request got meanwhile violates uq_devices_creation_request: roll back.
Register(s) ==
  LET q == job[s].request IN
  /\ pc[s] = "register"
  /\ IF RequestTaken(q)
     THEN UNCHANGED device
     ELSE \E p \in Profiles \ {OpenProfile}, d \in DeviceIds \ OpenDevices :
            /\ DevicesOf(p) = {} /\ ~Exists(d)
            /\ device' = [device EXCEPT ![d] = NewDevice(p, "GameClient", q)]
  /\ End(s) /\ UNCHANGED code

-------------------------------------------------------------------------------
(* POST /pairing-codes, by an authenticated GameClient *)

BeginIssue(s, g, q) ==
  /\ Active(g) /\ device[g].role = "GameClient"
  /\ ~Issued(device[g].profile, q)
  /\ Begin(s, "issue", JobOf(q, device[g].profile, NoCode))

\* uq_pairing_codes_profile_issue_request violated: roll back.
Issue(s) ==
  LET j == job[s] IN
  /\ pc[s] = "issue"
  /\ IF Issued(j.profile, j.request)
     THEN UNCHANGED code
     ELSE \E c \in CodeIds :
            /\ code[c] = NoCode
            /\ code' = [code EXCEPT ![c] =
                 [profile |-> j.profile, issue |-> j.request, expires |-> j.now + Ttl,
                  used |-> FALSE, usedAt |-> 0, redeemed |-> NoRequest,
                  device |-> OpenGame]]
  /\ End(s) /\ UNCHANGED device

-------------------------------------------------------------------------------
(* POST /pair *)

\* _match_pairing_code: expired codes are candidates for one more TTL.
Matched(c) == code[c] # NoCode /\ code[c].expires > clock - Ttl

\* Mutant: a code is still good at the second of its expiry.
BeginPairAtExpiry(s, c, q) ==
  /\ ~Redeemed(q)
  /\ Matched(c) /\ ~(code[c].expires < clock) /\ ~code[c].used
  /\ Begin(s, "pair", JobOf(q, code[c].profile, c))

\* pair_device up to its first write: not a retry, the code is known, not
\* expired and not used.
BeginPair(s, c, q) ==
  /\ ~Redeemed(q)
  /\ Matched(c) /\ ~(code[c].expires <= clock) /\ ~code[c].used
  /\ Begin(s, "pair", JobOf(q, code[c].profile, c))

\* Mutant: the cap is compared with the wrong operator.
MayAddDeviceOverCap(p, q) ==
  /\ Cardinality(ActiveDevices(p)) <= MaxDevices
  /\ ~RequestTaken(q)

\* _new_device: the cap, and a creation request nobody used.
MayAddDevice(p, q) ==
  /\ Cardinality(ActiveDevices(p)) < MaxDevices
  /\ ~RequestTaken(q)

\* A code after request q used it at time n for device d.
UsedCode(c, q, n, d) ==
  [c EXCEPT !.used = TRUE, !.usedAt = n, !.redeemed = q, !.device = d]

\* Mutant: redemption trusts the read of used_at before the first write.
RedeemUnchecked(s, d) ==
  LET j == job[s] IN
  code' = [code EXCEPT ![j.code] = UsedCode(code[j.code], j.request, j.now, d)]

\* redeem_pairing_code: UPDATE ... WHERE used_at IS NULL.
Redeem(s, d) ==
  LET j == job[s] IN
  /\ ~code[j.code].used
  /\ code' = [code EXCEPT ![j.code] = UsedCode(code[j.code], j.request, j.now, d)]

\* The writes of pair_device: the new device and the redeemed code commit
\* together, or the cap, the unique request or the used code undo both.
Pair(s) ==
  LET j == job[s] IN
  /\ pc[s] = "pair"
  /\ \/ \E d \in DeviceIds \ OpenDevices :
          /\ ~Exists(d)
          /\ MayAddDevice(j.profile, j.request)
          /\ device' = [device EXCEPT ![d] = NewDevice(j.profile, "WebClient", j.request)]
          /\ Redeem(s, d)
     \/ /\ ~MayAddDevice(j.profile, j.request) \/ code[j.code].used
        /\ UNCHANGED <<device, code>>
  /\ End(s)

-------------------------------------------------------------------------------
(* DELETE /devices/{id} and /devices/me *)

Revoked(row) == [row EXCEPT !.revoked = TRUE]

\* revoke_device by the GameClient of the profile, or revoke_current_device.
Revoke(d) ==
  /\ Active(d) /\ device[d].role = "WebClient"
  /\ device' = [device EXCEPT ![d] = Revoked(device[d])]
  /\ UNCHANGED <<code, clock, pc, job>>

\* _ensure_open_gate_identity: the fixed token creates its rows on first use,
\* with neither the cap nor a lock.
OpenGate(d, role) ==
  /\ ~Exists(d)
  /\ device' = [device EXCEPT ![d] = NewDevice(OpenProfile, role, NoRequest)]
  /\ UNCHANGED <<code, clock, pc, job>>

Tick == clock < MaxClock /\ clock' = clock + 1 /\ UNCHANGED <<device, code, pc, job>>

Next ==
  \/ \E s \in Sessions :
       \/ \E q \in Requests :
            \/ BeginRegister(s, q)
            \/ \E g \in DeviceIds : BeginIssue(s, g, q)
            \/ \E c \in CodeIds : BeginPair(s, c, q)
       \/ Register(s) \/ Issue(s) \/ Pair(s) \/ Abort(s)
  \/ \E d \in DeviceIds : Revoke(d)
  \/ OpenGate(OpenGame, "GameClient") \/ OpenGate(OpenWeb, "WebClient")
  \/ Tick

Spec == Init /\ [][Next]_vars

-------------------------------------------------------------------------------
\* The type of every variable (app/db/models.py).
TypeOK ==
  /\ device \in [DeviceIds -> Device \union {NoDevice}]
  /\ code \in [CodeIds -> Code \union {NoCode}]
  /\ clock \in Nat
  /\ pc \in [Sessions -> {"idle", "register", "issue", "pair"}]
  /\ job \in [Sessions -> Job \union {NoJob}]

\* However many devices pair at the same moment, the devices of a profile that
\* are not revoked and were created through _new_device never outnumber
\* max_devices_per_profile (the open gate's own two devices skip the cap).
DeviceCap ==
  \A p \in Profiles : Cardinality(ActiveDevices(p) \ OpenDevices) <= MaxDevices

\* A code pairs at most one device, and a device exists for every used code:
\* the device in the code's profile that the code's redemption request created.
\* So a failed or repeated pairing never burns a code without a device.
UsedCodeHasDevice ==
  \A c \in CodeIds :
    code[c] # NoCode /\ code[c].used =>
      LET d == code[c].device IN
      /\ Exists(d) /\ d \notin OpenDevices
      /\ device[d].role = "WebClient"
      /\ device[d].profile = code[c].profile
      /\ device[d].request = code[c].redeemed
      /\ code[c].usedAt < code[c].expires

\* Every WebClient was admitted by a code: two requests that race for one code
\* leave one device, not two with one code.
DeviceHasOneCode ==
  \A d \in DeviceIds \ OpenDevices :
    Exists(d) /\ device[d].role = "WebClient" =>
      \E c \in CodeIds :
        /\ code[c] # NoCode /\ code[c].used /\ code[c].device = d
        /\ \A b \in CodeIds : code[b] # NoCode /\ code[b].used /\ code[b].device = d => b = c

\* A client that repeats a request, even while the first one is still running,
\* gets one device: no two devices come from one request, over all endpoints.
OneDevicePerRequest ==
  \A d, e \in DeviceIds :
    Exists(d) /\ Exists(e) /\ device[d].request = device[e].request
      /\ device[d].request # NoRequest => d = e

-------------------------------------------------------------------------------
(* The handlers implement DeviceRegistry, whose steps take effect at once:    *)
(* their write steps are its steps, and what they read before is not seen.    *)
(* The open gate's two devices, which join uncounted and unasked, are not     *)
(* members of its registry.                                                   *)

Members == [p \in Profiles |-> ActiveDevices(p) \ OpenDevices]
Joined == {d \in DeviceIds \ OpenDevices : Exists(d)}
Expelled == {d \in Joined : device[d].revoked}
Issues == {c \in CodeIds : code[c] # NoCode}
Used == {c \in Issues : code[c].used}
Offers == [p \in Profiles |-> {c \in Issues \ Used : code[c].profile = p}]
Asked == {<<code[c].profile, code[c].issue>> : c \in Issues}
Served == {device[d].request : d \in Joined}

Registry == INSTANCE DeviceRegistry WITH
  Devices <- DeviceIds \ OpenDevices, Codes <- CodeIds, Room <- MaxDevices,
  members <- Members, expelled <- Expelled, offers <- Offers, used <- Used,
  asked <- Asked, served <- Served

\* Handlers that overlap, race for a code or repeat a request have the effect of one
\* after another: an asking gets one code, a code admits one device, into the profile
\* that offered it and has room at that moment, a request gets one device, and a
\* revoked device does not come back.
ImplementsDeviceRegistry == Registry!Spec

-------------------------------------------------------------------------------
(* What a session between its read and its write still knows, which makes  *)
(* the properties inductive.                                               *)

\* A waiting pairing holds an existing code of its profile, read before the
\* code expired.
JobsRemember ==
  \A s \in Sessions :
    /\ pc[s] # "idle" => job[s] \in Job
    /\ pc[s] = "issue" => job[s].profile \in Profiles
    /\ pc[s] = "pair" =>
         /\ job[s].code \in CodeIds /\ code[job[s].code] # NoCode
         /\ job[s].profile = code[job[s].code].profile
         /\ job[s].now < code[job[s].code].expires

IndInv == TypeOK /\ JobsRemember /\ DeviceCap /\ UsedCodeHasDevice
          /\ DeviceHasOneCode /\ OneDevicePerRequest
===============================================================================
