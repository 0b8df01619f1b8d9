----------------------------- MODULE Pairing_proofs -----------------------------
(***************************************************************************)
(* Proofs about Pairing: types, the device cap, the one-to-one binding of  *)
(* codes, devices and requests, and that it implements DeviceRegistry, for *)
(* any number of sessions, requests, profiles and codes and any cap, TTL   *)
(* and clock.                                                              *)
(***************************************************************************)
EXTENDS Pairing, FiniteSetTheorems, TLAPS

\* Types, and what sessions between their read and their write still know.
Base == TypeOK /\ JobsRemember

\* Codes are never forgotten, and never change their profile or expiry.
CodesStay ==
  \A c \in CodeIds :
    code[c] # NoCode => /\ code'[c] # NoCode
                        /\ code'[c].profile = code[c].profile
                        /\ code'[c].expires = code[c].expires

\* The initial state has no rows and no session at work.
LEMMA InitBase == Init => Base
BY ConstantsAssumption DEF Init, Base, TypeOK, JobsRemember

\* The read step of a handler, with what its job must hold.
LEMMA BeginBase ==
  ASSUME Base, NEW s \in Sessions, NEW j \in Job,
         NEW step \in {"register", "issue", "pair"}, Begin(s, step, j),
         step = "issue" => j.profile \in Profiles,
         step = "pair" => /\ j.code \in CodeIds /\ code[j.code] # NoCode
                          /\ j.profile = code[j.code].profile
                          /\ j.now < code[j.code].expires
  PROVE  Base' /\ UNCHANGED <<device, code>>
BY DEF Base, Begin, TypeOK, JobsRemember

\* The end of a handler, with what its writes must keep.
LEMMA EndBase ==
  ASSUME Base, NEW s \in Sessions, End(s), CodesStay,
         device' \in [DeviceIds -> Device \union {NoDevice}],
         code' \in [CodeIds -> Code \union {NoCode}]
  PROVE  Base'
BY DEF Base, End, TypeOK, JobsRemember, CodesStay

\* The rows that Register and Pair insert are rows.
LEMMA NewDeviceType ==
  ASSUME NEW p \in Profiles, NEW role \in {"GameClient", "WebClient"},
         NEW q \in Requests \union {NoRequest}
  PROVE  NewDevice(p, role, q) \in Device /\ NewDevice(p, role, q) # NoDevice
<1>1. NewDevice(p, role, q) \in Device
  BY DEF NewDevice, Device
<1> QED
  BY <1>1, AbsentAssumption

\* A redeemed code is a code of the same profile and expiry.
LEMMA UsedCodeType ==
  ASSUME NEW c \in Code, NEW q \in Requests, NEW n \in Nat, NEW d \in DeviceIds
  PROVE  /\ UsedCode(c, q, n, d) \in Code
         /\ UsedCode(c, q, n, d) # NoCode
         /\ UsedCode(c, q, n, d).profile = c.profile
         /\ UsedCode(c, q, n, d).expires = c.expires
         /\ UsedCode(c, q, n, d).used /\ UsedCode(c, q, n, d).usedAt = n
         /\ UsedCode(c, q, n, d).redeemed = q /\ UsedCode(c, q, n, d).device = d
<1>1. UsedCode(c, q, n, d) \in Code
  BY DEF UsedCode, Code
<1> QED
  BY <1>1, AbsentAssumption DEF UsedCode, Code

\* A revoked device is still the same device.
LEMMA RevokedType ==
  ASSUME NEW r \in Device
  PROVE  /\ Revoked(r) \in Device /\ Revoked(r) # NoDevice /\ Revoked(r).revoked
         /\ Revoked(r).profile = r.profile /\ Revoked(r).role = r.role
         /\ Revoked(r).request = r.request
<1>1. Revoked(r) \in Device
  BY DEF Revoked, Device
<1> QED
  BY <1>1, AbsentAssumption DEF Revoked, Device

LEMMA RegisterBase ==
  ASSUME Base, NEW s \in Sessions, Register(s) PROVE Base'
<1>1. job[s].request \in Requests
  BY DEF Base, JobsRemember, Register, Job
<1>2. device' \in [DeviceIds -> Device \union {NoDevice}]
  BY <1>1, NewDeviceType DEF Register, Base, TypeOK
<1>3. CodesStay /\ code' \in [CodeIds -> Code \union {NoCode}]
  BY DEF Register, CodesStay, Base, TypeOK
<1> QED
  BY <1>2, <1>3, EndBase DEF Register

LEMMA IssueBase ==
  ASSUME Base, NEW s \in Sessions, Issue(s) PROVE Base'
<1>1. job[s] \in Job /\ job[s].profile \in Profiles
  BY DEF Base, JobsRemember, Issue
<1>2. device' \in [DeviceIds -> Device \union {NoDevice}]
  BY DEF Issue, Base, TypeOK
<1>3. CodesStay
  BY AbsentAssumption DEF Issue, CodesStay, Base, TypeOK
<1>4. code' \in [CodeIds -> Code \union {NoCode}]
  <2>1. ASSUME NEW c \in CodeIds
        PROVE  [profile |-> job[s].profile, issue |-> job[s].request,
                expires |-> job[s].now + Ttl, used |-> FALSE, usedAt |-> 0,
                redeemed |-> NoRequest, device |-> OpenGame] \in Code
    BY <1>1, ConstantsAssumption DEF Job, Code
  <2> QED
    BY <2>1 DEF Issue, Base, TypeOK
<1> QED
  BY <1>2, <1>3, <1>4, EndBase DEF Issue

LEMMA RedeemType ==
  ASSUME Base, NEW s \in Sessions, pc[s] = "pair", NEW d \in DeviceIds, Redeem(s, d)
  PROVE  CodesStay /\ code' \in [CodeIds -> Code \union {NoCode}]
<1>1. /\ job[s].request \in Requests /\ job[s].now \in Nat /\ job[s].code \in CodeIds
      /\ code[job[s].code] \in Code
  BY DEF Base, JobsRemember, TypeOK, Job
<1> QED
  BY <1>1, UsedCodeType DEF Redeem, CodesStay, Base, TypeOK

LEMMA PairBase ==
  ASSUME Base, NEW s \in Sessions, Pair(s) PROVE Base'
<1>1. job[s].request \in Requests /\ job[s].profile \in Profiles
  BY DEF Base, JobsRemember, Pair, Job, TypeOK, Code
<1>2. device' \in [DeviceIds -> Device \union {NoDevice}]
  BY <1>1, NewDeviceType DEF Pair, Base, TypeOK
<1>3. CodesStay /\ code' \in [CodeIds -> Code \union {NoCode}]
  <2>1. CASE \E d \in DeviceIds : Redeem(s, d)
    BY <2>1, RedeemType DEF Pair
  <2>2. CASE UNCHANGED code
    BY <2>2 DEF CodesStay, Base, TypeOK
  <2> QED
    BY <2>1, <2>2 DEF Pair
<1> QED
  BY <1>2, <1>3, EndBase DEF Pair

\* Every step keeps the types and what waiting sessions know.
LEMMA NextBase == Base /\ [Next]_vars => Base'
<1> SUFFICES ASSUME Base, [Next]_vars PROVE Base'
  OBVIOUS
<1>1. ASSUME NEW s \in Sessions, NEW q \in Requests, BeginRegister(s, q)
      PROVE  Base'
  <2>1. JobOf(q, NoProfile, NoCode) \in Job
    BY DEF JobOf, Job, Base, TypeOK
  <2> QED
    BY <1>1, <2>1, BeginBase DEF BeginRegister
<1>2. ASSUME NEW s \in Sessions, NEW q \in Requests, NEW g \in DeviceIds,
             BeginIssue(s, g, q)
      PROVE  Base'
  <2>1. device[g].profile \in Profiles
    BY <1>2 DEF BeginIssue, Active, Exists, Base, TypeOK, Device
  <2>2. JobOf(q, device[g].profile, NoCode) \in Job
        /\ JobOf(q, device[g].profile, NoCode).profile \in Profiles
    BY <2>1 DEF JobOf, Job, Base, TypeOK
  <2> QED
    BY <1>2, <2>2, BeginBase DEF BeginIssue
<1>3. ASSUME NEW s \in Sessions, NEW q \in Requests, NEW c \in CodeIds,
             BeginPair(s, c, q)
      PROVE  Base'
  <2>1. code[c] # NoCode /\ code[c] \in Code
    BY <1>3 DEF BeginPair, Matched, Base, TypeOK
  <2> DEFINE j == JobOf(q, code[c].profile, c)
  <2>2. j \in Job /\ j.code = c /\ j.profile = code[c].profile
    BY <2>1 DEF JobOf, Job, Base, TypeOK, Code
  <2>3. j.now < code[c].expires
    BY <1>3, <2>1 DEF JobOf, BeginPair, Base, TypeOK, Code
  <2>4. Begin(s, "pair", j)
    BY <1>3 DEF BeginPair
  <2> HIDE DEF j
  <2> QED
    BY <2>1, <2>2, <2>3, <2>4, BeginBase
<1>4. ASSUME NEW s \in Sessions, Abort(s) PROVE Base'
  BY <1>4, EndBase DEF Abort, CodesStay, Base, TypeOK
<1>5. ASSUME NEW d \in DeviceIds, Revoke(d) PROVE Base'
  BY <1>5, RevokedType DEF Revoke, Active, Exists, Base, TypeOK, JobsRemember
<1>6. ASSUME NEW d \in DeviceIds, NEW role \in {"GameClient", "WebClient"},
             OpenGate(d, role)
      PROVE  Base'
  BY <1>6, NewDeviceType, ConstantsAssumption DEF OpenGate, Base, TypeOK, JobsRemember
<1>7. CASE Tick
  BY <1>7 DEF Tick, Base, TypeOK, JobsRemember
<1>8. CASE UNCHANGED vars
  BY <1>8 DEF vars, Base, TypeOK, JobsRemember
<1> QED
  BY <1>1, <1>2, <1>3, <1>4, <1>5, <1>6, <1>7, <1>8, RegisterBase, IssueBase, PairBase,
     ConstantsAssumption DEF Next

\* In every reachable state every row and every job is well-formed.
THEOREM TypeCorrect == Spec => []TypeOK
<1>1. Spec => []Base
  BY InitBase, NextBase, PTL DEF Spec
<1>2. Base => TypeOK
  BY DEF Base
<1> QED
  BY <1>1, <1>2, PTL

-------------------------------------------------------------------------------
(* The device cap *)

LEMMA ActiveFinite ==
  ASSUME NEW p PROVE IsFiniteSet(ActiveDevices(p))
<1>1. ActiveDevices(p) \subseteq DeviceIds
  BY DEF ActiveDevices, DevicesOf
<1> QED
  BY <1>1, FS_Subset, ConstantsAssumption

\* A step that brings no new active device outside the open gate.
LEMMA CapNotReached ==
  ASSUME DeviceCap,
         \A p \in Profiles :
           ActiveDevices(p)' \ OpenDevices \subseteq ActiveDevices(p) \ OpenDevices
  PROVE  DeviceCap'
<1> SUFFICES ASSUME NEW p \in Profiles
             PROVE  Cardinality(ActiveDevices(p)' \ OpenDevices) <= MaxDevices
  BY DEF DeviceCap, OpenDevices
<1> DEFINE A == ActiveDevices(p) \ OpenDevices
           B == ActiveDevices(p)' \ OpenDevices
<1>1. IsFiniteSet(A) /\ Cardinality(A) <= MaxDevices /\ B \subseteq A
  BY ActiveFinite, FS_Subset DEF DeviceCap
<1> HIDE DEF A, B
<1>2. Cardinality(B) <= Cardinality(A)
      /\ Cardinality(A) \in Nat /\ Cardinality(B) \in Nat
  BY <1>1, FS_Subset, FS_CardinalityType
<1> QED
  BY <1>1, <1>2, ConstantsAssumption DEF B

\* A new device d, where the active devices of its profile were counted.
LEMMA CapCounted ==
  ASSUME DeviceCap, NEW d \in DeviceIds, NEW row \in Device,
         ~Exists(d), device \in [DeviceIds -> Device \union {NoDevice}],
         device' = [device EXCEPT ![d] = row],
         Cardinality(ActiveDevices(row.profile)) < MaxDevices
  PROVE  DeviceCap'
<1> SUFFICES ASSUME NEW p \in Profiles
             PROVE  Cardinality(ActiveDevices(p)' \ OpenDevices) <= MaxDevices
  BY DEF DeviceCap, OpenDevices
<1>1. CASE p # row.profile
  <2>1. ActiveDevices(p)' = ActiveDevices(p)
    BY <1>1 DEF ActiveDevices, DevicesOf, Exists
  <2> QED
    BY <2>1 DEF DeviceCap
<1>2. CASE p = row.profile
  <2> DEFINE A == ActiveDevices(p)
             B == ActiveDevices(p)' \ OpenDevices
  <2>1. B \subseteq A \union {d}
    BY <1>2 DEF ActiveDevices, DevicesOf, Exists
  <2>2. IsFiniteSet(A) /\ d \notin A
    BY ActiveFinite DEF ActiveDevices, DevicesOf
  <2>3. Cardinality(A) < MaxDevices
    BY <1>2
  <2> HIDE DEF A, B
  <2>4. IsFiniteSet(A \union {d}) /\ Cardinality(A \union {d}) = Cardinality(A) + 1
        /\ Cardinality(A) \in Nat
    BY <2>2, FS_AddElement, FS_CardinalityType
  <2>5. Cardinality(B) <= Cardinality(A \union {d}) /\ Cardinality(B) \in Nat
    BY <2>1, <2>4, FS_Subset, FS_CardinalityType
  <2> QED
    BY <2>3, <2>4, <2>5, ConstantsAssumption DEF B
<1> QED
  BY <1>1, <1>2

\* Every step keeps the cap: only Register and Pair add a device that counts.
LEMMA NextCap == Base /\ DeviceCap /\ [Next]_vars => DeviceCap'
<1> SUFFICES ASSUME Base, DeviceCap, [Next]_vars PROVE DeviceCap'
  OBVIOUS
<1>1. CASE UNCHANGED device
  BY <1>1, CapNotReached DEF ActiveDevices, DevicesOf, Exists
<1>2. ASSUME NEW s \in Sessions, Register(s) PROVE DeviceCap'
  <2> SUFFICES ASSUME NEW p \in Profiles, NEW d \in DeviceIds, DevicesOf(p) = {},
                      ~Exists(d),
                      device' = [device EXCEPT ![d] =
                                   NewDevice(p, "GameClient", job[s].request)]
               PROVE  DeviceCap'
    BY <1>1, <1>2 DEF Register
  <2> DEFINE row == NewDevice(p, "GameClient", job[s].request)
  <2>1. row \in Device /\ row.profile = p
    BY <1>2, NewDeviceType DEF Register, Base, JobsRemember, Job, NewDevice
  <2>2. ActiveDevices(p) = {}
    BY DEF ActiveDevices
  <2>3. Cardinality(ActiveDevices(p)) < MaxDevices
    BY <2>2, FS_EmptySet, ConstantsAssumption
  <2> HIDE DEF row
  <2> QED
    BY <2>1, <2>3, CapCounted DEF Base, TypeOK, row
<1>3. ASSUME NEW s \in Sessions, Pair(s) PROVE DeviceCap'
  <2> DEFINE p == job[s].profile
             row == NewDevice(p, "WebClient", job[s].request)
  <2> SUFFICES ASSUME NEW d \in DeviceIds, ~Exists(d), MayAddDevice(p, job[s].request),
                      device' = [device EXCEPT ![d] = row]
               PROVE  DeviceCap'
    BY <1>1, <1>3 DEF Pair
  <2>1. row \in Device /\ row.profile = p
    BY <1>3, NewDeviceType DEF Pair, Base, JobsRemember, Job, TypeOK, Code, NewDevice
  <2> HIDE DEF row
  <2>2. Cardinality(ActiveDevices(p)) < MaxDevices
    BY DEF MayAddDevice
  <2> QED
    BY <2>1, <2>2, CapCounted DEF Base, TypeOK
<1>4. ASSUME NEW d \in DeviceIds, Revoke(d) PROVE DeviceCap'
  BY <1>4, CapNotReached, RevokedType
     DEF Revoke, Active, ActiveDevices, DevicesOf, Exists, Base, TypeOK
<1>5. ASSUME NEW d \in OpenDevices, NEW role, OpenGate(d, role) PROVE DeviceCap'
  BY <1>5, CapNotReached DEF OpenGate, ActiveDevices, DevicesOf, Exists, Base, TypeOK
<1> QED
  BY <1>1, <1>2, <1>3, <1>4, <1>5
     DEF Next, vars, BeginRegister, BeginIssue, BeginPair, Begin, Issue, Abort, Tick, OpenDevices

\* DeviceCap: however many sessions pair at once, no profile gets more devices
\* than max_devices_per_profile through _new_device.
THEOREM CapHolds == Spec => []DeviceCap
<1>1. Init => DeviceCap
  <2> SUFFICES ASSUME Init, NEW p \in Profiles
               PROVE  Cardinality(ActiveDevices(p) \ OpenDevices) <= MaxDevices
    BY DEF DeviceCap
  <2>1. ActiveDevices(p) \ OpenDevices = {}
    BY DEF Init, ActiveDevices, DevicesOf, Exists
  <2> QED
    BY <2>1, FS_EmptySet, ConstantsAssumption
<1> QED
  BY <1>1, InitBase, NextBase, NextCap, PTL DEF Spec

-------------------------------------------------------------------------------
(* Codes, devices and requests *)

Bound == UsedCodeHasDevice /\ DeviceHasOneCode /\ OneDevicePerRequest

\* Devices keep their profile, role and request; only Pair uses a code.
LEMMA BoundKept ==
  ASSUME Base, Bound,
         \A d \in DeviceIds : Exists(d) => /\ Exists(d)'
                                          /\ device'[d].profile = device[d].profile
                                          /\ device'[d].role = device[d].role
                                          /\ device'[d].request = device[d].request,
         \A d \in DeviceIds : Exists(d)' /\ ~Exists(d) =>
           \/ d \in OpenDevices /\ device'[d].request = NoRequest
           \/ /\ device'[d].role = "GameClient"
              /\ ~RequestTaken(device'[d].request)
              /\ \A e \in DeviceIds : Exists(e)' /\ ~Exists(e) => e = d,
         \A c \in CodeIds : code'[c] # code[c] => code[c] = NoCode /\ ~code'[c].used
  PROVE  Bound'
<1>1. UsedCodeHasDevice'
  <2> SUFFICES ASSUME NEW c \in CodeIds, code'[c] # NoCode, code'[c].used
               PROVE  LET e == code'[c].device IN
                      /\ device'[e] # NoDevice /\ e \notin OpenDevices
                      /\ device'[e].role = "WebClient"
                      /\ device'[e].profile = code'[c].profile
                      /\ device'[e].request = code'[c].redeemed
                      /\ code'[c].usedAt < code'[c].expires
    BY DEF UsedCodeHasDevice, OpenDevices, Exists
  <2>1. code'[c] = code[c] /\ code[c] \in Code /\ code[c].device \in DeviceIds
    BY DEF Base, TypeOK, Code
  <2> QED
    BY <2>1 DEF Bound, UsedCodeHasDevice, Exists
<1>2. DeviceHasOneCode'
  BY DEF Base, TypeOK, Bound, UsedCodeHasDevice, DeviceHasOneCode, OpenDevices
<1>3. OneDevicePerRequest'
  BY DEF Bound, OneDevicePerRequest, RequestTaken
<1> QED
  BY <1>1, <1>2, <1>3 DEF Bound

\* The pairing that wins: its device is new and its code was unused.
LEMMA PairBound ==
  ASSUME Base, Bound, NEW s \in Sessions, pc[s] = "pair",
         NEW d \in DeviceIds \ OpenDevices, ~Exists(d),
         ~RequestTaken(job[s].request),
         device' = [device EXCEPT ![d] =
                      NewDevice(job[s].profile, "WebClient", job[s].request)],
         Redeem(s, d)
  PROVE  Bound'
<1> DEFINE j == job[s]
           row == NewDevice(j.profile, "WebClient", j.request)
           used == UsedCode(code[j.code], j.request, j.now, d)
<1>1. /\ j.request \in Requests /\ j.now \in Nat /\ j.code \in CodeIds
      /\ code[j.code] \in Code /\ code[j.code] # NoCode
      /\ j.profile = code[j.code].profile /\ j.profile \in Profiles
      /\ j.now < code[j.code].expires
  BY DEF Base, JobsRemember, TypeOK, Job, Code
<1>2. /\ row \in Device /\ row # NoDevice
      /\ row.profile = j.profile /\ row.role = "WebClient" /\ row.request = j.request
  BY <1>1, NewDeviceType DEF NewDevice
<1>3. /\ used \in Code /\ used # NoCode /\ used.profile = j.profile
      /\ used.expires = code[j.code].expires /\ used.used /\ used.usedAt = j.now
      /\ used.redeemed = j.request /\ used.device = d
  BY <1>1, UsedCodeType
<1>4. device' = [device EXCEPT ![d] = row] /\ code' = [code EXCEPT ![j.code] = used]
      /\ ~code[j.code].used
  BY DEF Redeem
<1> HIDE DEF j, row, used
<1>5. UsedCodeHasDevice'
  BY <1>1, <1>2, <1>3, <1>4 DEF Base, TypeOK, Bound, UsedCodeHasDevice, Exists, OpenDevices
<1>6. DeviceHasOneCode'
  BY <1>1, <1>2, <1>3, <1>4
     DEF Base, TypeOK, Bound, UsedCodeHasDevice, DeviceHasOneCode, Exists, OpenDevices
<1>7. OneDevicePerRequest'
  <2>1. ~RequestTaken(j.request)
    BY DEF j
  <2> QED
    BY <1>1, <1>2, <1>4, <2>1
       DEF Base, TypeOK, Bound, OneDevicePerRequest, RequestTaken, Exists
<1> QED
  BY <1>5, <1>6, <1>7 DEF Bound

LEMMA NextBound == Base /\ Bound /\ [Next]_vars => Bound'
<1> SUFFICES ASSUME Base, Bound, [Next]_vars PROVE Bound'
  OBVIOUS
<1>1. CASE UNCHANGED <<device, code>>
  BY <1>1, BoundKept DEF Exists
<1>2. ASSUME NEW s \in Sessions, Register(s) PROVE Bound'
  <2> SUFFICES ASSUME NEW p \in Profiles, NEW d \in DeviceIds, ~Exists(d),
                      ~RequestTaken(job[s].request),
                      device' = [device EXCEPT ![d] =
                                   NewDevice(p, "GameClient", job[s].request)]
               PROVE  Bound'
    BY <1>1, <1>2 DEF Register
  <2> DEFINE row == NewDevice(p, "GameClient", job[s].request)
  <2>1. /\ row \in Device /\ row # NoDevice
        /\ row.role = "GameClient" /\ row.request = job[s].request
    BY <1>2, NewDeviceType DEF Register, Base, JobsRemember, Job, NewDevice
  <2>2. device' = [device EXCEPT ![d] = row] /\ UNCHANGED code
    BY <1>2 DEF Register
  <2> HIDE DEF row
  <2> QED
    BY <2>1, <2>2, BoundKept DEF Base, TypeOK, Exists
<1>3. ASSUME NEW s \in Sessions, Pair(s) PROVE Bound'
  BY <1>1, <1>3, PairBound DEF Pair, MayAddDevice
<1>4. ASSUME NEW s \in Sessions, Issue(s) PROVE Bound'
  BY <1>1, <1>4, BoundKept DEF Issue, Base, TypeOK, Exists
<1>5. ASSUME NEW d \in DeviceIds, Revoke(d) PROVE Bound'
  BY <1>5, BoundKept, RevokedType DEF Revoke, Active, Exists, Base, TypeOK
<1>6. ASSUME NEW d \in OpenDevices, NEW role \in {"GameClient", "WebClient"},
             OpenGate(d, role)
      PROVE  Bound'
  <2>1. NewDevice(OpenProfile, role, NoRequest).request = NoRequest
    BY DEF NewDevice
  <2> QED
    BY <1>6, <2>1, BoundKept DEF OpenGate, Exists, Base, TypeOK
<1> QED
  BY <1>1, <1>2, <1>3, <1>4, <1>5, <1>6
     DEF Next, vars, BeginRegister, BeginIssue, BeginPair, Begin, Abort, Tick, OpenDevices

LEMMA BoundAlways == Spec => []Bound
<1>1. Init => Bound
  BY DEF Init, Bound, UsedCodeHasDevice, DeviceHasOneCode, OneDevicePerRequest, Exists
<1> QED
  BY <1>1, InitBase, NextBase, NextBound, PTL DEF Spec

\* UsedCodeHasDevice: a used code names the device its redemption created.
THEOREM CodesNotBurned == Spec => []UsedCodeHasDevice
<1>1. Bound => UsedCodeHasDevice
  BY DEF Bound
<1> QED
  BY <1>1, BoundAlways, PTL

\* DeviceHasOneCode: a paired device was admitted by exactly one code.
THEOREM OneCodePerDevice == Spec => []DeviceHasOneCode
<1>1. Bound => DeviceHasOneCode
  BY DEF Bound
<1> QED
  BY <1>1, BoundAlways, PTL

\* OneDevicePerRequest: repeated and concurrent requests share one device.
THEOREM RetriesShareDevice == Spec => []OneDevicePerRequest
<1>1. Bound => OneDevicePerRequest
  BY DEF Bound
<1> QED
  BY <1>1, BoundAlways, PTL

-------------------------------------------------------------------------------
(* DeviceRegistry, the pairings whose steps take effect at once.  Base is     *)
(* enough: what a write step checks is what the registry asks for.            *)

DeviceView == <<Members, Expelled, Served>>
CodeView == <<Offers, Used, Asked>>
registryVars == <<Members, Expelled, Offers, Used, Asked, Served>>

\* The views are of the rows alone.
LEMMA DeviceViewKept == UNCHANGED device => UNCHANGED DeviceView
BY DEF DeviceView, Members, Expelled, Served, Joined, ActiveDevices, DevicesOf, Exists

LEMMA CodeViewKept == UNCHANGED code => UNCHANGED CodeView
BY DEF CodeView, Offers, Used, Asked, Issues

\* The open gate's devices are not in view.
LEMMA OpenNotInView ==
  ASSUME Base, NEW d \in OpenDevices, NEW row, device' = [device EXCEPT ![d] = row]
  PROVE  UNCHANGED DeviceView
<1>1. \A e \in DeviceIds \ OpenDevices : device'[e] = device[e]
  BY DEF Base, TypeOK
<1>2. UNCHANGED Members
  BY <1>1 DEF Members, ActiveDevices, DevicesOf, Exists
<1>3. Joined' = Joined
  BY <1>1 DEF Joined, Exists
<1>4. UNCHANGED <<Expelled, Served>>
  BY <1>1, <1>3 DEF Expelled, Served, Joined
<1> QED
  BY <1>2, <1>4 DEF DeviceView

\* A new device, of a request that has none, joins.
LEMMA DeviceJoins ==
  ASSUME Base, NEW p \in Profiles, NEW d \in DeviceIds \ OpenDevices, NEW row \in Device,
         row # NoDevice, row.profile = p, ~row.revoked, ~Exists(d),
         ~RequestTaken(row.request), device' = [device EXCEPT ![d] = row]
  PROVE  /\ row.request \notin Served /\ d \notin Expelled
         /\ \A o \in Profiles : d \notin Members[o]
         /\ Members' = [Members EXCEPT ![p] = @ \union {d}]
         /\ Served' = Served \union {row.request} /\ Expelled' = Expelled
<1>1. /\ device'[d] = row /\ device[d] = NoDevice
      /\ \A e \in DeviceIds : e # d => device'[e] = device[e]
  BY DEF Base, TypeOK, Exists
<1>2. row.request \notin Served
  BY DEF Served, Joined, RequestTaken
<1>3. d \notin Expelled /\ \A o \in Profiles : d \notin Members[o]
  BY DEF Expelled, Joined, Members, ActiveDevices, DevicesOf
<1>4. Joined' = Joined \union {d}
  BY <1>1 DEF Joined, Exists
<1>5. Served' = Served \union {row.request}
  BY <1>1, <1>4 DEF Served, Joined, Exists
<1>6. Expelled' = Expelled
  BY <1>1, <1>4 DEF Expelled, Joined, Exists
<1>7. Members' = [Members EXCEPT ![p] = @ \union {d}]
  <2>1. (ActiveDevices(p) \ OpenDevices)' = (ActiveDevices(p) \ OpenDevices) \union {d}
    BY <1>1 DEF ActiveDevices, DevicesOf, Exists
  <2>2. ASSUME NEW o \in Profiles, o # p
        PROVE  (ActiveDevices(o) \ OpenDevices)' = ActiveDevices(o) \ OpenDevices
    BY <1>1, <2>2 DEF ActiveDevices, DevicesOf, Exists
  <2> QED
    BY <2>1, <2>2 DEF Members
<1> QED
  BY <1>2, <1>3, <1>5, <1>6, <1>7

\* register_game founds a profile.
LEMMA RegisterStep ==
  ASSUME Base, NEW s \in Sessions, Register(s)
  PROVE  Registry!Next \/ UNCHANGED registryVars
<1>1. UNCHANGED CodeView
  BY CodeViewKept DEF Register
<1>2. CASE UNCHANGED device
  BY <1>1, <1>2, DeviceViewKept DEF registryVars, CodeView, DeviceView
<1>3. CASE \E p \in Profiles \ {OpenProfile}, d \in DeviceIds \ OpenDevices :
             /\ DevicesOf(p) = {} /\ ~Exists(d) /\ ~RequestTaken(job[s].request)
             /\ device' = [device EXCEPT ![d] = NewDevice(p, "GameClient", job[s].request)]
  <2> DEFINE q == job[s].request
  <2>1. PICK p \in Profiles \ {OpenProfile}, d \in DeviceIds \ OpenDevices :
               /\ DevicesOf(p) = {} /\ ~Exists(d) /\ ~RequestTaken(q)
               /\ device' = [device EXCEPT ![d] = NewDevice(p, "GameClient", q)]
    BY <1>3
  <2>2. q \in Requests
    BY DEF Register, Base, JobsRemember, Job
  <2> DEFINE row == NewDevice(p, "GameClient", q)
  <2>3. /\ row \in Device /\ row # NoDevice
        /\ row.profile = p /\ ~row.revoked /\ row.request = q
    BY <2>2, NewDeviceType DEF NewDevice
  <2>4. device' = [device EXCEPT ![d] = row]
    BY <2>1
  <2>5. Members[p] = {}
    BY <2>1 DEF Members, ActiveDevices
  <2> HIDE DEF q, row
  <2>6. Registry!Join(p, d, q)
    BY <1>1, <2>1, <2>3, <2>4, DeviceJoins DEF Registry!Join, CodeView
  <2>7. Registry!Found(p, q)
    BY <1>1, <2>5, <2>6 DEF Registry!Found, CodeView
  <2> QED
    BY <2>2, <2>7 DEF Registry!Next
<1> QED
  BY <1>2, <1>3 DEF Register

\* create_pairing_code offers a code.
LEMMA IssueStep ==
  ASSUME Base, NEW s \in Sessions, Issue(s)
  PROVE  Registry!Next \/ UNCHANGED registryVars
<1>1. UNCHANGED DeviceView
  BY DeviceViewKept DEF Issue
<1>2. CASE UNCHANGED code
  BY <1>1, <1>2, CodeViewKept DEF registryVars, CodeView, DeviceView
<1>3. CASE ~Issued(job[s].profile, job[s].request) /\ ~UNCHANGED code
  <2> DEFINE p == job[s].profile
             q == job[s].request
             row == [profile |-> p, issue |-> q, expires |-> job[s].now + Ttl,
                     used |-> FALSE, usedAt |-> 0, redeemed |-> NoRequest,
                     device |-> OpenGame]
  <2>1. p \in Profiles /\ q \in Requests /\ job[s].now \in Nat
    BY DEF Issue, Base, JobsRemember, Job
  <2>2. PICK c \in CodeIds : code[c] = NoCode /\ code' = [code EXCEPT ![c] = row]
    BY <1>3 DEF Issue
  <2>3. row \in Code
    BY <2>1, ConstantsAssumption DEF Code
  <2>4. row # NoCode /\ row.profile = p /\ row.issue = q /\ ~row.used
    BY <2>3, AbsentAssumption
  <2>5. ~Issued(p, q)
    BY <1>3
  <2> HIDE DEF p, q, row
  <2>6. code'[c] = row /\ \A b \in CodeIds : b # c => code'[b] = code[b]
    BY <2>2 DEF Base, TypeOK
  <2>7. Issues' = Issues \union {c} /\ c \notin Issues
    BY <2>2, <2>4, <2>6 DEF Issues
  <2>8. Used' = Used /\ c \notin Used
    BY <2>4, <2>6, <2>7 DEF Used, Issues
  <2>9. Asked' = Asked \union {<<p, q>>}
    BY <2>4, <2>6, <2>7 DEF Asked, Issues
  <2>10. <<p, q>> \notin Asked
    BY <2>5 DEF Asked, Issued, Issues
  <2>11. Offers' = [Offers EXCEPT ![p] = @ \union {c}]
    BY <2>1, <2>4, <2>6, <2>7, <2>8, ZenonT(60) DEF Offers, Issues
  <2>12. \A o \in Profiles : c \notin Offers[o]
    BY <2>7 DEF Offers
  <2>13. Registry!Offer(p, c, q)
    BY <1>1, <2>8, <2>9, <2>10, <2>11, <2>12 DEF Registry!Offer, DeviceView
  <2> QED
    BY <2>1, <2>13 DEF Registry!Next
<1> QED
  BY <1>2, <1>3 DEF Issue

\* A profile with fewer devices than the cap has room.
LEMMA RoomLeft ==
  ASSUME NEW p \in Profiles, NEW q, MayAddDevice(p, q)
  PROVE  Cardinality(Members[p]) < MaxDevices
<1>1. IsFiniteSet(ActiveDevices(p))
  BY ActiveFinite
<1>2. Members[p] \subseteq ActiveDevices(p)
  BY DEF Members
<1>3. /\ Cardinality(Members[p]) <= Cardinality(ActiveDevices(p))
      /\ Cardinality(Members[p]) \in Nat /\ Cardinality(ActiveDevices(p)) \in Nat
  BY <1>1, <1>2, FS_Subset, FS_CardinalityType
<1> QED
  BY <1>3, ConstantsAssumption DEF MayAddDevice

\* What pair_device does to the codes: the code is used, and offered no more.
LEMMA CodeUsed ==
  ASSUME Base, NEW s \in Sessions, pc[s] = "pair", NEW d \in DeviceIds, Redeem(s, d)
  PROVE  /\ job[s].code \in Offers[job[s].profile]
         /\ Used' = Used \union {job[s].code}
         /\ Offers' = [Offers EXCEPT ![job[s].profile] = @ \ {job[s].code}]
         /\ Asked' = Asked
<1> DEFINE c == job[s].code
           p == job[s].profile
           row == UsedCode(code[c], job[s].request, job[s].now, d)
<1>1. /\ job[s].request \in Requests /\ job[s].now \in Nat /\ c \in CodeIds
      /\ code[c] \in Code /\ code[c] # NoCode /\ p = code[c].profile /\ p \in Profiles
  BY DEF Base, JobsRemember, TypeOK, Job, Code
<1>2. row # NoCode /\ row.profile = p /\ row.used /\ row.issue = code[c].issue
  <2>1. ASSUME NEW e \in Code PROVE UsedCode(e, job[s].request, job[s].now, d).issue = e.issue
    BY DEF UsedCode, Code
  <2> QED
    BY <1>1, <2>1, UsedCodeType
<1>3. ~code[c].used /\ code' = [code EXCEPT ![c] = row]
  BY DEF Redeem
<1> HIDE DEF c, p, row
<1>4. code'[c] = row /\ \A b \in CodeIds : b # c => code'[b] = code[b]
  BY <1>1, <1>3 DEF Base, TypeOK
<1>5. Issues' = Issues /\ c \in Issues
  BY <1>1, <1>2, <1>4 DEF Issues
<1>6. Used' = Used \union {c} /\ c \notin Used
  BY <1>2, <1>3, <1>4, <1>5 DEF Used, Issues
<1>7. Asked' = Asked
  BY <1>1, <1>2, <1>4, <1>5 DEF Asked, Issues
<1>8. c \in Offers[p]
  BY <1>1, <1>5, <1>6 DEF Offers
<1>9. Offers' = [Offers EXCEPT ![p] = @ \ {c}]
  BY <1>1, <1>4, <1>5, <1>6 DEF Offers, Issues
<1> QED
  BY <1>6, <1>7, <1>8, <1>9 DEF c, p

\* pair_device admits a device.
LEMMA PairStep ==
  ASSUME Base, NEW s \in Sessions, Pair(s)
  PROVE  Registry!Next \/ UNCHANGED registryVars
<1> DEFINE p == job[s].profile
           q == job[s].request
           c == job[s].code
<1>1. CASE UNCHANGED <<device, code>>
  BY <1>1, CodeViewKept, DeviceViewKept DEF registryVars, CodeView, DeviceView
<1>2. ASSUME NEW d \in DeviceIds \ OpenDevices, ~Exists(d), MayAddDevice(p, q),
             device' = [device EXCEPT ![d] = NewDevice(p, "WebClient", q)], Redeem(s, d)
      PROVE  Registry!Next
  <2>1. q \in Requests /\ p \in Profiles /\ c \in CodeIds /\ pc[s] = "pair"
    BY DEF Pair, Base, JobsRemember, TypeOK, Job, Code
  <2> DEFINE row == NewDevice(p, "WebClient", q)
  <2>2. /\ row \in Device /\ row # NoDevice
        /\ row.profile = p /\ ~row.revoked /\ row.request = q
    BY <2>1, NewDeviceType DEF NewDevice
  <2>3. device' = [device EXCEPT ![d] = row] /\ ~RequestTaken(q)
    BY <1>2 DEF MayAddDevice
  <2>4. /\ c \in Offers[p] /\ Used' = Used \union {c}
        /\ Offers' = [Offers EXCEPT ![p] = @ \ {c}] /\ Asked' = Asked
    BY <1>2, <2>1, CodeUsed
  <2>5. Cardinality(Members[p]) < MaxDevices
    BY <1>2, <2>1, RoomLeft
  <2> HIDE DEF p, q, c, row
  <2>6. Registry!Join(p, d, q)
    BY <1>2, <2>1, <2>2, <2>3, <2>4, DeviceJoins DEF Registry!Join
  <2>7. Registry!Admit(p, c, q)
    BY <2>4, <2>5, <2>6 DEF Registry!Admit, Registry!Cardinality, Cardinality
  <2> QED
    BY <2>1, <2>7 DEF Registry!Next
<1> QED
  BY <1>1, <1>2 DEF Pair

\* Both revocations expel a device; the open gate's own one was no member.
LEMMA RevokeStep ==
  ASSUME Base, NEW d \in DeviceIds, Revoke(d)
  PROVE  Registry!Next \/ UNCHANGED registryVars
<1> DEFINE row == Revoked(device[d])
<1>0. PICK p \in Profiles : p = device[d].profile
  BY DEF Revoke, Active, Exists, Base, TypeOK, Device
<1>1. /\ device[d] \in Device /\ device[d] # NoDevice /\ ~device[d].revoked
      /\ device' = [device EXCEPT ![d] = row] /\ UNCHANGED code
  BY DEF Revoke, Active, Exists, Base, TypeOK, Device
<1>2. /\ row # NoDevice /\ row.revoked /\ row.profile = p /\ row.request = device[d].request
  BY <1>0, <1>1, RevokedType
<1> HIDE DEF row
<1>3. UNCHANGED CodeView
  BY <1>1, CodeViewKept
<1>4. CASE d \in OpenDevices
  BY <1>1, <1>3, <1>4, OpenNotInView DEF registryVars, CodeView, DeviceView
<1>5. CASE d \notin OpenDevices
  <2>1. device'[d] = row /\ \A e \in DeviceIds : e # d => device'[e] = device[e]
    BY <1>1 DEF Base, TypeOK
  <2>2. Joined' = Joined /\ d \in Joined
    BY <1>1, <1>2, <1>5, <2>1 DEF Joined, Exists
  <2>3. Served' = Served
    BY <1>2, <2>1, <2>2 DEF Served, Joined
  <2>4. Expelled' = Expelled \union {d}
    BY <1>2, <2>1, <2>2 DEF Expelled, Joined
  <2>5. d \in Members[p]
    BY <1>0, <1>1, <1>5 DEF Members, ActiveDevices, DevicesOf, Exists
  <2>6. Members' = [Members EXCEPT ![p] = @ \ {d}]
    <3>1. (ActiveDevices(p) \ OpenDevices)' = (ActiveDevices(p) \ OpenDevices) \ {d}
      BY <1>0, <1>1, <1>2, <2>1 DEF ActiveDevices, DevicesOf, Exists
    <3>2. ASSUME NEW o \in Profiles, o # p
          PROVE  (ActiveDevices(o) \ OpenDevices)' = ActiveDevices(o) \ OpenDevices
      BY <1>0, <1>1, <1>2, <2>1, <3>2 DEF ActiveDevices, DevicesOf, Exists
    <3> QED
      BY <3>1, <3>2 DEF Members
  <2>7. Registry!Expel(p, d)
    BY <1>3, <2>3, <2>4, <2>5, <2>6 DEF Registry!Expel, CodeView
  <2> QED
    BY <1>1, <1>5, <2>7 DEF Registry!Next
<1> QED
  BY <1>4, <1>5

\* Every step is one of the registry's, or is not seen there.
LEMMA NextStep == Base /\ [Next]_vars => [Registry!Next]_registryVars
<1> SUFFICES ASSUME Base, [Next]_vars PROVE Registry!Next \/ UNCHANGED registryVars
  OBVIOUS
<1>1. CASE UNCHANGED <<device, code>>
  BY <1>1, CodeViewKept, DeviceViewKept DEF registryVars, CodeView, DeviceView
<1>2. ASSUME NEW d \in OpenDevices, NEW role \in {"GameClient", "WebClient"},
             OpenGate(d, role)
      PROVE  UNCHANGED registryVars
  <2>1. UNCHANGED DeviceView /\ UNCHANGED CodeView
    BY <1>2, OpenNotInView, CodeViewKept DEF OpenGate
  <2> QED
    BY <2>1 DEF registryVars, CodeView, DeviceView
<1> QED
  BY <1>1, <1>2, RegisterStep, IssueStep, PairStep, RevokeStep
     DEF Next, vars, BeginRegister, BeginIssue, BeginPair, Begin, Abort, Tick, OpenDevices

\* ImplementsDeviceRegistry: PairingService's handlers, whose reads and writes
\* interleave, have the effect of the registry's steps, one after another.
THEOREM PairingImplementsRegistry == Spec => ImplementsDeviceRegistry
<1>1. Init => Registry!Init
  <2> SUFFICES ASSUME Init PROVE Registry!Init
    OBVIOUS
  <2>1. Joined = {} /\ Issues = {}
    BY DEF Init, Joined, Issues, Exists
  <2>2. Expelled = {} /\ Served = {} /\ Used = {} /\ Asked = {}
    BY <2>1 DEF Expelled, Served, Used, Asked
  <2>3. Members = [p \in Profiles |-> {}]
    BY DEF Init, Members, ActiveDevices, DevicesOf, Exists
  <2>4. Offers = [p \in Profiles |-> {}]
    BY <2>1 DEF Offers
  <2> QED
    BY <2>2, <2>3, <2>4 DEF Registry!Init
<1> QED
  BY <1>1, InitBase, NextBase, NextStep, PTL
     DEF Spec, ImplementsDeviceRegistry, Registry!Spec, registryVars
===============================================================================
