---------------------------- MODULE DeviceRegistry ----------------------------
(***************************************************************************)
(* What pairing promises, with steps that take effect at once: a game      *)
(* founds a profile, a profile offers codes, one per asking, and a code    *)
(* admits one device to the profile that offered it, while this has room.  *)
(* A request is served at most once, and who is expelled does not return.  *)
(***************************************************************************)
EXTENDS Naturals, FiniteSets

CONSTANTS Devices, Codes, Profiles, Requests, Room

VARIABLES members,  \* members[p]: the devices of profile p
          expelled, \* devices that have been members
          offers,   \* offers[p]: the codes that are good for profile p
          used,     \* codes that have admitted a device
          asked,    \* <<p, q>>: request q of profile p has got a code
          served    \* requests that have got a device

Init ==
  /\ members = [p \in Profiles |-> {}] /\ expelled = {}
  /\ offers = [p \in Profiles |-> {}] /\ used = {}
  /\ asked = {} /\ served = {}

Join(p, d, q) ==
  /\ q \notin served /\ d \notin expelled /\ \A o \in Profiles : d \notin members[o]
  /\ members' = [members EXCEPT ![p] = @ \union {d}]
  /\ served' = served \union {q}
  /\ UNCHANGED <<expelled, asked>>

Found(p, q) ==
  /\ members[p] = {}
  /\ \E d \in Devices : Join(p, d, q)
  /\ UNCHANGED <<offers, used>>

Offer(p, c, q) ==
  /\ <<p, q>> \notin asked
  /\ c \notin used /\ \A o \in Profiles : c \notin offers[o]
  /\ offers' = [offers EXCEPT ![p] = @ \union {c}]
  /\ asked' = asked \union {<<p, q>>}
  /\ UNCHANGED <<members, expelled, used, served>>

Admit(p, c, q) ==
  /\ c \in offers[p] /\ Cardinality(members[p]) < Room
  /\ used' = used \union {c}
  /\ offers' = [offers EXCEPT ![p] = @ \ {c}]
  /\ \E d \in Devices : Join(p, d, q)

Expel(p, d) ==
  /\ d \in members[p]
  /\ members' = [members EXCEPT ![p] = @ \ {d}]
  /\ expelled' = expelled \union {d}
  /\ UNCHANGED <<offers, used, asked, served>>

Next ==
  \E p \in Profiles :
    \/ \E q \in Requests :
         Found(p, q) \/ \E c \in Codes : Offer(p, c, q) \/ Admit(p, c, q)
    \/ \E d \in Devices : Expel(p, d)

Spec == Init /\ [][Next]_<<members, expelled, offers, used, asked, served>>
===============================================================================
