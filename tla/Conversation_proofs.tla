--------------------------- MODULE Conversation_proofs ---------------------------
(***************************************************************************)
(* Proofs about Conversation: types, the conversation lock, that what the  *)
(* companion does is what the player said, and that a question that was    *)
(* answered never comes back, for any number of requests, chats and        *)
(* failures, any texts and any size of the store.                          *)
(***************************************************************************)
EXTENDS Conversation, SequenceTheorems, FiniteSetTheorems, TLAPS

StoredEntry == [key : Keys, slot : Slot \union {NoSlot}, at : Nat]

-------------------------------------------------------------------------------
(* One turn of the graph *)

Turns == [request : Requests, text : Text, surface : {"Game", "Mobile"},
          allowed : SUBSET Commands, now : Nat]

LEMMA ResultType ==
  ASSUME NEW command \in Commands \union {"None"}, NEW resource \in Resources \union {"None"},
         NEW quantity \in Nat \union {NoQuantity}, NEW answered \in BOOLEAN,
         NEW slot \in Slot \union {NoSlot}
  PROVE  Result(command, resource, quantity, answered, slot) \in Reply
BY DEF Result, Reply

\* Words and orders without parameters are replies.
LEMMA PlainType ==
  /\ Words \in Reply
  /\ \A command \in Commands : Order(command) \in Reply
BY ResultType DEF Words, Order

LEMMA AskType ==
  ASSUME NEW t \in Turns, NEW quantity \in Nat \union {NoQuantity},
         NEW asked \in Slot \union {NoSlot}
  PROVE  Ask(t, quantity, asked) \in Slot
BY DEF Ask, Turns, Slot

LEMMA GatherType ==
  ASSUME NEW t \in Turns, NEW quantity \in Nat \union {NoQuantity},
         NEW asked \in Slot \union {NoSlot}, NEW resource
  PROVE  Gather(t, resource, quantity, asked) \in Reply
<1> DEFINE Say(slot) == Result("None", "None", NoQuantity, asked # NoSlot, slot)
<1>1. Say(NoSlot) \in Reply
  BY ResultType DEF Slot
<1>2. Say(Ask(t, quantity, asked)) \in Reply
  BY ResultType, AskType
<1>3. resource \in Resources =>
        Result("Gather", resource, quantity, asked # NoSlot, NoSlot) \in Reply
  BY ResultType DEF Commands
<1> HIDE DEF Say
<1> QED
  BY <1>1, <1>2, <1>3 DEF Gather, Say

\* The quantity a text says.
LEMMA TextType ==
  ASSUME NEW t \in Turns
  PROVE  t.text.quantity \in Nat \union {NoQuantity}
BY DEF Turns, Text

LEMMA ClassifiedType ==
  ASSUME NEW t \in Turns
  PROVE  Classified(t) \subseteq Reply
<1>1. \A resource : Gather(t, resource, t.text.quantity, NoSlot) \in Reply
  BY GatherType, TextType
<1>2. \A c \in {"Move", "Attack"} : Command(t, c) \in Reply
  BY PlainType DEF Command, Commands
<1>3. \A named \in Named(t) : Craft(t, named) \in Reply
  BY PlainType DEF Craft, Commands
<1>4. Ordered(t) \subseteq Reply
  BY <1>1, <1>2, <1>3 DEF Ordered
<1> QED
  BY <1>4, PlainType DEF Classified

\* Every result of a turn is a reply.
LEMMA TurnType ==
  ASSUME NEW t \in Turns, NEW slot \in Slot \union {NoSlot}
  PROVE  Turn(t, slot) \subseteq Reply
<1>1. CASE slot = NoSlot
  BY <1>1, ClassifiedType DEF Turn
<1>2. CASE slot # NoSlot
  <2>1. slot.quantity \in Nat \union {NoQuantity}
    BY <1>2 DEF Slot
  <2>2. \A resource : Gather(t, resource, slot.quantity, slot) \in Reply
    BY <2>1, GatherType
  <2> QED
    BY <1>2, <2>2, ClassifiedType DEF Turn
<1> QED
  BY <1>1, <1>2

-------------------------------------------------------------------------------
(* The store *)

\* What is left of the store without one of its entries.
LEMMA RemoveAtProperties ==
  ASSUME NEW S, NEW s \in Seq(S), NEW i \in DOMAIN s
  PROVE  /\ RemoveAt(s, i) \in Seq(S)
         /\ Len(RemoveAt(s, i)) = Len(s) - 1
         /\ \A j \in 1..Len(s) - 1 :
              RemoveAt(s, i)[j] = IF j < i THEN s[j] ELSE s[j + 1]
<1> DEFINE front == SubSeq(s, 1, i - 1)
           back == SubSeq(s, i + 1, Len(s))
<1>1. i \in 1..Len(s) /\ Len(s) \in Nat
  BY LenProperties
<1>2. \A j \in 1..Len(s) : s[j] \in S
  BY ElementOfSeq
<1>3. front \in Seq(S) /\ Len(front) = i - 1 /\ \A j \in 1..i - 1 : front[j] = s[j]
  <2>1. \A j \in 1..i - 1 : s[j] \in S
    BY <1>1, <1>2
  <2> QED
    BY <1>1, <2>1, SubSeqProperties
<1>4. /\ back \in Seq(S) /\ Len(back) = Len(s) - i
      /\ \A j \in 1..Len(s) - i : back[j] = s[i + j]
  <2>1. \A j \in i + 1..Len(s) : s[j] \in S
    BY <1>1, <1>2
  <2>2. /\ back \in Seq(S)
        /\ Len(back) = IF i + 1 <= Len(s) THEN Len(s) - (i + 1) + 1 ELSE 0
        /\ \A j \in 1..Len(s) - (i + 1) + 1 : back[j] = s[(i + 1) + j - 1]
    BY <1>1, <2>1, SubSeqProperties
  <2> QED
    BY <1>1, <2>2
<1> HIDE DEF front, back
<1>5. /\ front \o back \in Seq(S)
      /\ Len(front \o back) = Len(s) - 1
      /\ \A j \in 1..Len(s) - 1 :
           (front \o back)[j] = IF j <= i - 1 THEN front[j] ELSE back[j - (i - 1)]
  <2>1. /\ front \o back \in Seq(S)
        /\ Len(front \o back) = Len(front) + Len(back)
        /\ \A j \in 1..Len(front) + Len(back) :
             (front \o back)[j] =
               IF j <= Len(front) THEN front[j] ELSE back[j - Len(front)]
    BY <1>3, <1>4, ConcatProperties
  <2>2. Len(front) = i - 1 /\ Len(front) + Len(back) = Len(s) - 1
    BY <1>1, <1>3, <1>4
  <2> QED
    BY <2>1, <2>2
<1>6. ASSUME NEW j \in 1..Len(s) - 1
      PROVE  (front \o back)[j] = IF j < i THEN s[j] ELSE s[j + 1]
  <2>1. CASE j < i
    <3>1. j \in 1..i - 1 /\ j <= i - 1
      BY <1>1, <2>1
    <3>2. front[j] = s[j]
      BY <1>3, <3>1
    <3>3. (front \o back)[j] = front[j]
      BY <1>5, <3>1
    <3> QED
      BY <2>1, <3>2, <3>3
  <2>2. CASE ~(j < i)
    <3>1. /\ j - (i - 1) \in 1..Len(s) - i /\ i + (j - (i - 1)) = j + 1
          /\ ~(j <= i - 1)
      BY <1>1, <2>2
    <3>2. back[j - (i - 1)] = s[j + 1]
      <4>1. back[j - (i - 1)] = s[i + (j - (i - 1))]
        BY <1>4, <3>1
      <4> QED
        BY <3>1, <4>1
    <3>3. (front \o back)[j] = back[j - (i - 1)]
      BY <1>5, <3>1
    <3> QED
      BY <2>2, <3>2, <3>3
  <2> QED
    BY <2>1, <2>2
<1> QED
  BY <1>5, <1>6 DEF RemoveAt, front, back

\* Sequences of entries, of different conversations.
Entries(s) ==
  /\ s \in Seq(StoredEntry)
  /\ \A i, j \in DOMAIN s : i # j => s[i].key # s[j].key

\* The open questions of a store, and that one of them is open with k.
SlotsOf(s) == {s[i].slot : i \in DOMAIN s}
OpenWith(k, slot) == \E i \in DOMAIN entries : entries[i].key = k /\ entries[i].slot = slot

\* Without the entry of k, the store has its other entries.
LEMMA OthersType ==
  ASSUME Entries(entries), NEW k \in Keys
  PROVE  /\ Entries(Others(k))
         /\ Len(Others(k)) <= Len(entries)
         /\ \A i \in DOMAIN Others(k) : Others(k)[i].key # k
         /\ SlotsOf(Others(k)) \subseteq SlotsOf(entries)
         /\ \A i \in DOMAIN Others(k) : OpenWith(Others(k)[i].key, Others(k)[i].slot)
<1>1. entries \in Seq(StoredEntry) /\ DOMAIN entries = 1..Len(entries) /\ Len(entries) \in Nat
  BY LenProperties DEF Entries
<1>2. CASE ~Has(k)
  BY <1>1, <1>2 DEF Others, Has, Entries, SlotsOf, OpenWith
<1>3. CASE Has(k)
  <2> DEFINE n == Index(k)
             rest == RemoveAt(entries, n)
  <2>1. n \in DOMAIN entries /\ entries[n].key = k
    BY <1>3, SMTT(30) DEF Has, Index
  <2> HIDE DEF n
  <2>2. /\ rest \in Seq(StoredEntry)
        /\ Len(rest) = Len(entries) - 1
        /\ \A j \in 1..Len(entries) - 1 :
             rest[j] = IF j < n THEN entries[j] ELSE entries[j + 1]
    BY <1>1, <2>1, RemoveAtProperties
  <2> HIDE DEF rest
  <2>3. DOMAIN rest = 1..Len(entries) - 1
    BY <2>2, LenProperties
  <2>4. \A j \in DOMAIN rest : \E m \in DOMAIN entries :
          m # n /\ m = (IF j < n THEN j ELSE j + 1) /\ rest[j] = entries[m]
    BY <1>1, <2>1, <2>2, <2>3
  <2>5. \A i, j \in DOMAIN rest : i # j => rest[i].key # rest[j].key
    <3> SUFFICES ASSUME NEW i \in DOMAIN rest, NEW j \in DOMAIN rest, i # j
                 PROVE  rest[i].key # rest[j].key
      OBVIOUS
    <3>1. PICK a \in DOMAIN entries :
            a = (IF i < n THEN i ELSE i + 1) /\ rest[i] = entries[a]
      BY <2>4
    <3>2. PICK b \in DOMAIN entries :
            b = (IF j < n THEN j ELSE j + 1) /\ rest[j] = entries[b]
      BY <2>4
    <3>3. a # b
      BY <1>1, <2>1, <2>3, <3>1, <3>2
    <3> QED
      BY <3>1, <3>2, <3>3 DEF Entries
  <2>6. \A j \in DOMAIN rest : rest[j].key # k
    BY <2>1, <2>4 DEF Entries
  <2>7. SlotsOf(rest) \subseteq SlotsOf(entries)
    BY <2>4 DEF SlotsOf
  <2>8. \A j \in DOMAIN rest : OpenWith(rest[j].key, rest[j].slot)
    BY <2>4 DEF OpenWith
  <2>9. Others(k) = rest
    BY <1>3 DEF Others, rest, n
  <2> QED
    BY <1>1, <2>2, <2>5, <2>6, <2>7, <2>8, <2>9 DEF Entries
<1> QED
  BY <1>2, <1>3

\* An entry is current or loses its question.
LEMMA CurrentType ==
  ASSUME NEW e \in StoredEntry
  PROVE  /\ Current(e) \in StoredEntry /\ Current(e).key = e.key
         /\ Current(e).slot \in {e.slot, NoSlot}
BY DEF Current, StoredEntry

LEMMA LoadType ==
  ASSUME Entries(entries), NEW k \in Keys
  PROVE  /\ Entries(Load(k)) /\ Len(Load(k)) <= Len(entries)
         /\ LoadedSlot(k) \in Slot \union {NoSlot}
         /\ SlotsOf(Load(k)) \subseteq SlotsOf(entries) \union {NoSlot}
         /\ LoadedSlot(k) \in SlotsOf(entries) \union {NoSlot}
         /\ LoadedSlot(k) = NoSlot \/ OpenWith(k, LoadedSlot(k))
         /\ \A i \in DOMAIN Load(k) :
              Load(k)[i].slot = NoSlot \/ OpenWith(Load(k)[i].key, Load(k)[i].slot)
<1> DEFINE n == Index(k)
           updated == [entries EXCEPT ![n] = Current(@)]
<1>1. entries \in Seq(StoredEntry) /\ DOMAIN entries = 1..Len(entries) /\ Len(entries) \in Nat
  BY LenProperties DEF Entries
<1>2. CASE ~(Has(k) /\ ~IsStale(entries[n]))
  BY <1>2, OthersType DEF Load, LoadedSlot
<1>3. CASE Has(k) /\ ~IsStale(entries[n])
  <2>1. n \in DOMAIN entries /\ entries[n] \in StoredEntry /\ entries[n].key = k
    <3>1. n \in DOMAIN entries /\ entries[n].key = k
      BY <1>3 DEF Has, Index
    <3> QED
      BY <1>1, <3>1, ElementOfSeq
  <2>2. Load(k) = updated /\ LoadedSlot(k) = Current(entries[n]).slot
    BY <1>3 DEF Load, LoadedSlot
  <2> HIDE DEF n
  <2>3. /\ Current(entries[n]) \in StoredEntry /\ Current(entries[n]).key = entries[n].key
        /\ Current(entries[n]).slot \in {entries[n].slot, NoSlot}
    BY <2>1, CurrentType
  <2>4. updated \in Seq(StoredEntry) /\ Len(updated) = Len(entries)
    BY <1>1, <2>1, <2>3, ExceptSeq
  <2>5. DOMAIN updated = DOMAIN entries
    BY <1>1
  <2>6. \A i \in DOMAIN entries :
          updated[i].key = entries[i].key /\ updated[i].slot \in {entries[i].slot, NoSlot}
    BY <1>1, <2>1, <2>3
  <2> HIDE DEF updated
  <2>7. Entries(updated)
    BY <2>4, <2>5, <2>6 DEF Entries
  <2>8. Current(entries[n]).slot \in Slot \union {NoSlot}
    BY <2>3 DEF StoredEntry
  <2>9. /\ SlotsOf(updated) \subseteq SlotsOf(entries) \union {NoSlot}
        /\ Current(entries[n]).slot \in SlotsOf(entries) \union {NoSlot}
    BY <2>1, <2>3, <2>5, <2>6 DEF SlotsOf
  <2>10. Current(entries[n]).slot = NoSlot \/ OpenWith(k, Current(entries[n]).slot)
    BY <2>1, <2>3 DEF OpenWith
  <2>11. \A i \in DOMAIN updated :
           updated[i].slot = NoSlot \/ OpenWith(updated[i].key, updated[i].slot)
    BY <2>5, <2>6 DEF OpenWith
  <2> QED
    BY <1>1, <2>2, <2>4, <2>7, <2>8, <2>9, <2>10, <2>11
<1> QED
  BY <1>2, <1>3

\* What save leaves: the new entry of k, and open questions of other keys.
Kept(k, slot, e) ==
  \/ e.key = k /\ e.slot = slot
  \/ e.key # k /\ OpenWith(e.key, e.slot)

\* save keeps the bound.
LEMMA StoreType ==
  ASSUME Entries(entries), Len(entries) <= MaxEntries, clock \in Nat,
         NEW k \in Keys, NEW slot \in Slot \union {NoSlot}
  PROVE  /\ Entries(Store(k, slot)) /\ Len(Store(k, slot)) <= MaxEntries
         /\ SlotsOf(Store(k, slot)) \subseteq SlotsOf(entries) \union {slot}
         /\ \A i \in DOMAIN Store(k, slot) : Kept(k, slot, Store(k, slot)[i])
<1> DEFINE e == Entry(k, slot, clock)
           others == Others(k)
           all == Append(others, e)
<1>1. e \in StoredEntry /\ e.key = k /\ e.slot = slot
  BY DEF Entry, StoredEntry
<1>2. /\ Entries(others) /\ Len(others) <= Len(entries)
      /\ \A i \in DOMAIN others : others[i].key # k
      /\ SlotsOf(others) \subseteq SlotsOf(entries)
      /\ \A i \in DOMAIN others : OpenWith(others[i].key, others[i].slot)
  BY OthersType
<1> HIDE DEF e, others
<1>3. others \in Seq(StoredEntry) /\ DOMAIN others = 1..Len(others) /\ Len(others) \in Nat
      /\ Len(entries) \in Nat /\ MaxEntries \in Nat \ {0}
  BY <1>2, LenProperties, ConversationAssumption DEF Entries
<1>4. /\ all \in Seq(StoredEntry) /\ all # <<>> /\ Len(all) = Len(others) + 1
      /\ \A i \in 1..Len(others) : all[i] = others[i]
      /\ all[Len(others) + 1] = e
  BY <1>1, <1>3, AppendProperties
<1> HIDE DEF all
<1>5. DOMAIN all = 1..Len(others) + 1
  BY <1>4, LenProperties
<1>6. \A i, j \in DOMAIN all : i # j => all[i].key # all[j].key
  BY <1>1, <1>2, <1>3, <1>4, <1>5 DEF Entries
<1>7. /\ Tail(all) \in Seq(StoredEntry) /\ Len(Tail(all)) = Len(others)
      /\ \A i \in 1..Len(others) : Tail(all)[i] = all[i + 1]
  BY <1>3, <1>4, HeadTailProperties
<1>8. Entries(Tail(all))
  <2>1. DOMAIN Tail(all) = 1..Len(others)
    BY <1>7, LenProperties
  <2>2. \A i, j \in 1..Len(others) : i # j => Tail(all)[i].key # Tail(all)[j].key
    <3> SUFFICES ASSUME NEW i \in 1..Len(others), NEW j \in 1..Len(others), i # j
                 PROVE  Tail(all)[i].key # Tail(all)[j].key
      OBVIOUS
    <3>1. i + 1 \in DOMAIN all /\ j + 1 \in DOMAIN all /\ i + 1 # j + 1
      BY <1>3, <1>5
    <3>2. all[i + 1].key # all[j + 1].key
      BY <1>6, <3>1
    <3> QED
      BY <1>7, <3>2
  <2> QED
    BY <1>7, <2>1, <2>2 DEF Entries
<1>9. Store(k, slot) = IF Len(all) > MaxEntries THEN Tail(all) ELSE all
  BY DEF Store, all, others, e
<1>10. SlotsOf(all) \subseteq SlotsOf(entries) \union {slot}
  <2>1. \A i \in 1..Len(others) : all[i].slot \in SlotsOf(entries)
    BY <1>2, <1>3, <1>4 DEF SlotsOf
  <2>2. \A i \in DOMAIN all : i \in 1..Len(others) \/ i = Len(others) + 1
    BY <1>3, <1>5
  <2> QED
    BY <1>1, <1>4, <2>1, <2>2 DEF SlotsOf
<1>11. SlotsOf(Tail(all)) \subseteq SlotsOf(all)
  <2>1. DOMAIN Tail(all) = 1..Len(others)
    BY <1>7, LenProperties
  <2>2. \A i \in DOMAIN Tail(all) : i + 1 \in DOMAIN all /\ Tail(all)[i] = all[i + 1]
    BY <1>3, <1>5, <1>7, <2>1
  <2> QED
    BY <2>2 DEF SlotsOf
<1>12. \A i \in DOMAIN all : Kept(k, slot, all[i])
  <2>1. \A i \in 1..Len(others) : Kept(k, slot, all[i])
    BY <1>2, <1>3, <1>4 DEF Kept
  <2>2. \A i \in DOMAIN all : i \in 1..Len(others) \/ i = Len(others) + 1
    BY <1>3, <1>5
  <2> QED
    BY <1>1, <1>4, <2>1, <2>2 DEF Kept
<1>13. \A i \in DOMAIN Tail(all) : Kept(k, slot, Tail(all)[i])
  <2>1. DOMAIN Tail(all) = 1..Len(others)
    BY <1>7, LenProperties
  <2>2. \A i \in DOMAIN Tail(all) : i + 1 \in DOMAIN all /\ Tail(all)[i] = all[i + 1]
    BY <1>3, <1>5, <1>7, <2>1
  <2> QED
    BY <1>12, <2>2
<1> QED
  BY <1>2, <1>3, <1>4, <1>6, <1>7, <1>8, <1>9, <1>10, <1>11, <1>12, <1>13 DEF Entries

-------------------------------------------------------------------------------
(* Handlers *)

\* What a handler has once it has read its request, and once it has a reply.
TurnsKnow ==
  \A r \in Requests :
    /\ turn[r].step # "new" => turn[r].key \in Chats /\ turn[r].text \in Text
    /\ turn[r].step \in {"prepared", "drafted", "draft", "publishing"} => turn[r].reply \in Reply

Base == TypeOK /\ TurnsKnow

LEMMA HandlerType ==
  ASSUME NEW step \in Steps, NEW key \in Chats \union {NoText}, NEW text \in Text \union {NoText},
         NEW object \in Requests \union {NoLock}, NEW loaded \in Slot \union {NoSlot},
         NEW reply \in Reply \union {NoReply}, NEW prepared \in BOOLEAN
  PROVE  Handler(step, key, text, object, loaded, reply, prepared) \in Handlers
BY DEF Handler, Handlers

\* The handler of r changes to h, and no other handler does.
Becomes(r, h) == turn' = [turn EXCEPT ![r] = h]

\* A handler that knows what its step needs keeps the invariant of all.
LEMMA BecomesBase ==
  ASSUME Base, NEW r \in Requests, NEW h \in Handlers, Becomes(r, h),
         h.step # "new" => h.key \in Chats /\ h.text \in Text,
         h.step \in {"prepared", "drafted", "draft", "publishing"} => h.reply \in Reply
  PROVE  turn' \in [Requests -> Handlers] /\ TurnsKnow'
BY DEF Base, TypeOK, TurnsKnow, Becomes

-------------------------------------------------------------------------------
(* The lock *)

\* Handlers of one conversation only, and a finite number of them.
LEMMA UsersFinite ==
  ASSUME NEW k \in Keys
  PROVE  IsFiniteSet(Users(k)) /\ Cardinality(Users(k)) \in Nat
<1>1. Users(k) \in SUBSET Requests
  BY DEF Users
<1> QED
  BY <1>1, FS_Subset, FS_CardinalityType, ConversationAssumption

\* A handler that enters _conversation_lock.
LEMMA RegisterLocks ==
  ASSUME Base, LocksAreUsed, NEW r \in Requests, NEW k \in Keys, ~Registered(r),
         Register(r, k), NEW h, Becomes(r, h), h.key = k, h.lock = Object(r, k),
         h.step \in {"queued", "publishing"}
  PROVE  /\ lock' \in [Keys -> Requests \union {NoLock}]
         /\ users' \in [Keys -> Nat]
         /\ LocksAreUsed'
<1>1. /\ turn'[r] = h
      /\ \A s \in Requests \ {r} : turn'[s] = turn[s]
  BY DEF Base, TypeOK, Becomes
<1>2. Users(k)' = Users(k) \union {r} /\ r \notin Users(k)
  BY <1>1 DEF Users, Registered
<1>3. \A k2 \in Keys \ {k} : Users(k2)' = Users(k2)
  BY <1>1 DEF Users, Registered
<1>4. Object(r, k) \in Requests
  BY ConversationAssumption DEF Object, Base, TypeOK
<1>5. /\ lock' \in [Keys -> Requests \union {NoLock}]
      /\ lock'[k] = Object(r, k) /\ \A k2 \in Keys \ {k} : lock'[k2] = lock[k2]
  BY <1>4 DEF Register, Base, TypeOK
<1>6. /\ users' \in [Keys -> Nat]
      /\ users'[k] = users[k] + 1 /\ \A k2 \in Keys \ {k} : users'[k2] = users[k2]
  BY DEF Register, Base, TypeOK
<1>7. users'[k] = Cardinality(Users(k)')
  <2>1. Cardinality(Users(k) \union {r}) = Cardinality(Users(k)) + 1
    BY <1>2, UsersFinite, FS_AddElement
  <2>2. users[k] = Cardinality(Users(k))
    BY DEF LocksAreUsed
  <2> QED
    BY <1>2, <1>6, <2>1, <2>2
<1>8. \A s \in Users(k) : turn[s].lock = Object(r, k)
  BY DEF LocksAreUsed, Object
<1>9. /\ lock'[k] # NoLock /\ Users(k)' # {}
      /\ \A s \in Users(k)' : turn'[s].lock = lock'[k]
  <2>1. \A s \in Users(k) : s \in Requests \ {r}
    BY <1>2 DEF Users
  <2> QED
    BY <1>1, <1>2, <1>4, <1>5, <1>8, <2>1, ConversationAssumption
<1>10. \A k2 \in Keys \ {k} :
         /\ users'[k2] = Cardinality(Users(k2)')
         /\ lock'[k2] = NoLock <=> Users(k2)' = {}
         /\ \A s \in Users(k2)' : turn'[s].lock = lock'[k2]
  <2>1. \A k2 \in Keys \ {k} : \A s \in Users(k2) : turn'[s] = turn[s]
    BY <1>1 DEF Users, Base, TypeOK, Registered
  <2> QED
    BY <1>3, <1>5, <1>6, <2>1 DEF LocksAreUsed
<1> QED
  BY <1>5, <1>6, <1>7, <1>9, <1>10 DEF LocksAreUsed

\* A handler that leaves it, done with its work or not.
LEMMA LeaveLocks ==
  ASSUME Base, LocksAreUsed, NEW r \in Requests, Registered(r),
         NEW k \in Keys, turn[r].key = k, Leave(k), NEW h, Becomes(r, h),
         h.step \notin {"queued", "thinking", "publishing"}
  PROVE  /\ lock' \in [Keys -> Requests \union {NoLock}]
         /\ users' \in [Keys -> Nat]
         /\ LocksAreUsed'
<1>1. /\ turn'[r] = h
      /\ \A s \in Requests \ {r} : turn'[s] = turn[s]
  BY DEF Base, TypeOK, Becomes
<1>2. Users(k)' = Users(k) \ {r} /\ r \in Users(k)
  BY <1>1 DEF Users, Registered
<1>3. \A k2 \in Keys \ {k} : Users(k2)' = Users(k2)
  BY <1>1 DEF Users, Registered
<1>4. Cardinality(Users(k)) \in Nat \ {0} /\ Cardinality(Users(k) \ {r}) = Cardinality(Users(k)) - 1
  BY <1>2, UsersFinite, FS_RemoveElement, FS_EmptySet
<1>5. users[k] = Cardinality(Users(k))
  BY DEF LocksAreUsed
<1>6. /\ users' \in [Keys -> Nat]
      /\ users'[k] = users[k] - 1 /\ \A k2 \in Keys \ {k} : users'[k2] = users[k2]
  BY <1>4, <1>5 DEF Leave, Base, TypeOK
<1>7. /\ lock' \in [Keys -> Requests \union {NoLock}]
      /\ lock'[k] = IF users[k] = 1 THEN NoLock ELSE lock[k]
      /\ \A k2 \in Keys \ {k} : lock'[k2] = lock[k2]
  BY DEF Leave, Base, TypeOK
<1>8. users[k] = 1 <=> Users(k) \ {r} = {}
  <2>1. IsFiniteSet(Users(k) \ {r})
    BY UsersFinite, FS_RemoveElement
  <2> QED
    BY <1>4, <1>5, <2>1, FS_EmptySet
<1>9. \A k2 \in Keys : \A s \in Users(k2)' : turn'[s] = turn[s] /\ s \in Users(k2)
  BY <1>1, <1>2, <1>3 DEF Users
<1>10. /\ users'[k] = Cardinality(Users(k)')
       /\ lock'[k] = NoLock <=> Users(k)' = {}
       /\ \A s \in Users(k)' : turn'[s].lock = lock'[k]
  <2>1. lock[k] # NoLock /\ \A s \in Users(k) : turn[s].lock = lock[k]
    BY <1>2 DEF LocksAreUsed
  <2> QED
    BY <1>2, <1>4, <1>5, <1>6, <1>7, <1>8, <1>9, <2>1
<1>11. \A k2 \in Keys \ {k} :
         /\ users'[k2] = Cardinality(Users(k2)')
         /\ lock'[k2] = NoLock <=> Users(k2)' = {}
         /\ \A s \in Users(k2)' : turn'[s].lock = lock'[k2]
  BY <1>3, <1>6, <1>7, <1>9 DEF LocksAreUsed
<1> QED
  BY <1>6, <1>7, <1>10, <1>11 DEF LocksAreUsed

\* A step that does not touch the lock of any conversation.
LEMMA KeepLocks ==
  ASSUME Base, LocksAreUsed, UNCHANGED <<lock, users>>,
         \A s \in Requests :
           /\ Registered(s)' <=> Registered(s)
           /\ Registered(s) => turn'[s].key = turn[s].key /\ turn'[s].lock = turn[s].lock
  PROVE  /\ lock' \in [Keys -> Requests \union {NoLock}]
         /\ users' \in [Keys -> Nat]
         /\ LocksAreUsed'
<1>1. \A k \in Keys : Users(k)' = Users(k)
  BY DEF Users
<1>2. \A k \in Keys : \A s \in Users(k) : turn'[s].lock = turn[s].lock
  BY DEF Users
<1> QED
  BY <1>1, <1>2 DEF Base, TypeOK, LocksAreUsed

-------------------------------------------------------------------------------
(* The invariant *)

IndInv == Base /\ LocksAreUsed /\ OneTurnAtATime

LEMMA InitInv == Init => IndInv
<1> SUFFICES ASSUME Init PROVE IndInv
  OBVIOUS
<1>1. \A r \in Requests : turn[r].step = "new"
  BY DEF Init, Handler
<1>2. Base
  <2>1. Handler("new", NoText, NoText, NoLock, NoSlot, NoReply, FALSE) \in Handlers
    BY HandlerType DEF Steps
  <2>2. turn \in [Requests -> Handlers]
    BY <2>1 DEF Init
  <2>3. entries = <<>> /\ entries \in Seq(StoredEntry) /\ Len(entries) = 0 /\ DOMAIN entries = {}
    BY EmptySeq DEF Init
  <2>4. TurnsKnow
    BY <1>1 DEF TurnsKnow
  <2>5. /\ lock \in [Keys -> Requests \union {NoLock}] /\ users \in [Keys -> Nat]
        /\ clock \in Nat /\ mishaps \in Nat
    BY DEF Init
  <2>6. Len(entries) <= MaxEntries
    BY <2>3, ConversationAssumption
  <2> QED
    BY <2>2, <2>3, <2>4, <2>5, <2>6 DEF Base, TypeOK, StoredEntry
<1>3. \A k \in Keys : Users(k) = {}
  BY <1>1 DEF Users, Registered
<1>4. LocksAreUsed
  BY <1>3, FS_EmptySet DEF Init, LocksAreUsed
<1> QED
  BY <1>1, <1>2, <1>4 DEF IndInv, OneTurnAtATime

\* What the store is, in terms of its own lemmas.
LEMMA StoreTyped == TypeOK => Entries(entries) /\ Len(entries) <= MaxEntries
BY DEF TypeOK, Entries, StoredEntry

\* A step that leaves the store and the clock alone.
LEMMA KeepStore ==
  ASSUME Base, UNCHANGED <<entries, clock>>, mishaps' \in Nat,
         lock' \in [Keys -> Requests \union {NoLock}], users' \in [Keys -> Nat],
         turn' \in [Requests -> Handlers], TurnsKnow'
  PROVE  Base'
BY DEF Base, TypeOK

\* A step that leaves the conversation of one handler in the store.
LEMMA ChangeStore ==
  ASSUME Base, Entries(entries)', Len(entries') <= MaxEntries, UNCHANGED <<clock, mishaps>>,
         lock' \in [Keys -> Requests \union {NoLock}], users' \in [Keys -> Nat],
         turn' \in [Requests -> Handlers], TurnsKnow'
  PROVE  Base'
BY DEF Base, TypeOK, Entries, StoredEntry

\* No handler begins to think.
LEMMA NoneBegins ==
  ASSUME Base, OneTurnAtATime, NEW r \in Requests, NEW h, Becomes(r, h), h.step # "thinking"
  PROVE  OneTurnAtATime'
BY DEF Base, TypeOK, Becomes, OneTurnAtATime

LEMMA QueueInv ==
  ASSUME IndInv, NEW r \in Requests, NEW k \in Chats, NEW text \in Text,
         ~Registered(r), Queue(r, k, text)
  PROVE  IndInv'
<1> DEFINE h == Handler("queued", k, text, Object(r, k), NoSlot, NoReply, FALSE)
<1>1. Base /\ LocksAreUsed /\ OneTurnAtATime /\ k \in Keys
  BY DEF IndInv, Keys
<1>2. Object(r, k) \in Requests \union {NoLock}
  BY <1>1 DEF Object, Base, TypeOK
<1>3. h \in Handlers
  BY <1>2, HandlerType DEF Steps
<1>4. h.step = "queued" /\ h.key = k /\ h.text = text /\ h.lock = Object(r, k)
  BY DEF Handler
<1>5. Becomes(r, h) /\ Register(r, k) /\ UNCHANGED <<entries, clock, mishaps>>
  BY DEF Queue, Becomes
<1> HIDE DEF h
<1>6. turn' \in [Requests -> Handlers] /\ TurnsKnow'
  BY <1>1, <1>3, <1>4, <1>5, BecomesBase
<1>7. /\ lock' \in [Keys -> Requests \union {NoLock}]
      /\ users' \in [Keys -> Nat]
      /\ LocksAreUsed'
  BY <1>1, <1>4, <1>5, RegisterLocks
<1>8. Base'
  BY <1>1, <1>5, <1>6, <1>7, KeepStore DEF Base, TypeOK
<1>9. OneTurnAtATime'
  BY <1>1, <1>4, <1>5, NoneBegins
<1> QED
  BY <1>7, <1>8, <1>9 DEF IndInv

LEMMA BeginInv ==
  ASSUME IndInv, NEW r \in Requests, Begin(r)
  PROVE  IndInv'
<1> DEFINE h == Handler("thinking", turn[r].key, turn[r].text, turn[r].lock,
                        LoadedSlot(turn[r].key), NoReply, FALSE)
<1>1. Base /\ TypeOK /\ TurnsKnow /\ LocksAreUsed /\ OneTurnAtATime
  BY DEF IndInv, Base
<1>2. /\ turn[r].step = "queued" /\ turn[r].key \in Chats /\ turn[r].text \in Text
      /\ turn[r].key \in Keys /\ turn[r].lock \in Requests \union {NoLock}
  BY <1>1 DEF Begin, TurnsKnow, Keys, TypeOK, Handlers
<1>3. /\ Entries(Load(turn[r].key)) /\ Len(Load(turn[r].key)) <= MaxEntries
      /\ LoadedSlot(turn[r].key) \in Slot \union {NoSlot}
  <2>1. Entries(entries) /\ Len(entries) <= MaxEntries /\ Len(entries) \in Nat
    BY <1>1, StoreTyped, LenProperties DEF Entries
  <2>2. Entries(Load(turn[r].key)) /\ Len(Load(turn[r].key)) <= Len(entries)
    BY <1>2, <2>1, LoadType
  <2>3. Len(Load(turn[r].key)) \in Nat
    BY <2>2, LenProperties DEF Entries
  <2> QED
    BY <1>2, <2>1, <2>2, <2>3, LoadType, ConversationAssumption
<1>4. h \in Handlers
  BY <1>2, <1>3, HandlerType DEF Steps
<1>5. /\ h.step = "thinking" /\ h.key = turn[r].key /\ h.text = turn[r].text
      /\ h.lock = turn[r].lock
  BY DEF Handler
<1>6. /\ Becomes(r, h) /\ entries' = Load(turn[r].key) /\ IsFree(turn[r].lock)
      /\ UNCHANGED <<lock, users, clock, mishaps>>
  BY DEF Begin, Becomes
<1> HIDE DEF h
<1>7. turn' \in [Requests -> Handlers] /\ TurnsKnow'
  BY <1>1, <1>2, <1>4, <1>5, <1>6, BecomesBase
<1>8. /\ turn'[r] = h
      /\ \A s \in Requests \ {r} : turn'[s] = turn[s]
  BY <1>1, <1>6 DEF TypeOK, Becomes
<1>9. /\ lock' \in [Keys -> Requests \union {NoLock}]
      /\ users' \in [Keys -> Nat]
      /\ LocksAreUsed'
  <2>1. \A s \in Requests :
          /\ Registered(s)' <=> Registered(s)
          /\ Registered(s) => turn'[s].key = turn[s].key /\ turn'[s].lock = turn[s].lock
    BY <1>2, <1>5, <1>8 DEF Registered
  <2> QED
    BY <1>1, <1>6, <2>1, KeepLocks
<1>10. Entries(entries)' /\ Len(entries') <= MaxEntries
  BY <1>3, <1>6 DEF Entries
<1>11. Base'
  BY <1>1, <1>6, <1>7, <1>9, <1>10, ChangeStore
\* Whoever thinks about this conversation has its lock, which is free.
<1>12. \A s \in Requests \ {r} : ~(turn[s].step = "thinking" /\ turn[s].key = turn[r].key)
  <2> SUFFICES ASSUME NEW s \in Requests, turn[s].step = "thinking", turn[s].key = turn[r].key
               PROVE  FALSE
    OBVIOUS
  <2>1. r \in Users(turn[r].key) /\ s \in Users(turn[r].key)
    BY <1>2 DEF Users, Registered
  <2>2. turn[s].lock = turn[r].lock
    BY <1>1, <1>2, <2>1 DEF LocksAreUsed
  <2> QED
    BY <1>6, <2>2 DEF IsFree
<1>13. OneTurnAtATime'
  BY <1>1, <1>5, <1>8, <1>12 DEF OneTurnAtATime
<1> QED
  BY <1>9, <1>11, <1>13 DEF IndInv

LEMMA PrepareInv ==
  ASSUME IndInv, NEW r \in Requests, Prepare(r)
  PROVE  IndInv'
<1>1. Base /\ TypeOK /\ TurnsKnow /\ LocksAreUsed /\ OneTurnAtATime
  BY DEF IndInv, Base
<1>2. /\ turn[r].step = "thinking" /\ turn[r].key \in Chats /\ turn[r].text \in Text
      /\ turn[r].key \in Keys /\ turn[r].loaded \in Slot \union {NoSlot}
      /\ Registered(r)
  BY <1>1 DEF Prepare, TurnsKnow, Keys, TypeOK, Handlers, Registered
<1>3. PICK reply \in Turn(TurnOf(r), turn[r].loaded) :
        Becomes(r, Handler("prepared", turn[r].key, turn[r].text, NoLock,
                           turn[r].loaded, reply, TRUE))
  BY DEF Prepare, Becomes
<1>4. TurnOf(r) \in Turns
  BY <1>1, <1>2, ConversationAssumption DEF TurnOf, Turns, TypeOK
<1>5. reply \in Reply
  BY <1>2, <1>3, <1>4, TurnType
<1> DEFINE h == Handler("prepared", turn[r].key, turn[r].text, NoLock,
                        turn[r].loaded, reply, TRUE)
<1>6. h \in Handlers
  BY <1>2, <1>5, HandlerType DEF Steps
<1>7. h.step = "prepared" /\ h.key = turn[r].key /\ h.text = turn[r].text /\ h.reply = reply
  BY DEF Handler
<1>8. Becomes(r, h)
  BY <1>3
<1> HIDE DEF h
<1>9. turn' \in [Requests -> Handlers] /\ TurnsKnow'
  BY <1>1, <1>2, <1>5, <1>6, <1>7, <1>8, BecomesBase
<1>10. Leave(turn[r].key) /\ UNCHANGED <<entries, clock, mishaps>>
  BY DEF Prepare
<1>11. /\ lock' \in [Keys -> Requests \union {NoLock}]
       /\ users' \in [Keys -> Nat]
       /\ LocksAreUsed'
  BY <1>1, <1>2, <1>7, <1>8, <1>10, LeaveLocks
<1>12. Base'
  BY <1>1, <1>9, <1>10, <1>11, KeepStore DEF TypeOK
<1>13. OneTurnAtATime'
  BY <1>1, <1>7, <1>8, NoneBegins
<1> QED
  BY <1>11, <1>12, <1>13 DEF IndInv

\* A step of one handler that leaves the store and every lock alone.
LEMMA QuietInv ==
  ASSUME IndInv, NEW r \in Requests, NEW h \in Handlers, Becomes(r, h),
         ~Registered(r), h.step \notin {"queued", "thinking", "publishing"},
         h.step # "new" => h.key \in Chats /\ h.text \in Text,
         h.step \in {"prepared", "drafted", "draft", "publishing"} => h.reply \in Reply,
         UNCHANGED <<entries, lock, users, clock>>, mishaps' \in Nat
  PROVE  IndInv'
<1>1. Base /\ TypeOK /\ LocksAreUsed /\ OneTurnAtATime
  BY DEF IndInv, Base
<1>2. turn' \in [Requests -> Handlers] /\ TurnsKnow'
  BY <1>1, BecomesBase
<1>3. /\ turn'[r] = h
      /\ \A s \in Requests \ {r} : turn'[s] = turn[s]
  BY <1>1 DEF TypeOK, Becomes
<1>4. \A s \in Requests :
        /\ Registered(s)' <=> Registered(s)
        /\ Registered(s) => turn'[s].key = turn[s].key /\ turn'[s].lock = turn[s].lock
  BY <1>3 DEF Registered
<1>5. /\ lock' \in [Keys -> Requests \union {NoLock}]
      /\ users' \in [Keys -> Nat]
      /\ LocksAreUsed'
  BY <1>1, <1>4, KeepLocks
<1>6. Base'
  BY <1>1, <1>2, <1>5, KeepStore
<1>7. OneTurnAtATime'
  BY <1>1, NoneBegins
<1> QED
  BY <1>5, <1>6, <1>7 DEF IndInv

\* What a handler leaves when it ends.
LEMMA LeftoverTypes ==
  ASSUME Base, NEW r \in Requests, turn[r].step # "new", NEW published \in BOOLEAN
  PROVE  /\ Received(r) \in Handlers /\ Received(r).step = "received"
         /\ Received(r).key \in Chats /\ Received(r).text \in Text
         /\ Draft(r) \in Handlers /\ Draft(r).step = "draft"
         /\ Draft(r).key \in Chats /\ Draft(r).text \in Text
         /\ Draft(r).reply = turn[r].reply
         /\ Done(r, published) \in Handlers /\ Done(r, published).step = "done"
         /\ Done(r, published).key \in Chats /\ Done(r, published).text \in Text
<1>1. turn[r].key \in Chats /\ turn[r].text \in Text /\ turn[r] \in Handlers
  BY DEF Base, TypeOK, TurnsKnow
<1>2. turn[r].loaded \in Slot \union {NoSlot} /\ turn[r].reply \in Reply \union {NoReply}
  BY <1>1 DEF Handlers
<1>3. Received(r) \in Handlers
  BY <1>1, HandlerType DEF Received, Steps
<1>4. Draft(r) \in Handlers
  BY <1>1, <1>2, HandlerType DEF Draft, Steps
<1>5. Done(r, published) \in Handlers
  BY <1>1, <1>2, HandlerType DEF Done, Steps
<1> QED
  BY <1>1, <1>3, <1>4, <1>5 DEF Received, Draft, Done, Handler

LEMMA SaveInv ==
  ASSUME IndInv, NEW r \in Requests, Save(r)
  PROVE  IndInv'
<1>1. /\ turn[r].step = "prepared" /\ turn[r].key \in Chats /\ turn[r].text \in Text
      /\ turn[r].reply \in Reply /\ turn[r] \in Handlers /\ ~Registered(r)
      /\ mishaps' \in Nat /\ UNCHANGED <<entries, lock, users, clock>>
  BY DEF Save, IndInv, Base, TypeOK, TurnsKnow, Registered
<1>2. CASE turn' = [turn EXCEPT ![r].step = "drafted"]
  <2> DEFINE h == [turn[r] EXCEPT !.step = "drafted"]
  <2>1. h \in Handlers /\ h.step = "drafted" /\ h.key = turn[r].key
        /\ h.text = turn[r].text /\ h.reply = turn[r].reply
    BY <1>1 DEF Handlers, Steps
  <2>2. Becomes(r, h)
    BY <1>2 DEF Becomes
  <2> HIDE DEF h
  <2> QED
    BY <1>1, <2>1, <2>2, QuietInv
<1>3. CASE turn' = [turn EXCEPT ![r] = Handler("drafted", turn[r].key, turn[r].text,
                      NoLock, NoSlot, Words, FALSE)]
  <2> DEFINE h == Handler("drafted", turn[r].key, turn[r].text, NoLock, NoSlot, Words, FALSE)
  <2>1. h \in Handlers
    BY <1>1, HandlerType, PlainType DEF Steps
  <2>2. h.step = "drafted" /\ h.key = turn[r].key /\ h.text = turn[r].text /\ h.reply \in Reply
    BY PlainType DEF Handler
  <2>3. Becomes(r, h)
    BY <1>3 DEF Becomes
  <2> HIDE DEF h
  <2> QED
    BY <1>1, <2>1, <2>2, <2>3, QuietInv
<1> QED
  BY <1>2, <1>3 DEF Save

LEMMA ResumeInv ==
  ASSUME IndInv, NEW r \in Requests, Resume(r)
  PROVE  IndInv'
<1>1. /\ turn[r].step = "draft" /\ turn[r].key \in Chats /\ turn[r].text \in Text
      /\ turn[r].reply \in Reply /\ turn[r] \in Handlers /\ ~Registered(r)
      /\ mishaps' \in Nat /\ UNCHANGED <<entries, lock, users, clock>>
  BY DEF Resume, IndInv, Base, TypeOK, TurnsKnow, Registered
<1> DEFINE h == [turn[r] EXCEPT !.step = "drafted"]
<1>2. h \in Handlers /\ h.step = "drafted" /\ h.key = turn[r].key
      /\ h.text = turn[r].text /\ h.reply = turn[r].reply
  BY <1>1 DEF Handlers, Steps
<1>3. Becomes(r, h)
  BY DEF Resume, Becomes
<1> HIDE DEF h
<1> QED
  BY <1>1, <1>2, <1>3, QuietInv

LEMMA CompleteInv ==
  ASSUME IndInv, NEW r \in Requests, Complete(r)
  PROVE  IndInv'
<1>1. Base /\ TypeOK /\ LocksAreUsed /\ OneTurnAtATime /\ mishaps \in Nat
  BY DEF IndInv, Base, TypeOK
<1>2. /\ turn[r].step = "drafted" /\ turn[r].key \in Chats /\ turn[r].text \in Text
      /\ turn[r].reply \in Reply /\ turn[r].loaded \in Slot \union {NoSlot}
      /\ turn[r].key \in Keys /\ ~Registered(r)
      /\ UNCHANGED <<entries, clock, mishaps>>
  BY DEF Complete, IndInv, Base, TypeOK, TurnsKnow, Registered, Keys, Handlers
<1>3. CASE turn[r].prepared
  <2> DEFINE k == turn[r].key
             h == Handler("publishing", k, turn[r].text, Object(r, k), turn[r].loaded,
                          turn[r].reply, TRUE)
  <2>1. Object(r, k) \in Requests \union {NoLock}
    BY <1>1, <1>2 DEF Object, TypeOK
  <2>2. h \in Handlers
    BY <1>2, <2>1, HandlerType DEF Steps
  <2>3. /\ h.step = "publishing" /\ h.key = k /\ h.text = turn[r].text
        /\ h.lock = Object(r, k) /\ h.reply = turn[r].reply
    BY DEF Handler
  <2>4. Becomes(r, h) /\ Register(r, k)
    BY <1>3 DEF Complete, Becomes
  <2> HIDE DEF h
  <2>5. turn' \in [Requests -> Handlers] /\ TurnsKnow'
    BY <1>1, <1>2, <2>2, <2>3, <2>4, BecomesBase
  <2>6. /\ lock' \in [Keys -> Requests \union {NoLock}]
        /\ users' \in [Keys -> Nat]
        /\ LocksAreUsed'
    BY <1>1, <1>2, <2>3, <2>4, RegisterLocks
  <2>7. Base'
    BY <1>1, <1>2, <2>5, <2>6, KeepStore
  <2>8. OneTurnAtATime'
    BY <1>1, <2>3, <2>4, NoneBegins
  <2> QED
    BY <2>6, <2>7, <2>8 DEF IndInv
<1>4. CASE ~turn[r].prepared
  <2>1. Becomes(r, Done(r, FALSE)) /\ UNCHANGED <<entries, lock, users, clock>> /\ mishaps' \in Nat
    BY <1>1, <1>2, <1>4 DEF Complete, Becomes
  <2>2. /\ Done(r, FALSE) \in Handlers /\ Done(r, FALSE).step = "done"
        /\ Done(r, FALSE).key \in Chats /\ Done(r, FALSE).text \in Text
    BY <1>1, <1>2, LeftoverTypes
  <2> QED
    BY <1>2, <2>1, <2>2, QuietInv
<1> QED
  BY <1>3, <1>4

LEMMA PublishInv ==
  ASSUME IndInv, NEW r \in Requests, Publish(r)
  PROVE  IndInv'
<1> DEFINE k == turn[r].key
           h == Done(r, TRUE)
<1>1. Base /\ TypeOK /\ LocksAreUsed /\ OneTurnAtATime /\ clock \in Nat
  BY DEF IndInv, Base, TypeOK
<1>2. /\ turn[r].step = "publishing" /\ k \in Keys /\ Registered(r)
      /\ turn[r].reply \in Reply /\ turn[r].reply.slot \in Slot \union {NoSlot}
      /\ entries' = Store(k, turn[r].reply.slot) /\ Leave(k) /\ Becomes(r, h)
      /\ UNCHANGED <<clock, mishaps>>
  BY DEF Publish, PublishSlot, IndInv, Base, TurnsKnow, Registered, Keys, Becomes, Reply
<1>3. /\ h \in Handlers /\ h.step = "done" /\ h.key \in Chats /\ h.text \in Text
  BY <1>1, <1>2, LeftoverTypes
<1> HIDE DEF h
<1>4. turn' \in [Requests -> Handlers] /\ TurnsKnow'
  BY <1>1, <1>2, <1>3, BecomesBase
<1>5. /\ lock' \in [Keys -> Requests \union {NoLock}]
      /\ users' \in [Keys -> Nat]
      /\ LocksAreUsed'
  BY <1>1, <1>2, <1>3, LeaveLocks
<1>6. Entries(Store(k, turn[r].reply.slot)) /\ Len(Store(k, turn[r].reply.slot)) <= MaxEntries
  BY <1>1, <1>2, StoreTyped, StoreType
<1>7. Entries(entries)' /\ Len(entries') <= MaxEntries
  BY <1>2, <1>6 DEF Entries
<1>8. Base'
  BY <1>1, <1>2, <1>4, <1>5, <1>7, ChangeStore
<1>9. OneTurnAtATime'
  BY <1>1, <1>2, <1>3, NoneBegins
<1> QED
  BY <1>5, <1>8, <1>9 DEF IndInv

\* A situation, which only reads or writes the store.
LEMMA ReactInv ==
  ASSUME IndInv, NEW k \in Situations, BeginReact(k) \/ React(k)
  PROVE  IndInv'
<1>1. Base /\ TypeOK /\ LocksAreUsed /\ OneTurnAtATime /\ clock \in Nat /\ k \in Keys
  BY DEF IndInv, Base, TypeOK, Keys
<1>2. UNCHANGED <<lock, users, turn, clock, mishaps>>
  BY DEF BeginReact, React
<1>3. Entries(entries) /\ Len(entries) <= MaxEntries /\ Len(entries) \in Nat
  BY <1>1, StoreTyped, LenProperties DEF Entries
<1>4. Entries(entries)' /\ Len(entries') <= MaxEntries
  <2>1. CASE BeginReact(k)
    <3>1. Entries(Load(k)) /\ Len(Load(k)) <= Len(entries)
      BY <1>1, <1>3, LoadType
    <3>2. Len(Load(k)) \in Nat
      BY <3>1, LenProperties DEF Entries
    <3>3. Len(Load(k)) <= MaxEntries
      BY <1>3, <3>1, <3>2, ConversationAssumption
    <3> QED
      BY <2>1, <3>1, <3>3 DEF BeginReact, Entries
  <2>2. CASE React(k)
    <3>1. Entries(Store(k, NoSlot)) /\ Len(Store(k, NoSlot)) <= MaxEntries
      BY <1>1, <1>3, StoreType
    <3> QED
      BY <2>2, <3>1 DEF React, Entries
  <2> QED
    BY <2>1, <2>2
<1>5. /\ lock' \in [Keys -> Requests \union {NoLock}]
      /\ users' \in [Keys -> Nat]
      /\ LocksAreUsed'
  BY <1>1, <1>2, KeepLocks DEF Registered
<1>6. Base'
  BY <1>1, <1>2, <1>4, <1>5, ChangeStore DEF Base, TypeOK, TurnsKnow
<1> QED
  BY <1>1, <1>2, <1>5, <1>6 DEF IndInv, OneTurnAtATime

LEMMA FailInv ==
  ASSUME IndInv, NEW r \in Requests, Fail(r)
  PROVE  IndInv'
<1> DEFINE h == Ended(r)
<1>1. Base /\ TypeOK /\ TurnsKnow /\ LocksAreUsed /\ OneTurnAtATime /\ turn[r] \in Handlers
  BY DEF IndInv, Base, TypeOK
<1>2. /\ turn[r].step \in {"queued", "thinking", "prepared", "drafted", "publishing"}
      /\ turn[r].step # "new"
  BY DEF Fail, Ended
<1>3. h \in {Received(r), Draft(r), Done(r, FALSE)} /\ (h = Draft(r) => turn[r].step = "drafted")
  <2>1. Draft(r).step = "draft" /\ Received(r).step = "received" /\ Done(r, FALSE).step = "done"
    BY <1>1, <1>2, LeftoverTypes
  <2> QED
    BY <1>2, <2>1 DEF Ended
<1>4. /\ h \in Handlers /\ h.key \in Chats /\ h.text \in Text
      /\ h.step \in {"received", "draft", "done"} /\ (h.step = "draft" => h.reply \in Reply)
  BY <1>1, <1>2, <1>3, LeftoverTypes DEF TurnsKnow
<1>5. Becomes(r, h) /\ mishaps' \in Nat /\ UNCHANGED <<entries, clock>>
  BY DEF Fail, Becomes, IndInv, Base, TypeOK
<1> HIDE DEF h
<1>6. CASE ~Registered(r)
  <2>1. UNCHANGED <<lock, users>>
    BY <1>6 DEF Fail
  <2> QED
    BY <1>4, <1>5, <1>6, <2>1, QuietInv
<1>7. CASE Registered(r)
  <2>1. Leave(turn[r].key) /\ turn[r].key \in Keys
    BY <1>1, <1>2, <1>7 DEF Fail, TurnsKnow, Keys
  <2>2. turn' \in [Requests -> Handlers] /\ TurnsKnow'
    BY <1>1, <1>4, <1>5, BecomesBase
  <2>3. /\ lock' \in [Keys -> Requests \union {NoLock}]
        /\ users' \in [Keys -> Nat]
        /\ LocksAreUsed'
    BY <1>1, <1>4, <1>5, <1>7, <2>1, LeaveLocks
  <2>4. Base'
    BY <1>1, <1>5, <2>2, <2>3, KeepStore
  <2>5. OneTurnAtATime'
    BY <1>1, <1>4, <1>5, NoneBegins
  <2> QED
    BY <2>3, <2>4, <2>5 DEF IndInv
<1> QED
  BY <1>6, <1>7

LEMMA RestartInv ==
  ASSUME IndInv, Restart
  PROVE  IndInv'
<1>1. Base /\ TypeOK /\ TurnsKnow
  BY DEF IndInv, Base
<1>2. turn' = [r \in Requests |-> Ended(r)]
  BY DEF Restart
<1>3. \A r \in Requests :
        /\ turn'[r] \in Handlers /\ turn'[r].step \notin {"queued", "thinking", "publishing"}
        /\ turn'[r].step # "new" => turn'[r].key \in Chats /\ turn'[r].text \in Text
        /\ turn'[r].step \in {"prepared", "drafted", "draft"} => turn'[r].reply \in Reply
  <2> SUFFICES ASSUME NEW r \in Requests
               PROVE  /\ Ended(r) \in Handlers
                      /\ Ended(r).step \notin {"queued", "thinking", "publishing"}
                      /\ Ended(r).step # "new" => Ended(r).key \in Chats /\ Ended(r).text \in Text
                      /\ Ended(r).step \in {"prepared", "drafted", "draft"} => Ended(r).reply \in Reply
    BY <1>2
  <2>1. turn[r] \in Handlers
    BY <1>1 DEF TypeOK
  <2>2. CASE turn[r].step \in {"queued", "thinking", "prepared", "drafted", "publishing"}
    BY <1>1, <2>2, LeftoverTypes DEF Ended, TurnsKnow
  <2>3. CASE turn[r].step \notin {"queued", "thinking", "prepared", "drafted", "publishing"}
    <3>1. Ended(r) = turn[r]
      BY <2>3 DEF Ended
    <3> QED
      BY <1>1, <2>1, <2>3, <3>1 DEF TurnsKnow
  <2> QED
    BY <2>2, <2>3
<1>4. turn' \in [Requests -> Handlers] /\ TurnsKnow'
  BY <1>2, <1>3 DEF TurnsKnow
<1>5. \A k \in Keys : Users(k)' = {}
  BY <1>3 DEF Users, Registered
<1>6. /\ lock' \in [Keys -> Requests \union {NoLock}] /\ users' \in [Keys -> Nat]
      /\ \A k \in Keys : lock'[k] = NoLock /\ users'[k] = 0
  BY DEF Restart
<1>7. LocksAreUsed'
  BY <1>5, <1>6, FS_EmptySet DEF LocksAreUsed
<1>8. entries' = <<>> /\ <<>> \in Seq(StoredEntry) /\ Len(<<>>) = 0
  BY EmptySeq DEF Restart
<1>9. Len(entries') <= MaxEntries
  BY <1>8, ConversationAssumption
<1>10. clock' \in Nat /\ mishaps' \in Nat
  BY <1>1 DEF Restart, TypeOK
<1>11. Base'
  BY <1>4, <1>6, <1>8, <1>9, <1>10 DEF Base, TypeOK, StoredEntry
<1>12. OneTurnAtATime'
  BY <1>3 DEF OneTurnAtATime
<1> QED
  BY <1>7, <1>11, <1>12 DEF IndInv

LEMMA StutterInv ==
  ASSUME IndInv, UNCHANGED <<entries, lock, users, turn, mishaps>>, clock' \in Nat
  PROVE  IndInv'
<1>1. Base /\ LocksAreUsed
  BY DEF IndInv
<1>2. LocksAreUsed'
  BY <1>1, KeepLocks DEF Registered
<1> QED
  BY <1>1, <1>2 DEF IndInv, Base, TypeOK, TurnsKnow, OneTurnAtATime

LEMMA NextInv == IndInv /\ [Next]_vars => IndInv'
<1> SUFFICES ASSUME IndInv, [Next]_vars PROVE IndInv'
  OBVIOUS
<1>1. ASSUME NEW r \in Requests, NEW k \in Chats, NEW text \in TextsOf[k], Send(r, k, text)
      PROVE  IndInv'
  <2>1. text \in Text
    BY ConversationAssumption
  <2>2. ~Registered(r)
    BY <1>1 DEF Send, Registered
  <2> QED
    BY <1>1, <2>1, <2>2, QueueInv DEF Send
<1>2. ASSUME NEW r \in Requests, Retry(r) PROVE IndInv'
  <2>1. turn[r].key \in Chats /\ turn[r].text \in Text /\ ~Registered(r)
    BY <1>2 DEF Retry, IndInv, Base, TurnsKnow, Registered
  <2> QED
    BY <1>2, <2>1, QueueInv DEF Retry
<1>3. CASE Tick
  BY <1>3, StutterInv DEF Tick, IndInv, Base, TypeOK
<1>4. CASE UNCHANGED vars
  BY <1>4, StutterInv DEF vars, IndInv, Base, TypeOK
<1> QED
  BY <1>1, <1>2, <1>3, <1>4, BeginInv, PrepareInv, SaveInv, ResumeInv, CompleteInv,
     PublishInv, FailInv, ReactInv, RestartInv DEF Next

LEMMA Invariance == Spec => []IndInv
BY InitInv, NextInv, PTL DEF Spec

\* The store, the locks, the handlers and the replies keep their types, and the
\* store its bound and one entry for each conversation.
THEOREM TypeCorrect == Spec => []TypeOK
<1>1. IndInv => TypeOK
  BY DEF IndInv, Base
<1> QED
  BY <1>1, Invariance, PTL

\* A lock exists as long as a handler uses or awaits it, and is the same one for
\* all of them (_conversation_lock, with failures and restarts).
THEOREM LocksNeverLeftBehind == Spec => []LocksAreUsed
<1>1. IndInv => LocksAreUsed
  BY DEF IndInv
<1> QED
  BY <1>1, Invariance, PTL

\* So one turn at a time loads, thinks and decides in a conversation.
THEOREM TurnsAreSerial == Spec => []OneTurnAtATime
<1>1. IndInv => OneTurnAtATime
  BY DEF IndInv
<1> QED
  BY <1>1, Invariance, PTL

-------------------------------------------------------------------------------
(* What was said *)

\* A question is about a request that was sent, keeps its quantity, and counts
\* whoever asked it.
SlotRight(turns, slot) ==
  slot # NoSlot =>
    /\ slot \in Slot /\ turns[slot.request].step # "new"
    /\ slot.quantity = turns[slot.request].text.quantity
    /\ IsFiniteSet(slot.by) /\ Cardinality(slot.by) <= slot.asks /\ slot.asks <= MaxAsk

\* What one turn of the graph makes of a text and of a question: quantities and
\* resources are those of the player.
LEMMA GatherSays ==
  ASSUME NEW t \in Turns, NEW quantity \in Nat \union {NoQuantity},
         NEW asked \in Slot \union {NoSlot}, NEW resource,
         asked # NoSlot => quantity = asked.quantity,
         resource \in Resources /\ (asked # NoSlot \/ t.text.said # {}) => resource \in t.text.said,
         NEW reply, reply = Gather(t, resource, quantity, asked)
  PROVE  /\ reply.answered <=> asked # NoSlot
         /\ reply.command = "Gather" =>
              /\ reply.quantity = quantity
              /\ reply.answered \/ t.text.said # {} => reply.resource \in t.text.said
         /\ reply.slot # NoSlot =>
              /\ ~(asked # NoSlot /\ ~MayAskAgain(asked))
              /\ reply.slot = Ask(t, quantity, asked)
<1> DEFINE Say(slot) == Result("None", "None", NoQuantity, asked # NoSlot, slot)
           Go == Result("Gather", resource, quantity, asked # NoSlot, NoSlot)
<1>1. \A slot : /\ Say(slot).command = "None" /\ Say(slot).slot = slot
                /\ Say(slot).answered <=> asked # NoSlot
  BY DEF Result
<1>2. /\ Go.command = "Gather" /\ Go.slot = NoSlot /\ (Go.answered <=> asked # NoSlot)
      /\ Go.quantity = quantity /\ Go.resource = resource
  BY DEF Result
<1> HIDE DEF Say, Go
<1>3. \/ reply = Say(NoSlot)
      \/ reply = Say(Ask(t, quantity, asked)) /\ ~(asked # NoSlot /\ ~MayAskAgain(asked))
      \/ reply = Go /\ resource \in Resources
  BY DEF Gather, Say, Go
<1> QED
  BY <1>1, <1>2, <1>3

\* A question is right if what it repeats is right.
LEMMA AskRight ==
  ASSUME NEW t \in Turns, NEW asked \in Slot \union {NoSlot}, NEW quantity, NEW turns,
         turns[t.request].step # "new", turns[t.request].text = t.text,
         SlotRight(turns, asked), asked # NoSlot => MayAskAgain(asked),
         quantity = IF asked = NoSlot THEN t.text.quantity ELSE asked.quantity
  PROVE  /\ SlotRight(turns, Ask(t, quantity, asked))
         /\ Ask(t, quantity, asked).quantity = quantity
         /\ Ask(t, quantity, asked).request = IF asked = NoSlot THEN t.request ELSE asked.request
<1>1. quantity \in Nat \union {NoQuantity}
  BY TextType DEF Slot
<1>2. Ask(t, quantity, asked) \in Slot
  BY <1>1, AskType
<1>3. CASE asked = NoSlot
  <2>1. /\ Ask(t, quantity, asked).quantity = quantity /\ Ask(t, quantity, asked).asks = 1
        /\ Ask(t, quantity, asked).request = t.request /\ Ask(t, quantity, asked).by = {t.request}
    BY <1>3 DEF Ask
  <2> QED
    <3>1. IsFiniteSet({t.request}) /\ Cardinality({t.request}) = 1
      BY FS_Singleton
    <3>2. 1 <= MaxAsk
      BY GraphAssumption
    <3> QED
      BY <1>2, <1>3, <2>1, <3>1, <3>2 DEF SlotRight
<1>4. CASE asked # NoSlot
  <2>1. /\ Ask(t, quantity, asked).quantity = asked.quantity
        /\ Ask(t, quantity, asked).asks = asked.asks + 1
        /\ Ask(t, quantity, asked).request = asked.request
        /\ Ask(t, quantity, asked).by = asked.by \union {t.request}
    BY <1>4 DEF Ask
  <2>2. /\ IsFiniteSet(asked.by) /\ Cardinality(asked.by) <= asked.asks /\ asked.asks < MaxAsk
        /\ asked.asks \in Nat /\ Cardinality(asked.by) \in Nat
    <3>1. IsFiniteSet(asked.by) /\ Cardinality(asked.by) <= asked.asks /\ asked.asks < MaxAsk
      BY <1>4 DEF SlotRight, MayAskAgain
    <3>2. asked.asks \in Nat
      BY <1>4 DEF Slot
    <3> QED
      BY <3>1, <3>2, FS_CardinalityType
  <2>3. /\ IsFiniteSet(asked.by \union {t.request})
        /\ Cardinality(asked.by \union {t.request}) \in {Cardinality(asked.by), Cardinality(asked.by) + 1}
    BY <2>2, FS_AddElement, SMTT(30)
  <2>4. /\ turns[asked.request].step # "new"
        /\ asked.quantity = turns[asked.request].text.quantity
    BY <1>4 DEF SlotRight
  <2>5. MaxAsk \in Nat
    BY GraphAssumption
  <2>6. /\ Cardinality(asked.by \union {t.request}) <= asked.asks + 1
        /\ asked.asks + 1 <= MaxAsk
    BY <2>2, <2>3, <2>5
  <2>7. SlotRight(turns, Ask(t, quantity, asked))
    BY <1>2, <2>1, <2>3, <2>4, <2>6 DEF SlotRight
  <2> QED
    BY <1>4, <2>1, <2>7
<1> QED
  BY <1>3, <1>4

\* The reply to request r, with text and the question asked before, is right.
ReplyRight(turns, r, text, asked, reply) ==
  LET about == IF reply.answered THEN asked.request ELSE r IN
  /\ reply.answered => asked # NoSlot
  /\ reply.command = "Gather" =>
       /\ reply.quantity = turns[about].text.quantity
       /\ reply.answered \/ text.said # {} => reply.resource \in text.said
  /\ reply.slot # NoSlot =>
       /\ reply.slot.request = about
       /\ reply.slot.quantity = turns[about].text.quantity

LEMMA PlainRight ==
  ASSUME NEW reply, reply = Words \/ \E c \in {"Move", "Attack", "Craft"} : reply = Order(c),
         NEW turns, NEW r, NEW text, NEW asked
  PROVE  ReplyRight(turns, r, text, asked, reply) /\ reply.slot = NoSlot
<1>1. reply.command # "Gather" /\ reply.slot = NoSlot /\ ~reply.answered
  BY DEF Words, Order, Result
<1> QED
  BY <1>1 DEF ReplyRight

LEMMA GatherRight ==
  ASSUME NEW t \in Turns, NEW asked \in Slot \union {NoSlot}, NEW turns, NEW resource, NEW quantity,
         turns[t.request].step # "new", turns[t.request].text = t.text, SlotRight(turns, asked),
         quantity = IF asked = NoSlot THEN t.text.quantity ELSE asked.quantity,
         resource \in Resources /\ (asked # NoSlot \/ t.text.said # {}) => resource \in t.text.said,
         NEW reply, reply = Gather(t, resource, quantity, asked)
  PROVE  /\ ReplyRight(turns, t.request, t.text, asked, reply)
         /\ SlotRight(turns, reply.slot)
<1>1. quantity \in Nat \union {NoQuantity}
  BY TextType DEF Slot
<1>2. /\ reply.answered <=> asked # NoSlot
      /\ reply.command = "Gather" =>
           /\ reply.quantity = quantity
           /\ reply.answered \/ t.text.said # {} => reply.resource \in t.text.said
      /\ reply.slot # NoSlot =>
           /\ ~(asked # NoSlot /\ ~MayAskAgain(asked))
           /\ reply.slot = Ask(t, quantity, asked)
  BY <1>1, GatherSays
<1> DEFINE about == IF reply.answered THEN asked.request ELSE t.request
<1>3. about = IF asked = NoSlot THEN t.request ELSE asked.request
  BY <1>2
<1>4. quantity = turns[about].text.quantity
  BY <1>3 DEF SlotRight
<1>5. reply.slot # NoSlot =>
        /\ SlotRight(turns, reply.slot) /\ reply.slot.quantity = quantity
        /\ reply.slot.request = about
  <2> SUFFICES ASSUME reply.slot # NoSlot
               PROVE  /\ SlotRight(turns, reply.slot) /\ reply.slot.quantity = quantity
                      /\ reply.slot.request = about
    OBVIOUS
  <2>1. asked # NoSlot => MayAskAgain(asked)
    BY <1>2
  <2>2. /\ SlotRight(turns, Ask(t, quantity, asked))
        /\ Ask(t, quantity, asked).quantity = quantity
        /\ Ask(t, quantity, asked).request = IF asked = NoSlot THEN t.request ELSE asked.request
    BY <2>1, AskRight
  <2> QED
    BY <1>2, <1>3, <2>2
<1>6. SlotRight(turns, reply.slot)
  BY <1>5 DEF SlotRight
<1> HIDE DEF about
<1> QED
  BY <1>2, <1>4, <1>5, <1>6 DEF ReplyRight, about

LEMMA ClassifiedRight ==
  ASSUME NEW t \in Turns, NEW asked \in Slot \union {NoSlot}, NEW turns,
         turns[t.request].step # "new", turns[t.request].text = t.text,
         NEW reply \in Classified(t)
  PROVE  /\ ReplyRight(turns, t.request, t.text, asked, reply)
         /\ SlotRight(turns, reply.slot)
<1>1. CASE reply = Words \/ \E c \in {"Move", "Attack", "Craft"} : reply = Order(c)
  BY <1>1, PlainRight DEF SlotRight
<1>2. CASE \E resource \in GatherResources(t) :
             reply = Gather(t, resource, t.text.quantity, NoSlot)
  <2>1. PICK resource \in GatherResources(t) :
          reply = Gather(t, resource, t.text.quantity, NoSlot)
    BY <1>2
  <2>2. resource \in Resources /\ t.text.said # {} => resource \in t.text.said
    BY GraphAssumption DEF GatherResources
  <2>3. SlotRight(turns, NoSlot)
    BY DEF SlotRight
  <2>4. ReplyRight(turns, t.request, t.text, NoSlot, reply) /\ SlotRight(turns, reply.slot)
    BY <2>1, <2>2, <2>3, GatherRight
  <2>5. ~reply.answered
    BY <2>4 DEF ReplyRight
  <2> QED
    BY <2>4, <2>5 DEF ReplyRight
<1> QED
  BY <1>1, <1>2 DEF Classified, Ordered, Command, Craft

\* Every result of a turn is right.
LEMMA TurnRight ==
  ASSUME NEW t \in Turns, NEW asked \in Slot \union {NoSlot}, NEW turns,
         turns[t.request].step # "new", turns[t.request].text = t.text, SlotRight(turns, asked),
         NEW reply \in Turn(t, asked)
  PROVE  /\ ReplyRight(turns, t.request, t.text, asked, reply)
         /\ SlotRight(turns, reply.slot)
<1>1. CASE reply \in Classified(t)
  BY <1>1, ClassifiedRight
<1>2. CASE asked # NoSlot /\ \E resource \in Resolutions(t, asked) :
             resource # "None" /\ reply = Gather(t, resource, asked.quantity, asked)
  <2>1. PICK resource \in Resolutions(t, asked) :
          resource # "None" /\ reply = Gather(t, resource, asked.quantity, asked)
    BY <1>2
  <2>2. resource \in Resources => resource \in t.text.said
    BY <2>1, GraphAssumption DEF Resolutions
  <2> QED
    BY <1>2, <2>1, <2>2, GatherRight
<1> QED
  BY <1>1, <1>2 DEF Turn

\* What a handler remembers, and what it is about to say, is right.
HandlerRight(turns, r, h) ==
  /\ SlotRight(turns, h.loaded)
  /\ h.reply # NoReply => SlotRight(turns, h.reply.slot)
  /\ h.prepared /\ h.step # "done" =>
       h.step # "new" /\ ReplyRight(turns, r, h.text, h.loaded, h.reply)

SaidInv ==
  /\ \A slot \in SlotsOf(entries) : SlotRight(turn, slot)
  /\ \A r \in Requests : HandlerRight(turn, r, turn[r])

\* Requests keep their texts.
TextsStay(turns, later) ==
  \A r \in Requests :
    turns[r].step # "new" => later[r].step # "new" /\ later[r].text = turns[r].text

LEMMA RightStays ==
  ASSUME NEW turns, NEW later, TextsStay(turns, later), NEW r \in Requests, turns[r].step # "new"
  PROVE  /\ \A slot : SlotRight(turns, slot) => SlotRight(later, slot)
         /\ \A h : HandlerRight(turns, r, h) => HandlerRight(later, r, h)
<1>1. \A slot : SlotRight(turns, slot) => SlotRight(later, slot)
  BY DEF SlotRight, TextsStay, Slot
<1>2. ASSUME NEW h, HandlerRight(turns, r, h) PROVE HandlerRight(later, r, h)
  <2>1. SlotRight(later, h.loaded) /\ (h.reply # NoReply => SlotRight(later, h.reply.slot))
    BY <1>1, <1>2 DEF HandlerRight
  <2>2. ASSUME h.prepared, h.step # "done"
        PROVE  h.step # "new" /\ ReplyRight(later, r, h.text, h.loaded, h.reply)
    <3> DEFINE about == IF h.reply.answered THEN h.loaded.request ELSE r
    <3>1. h.step # "new" /\ ReplyRight(turns, r, h.text, h.loaded, h.reply)
      BY <1>2, <2>2 DEF HandlerRight
    <3>2. about \in Requests /\ turns[about].step # "new"
      BY <1>2, <3>1 DEF HandlerRight, SlotRight, ReplyRight, Slot
    <3>3. later[about].text = turns[about].text
      BY <3>2 DEF TextsStay
    <3> QED
      BY <3>1, <3>3 DEF ReplyRight
  <2> QED
    BY <2>1, <2>2 DEF HandlerRight
<1> QED
  BY <1>1, <1>2

\* A handler with nothing to say.
LEMMA SilentRight ==
  ASSUME NEW turns, NEW r, NEW h, ~h.prepared, h.loaded = NoSlot, h.reply = NoReply
  PROVE  HandlerRight(turns, r, h)
BY DEF HandlerRight, SlotRight

\* One handler changes, in a way that is right, and the store gets nothing wrong.
LEMMA MovesRight ==
  ASSUME TypeOK, SaidInv, NEW r \in Requests, NEW h, Becomes(r, h), h.step # "new",
         turn[r].step # "new" => h.text = turn[r].text,
         HandlerRight(turn', r, h),
         \A slot \in SlotsOf(entries') :
           slot = NoSlot \/ slot \in SlotsOf(entries) \/ SlotRight(turn, slot)
  PROVE  SaidInv'
<1>1. turn'[r] = h /\ \A s \in Requests \ {r} : turn'[s] = turn[s]
  BY DEF TypeOK, Becomes
<1>2. TextsStay(turn, turn')
  BY <1>1 DEF TextsStay
<1>3. \A slot : SlotRight(turn, slot) => SlotRight(turn', slot)
  BY <1>2 DEF TextsStay, SlotRight, Slot
<1>4. \A slot \in SlotsOf(entries') : SlotRight(turn', slot)
  BY <1>3 DEF SaidInv, SlotRight
<1>5. \A s \in Requests : HandlerRight(turn', s, turn'[s])
  <2> SUFFICES ASSUME NEW s \in Requests \ {r} PROVE HandlerRight(turn', s, turn[s])
    BY <1>1
  <2>1. HandlerRight(turn, s, turn[s])
    BY DEF SaidInv
  <2>2. CASE turn[s].step # "new"
    BY <1>2, <2>1, <2>2, RightStays
  <2>3. CASE turn[s].step = "new"
    BY <1>3, <2>1, <2>3 DEF HandlerRight
  <2> QED
    BY <2>2, <2>3
<1> QED
  BY <1>4, <1>5 DEF SaidInv, SlotsOf

\* A handler ends with nothing wrong.
LEMMA EndedRight ==
  ASSUME NEW r \in Requests, NEW turns, HandlerRight(turns, r, turn[r])
  PROVE  HandlerRight(turns, r, Ended(r)) /\ Ended(r).text = turn[r].text
<1>1. HandlerRight(turns, r, Received(r)) /\ Received(r).text = turn[r].text
  BY SilentRight DEF Received, Handler
<1>2. HandlerRight(turns, r, Done(r, FALSE)) /\ Done(r, FALSE).text = turn[r].text
  BY SilentRight DEF Done, Handler
<1>3. HandlerRight(turns, r, Draft(r)) /\ Draft(r).text = turn[r].text
  <2>1. /\ Draft(r).loaded = NoSlot /\ Draft(r).reply = turn[r].reply /\ ~Draft(r).prepared
        /\ Draft(r).text = turn[r].text
    BY DEF Draft, Handler
  <2> QED
    BY <2>1 DEF HandlerRight, SlotRight
<1> QED
  BY <1>1, <1>2, <1>3 DEF Ended

LEMMA InitSaid == Init => SaidInv
<1> SUFFICES ASSUME Init PROVE SaidInv
  OBVIOUS
<1>1. \A r \in Requests : ~turn[r].prepared /\ turn[r].loaded = NoSlot /\ turn[r].reply = NoReply
  BY DEF Init, Handler
<1>2. SlotsOf(entries) = {}
  BY DEF Init, SlotsOf
<1> QED
  BY <1>1, <1>2, SilentRight DEF SaidInv

LEMMA QueueSaid ==
  ASSUME IndInv, SaidInv, NEW r \in Requests, NEW k, NEW text, Queue(r, k, text),
         turn[r].step # "new" => text = turn[r].text
  PROVE  SaidInv'
<1> DEFINE h == Handler("queued", k, text, Object(r, k), NoSlot, NoReply, FALSE)
<1>1. /\ ~h.prepared /\ h.loaded = NoSlot /\ h.reply = NoReply /\ h.step = "queued"
      /\ h.text = text
  BY DEF Handler
<1>2. Becomes(r, h) /\ entries' = entries
  BY DEF Queue, Becomes
<1> HIDE DEF h
<1>3. HandlerRight(turn', r, h)
  BY <1>1, SilentRight
<1> QED
  BY <1>1, <1>2, <1>3, MovesRight DEF IndInv, Base

LEMMA BeginSaid ==
  ASSUME IndInv, SaidInv, NEW r \in Requests, Begin(r)
  PROVE  SaidInv'
<1> DEFINE slot == LoadedSlot(turn[r].key)
           h == Handler("thinking", turn[r].key, turn[r].text, turn[r].lock,
                        slot, NoReply, FALSE)
<1>1. TypeOK /\ turn[r].step = "queued" /\ turn[r].key \in Keys /\ Entries(entries)
  BY StoreTyped DEF IndInv, Base, TurnsKnow, Keys, Begin
<1>2. /\ ~h.prepared /\ h.loaded = slot /\ h.reply = NoReply /\ h.step = "thinking"
      /\ h.text = turn[r].text
  BY DEF Handler
<1>3. Becomes(r, h) /\ entries' = Load(turn[r].key)
  BY DEF Begin, Becomes
<1>4. /\ SlotsOf(Load(turn[r].key)) \subseteq SlotsOf(entries) \union {NoSlot}
      /\ slot \in SlotsOf(entries) \union {NoSlot}
  BY <1>1, LoadType
<1> HIDE DEF h, slot
<1>5. SlotRight(turn, slot)
  BY <1>4 DEF SaidInv, SlotRight
<1>6. turn'[r] = h /\ \A s \in Requests \ {r} : turn'[s] = turn[s]
  BY <1>1, <1>3 DEF TypeOK, Becomes
<1>7. SlotRight(turn', slot)
  BY <1>1, <1>2, <1>5, <1>6 DEF SlotRight, Slot
<1>8. HandlerRight(turn', r, h)
  BY <1>2, <1>7 DEF HandlerRight
<1> QED
  BY <1>1, <1>2, <1>3, <1>4, <1>8, MovesRight

LEMMA PrepareSaid ==
  ASSUME IndInv, SaidInv, NEW r \in Requests, Prepare(r)
  PROVE  SaidInv'
<1>1. /\ TypeOK /\ turn[r].step = "thinking" /\ turn[r].key \in Chats /\ turn[r].text \in Text
      /\ turn[r].loaded \in Slot \union {NoSlot} /\ SlotRight(turn, turn[r].loaded)
  BY DEF Prepare, IndInv, Base, TypeOK, TurnsKnow, Handlers, SaidInv, HandlerRight
<1>2. PICK reply \in Turn(TurnOf(r), turn[r].loaded) :
        Becomes(r, Handler("prepared", turn[r].key, turn[r].text, NoLock,
                           turn[r].loaded, reply, TRUE))
  BY DEF Prepare, Becomes
<1> DEFINE h == Handler("prepared", turn[r].key, turn[r].text, NoLock,
                        turn[r].loaded, reply, TRUE)
<1>3. /\ h.step = "prepared" /\ h.text = turn[r].text /\ h.loaded = turn[r].loaded
      /\ h.reply = reply
  BY DEF Handler
<1>4. Becomes(r, h) /\ entries' = entries
  BY <1>2 DEF Prepare
<1> HIDE DEF h
<1>5. TurnOf(r) \in Turns /\ TurnOf(r).request = r /\ TurnOf(r).text = turn[r].text
  BY <1>1, ConversationAssumption DEF TurnOf, Turns, TypeOK
<1>6. /\ ReplyRight(turn, r, turn[r].text, turn[r].loaded, reply)
      /\ SlotRight(turn, reply.slot)
  BY <1>1, <1>2, <1>5, TurnRight
<1>7. turn[r].step # "new" /\ HandlerRight(turn, r, h)
  BY <1>1, <1>3, <1>6 DEF HandlerRight
<1>8. turn'[r] = h /\ \A s \in Requests \ {r} : turn'[s] = turn[s]
  BY <1>1, <1>4 DEF TypeOK, Becomes
<1>9. TextsStay(turn, turn')
  BY <1>3, <1>8 DEF TextsStay
<1>10. HandlerRight(turn', r, h)
  BY <1>7, <1>9, RightStays
<1> QED
  BY <1>1, <1>3, <1>4, <1>10, MovesRight

\* A step after which a handler has the same to say, or less.
LEMMA LaterSaid ==
  ASSUME IndInv, SaidInv, NEW r \in Requests, turn[r].step # "new", NEW h, Becomes(r, h),
         h.step # "new", h.text = turn[r].text, HandlerRight(turn, r, h),
         SlotsOf(entries') \subseteq SlotsOf(entries) \union {NoSlot, turn[r].reply.slot},
         turn[r].reply # NoReply \/ entries' = entries
  PROVE  SaidInv'
<1>1. TypeOK /\ HandlerRight(turn, r, turn[r])
  BY DEF IndInv, Base, SaidInv
<1>2. turn'[r] = h /\ \A s \in Requests \ {r} : turn'[s] = turn[s]
  BY <1>1 DEF TypeOK, Becomes
<1>3. TextsStay(turn, turn')
  BY <1>2 DEF TextsStay
<1>4. HandlerRight(turn', r, h)
  BY <1>3, RightStays
<1>5. \A slot \in SlotsOf(entries') :
        slot = NoSlot \/ slot \in SlotsOf(entries) \/ SlotRight(turn, slot)
  BY <1>1 DEF HandlerRight
<1> QED
  BY <1>1, <1>4, <1>5, MovesRight

LEMMA SaveSaid ==
  ASSUME IndInv, SaidInv, NEW r \in Requests, Save(r) \/ Resume(r) \/ Complete(r)
  PROVE  SaidInv'
<1>1. /\ TypeOK /\ turn[r] \in Handlers /\ turn[r].step \in {"prepared", "draft", "drafted"}
      /\ HandlerRight(turn, r, turn[r]) /\ entries' = entries
  BY DEF IndInv, Base, TypeOK, SaidInv, Save, Resume, Complete
<1>2. CASE turn' = [turn EXCEPT ![r].step = "drafted"]
  <2> DEFINE h == [turn[r] EXCEPT !.step = "drafted"]
  <2>1. /\ h.step = "drafted" /\ h.text = turn[r].text /\ h.loaded = turn[r].loaded
        /\ h.reply = turn[r].reply /\ h.prepared = turn[r].prepared
    BY <1>1 DEF Handlers
  <2>2. Becomes(r, h)
    BY <1>2 DEF Becomes
  <2> HIDE DEF h
  <2>3. HandlerRight(turn, r, h)
    BY <1>1, <2>1 DEF HandlerRight
  <2> QED
    BY <1>1, <2>1, <2>2, <2>3, LaterSaid
<1>3. CASE turn' = [turn EXCEPT ![r] = Handler("drafted", turn[r].key, turn[r].text,
                      NoLock, NoSlot, Words, FALSE)]
  <2> DEFINE h == Handler("drafted", turn[r].key, turn[r].text, NoLock, NoSlot, Words, FALSE)
  <2>1. /\ h.step = "drafted" /\ h.text = turn[r].text /\ h.loaded = NoSlot
        /\ h.reply.slot = NoSlot /\ ~h.prepared
    BY DEF Handler, Words, Result
  <2>2. Becomes(r, h)
    BY <1>3 DEF Becomes
  <2> HIDE DEF h
  <2>3. HandlerRight(turn, r, h)
    BY <2>1 DEF HandlerRight, SlotRight
  <2> QED
    BY <1>1, <2>1, <2>2, <2>3, LaterSaid
<1>4. CASE Complete(r) /\ turn[r].prepared
  <2> DEFINE h == Handler("publishing", turn[r].key, turn[r].text, Object(r, turn[r].key),
                          turn[r].loaded, turn[r].reply, TRUE)
  <2>1. /\ h.step = "publishing" /\ h.text = turn[r].text /\ h.loaded = turn[r].loaded
        /\ h.reply = turn[r].reply
    BY DEF Handler
  <2>2. Becomes(r, h)
    BY <1>4 DEF Complete, Becomes
  <2> HIDE DEF h
  <2>3. HandlerRight(turn, r, h)
    BY <1>1, <1>4, <2>1 DEF HandlerRight
  <2> QED
    BY <1>1, <2>1, <2>2, <2>3, LaterSaid
<1>5. CASE Complete(r) /\ ~turn[r].prepared
  <2>1. Becomes(r, Done(r, FALSE))
    BY <1>5 DEF Complete, Becomes
  <2>2. /\ Done(r, FALSE).step = "done" /\ Done(r, FALSE).text = turn[r].text
        /\ HandlerRight(turn, r, Done(r, FALSE))
    BY SilentRight DEF Done, Handler
  <2> QED
    BY <1>1, <2>1, <2>2, LaterSaid
<1> QED
  BY <1>2, <1>3, <1>4, <1>5 DEF Save, Resume

LEMMA PublishSaid ==
  ASSUME IndInv, SaidInv, NEW r \in Requests, Publish(r)
  PROVE  SaidInv'
<1> DEFINE slot == turn[r].reply.slot
           h == Done(r, TRUE)
<1>1. /\ TypeOK /\ turn[r].step = "publishing" /\ turn[r].key \in Keys
      /\ turn[r].reply \in Reply /\ slot \in Slot \union {NoSlot} /\ clock \in Nat
      /\ HandlerRight(turn, r, turn[r])
  BY DEF Publish, PublishSlot, IndInv, Base, TypeOK, TurnsKnow, Keys, Reply, SaidInv
<1>2. /\ h.step = "done" /\ h.text = turn[r].text /\ h.loaded = turn[r].loaded
      /\ h.reply = NoReply
  BY DEF Done, Handler
<1>3. Becomes(r, h) /\ entries' = Store(turn[r].key, slot)
  BY DEF Publish, PublishSlot, Becomes
<1>4. SlotsOf(Store(turn[r].key, slot)) \subseteq SlotsOf(entries) \union {slot}
  BY <1>1, StoreTyped, StoreType
<1> HIDE DEF h
<1>5. HandlerRight(turn, r, h)
  BY <1>1, <1>2 DEF HandlerRight
<1>6. turn[r].reply # NoReply
  BY <1>1, ReplyAssumption
<1> QED
  BY <1>1, <1>2, <1>3, <1>4, <1>5, <1>6, LaterSaid

\* A step that adds nothing to the store and leaves the handlers alone.
LEMMA StoreSaid ==
  ASSUME SaidInv, turn' = turn, SlotsOf(entries') \subseteq SlotsOf(entries) \union {NoSlot}
  PROVE  SaidInv'
BY DEF SaidInv, SlotsOf, SlotRight

LEMMA FailSaid ==
  ASSUME IndInv, SaidInv, NEW r \in Requests, Fail(r)
  PROVE  SaidInv'
<1>1. turn[r].step # "new" /\ entries' = entries /\ Becomes(r, Ended(r))
  BY DEF Fail, Ended, Becomes
<1>2. HandlerRight(turn, r, Ended(r)) /\ Ended(r).text = turn[r].text
  BY EndedRight DEF SaidInv
<1>3. Ended(r).step # "new"
  BY <1>1 DEF Ended, Received, Draft, Done, Handler
<1> QED
  BY <1>1, <1>2, <1>3, LaterSaid

LEMMA RestartSaid ==
  ASSUME SaidInv, Restart
  PROVE  SaidInv'
<1>1. turn' = [r \in Requests |-> Ended(r)] /\ SlotsOf(entries') = {}
  BY DEF Restart, SlotsOf
<1>2. \A r \in Requests : Ended(r).text = turn[r].text /\ HandlerRight(turn, r, Ended(r))
  BY EndedRight DEF SaidInv
<1>3. \A r \in Requests : turn[r].step # "new" => Ended(r).step # "new"
  BY DEF Ended, Received, Draft, Done, Handler
<1>4. TextsStay(turn, turn')
  BY <1>1, <1>2, <1>3 DEF TextsStay
<1>5. \A r \in Requests : HandlerRight(turn', r, Ended(r))
  <2> SUFFICES ASSUME NEW r \in Requests PROVE HandlerRight(turn', r, Ended(r))
    OBVIOUS
  <2>1. CASE turn[r].step # "new"
    BY <1>2, <1>4, <2>1, RightStays
  <2>2. CASE turn[r].step = "new"
    <3>1. Ended(r) = turn[r]
      BY <2>2 DEF Ended
    <3>2. \A slot : SlotRight(turn, slot) => SlotRight(turn', slot)
      BY <1>4 DEF TextsStay, SlotRight, Slot
    <3> QED
      BY <1>2, <2>2, <3>1, <3>2 DEF HandlerRight
  <2> QED
    BY <2>1, <2>2
<1> QED
  BY <1>1, <1>5 DEF SaidInv, SlotsOf

LEMMA NextSaid == IndInv /\ SaidInv /\ [Next]_vars => SaidInv'
<1> SUFFICES ASSUME IndInv, SaidInv, [Next]_vars PROVE SaidInv'
  OBVIOUS
<1>1. ASSUME NEW r \in Requests, NEW k \in Chats, NEW text \in TextsOf[k], Send(r, k, text)
      PROVE  SaidInv'
  BY <1>1, QueueSaid DEF Send
<1>2. ASSUME NEW r \in Requests, Retry(r) PROVE SaidInv'
  BY <1>2, QueueSaid DEF Retry
<1>3. ASSUME NEW k \in Situations, BeginReact(k) \/ React(k) PROVE SaidInv'
  <2>1. k \in Keys /\ Entries(entries) /\ Len(entries) <= MaxEntries /\ clock \in Nat
    BY StoreTyped DEF IndInv, Base, TypeOK, Keys
  <2>2. /\ SlotsOf(Load(k)) \subseteq SlotsOf(entries) \union {NoSlot}
        /\ SlotsOf(Store(k, NoSlot)) \subseteq SlotsOf(entries) \union {NoSlot}
    BY <2>1, LoadType, StoreType
  <2> QED
    BY <1>3, <2>2, StoreSaid DEF BeginReact, React
<1>4. CASE Tick \/ UNCHANGED vars
  BY <1>4, StoreSaid DEF Tick, vars
<1> QED
  BY <1>1, <1>2, <1>3, <1>4, BeginSaid, PrepareSaid, SaveSaid, PublishSaid, FailSaid,
     RestartSaid DEF Next

LEMMA SaidInvariance == Spec => [](IndInv /\ SaidInv)
BY InitInv, InitSaid, NextInv, NextSaid, PTL DEF Spec

\* Whatever the language model proposes and however turns interleave, fail and
\* resume, an order carries the quantity and the resource that the player said.
THEOREM OrdersAreSaid == Spec => []OrderIsWhatWasSaid
<1>1. SaidInv => OrderIsWhatWasSaid
  <2> SUFFICES ASSUME SaidInv, NEW r \in Requests, turn[r].prepared, turn[r].step # "done"
               PROVE  LET h == turn[r]
                          about == IF h.reply.answered THEN h.loaded.request ELSE r
                      IN  /\ h.reply.command = "Gather"
                              => /\ h.reply.quantity = turn[about].text.quantity
                                 /\ h.reply.answered \/ h.text.said # {}
                                      => h.reply.resource \in h.text.said
                          /\ h.reply.slot # NoSlot
                              => /\ h.reply.slot.request = about
                                 /\ h.reply.slot.quantity = turn[about].text.quantity
    BY DEF OrderIsWhatWasSaid
  <2>1. ReplyRight(turn, r, turn[r].text, turn[r].loaded, turn[r].reply)
    BY DEF SaidInv, HandlerRight
  <2> QED
    BY <2>1 DEF ReplyRight
<1> QED
  BY <1>1, SaidInvariance, PTL

\* No line of questions about one request is longer than MAX_ASK_COUNT.
THEOREM QuestionsEnd == Spec => []AsksAtMost
<1>1. IndInv /\ SaidInv => AsksAtMost
  <2> SUFFICES ASSUME IndInv, SaidInv, NEW r \in Requests,
                      turn[r].reply # NoReply, turn[r].reply.slot # NoSlot
               PROVE  Cardinality(turn[r].reply.slot.by) <= MaxAsk
    BY DEF AsksAtMost
  <2>1. SlotRight(turn, turn[r].reply.slot)
    BY DEF SaidInv, HandlerRight
  <2>2. /\ IsFiniteSet(turn[r].reply.slot.by) /\ turn[r].reply.slot.asks \in Nat
        /\ Cardinality(turn[r].reply.slot.by) <= turn[r].reply.slot.asks
        /\ turn[r].reply.slot.asks <= MaxAsk
    BY <2>1 DEF SlotRight, Slot
  <2>3. Cardinality(turn[r].reply.slot.by) \in Nat /\ MaxAsk \in Nat
    BY <2>2, FS_CardinalityType, GraphAssumption
  <2> QED
    BY <2>2, <2>3
<1> QED
  BY <1>1, SaidInvariance, PTL

-------------------------------------------------------------------------------
(* Open questions *)

\* The turn of q, in conversation k, has been published.
Published(turns, q, k) ==
  q \in Requests /\ turns[q].step = "done" /\ turns[q].prepared /\ turns[q].key = k

\* Those who asked a question of conversation k have been published there.
AskedIn(turns, k, slot) ==
  slot # NoSlot => slot.by # {} /\ \A q \in slot.by : Published(turns, q, k)

\* What is about to be asked is asked by its own request, and by those who asked
\* the question that the turn began with.
AsksItself(r, h) ==
  h.prepared /\ h.step # "done" /\ h.reply.slot # NoSlot =>
    /\ r \in h.reply.slot.by
    /\ h.reply.slot.by \subseteq {r} \union (IF h.loaded = NoSlot THEN {} ELSE h.loaded.by)

\* No question that a turn began with is its own.
AskedBefore(r, h) == h.loaded # NoSlot => r \notin h.loaded.by

HandlerAsks(turns, r, h) ==
  AskedIn(turns, h.key, h.loaded) /\ AskedBefore(r, h) /\ AsksItself(r, h)

AskedInv ==
  /\ \A k, slot : OpenWith(k, slot) => AskedIn(turn, k, slot)
  /\ \A r \in Requests : HandlerAsks(turn, r, turn[r])

GoneInv == AskedInv /\ AnsweredQuestionIsGone

\* A result asks the question of this turn, or none.
LEMMA GatherAsks ==
  ASSUME NEW t \in Turns, NEW quantity, NEW asked \in Slot \union {NoSlot}, NEW resource,
         NEW reply, reply = Gather(t, resource, quantity, asked), reply.slot # NoSlot
  PROVE  /\ t.request \in reply.slot.by
         /\ reply.slot.by \subseteq
              {t.request} \union (IF asked = NoSlot THEN {} ELSE asked.by)
<1> DEFINE Say(slot) == Result("None", "None", NoQuantity, asked # NoSlot, slot)
           Go == Result("Gather", resource, quantity, asked # NoSlot, NoSlot)
<1>1. Go.slot = NoSlot /\ \A slot : Say(slot).slot = slot
  BY DEF Result
<1> HIDE DEF Say, Go
<1>2. reply \in {Say(NoSlot), Say(Ask(t, quantity, asked)), Go}
  BY DEF Gather, Say, Go
<1>3. reply.slot = Ask(t, quantity, asked)
  BY <1>1, <1>2
<1>4. Ask(t, quantity, asked).by =
        {t.request} \union (IF asked = NoSlot THEN {} ELSE asked.by)
  BY DEF Ask
<1> QED
  BY <1>3, <1>4

LEMMA TurnAsks ==
  ASSUME NEW t \in Turns, NEW asked \in Slot \union {NoSlot}, NEW reply \in Turn(t, asked),
         reply.slot # NoSlot
  PROVE  /\ t.request \in reply.slot.by
         /\ reply.slot.by \subseteq
              {t.request} \union (IF asked = NoSlot THEN {} ELSE asked.by)
<1>1. \A c \in Commands : Order(c).slot = NoSlot /\ Words.slot = NoSlot
  BY DEF Order, Words, Result
<1>2. CASE reply \in Classified(t)
  <2>1. PICK resource : reply = Gather(t, resource, t.text.quantity, NoSlot)
    BY <1>1, <1>2 DEF Classified, Ordered, Command, Craft, Commands, Order, Words, Result
  <2>2. /\ t.request \in reply.slot.by
        /\ reply.slot.by \subseteq {t.request} \union {}
    BY <2>1, GatherAsks
  <2> QED
    BY <2>2
<1>3. CASE asked # NoSlot /\ \E resource : reply = Gather(t, resource, asked.quantity, asked)
  BY <1>3, GatherAsks
<1> QED
  BY <1>2, <1>3 DEF Turn

\* Requests that have been published stay so.
PublishedStay(turns, later) ==
  \A q \in Requests : turns[q].step = "done" => later[q] = turns[q]

LEMMA AskedStays ==
  ASSUME NEW turns, NEW later, PublishedStay(turns, later)
  PROVE  /\ \A k, slot : AskedIn(turns, k, slot) => AskedIn(later, k, slot)
         /\ \A r, h : HandlerAsks(turns, r, h) => HandlerAsks(later, r, h)
<1>1. \A q, k : Published(turns, q, k) => Published(later, q, k)
  BY DEF Published, PublishedStay
<1>2. \A k, slot : AskedIn(turns, k, slot) => AskedIn(later, k, slot)
  BY <1>1 DEF AskedIn
<1> QED
  BY <1>2 DEF HandlerAsks

\* One handler changes, the store gets no other question, and no turn is
\* published: answered questions stay away.
LEMMA MovesGone ==
  ASSUME TypeOK, GoneInv, NEW r \in Requests, NEW h, Becomes(r, h),
         turn[r].step # "done", h.step = "done" => ~h.prepared,
         HandlerAsks(turn, r, h),
         \A i \in DOMAIN entries' :
           entries'[i].slot = NoSlot \/ OpenWith(entries'[i].key, entries'[i].slot)
  PROVE  GoneInv'
<1>1. turn'[r] = h /\ \A s \in Requests \ {r} : turn'[s] = turn[s]
  BY DEF TypeOK, Becomes
<1>2. PublishedStay(turn, turn')
  BY <1>1 DEF PublishedStay
<1>3. \A s \in Requests : HandlerAsks(turn', s, turn'[s])
  BY <1>1, <1>2, AskedStays DEF GoneInv, AskedInv
<1>4. \A k, slot : OpenWith(k, slot)' => AskedIn(turn', k, slot)
  <2> SUFFICES ASSUME NEW i \in DOMAIN entries'
               PROVE  AskedIn(turn', entries'[i].key, entries'[i].slot)
    BY DEF OpenWith
  <2>1. CASE entries'[i].slot = NoSlot
    BY <2>1 DEF AskedIn
  <2>2. CASE OpenWith(entries'[i].key, entries'[i].slot)
    BY <1>2, <2>2, AskedStays DEF GoneInv, AskedInv
  <2> QED
    BY <2>1, <2>2
<1>5. AnsweredQuestionIsGone'
  <2> SUFFICES ASSUME NEW s \in Requests, turn'[s].step = "done", turn'[s].prepared,
                      turn'[s].loaded # NoSlot, NEW i \in DOMAIN entries'
               PROVE  entries'[i].slot # turn'[s].loaded
    BY DEF AnsweredQuestionIsGone
  <2>1. s # r /\ turn'[s] = turn[s]
    BY <1>1
  <2> QED
    BY <2>1 DEF GoneInv, AnsweredQuestionIsGone, OpenWith
<1>6. AskedInv'
  BY <1>3, <1>4 DEF AskedInv
<1> QED
  BY <1>5, <1>6 DEF GoneInv

\* The store keeps its questions, or loses some; no handler moves.
LEMMA StoreGone ==
  ASSUME GoneInv, turn' = turn,
         \A i \in DOMAIN entries' :
           entries'[i].slot = NoSlot \/ OpenWith(entries'[i].key, entries'[i].slot)
  PROVE  GoneInv'
<1>1. \A k, slot : OpenWith(k, slot)' => AskedIn(turn', k, slot)
  <2> SUFFICES ASSUME NEW i \in DOMAIN entries'
               PROVE  AskedIn(turn', entries'[i].key, entries'[i].slot)
    BY DEF OpenWith
  <2> QED
    BY DEF GoneInv, AskedInv, AskedIn
<1>2. AnsweredQuestionIsGone'
  BY DEF GoneInv, AnsweredQuestionIsGone, OpenWith
<1>3. AskedInv'
  BY <1>1 DEF GoneInv, AskedInv
<1> QED
  BY <1>2, <1>3 DEF GoneInv

\* A handler with no question.
LEMMA SilentAsks ==
  ASSUME NEW turns, NEW r, NEW h, h.loaded = NoSlot,
         h.prepared /\ h.step # "done" => h.reply.slot = NoSlot
  PROVE  HandlerAsks(turns, r, h)
BY DEF HandlerAsks, AskedIn, AskedBefore, AsksItself

LEMMA InitGone == Init => GoneInv
<1> SUFFICES ASSUME Init PROVE GoneInv
  OBVIOUS
<1>1. \A r \in Requests : ~turn[r].prepared /\ turn[r].loaded = NoSlot
  BY DEF Init, Handler
<1>2. entries = <<>> /\ \A k, slot : ~OpenWith(k, slot)
  BY DEF Init, OpenWith
<1>3. \A r \in Requests : HandlerAsks(turn, r, turn[r])
  BY <1>1, SilentAsks
<1> QED
  BY <1>1, <1>2, <1>3 DEF GoneInv, AskedInv, AnsweredQuestionIsGone

\* A store that does not change.
LEMMA SameStore ==
  ASSUME entries' = entries
  PROVE  \A i \in DOMAIN entries' :
           entries'[i].slot = NoSlot \/ OpenWith(entries'[i].key, entries'[i].slot)
BY DEF OpenWith

LEMMA QueueGone ==
  ASSUME IndInv, GoneInv, NEW r \in Requests, NEW k, NEW text, Queue(r, k, text),
         turn[r].step # "done"
  PROVE  GoneInv'
<1> DEFINE h == Handler("queued", k, text, Object(r, k), NoSlot, NoReply, FALSE)
<1>1. h.loaded = NoSlot /\ ~h.prepared /\ h.step = "queued"
  BY DEF Handler
<1>2. Becomes(r, h) /\ entries' = entries
  BY DEF Queue, Becomes
<1> HIDE DEF h
<1>3. HandlerAsks(turn, r, h)
  BY <1>1, SilentAsks
<1> QED
  BY <1>1, <1>2, <1>3, SameStore, MovesGone DEF IndInv, Base

\* The question that a turn begins with is open in its conversation.
LEMMA BeginGone ==
  ASSUME IndInv, GoneInv, NEW r \in Requests, Begin(r)
  PROVE  GoneInv'
<1> DEFINE slot == LoadedSlot(turn[r].key)
           h == Handler("thinking", turn[r].key, turn[r].text, turn[r].lock,
                        slot, NoReply, FALSE)
<1>1. TypeOK /\ turn[r].step = "queued" /\ turn[r].key \in Keys /\ Entries(entries)
  BY StoreTyped DEF IndInv, Base, TurnsKnow, Keys, Begin
<1>2. h.loaded = slot /\ h.key = turn[r].key /\ ~h.prepared /\ h.step = "thinking"
  BY DEF Handler
<1>3. Becomes(r, h) /\ entries' = Load(turn[r].key)
  BY DEF Begin, Becomes
<1>4. /\ slot = NoSlot \/ OpenWith(turn[r].key, slot)
      /\ \A i \in DOMAIN Load(turn[r].key) :
           \/ Load(turn[r].key)[i].slot = NoSlot
           \/ OpenWith(Load(turn[r].key)[i].key, Load(turn[r].key)[i].slot)
  BY <1>1, LoadType
<1> HIDE DEF h, slot
<1>5. AskedIn(turn, turn[r].key, slot)
  BY <1>4 DEF GoneInv, AskedInv, AskedIn
<1>6. AskedBefore(r, h)
  BY <1>1, <1>2, <1>5 DEF AskedBefore, AskedIn, Published
<1>7. HandlerAsks(turn, r, h)
  BY <1>2, <1>5, <1>6 DEF HandlerAsks, AsksItself
<1>8. \A i \in DOMAIN entries' :
        entries'[i].slot = NoSlot \/ OpenWith(entries'[i].key, entries'[i].slot)
  BY <1>3, <1>4
<1> QED
  BY <1>1, <1>2, <1>3, <1>7, <1>8, MovesGone

LEMMA PrepareGone ==
  ASSUME IndInv, GoneInv, NEW r \in Requests, Prepare(r)
  PROVE  GoneInv'
<1>1. /\ TypeOK /\ turn[r].step = "thinking" /\ turn[r].key \in Chats /\ turn[r].text \in Text
      /\ turn[r].loaded \in Slot \union {NoSlot} /\ HandlerAsks(turn, r, turn[r])
  BY DEF Prepare, IndInv, Base, TypeOK, TurnsKnow, Handlers, GoneInv, AskedInv
<1>2. PICK reply \in Turn(TurnOf(r), turn[r].loaded) :
        Becomes(r, Handler("prepared", turn[r].key, turn[r].text, NoLock,
                           turn[r].loaded, reply, TRUE))
  BY DEF Prepare, Becomes
<1> DEFINE h == Handler("prepared", turn[r].key, turn[r].text, NoLock,
                        turn[r].loaded, reply, TRUE)
<1>3. /\ h.step = "prepared" /\ h.key = turn[r].key /\ h.loaded = turn[r].loaded
      /\ h.reply = reply
  BY DEF Handler
<1>4. Becomes(r, h) /\ entries' = entries
  BY <1>2 DEF Prepare
<1> HIDE DEF h
<1>5. TurnOf(r) \in Turns /\ TurnOf(r).request = r
  BY <1>1, ConversationAssumption DEF TurnOf, Turns, TypeOK
<1>6. AsksItself(r, h)
  <2> SUFFICES ASSUME reply.slot # NoSlot
               PROVE  /\ r \in reply.slot.by
                      /\ reply.slot.by \subseteq
                           {r} \union (IF turn[r].loaded = NoSlot THEN {} ELSE turn[r].loaded.by)
    BY <1>3 DEF AsksItself
  <2> QED
    BY <1>1, <1>5, TurnAsks
<1>7. HandlerAsks(turn, r, h)
  BY <1>1, <1>3, <1>6 DEF HandlerAsks, AskedBefore
<1> QED
  BY <1>1, <1>3, <1>4, <1>7, SameStore, MovesGone

LEMMA SaveGone ==
  ASSUME IndInv, GoneInv, NEW r \in Requests, Save(r) \/ Resume(r) \/ Complete(r)
  PROVE  GoneInv'
<1>1. /\ TypeOK /\ turn[r] \in Handlers /\ turn[r].step \in {"prepared", "draft", "drafted"}
      /\ HandlerAsks(turn, r, turn[r]) /\ entries' = entries
  BY DEF IndInv, Base, TypeOK, GoneInv, AskedInv, Save, Resume, Complete
<1>2. CASE turn' = [turn EXCEPT ![r].step = "drafted"]
  <2> DEFINE h == [turn[r] EXCEPT !.step = "drafted"]
  <2>1. /\ h.step = "drafted" /\ h.key = turn[r].key /\ h.loaded = turn[r].loaded
        /\ h.reply = turn[r].reply /\ h.prepared = turn[r].prepared
    BY <1>1 DEF Handlers
  <2>2. Becomes(r, h)
    BY <1>2 DEF Becomes
  <2> HIDE DEF h
  <2>3. HandlerAsks(turn, r, h)
    BY <1>1, <2>1 DEF HandlerAsks, AskedBefore, AsksItself
  <2> QED
    BY <1>1, <2>1, <2>2, <2>3, SameStore, MovesGone
<1>3. CASE turn' = [turn EXCEPT ![r] = Handler("drafted", turn[r].key, turn[r].text,
                      NoLock, NoSlot, Words, FALSE)]
  <2> DEFINE h == Handler("drafted", turn[r].key, turn[r].text, NoLock, NoSlot, Words, FALSE)
  <2>1. h.step = "drafted" /\ h.loaded = NoSlot /\ ~h.prepared
    BY DEF Handler
  <2>2. Becomes(r, h)
    BY <1>3 DEF Becomes
  <2> HIDE DEF h
  <2>3. HandlerAsks(turn, r, h)
    BY <2>1, SilentAsks
  <2> QED
    BY <1>1, <2>1, <2>2, <2>3, SameStore, MovesGone
<1>4. CASE Complete(r) /\ turn[r].prepared
  <2> DEFINE h == Handler("publishing", turn[r].key, turn[r].text, Object(r, turn[r].key),
                          turn[r].loaded, turn[r].reply, TRUE)
  <2>1. /\ h.step = "publishing" /\ h.key = turn[r].key /\ h.loaded = turn[r].loaded
        /\ h.reply = turn[r].reply
    BY DEF Handler
  <2>2. Becomes(r, h)
    BY <1>4 DEF Complete, Becomes
  <2> HIDE DEF h
  <2>3. HandlerAsks(turn, r, h)
    BY <1>1, <1>4, <2>1 DEF HandlerAsks, AskedBefore, AsksItself
  <2> QED
    BY <1>1, <2>1, <2>2, <2>3, SameStore, MovesGone
<1>5. CASE Complete(r) /\ ~turn[r].prepared
  <2>1. Becomes(r, Done(r, FALSE))
    BY <1>5 DEF Complete, Becomes
  <2>2. ~Done(r, FALSE).prepared /\ HandlerAsks(turn, r, Done(r, FALSE))
    BY SilentAsks DEF Done, Handler
  <2> QED
    BY <1>1, <2>1, <2>2, SameStore, MovesGone
<1> QED
  BY <1>2, <1>3, <1>4, <1>5 DEF Save, Resume

\* What a turn publishes is its own question, which nobody began with; and the
\* question that it began with is open nowhere else than in its conversation,
\* where it is replaced.
LEMMA PublishGone ==
  ASSUME IndInv, GoneInv, NEW r \in Requests, Publish(r), turn[r].prepared
  PROVE  GoneInv'
<1> DEFINE k == turn[r].key
           slot == turn[r].reply.slot
           h == Done(r, TRUE)
<1>1. /\ TypeOK /\ turn[r].step = "publishing" /\ k \in Keys
      /\ slot \in Slot \union {NoSlot} /\ clock \in Nat
      /\ HandlerAsks(turn, r, turn[r])
  BY DEF Publish, PublishSlot, IndInv, Base, TypeOK, TurnsKnow, Keys, Reply, GoneInv, AskedInv
<1>2. h.step = "done" /\ h.key = k /\ h.loaded = turn[r].loaded /\ h.prepared
  BY DEF Done, Handler
<1>3. Becomes(r, h) /\ entries' = Store(k, slot)
  BY DEF Publish, PublishSlot, Becomes
<1>4. \A i \in DOMAIN entries' : Kept(k, slot, entries'[i])
  BY <1>1, <1>3, StoreTyped, StoreType
<1> HIDE DEF h
<1>5. turn'[r] = h /\ \A s \in Requests \ {r} : turn'[s] = turn[s]
  BY <1>1, <1>3 DEF TypeOK, Becomes
<1>6. PublishedStay(turn, turn')
  BY <1>1, <1>5 DEF PublishedStay
<1>7. HandlerAsks(turn', r, h)
  <2>1. HandlerAsks(turn, r, h)
    BY <1>1, <1>2 DEF HandlerAsks, AskedBefore, AsksItself
  <2> QED
    BY <1>6, <2>1, AskedStays
<1>8. \A s \in Requests : HandlerAsks(turn', s, turn'[s])
  BY <1>5, <1>6, <1>7, AskedStays DEF GoneInv, AskedInv
<1>9. Published(turn', r, k)
  BY <1>2, <1>5 DEF Published
<1>10. slot # NoSlot => r \in slot.by /\ AskedIn(turn', k, slot)
  <2> SUFFICES ASSUME slot # NoSlot PROVE r \in slot.by /\ AskedIn(turn', k, slot)
    OBVIOUS
  <2>1. /\ r \in slot.by
        /\ slot.by \subseteq {r} \union (IF turn[r].loaded = NoSlot THEN {} ELSE turn[r].loaded.by)
    BY <1>1 DEF HandlerAsks, AsksItself
  <2>2. AskedIn(turn', k, turn[r].loaded)
    BY <1>1, <1>6, AskedStays DEF HandlerAsks
  <2> QED
    BY <1>9, <2>1, <2>2 DEF AskedIn
<1>11. \A k2, slot2 : OpenWith(k2, slot2)' => AskedIn(turn', k2, slot2)
  <2> SUFFICES ASSUME NEW i \in DOMAIN entries'
               PROVE  AskedIn(turn', entries'[i].key, entries'[i].slot)
    BY DEF OpenWith
  <2>1. CASE entries'[i].key = k /\ entries'[i].slot = slot
    BY <1>10, <2>1 DEF AskedIn
  <2>2. CASE OpenWith(entries'[i].key, entries'[i].slot)
    BY <1>6, <2>2, AskedStays DEF GoneInv, AskedInv
  <2> QED
    BY <1>4, <2>1, <2>2 DEF Kept
<1>12. AnsweredQuestionIsGone'
  <2> SUFFICES ASSUME NEW s \in Requests, turn'[s].step = "done", turn'[s].prepared,
                      turn'[s].loaded # NoSlot, NEW i \in DOMAIN entries'
               PROVE  entries'[i].slot # turn'[s].loaded
    BY DEF AnsweredQuestionIsGone
  <2>1. turn'[s].loaded = turn[s].loaded /\ HandlerAsks(turn, s, turn[s])
    BY <1>2, <1>5 DEF GoneInv, AskedInv
  \* Whoever asked the question that s began with is done; r is not.
  <2>2. r \notin turn[s].loaded.by
    BY <1>1, <2>1 DEF HandlerAsks, AskedIn, Published
  <2>3. CASE entries'[i].slot = slot
    BY <1>10, <2>1, <2>2, <2>3
  <2>4. CASE entries'[i].key # k /\ OpenWith(entries'[i].key, entries'[i].slot) /\ s = r
    <3> SUFFICES ASSUME entries'[i].slot = turn[r].loaded PROVE FALSE
      BY <2>1, <2>4
    <3>1. /\ AskedIn(turn, entries'[i].key, turn[r].loaded)
          /\ AskedIn(turn, k, turn[r].loaded)
      BY <1>1, <2>4 DEF GoneInv, AskedInv, HandlerAsks
    <3> QED
      BY <2>1, <2>4, <3>1 DEF AskedIn, Published
  <2>5. CASE OpenWith(entries'[i].key, entries'[i].slot) /\ s # r
    <3>1. turn[s].step = "done" /\ turn[s].prepared
      BY <1>5, <2>5
    <3> QED
      BY <2>1, <2>5, <3>1 DEF GoneInv, AnsweredQuestionIsGone, OpenWith
  <2> QED
    BY <1>4, <2>3, <2>4, <2>5 DEF Kept
<1>13. AskedInv'
  BY <1>8, <1>11 DEF AskedInv
<1> QED
  BY <1>12, <1>13 DEF GoneInv

\* A handler ends without having published anything.
LEMMA EndedAsks ==
  ASSUME NEW r \in Requests, NEW turns, HandlerAsks(turns, r, turn[r])
  PROVE  /\ HandlerAsks(turns, r, Ended(r))
         /\ Ended(r) = turn[r] \/ (turn[r].step # "done" /\ ~Ended(r).prepared)
<1>1. /\ HandlerAsks(turns, r, Received(r)) /\ ~Received(r).prepared
      /\ HandlerAsks(turns, r, Draft(r)) /\ ~Draft(r).prepared
      /\ HandlerAsks(turns, r, Done(r, FALSE)) /\ ~Done(r, FALSE).prepared
  BY SilentAsks DEF Received, Draft, Done, Handler
<1> QED
  BY <1>1 DEF Ended

LEMMA FailGone ==
  ASSUME IndInv, GoneInv, NEW r \in Requests, Fail(r)
  PROVE  GoneInv'
<1>1. /\ TypeOK /\ turn[r] # Ended(r) /\ entries' = entries /\ Becomes(r, Ended(r))
      /\ HandlerAsks(turn, r, turn[r])
  BY DEF Fail, Becomes, IndInv, Base, GoneInv, AskedInv
<1>2. /\ HandlerAsks(turn, r, Ended(r))
      /\ turn[r].step # "done" /\ ~Ended(r).prepared
  BY <1>1, EndedAsks
<1> QED
  BY <1>1, <1>2, SameStore, MovesGone

LEMMA RestartGone ==
  ASSUME GoneInv, Restart
  PROVE  GoneInv'
<1>1. turn' = [r \in Requests |-> Ended(r)] /\ entries' = <<>>
  BY DEF Restart
<1>2. PublishedStay(turn, turn')
  BY <1>1 DEF PublishedStay, Ended
<1>3. \A r \in Requests : HandlerAsks(turn', r, turn'[r])
  BY <1>1, <1>2, EndedAsks, AskedStays DEF GoneInv, AskedInv
<1>4. \A k, slot : ~OpenWith(k, slot)'
  BY <1>1 DEF OpenWith
<1>5. AnsweredQuestionIsGone'
  BY <1>1 DEF AnsweredQuestionIsGone
<1> QED
  BY <1>3, <1>4, <1>5 DEF GoneInv, AskedInv

\* Who publishes was prepared: complete sees to it.
PublishersPrepared ==
  \A r \in Requests : turn[r].step = "publishing" => turn[r].prepared

LEMMA InitPublishers == Init => PublishersPrepared
BY DEF Init, Handler, PublishersPrepared

LEMMA NextPublishers == TypeOK /\ PublishersPrepared /\ [Next]_vars => PublishersPrepared'
<1> SUFFICES ASSUME TypeOK, PublishersPrepared, [Next]_vars PROVE PublishersPrepared'
  OBVIOUS
<1>1. ASSUME NEW r \in Requests, NEW h, Becomes(r, h), h.step = "publishing" => h.prepared
      PROVE  PublishersPrepared'
  BY <1>1 DEF TypeOK, Becomes, PublishersPrepared
<1>2. ASSUME NEW r \in Requests, NEW k, NEW text, Queue(r, k, text) PROVE PublishersPrepared'
  BY <1>1, <1>2 DEF Queue, Becomes, Handler
<1>3. ASSUME NEW r \in Requests, Begin(r) PROVE PublishersPrepared'
  BY <1>1, <1>3 DEF Begin, Becomes, Handler
<1>4. ASSUME NEW r \in Requests, Prepare(r) PROVE PublishersPrepared'
  BY <1>1, <1>4 DEF Prepare, Becomes, Handler
<1>5. ASSUME NEW r \in Requests, Save(r) \/ Resume(r) PROVE PublishersPrepared'
  BY <1>5, SMTT(30) DEF Save, Resume, TypeOK, Handlers, Handler, PublishersPrepared
<1>6. ASSUME NEW r \in Requests, Complete(r) PROVE PublishersPrepared'
  BY <1>1, <1>6 DEF Complete, Becomes, Done, Handler
<1>7. ASSUME NEW r \in Requests, Publish(r) PROVE PublishersPrepared'
  BY <1>1, <1>7 DEF Publish, PublishSlot, Becomes, Done, Handler
<1>8. \A r \in Requests : Ended(r).step = "publishing" => Ended(r).prepared
  BY DEF Ended, Received, Draft, Done, Handler, PublishersPrepared
<1>9. ASSUME NEW r \in Requests, Fail(r) PROVE PublishersPrepared'
  BY <1>1, <1>8, <1>9 DEF Fail, Becomes
<1>10. CASE Restart
  BY <1>8, <1>10 DEF Restart, PublishersPrepared
<1>11. CASE UNCHANGED turn
  BY <1>11 DEF PublishersPrepared
<1> QED
  BY <1>2, <1>3, <1>4, <1>5, <1>6, <1>7, <1>9, <1>10, <1>11
     DEF Next, Send, Retry, BeginReact, React, Tick, vars

LEMMA NextGone == IndInv /\ GoneInv /\ PublishersPrepared /\ [Next]_vars => GoneInv'
<1> SUFFICES ASSUME IndInv, GoneInv, PublishersPrepared, [Next]_vars PROVE GoneInv'
  OBVIOUS
<1>1. ASSUME NEW r \in Requests, NEW k \in Chats, NEW text \in TextsOf[k], Send(r, k, text)
      PROVE  GoneInv'
  BY <1>1, QueueGone DEF Send
<1>2. ASSUME NEW r \in Requests, Retry(r) PROVE GoneInv'
  BY <1>2, QueueGone DEF Retry
<1>3. ASSUME NEW k \in Situations, BeginReact(k) \/ React(k) PROVE GoneInv'
  <2>1. k \in Keys /\ Entries(entries) /\ Len(entries) <= MaxEntries /\ clock \in Nat
    BY StoreTyped DEF IndInv, Base, TypeOK, Keys
  <2>2. CASE BeginReact(k)
    <3>1. \A i \in DOMAIN Load(k) :
            Load(k)[i].slot = NoSlot \/ OpenWith(Load(k)[i].key, Load(k)[i].slot)
      BY <2>1, LoadType
    <3> QED
      BY <2>2, <3>1, StoreGone DEF BeginReact
  <2>3. CASE React(k)
    <3>1. \A i \in DOMAIN Store(k, NoSlot) : Kept(k, NoSlot, Store(k, NoSlot)[i])
      BY <2>1, StoreType
    <3> QED
      BY <2>3, <3>1, StoreGone DEF React, Kept
  <2> QED
    BY <1>3, <2>2, <2>3
<1>4. ASSUME NEW r \in Requests, Publish(r) PROVE GoneInv'
  BY <1>4, PublishGone DEF Publish, PublishSlot, PublishersPrepared
<1>5. CASE Tick \/ UNCHANGED vars
  BY <1>5, SameStore, StoreGone DEF Tick, vars
<1> QED
  BY <1>1, <1>2, <1>3, <1>4, <1>5, BeginGone, PrepareGone, SaveGone, FailGone, RestartGone
     DEF Next

\* A question is open until a turn that began with it is published, and never
\* again after that: what commit_response saves replaces it, what overlapping
\* turns save is their own, and what a restart or an eviction loses stays lost.
THEOREM AnsweredQuestionsStayAway == Spec => []AnsweredQuestionIsGone
<1>1. IndInv /\ GoneInv /\ PublishersPrepared /\ [Next]_vars
        => (IndInv /\ GoneInv /\ PublishersPrepared)'
  BY NextInv, NextGone, NextPublishers DEF IndInv, Base
<1>2. GoneInv => AnsweredQuestionIsGone
  BY DEF GoneInv
<1> QED
  BY <1>1, <1>2, InitInv, InitGone, InitPublishers, PTL DEF Spec
===============================================================================
