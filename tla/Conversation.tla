------------------------------ MODULE Conversation ------------------------------
(***************************************************************************)
(* The companion's working memory and the turns that use it:               *)
(* InMemoryConversationStore, the conversation lock of CompanionBrain, and *)
(* create_response as far as it prepares, stores, completes and publishes  *)
(* a reply.  Everything runs in one process; a turn can be overtaken by    *)
(* another, or end, wherever it waits: for the lock, the model, the        *)
(* database.  Each request has one handler at a time (see ChatOperation).  *)
(***************************************************************************)
EXTENDS CompanionGraph, SequencesExt

CONSTANTS
  Requests,    \* chat requests
  Chats,       \* keys of the conversations they belong to
  Situations,  \* keys under which POST /situations remembers what it said
  TextsOf,     \* TextsOf[k]: what the player says in it
  SurfaceOf,   \* SurfaceOf[k]: "Game" or "Mobile"
  AllowedOf,   \* AllowedOf[k]: allowed_commands of the requests
  MaxEntries, PendingTtl, IdleTtl,   \* settings of the store
  MaxClock,    \* bound: time
  MaxMishaps,  \* bound: failures and restarts
  NoText, NoReply, NoLock   \* a request not sent, a turn without result, a free key

Keys == Chats \union Situations

ASSUME ConversationAssumption ==
  /\ IsFiniteSet(Requests) /\ TextsOf \in [Chats -> SUBSET Text]
  /\ SurfaceOf \in [Chats -> {"Game", "Mobile"}]
  /\ AllowedOf \in [Chats -> SUBSET Commands]
  /\ MaxEntries \in Nat \ {0} /\ MaxClock \in Nat /\ MaxMishaps \in Nat
  /\ PendingTtl \in Nat \ {0} /\ IdleTtl \in Nat \ {0}
  /\ NoText \notin Text /\ NoLock \notin Requests

VARIABLES
  entries,  \* _entries: the items of the dict, in its order
  lock,     \* lock[k]: the lock object in _locks, or NoLock
  users,    \* users[k]: _lock_users, 0 without an item
  turn,     \* turn[r]: the handler of r, and what the database has of r
  clock,
  mishaps

vars == <<entries, lock, users, turn, clock, mishaps>>

-------------------------------------------------------------------------------
(* The store *)

\* Recent turns and recipe references are left out: no entry is empty, and a
\* reference is replaced by every turn like the slot.
Entry(k, slot, at) == [key |-> k, slot |-> slot, at |-> at]
Has(k) == \E i \in DOMAIN entries : entries[i].key = k
Index(k) == CHOOSE i \in DOMAIN entries : entries[i].key = k
Others(k) == IF Has(k) THEN RemoveAt(entries, Index(k)) ELSE entries

\* PendingSlot.is_expired
IsExpired(slot) == clock - slot.at >= PendingTtl
IsStale(e) == clock - e.at >= IdleTtl
Current(e) == IF e.slot # NoSlot /\ IsExpired(e.slot) THEN [e EXCEPT !.slot = NoSlot] ELSE e

\* load: what it returns of the pending slot, and the entries it leaves.
LoadedSlot(k) ==
  IF Has(k) /\ ~IsStale(entries[Index(k)]) THEN Current(entries[Index(k)]).slot ELSE NoSlot
Load(k) ==
  IF Has(k) /\ ~IsStale(entries[Index(k)])
  THEN [entries EXCEPT ![Index(k)] = Current(@)]
  ELSE Others(k)

\* save, of memory that is not empty.
Store(k, slot) ==
  LET all == Append(Others(k), Entry(k, slot, clock))
  IN  IF Len(all) > MaxEntries THEN Tail(all) ELSE all

-------------------------------------------------------------------------------
(* Turns *)

\* A request is "new"; its handler is "queued" for the lock, "thinking" with
\* it, "prepared" and, when its draft is stored, "drafted", then "publishing",
\* for which it needs the lock again.  Between attempts it is "received" or
\* "draft"; "done" when its reply is complete and no handler is left.
Steps == {"new", "received", "queued", "thinking", "prepared", "drafted", "draft",
          "publishing", "done"}
\* loaded: the slot the turn began with.  prepared: the handler has what
\* commit_response is to save; of a request that is done, that it was saved.
Handler(step, key, text, object, loaded, reply, prepared) ==
  [step |-> step, key |-> key, text |-> text, lock |-> object, loaded |-> loaded,
   reply |-> reply, prepared |-> prepared]

\* What is left of a request when no handler works on it: its message, its draft
\* or its reply.
Received(r) == Handler("received", turn[r].key, turn[r].text, NoLock, NoSlot, NoReply, FALSE)
Draft(r) == Handler("draft", turn[r].key, turn[r].text, NoLock, NoSlot, turn[r].reply, FALSE)
Done(r, published) == Handler("done", turn[r].key, turn[r].text, NoLock,
  IF published THEN turn[r].loaded ELSE NoSlot, NoReply, published)

Init ==
  /\ entries = <<>>
  /\ lock = [k \in Keys |-> NoLock]
  /\ users = [k \in Keys |-> 0]
  /\ turn = [r \in Requests |->
               Handler("new", NoText, NoText, NoLock, NoSlot, NoReply, FALSE)]
  /\ clock = 0
  /\ mishaps = 0

\* Lock objects are named after the request that made them.
Registered(r) == turn[r].step \in {"queued", "thinking", "publishing"}
Object(r, k) == IF lock[k] = NoLock THEN r ELSE lock[k]
IsFree(object) == \A r \in Requests : ~(turn[r].step = "thinking" /\ turn[r].lock = object)

\* _conversation_lock: up to `async with lock`, and its finally clause.
Register(r, k) ==
  /\ lock' = [lock EXCEPT ![k] = Object(r, k)]
  /\ users' = [users EXCEPT ![k] = @ + 1]
\* Mutant: the one who leaves takes the lock away from those who wait.
LeaveAlone(k) ==
  /\ users' = [users EXCEPT ![k] = @ - 1]
  /\ lock' = [lock EXCEPT ![k] = NoLock]
Leave(k) ==
  /\ users' = [users EXCEPT ![k] = @ - 1]
  /\ lock' = [lock EXCEPT ![k] = IF users[k] = 1 THEN NoLock ELSE @]

\* create_response up to the lock in prepare_response.
Queue(r, k, text) ==
  /\ Register(r, k)
  /\ turn' = [turn EXCEPT ![r] =
                Handler("queued", k, text, Object(r, k), NoSlot, NoReply, FALSE)]
  /\ UNCHANGED <<entries, clock, mishaps>>
\* A new request, and a retry of one that failed before its draft was stored.
Send(r, k, text) == turn[r].step = "new" /\ Queue(r, k, text)
Retry(r) == turn[r].step = "received" /\ Queue(r, turn[r].key, turn[r].text)

\* _prepare_response_locked up to the first call of the model.
Begin(r) ==
  /\ turn[r].step = "queued" /\ IsFree(turn[r].lock)
  /\ entries' = Load(turn[r].key)
  /\ turn' = [turn EXCEPT ![r] = Handler("thinking", turn[r].key, turn[r].text,
                turn[r].lock, LoadedSlot(turn[r].key), NoReply, FALSE)]
  /\ UNCHANGED <<lock, users, clock, mishaps>>

\* What the graph is run on.
TurnOf(r) ==
  [request |-> r, text |-> turn[r].text, surface |-> SurfaceOf[turn[r].key],
   allowed |-> AllowedOf[turn[r].key], now |-> clock]
\* The rest of it: the graph runs, the lock is released.
Prepare(r) ==
  /\ turn[r].step = "thinking"
  /\ \E reply \in Turn(TurnOf(r), turn[r].loaded) :
       turn' = [turn EXCEPT ![r] = Handler("prepared", turn[r].key, turn[r].text, NoLock,
                                           turn[r].loaded, reply, TRUE)]
  /\ Leave(turn[r].key)
  /\ UNCHANGED <<entries, clock, mishaps>>

\* save_generated.  On a phone an order becomes an offline task with it; without
\* the material for it the reply is an apology, and what was prepared is dropped.
Save(r) ==
  /\ turn[r].step = "prepared"
  /\ \/ turn' = [turn EXCEPT ![r].step = "drafted"]
     \/ /\ SurfaceOf[turn[r].key] = "Mobile" /\ turn[r].reply.command = "Craft"
        /\ turn' = [turn EXCEPT ![r] = Handler("drafted", turn[r].key, turn[r].text,
                      NoLock, NoSlot, Words, FALSE)]
  /\ UNCHANGED <<entries, lock, users, clock, mishaps>>

\* A retry of a request whose draft is stored: nothing is prepared.
Resume(r) ==
  /\ turn[r].step = "draft"
  /\ turn' = [turn EXCEPT ![r].step = "drafted"]
  /\ UNCHANGED <<entries, lock, users, clock, mishaps>>

\* complete, and commit_response up to the lock.
Complete(r) ==
  /\ turn[r].step = "drafted"
  /\ IF turn[r].prepared
     THEN /\ Register(r, turn[r].key)
          /\ turn' = [turn EXCEPT ![r] = Handler("publishing", turn[r].key, turn[r].text,
                        Object(r, turn[r].key), turn[r].loaded, turn[r].reply, TRUE)]
     ELSE turn' = [turn EXCEPT ![r] = Done(r, FALSE)] /\ UNCHANGED <<lock, users>>
  /\ UNCHANGED <<entries, clock, mishaps>>

\* The rest of commit_response.
PublishSlot(r, slot) ==
  /\ turn[r].step = "publishing" /\ IsFree(turn[r].lock)
  /\ entries' = Store(turn[r].key, slot)
  /\ Leave(turn[r].key)
  /\ turn' = [turn EXCEPT ![r] = Done(r, TRUE)]
  /\ UNCHANGED <<clock, mishaps>>
\* Mutant: a turn that asks nothing leaves the old question open.
PublishQuestion(r) ==
  PublishSlot(r, IF turn[r].reply.slot = NoSlot THEN turn[r].loaded ELSE turn[r].reply.slot)
Publish(r) == PublishSlot(r, turn[r].reply.slot)

\* react_with_provenance, up to the call of the model and after it.  It has its
\* own key, on which no question is ever open.
BeginReact(k) ==
  /\ entries' = Load(k)
  /\ UNCHANGED <<lock, users, turn, clock, mishaps>>
React(k) ==
  /\ entries' = Store(k, NoSlot)
  /\ UNCHANGED <<lock, users, turn, clock, mishaps>>

\* A handler's end, and where its work is taken up again.
Ended(r) ==
  CASE turn[r].step \in {"queued", "thinking", "prepared"} -> Received(r)
    [] turn[r].step = "drafted" -> Draft(r)
    [] turn[r].step = "publishing" -> Done(r, FALSE)
    [] OTHER -> turn[r]

\* A failure, a timeout or a disconnect, at any await.
Fail(r) ==
  /\ mishaps < MaxMishaps /\ mishaps' = mishaps + 1
  /\ turn[r] # Ended(r)
  /\ turn' = [turn EXCEPT ![r] = Ended(r)]
  /\ IF Registered(r) THEN Leave(turn[r].key) ELSE UNCHANGED <<lock, users>>
  /\ UNCHANGED <<entries, clock>>

\* The server stops and starts.
Restart ==
  /\ mishaps < MaxMishaps /\ mishaps' = mishaps + 1
  /\ entries' = <<>>
  /\ lock' = [k \in Keys |-> NoLock]
  /\ users' = [k \in Keys |-> 0]
  /\ turn' = [r \in Requests |-> Ended(r)]
  /\ UNCHANGED clock

Tick ==
  /\ clock < MaxClock
  /\ clock' = clock + 1
  /\ UNCHANGED <<entries, lock, users, turn, mishaps>>

Next ==
  \/ \E r \in Requests :
       \/ \E k \in Chats : \E text \in TextsOf[k] : Send(r, k, text)
       \/ Retry(r) \/ Begin(r) \/ Prepare(r) \/ Save(r) \/ Resume(r)
       \/ Complete(r) \/ Publish(r) \/ Fail(r)
  \/ \E k \in Situations : BeginReact(k) \/ React(k)
  \/ Restart
  \/ Tick

Spec == Init /\ [][Next]_vars
-------------------------------------------------------------------------------
(* Properties *)

Slot == [quantity : Nat \union {NoQuantity}, asks : Nat \ {0}, at : Nat,
         request : Requests, by : SUBSET Requests]
Reply == [command : Commands \union {"None"}, resource : Resources \union {"None"},
          quantity : Nat \union {NoQuantity}, answered : BOOLEAN,
          slot : Slot \union {NoSlot}]
ASSUME ReplyAssumption == NoReply \notin Reply
Handlers == [step : Steps, key : Chats \union {NoText}, text : Text \union {NoText},
             lock : Requests \union {NoLock}, loaded : Slot \union {NoSlot},
             reply : Reply \union {NoReply}, prepared : BOOLEAN]
TypeOK ==
  /\ entries \in Seq([key : Keys, slot : Slot \union {NoSlot}, at : Nat])
  /\ Len(entries) <= MaxEntries
  /\ \A i, j \in DOMAIN entries : i # j => entries[i].key # entries[j].key
  /\ lock \in [Keys -> Requests \union {NoLock}]
  /\ users \in [Keys -> Nat]
  /\ turn \in [Requests -> Handlers]
  /\ clock \in Nat
  /\ mishaps \in Nat

\* One turn at a time works on a conversation, although the last user of a lock
\* throws it away and the next one makes a new one, and although a user may give
\* up while it waits.
OneTurnAtATime ==
  \A r, s \in Requests :
    turn[r].step = "thinking" /\ turn[s].step = "thinking" /\ turn[r].key = turn[s].key
      => r = s

\* A lock exists as long as someone uses it, and all who use or await the lock of
\* a conversation have the same one: none is left behind by a failure.
Users(k) == {r \in Requests : Registered(r) /\ turn[r].key = k}
LocksAreUsed ==
  \A k \in Keys :
    /\ users[k] = Cardinality(Users(k))
    /\ lock[k] = NoLock <=> Users(k) = {}
    /\ \A r \in Users(k) : turn[r].lock = lock[k]

\* The player's own words carry an order through a question: an answer names the
\* resource itself, and the quantity is the one said in the request that the
\* question was about, however often it was asked; a request that is no answer
\* takes nothing over from an older one.
OrderIsWhatWasSaid ==
  \A r \in Requests :
    LET h == turn[r]
        about == IF h.reply.answered THEN h.loaded.request ELSE r
    IN  h.prepared /\ h.step # "done"
          => /\ h.reply.command = "Gather"
                  => /\ h.reply.quantity = turn[about].text.quantity
                     /\ h.reply.answered \/ h.text.said # {}
                          => h.reply.resource \in h.text.said
             /\ h.reply.slot # NoSlot
                  => /\ h.reply.slot.request = about
                     /\ h.reply.slot.quantity = turn[about].text.quantity

\* The player is asked at most MAX_ASK_COUNT times about one request, in a line
\* of questions and answers, before the companion gives up.
AsksAtMost ==
  \A r \in Requests :
    turn[r].reply # NoReply /\ turn[r].reply.slot # NoSlot
      => Cardinality(turn[r].reply.slot.by) <= MaxAsk

\* A question is open until a turn that began with it is published, and never
\* again after that, even if a turn that overlapped with it is published later.
AnsweredQuestionIsGone ==
  \A r \in Requests :
    turn[r].step = "done" /\ turn[r].prepared /\ turn[r].loaded # NoSlot
      => \A i \in DOMAIN entries : entries[i].slot # turn[r].loaded
===============================================================================
